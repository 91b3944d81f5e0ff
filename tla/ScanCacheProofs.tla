--------------------------- MODULE ScanCacheProofs ---------------------------
(***************************************************************************)
(* What the caches of the scanner promise, for any number of engines,      *)
(* files, profiles, scans and rewrites: a scan that re-observes its files  *)
(* gets the text of the file it saw, either cache stays within its cap,    *)
(* and a file is new to one scan only.                                     *)
(*                                                                         *)
(* Guards only grow, and a guard names one content.  So a row is the text  *)
(* of its file, or it is filed under a guard the file has left for ever:   *)
(* a scan that trusted discovery may write the text of another content,    *)
(* but only under such a guard.  A file that entered the inventory was     *)
(* entered by one batch of one scan, the only one that may find it new.    *)
(***************************************************************************)
EXTENDS ScanCache, TLAPS

Sighting == [version : Int, guard : Int, content : Int]
Text == Int \X Profiles

CacheRow == [file : Names, version : Int, guard : Int, profile : Profiles, content : Text,
             bucket : Int, at : Int, state : {"whole", "damaged", "undecodable"}, day : Int]

Unread == {"class", "class-read", "class-write", "parse"}
Stages == Unread \cup {"parse-read", "parse-write", "done"}

Working ==
    [pc : {"inventory", "work"}, profile : Profiles, strict : BOOLEAN, seen : [Names -> Sighting],
     existed : SUBSET Names, next : Int, stage : [Names -> Stages], got : [Names -> Int],
     hits : [Tables -> SUBSET Names], clock : Int, late : BOOLEAN,
     used : [Names -> {<<>>} \cup {<<c>> : c \in Text}]]

Types ==
    /\ disk \in [Names -> Sighting]
    /\ inventory \in SUBSET Names
    /\ table \in [Tables -> SUBSET CacheRow]
    /\ scan \in [Engines -> {Idle} \cup Working]
    /\ news \in [Names -> Int]
    /\ days \in Int

(* A content is that of the file's guard, or the guard is gone for ever.    *)
Of(f, guard, content) ==
    guard < disk[f].guard \/ (guard = disk[f].guard /\ content = disk[f].content)

RowSound(r) == Of(r.file, r.guard, r.content[1]) /\ r.content[2] = r.profile
RowsInv == \A t \in Tables : \A r \in table[t] : RowSound(r)

(* What a scan saw, read and used.                                          *)
Current(y, f) == (y.strict /\ y.used[f] # <<>>) => y.used[f] = <<<<y.seen[f].content, y.profile>>>>
Faithful(y, f) ==
    /\ Of(f, y.seen[f].guard, y.seen[f].content)
    /\ y.stage[f] \in {"class-write", "parse-write"} => Of(f, y.seen[f].guard, y.got[f])
    /\ Current(y, f)
ScansInv == \A e \in Engines : scan[e] # Idle => \A f \in Names : Faithful(scan[e], f)

(* The files whose batch a scan has committed, and those it may find new.   *)
Prepared(y) == {Files[i] : i \in {j \in DOMAIN Files : j < y.next}}
Fresh(y, f) == y # Idle /\ f \in Prepared(y) /\ f \notin y.existed /\ y.stage[f] \in Unread

ReadyInv == \A e \in Engines : scan[e].pc = "work" => Names \subseteq Prepared(scan[e])
NewsInv ==
    \A f \in Names :
        /\ 0 <= news[f] /\ news[f] <= 1
        /\ 0 < news[f] => f \in inventory
        /\ \A e \in Engines : Fresh(scan[e], f) => f \in inventory /\ news[f] = 0
        /\ \A e, x \in Engines : Fresh(scan[e], f) /\ Fresh(scan[x], f) => e = x

CacheInv == Types /\ RowsInv /\ ScansInv /\ WithinCap /\ ReadyInv /\ NewsInv

-----------------------------------------------------------------------------
(* Lookups.                                                                  *)

LEMMA LookupMisses ==
    ASSUME NEW rows, NEW want, NEW f, NEW S, f \in S,
           ~Lookup(rows, want, f \in S).hit
    PROVE  Lookup(rows, want, f \in S).reason # "new_file"
<1>1. CASE Exact(rows, want) = {}
  <2>1. Reason(rows, want, f \in S) # "new_file"
    BY DEF Reason
  <2>2. QED
    BY <1>1, <2>1 DEF Lookup
<1>2. CASE Exact(rows, want) # {}
  BY <1>2 DEF Lookup
<1>3. QED
  BY <1>1, <1>2

LEMMA LookupFinds ==
    ASSUME NEW rows, NEW want, NEW existed, Lookup(rows, want, existed).hit
    PROVE  \E r \in Exact(rows, want) : Lookup(rows, want, existed).content = r.content
<1>1. Exact(rows, want) # {}
  BY DEF Lookup
<1>. DEFINE r == CHOOSE r \in Exact(rows, want) : TRUE
<1>2. r \in Exact(rows, want)
  BY <1>1
<1>. HIDE DEF r
<1>3. Lookup(rows, want, existed) = IF Whole(r) THEN [hit |-> TRUE, content |-> r.content]
                                    ELSE [hit |-> FALSE, reason |-> "entry_absent_or_evicted"]
  BY <1>1 DEF Lookup, r
<1>4. Lookup(rows, want, existed).content = r.content
  BY <1>3
<1>5. QED
  BY <1>2, <1>4

-----------------------------------------------------------------------------
(* The bytes of a table.                                                     *)

LEMMA EmptyTotal == Total({}) = 0
<1>1. {Key(r) : r \in {}} = {}
  OBVIOUS
<1>2. QED
  BY <1>1 DEF Total, MapThenSumSet, MapThenFoldSet

LEMMA SameKeys ==
    ASSUME NEW rows, NEW kept, {Key(r) : r \in rows} = {Key(r) : r \in kept}
    PROVE  Total(rows) = Total(kept)
BY DEF Total

LEMMA WrittenFits ==
    ASSUME NEW t, NEW rows, NEW r, Total(rows) <= Cap, NEW kept \in Written(t, rows, r)
    PROVE  Total(kept) <= Cap /\ kept \subseteq rows \cup {r}
<1>1. CASE Size[r.file] > Cap
  BY <1>1 DEF Written
<1>2. CASE ~(Size[r.file] > Cap)
  BY <1>2 DEF Written, Evict
<1>3. QED
  BY <1>1, <1>2

-----------------------------------------------------------------------------
(* A step of one scan.                                                       *)

Advances(e, y) == scan' = [scan EXCEPT ![e] = y]

(* What a step may make of a scan when files, inventory and news stay.       *)
Derived(y, z) ==
    /\ y \in {Idle} \cup Working
    /\ y # Idle => \A f \in Names : Faithful(y, f)
    /\ y.pc = "work" => Names \subseteq Prepared(y)
    /\ \A f \in Names : Fresh(y, f) => Fresh(z, f)

LEMMA Pcs ==
    ASSUME NEW y \in {Idle} \cup Working
    PROVE  (y = Idle <=> y.pc = "idle") /\ (y # Idle => y \in Working)
BY DEF Idle, Working

LEMMA Others ==
    ASSUME Types, NEW e \in Engines, NEW y \in {Idle} \cup Working, Advances(e, y)
    PROVE  /\ scan' \in [Engines -> {Idle} \cup Working]
           /\ scan'[e] = y
           /\ \A x \in Engines : x # e => scan'[x] = scan[x]
BY DEF Types, Advances

LEMMA ScanSteps ==
    ASSUME CacheInv, NEW e \in Engines, NEW y, Derived(y, scan[e]), Advances(e, y), UNCHANGED disk
    PROVE  /\ scan' \in [Engines -> {Idle} \cup Working] /\ ScansInv' /\ ReadyInv'
           /\ \A f \in Names, x \in Engines : Fresh(scan[x], f)' => Fresh(scan[x], f)
           /\ \A f \in Names : Fresh(scan[e], f)' => Fresh(y, f)
<1>1. /\ scan' \in [Engines -> {Idle} \cup Working]
      /\ scan'[e] = y
      /\ \A x \in Engines : x # e => scan'[x] = scan[x]
  BY Others DEF CacheInv, Derived
<1>2. ScansInv'
  BY <1>1 DEF CacheInv, ScansInv, Derived, Faithful, Of, Current
<1>3. ReadyInv'
  BY <1>1 DEF CacheInv, ReadyInv, Derived, Prepared
<1>4. \A f \in Names, x \in Engines : Fresh(scan'[x], f) => Fresh(scan[x], f)
  BY <1>1 DEF Derived
<1>5. \A f \in Names, x \in Engines : Fresh(scan[x], f)' <=> Fresh(scan'[x], f)
  BY DEF Fresh, Prepared
<1>6. QED
  BY <1>1, <1>2, <1>3, <1>4, <1>5

LEMMA ScanMoves ==
    ASSUME CacheInv, NEW e \in Engines, NEW y, Derived(y, scan[e]), Advances(e, y),
           UNCHANGED <<disk, inventory, news>>
    PROVE  scan' \in [Engines -> {Idle} \cup Working] /\ ScansInv' /\ ReadyInv' /\ NewsInv'
<1>1. /\ scan' \in [Engines -> {Idle} \cup Working] /\ ScansInv' /\ ReadyInv'
      /\ \A f \in Names, x \in Engines : Fresh(scan[x], f)' => Fresh(scan[x], f)
  BY ScanSteps
<1>2. NewsInv'
  BY <1>1 DEF CacheInv, NewsInv
<1>3. QED
  BY <1>1, <1>2

(* A step that keeps what was seen and prepared.                             *)
Kept(y, z) ==
    /\ y \in Working /\ z \in Working
    /\ y.pc = z.pc /\ y.profile = z.profile /\ y.strict = z.strict
    /\ y.seen = z.seen /\ y.existed = z.existed /\ y.next = z.next

LEMMA KeptDerived ==
    ASSUME CacheInv, NEW e \in Engines, NEW y, Kept(y, scan[e]),
           \A f \in Names : /\ y.stage[f] \in Unread => scan[e].stage[f] \in Unread
                            /\ y.stage[f] \in {"class-write", "parse-write"} =>
                                   Of(f, y.seen[f].guard, y.got[f])
                            /\ Current(y, f)
    PROVE  Derived(y, scan[e])
<1>1. y # Idle /\ scan[e] # Idle
  BY Pcs DEF Kept, Working, Idle
<1>2. \A f \in Names : Faithful(y, f)
  BY <1>1 DEF CacheInv, ScansInv, Faithful, Kept
<1>3. y.pc = "work" => Names \subseteq Prepared(y)
  BY DEF CacheInv, ReadyInv, Prepared, Kept
<1>4. \A f \in Names : Fresh(y, f) => Fresh(scan[e], f)
  BY <1>1 DEF Fresh, Prepared, Kept
<1>5. QED
  BY <1>2, <1>3, <1>4 DEF Derived, Kept

LEMMA IdleDerived ==
    ASSUME NEW z
    PROVE  Derived(Idle, z)
BY DEF Derived, Idle, Fresh

-----------------------------------------------------------------------------
(* The actions.                                                              *)

(* What holds of a step that only moves one scan, or none.                   *)
LEMMA Stays ==
    ASSUME CacheInv, scan' \in [Engines -> {Idle} \cup Working], ScansInv', ReadyInv', NewsInv',
           UNCHANGED <<disk, inventory, table, news>>, days' \in Int
    PROVE  CacheInv'
<1>1. Types'
  BY DEF CacheInv, Types
<1>2. RowsInv'
  BY DEF CacheInv, RowsInv, RowSound, Of
<1>4. WithinCap'
  BY DEF CacheInv, WithinCap
<1>5. QED
  BY <1>1, <1>2, <1>4 DEF CacheInv

LEMMA BeginNext ==
    ASSUME CacheInv, NEW e \in Engines, NEW p \in Profiles, NEW s \in Policies,
           NEW d \in 0 .. MaxDays, Begin(e, p, s, d)
    PROVE  CacheInv'
<1>. DEFINE y == [pc |-> "inventory", profile |-> p, strict |-> s, seen |-> disk,
                   existed |-> {}, next |-> 1,
                   stage |-> [f \in Names |-> IF f \in Pdfs THEN "class" ELSE "parse"],
                   got |-> [f \in Names |-> -1], hits |-> [t \in Tables |-> {}],
                   clock |-> 0, late |-> FALSE, used |-> [f \in Names |-> <<>>]]
<1>1. /\ y \in Working /\ y.pc = "inventory" /\ y.seen = disk /\ y.next = 1
      /\ y.used = [f \in Names |-> <<>>]
      /\ y.stage = [f \in Names |-> IF f \in Pdfs THEN "class" ELSE "parse"]
  <2>1. s \in BOOLEAN
    BY CacheAssumption
  <2>2. disk \in [Names -> Sighting]
    BY DEF CacheInv, Types
  <2>3. [f \in Names |-> IF f \in Pdfs THEN "class" ELSE "parse"] \in [Names -> Stages]
    BY DEF Stages, Unread
  <2>4. /\ [f \in Names |-> <<>>] \in [Names -> {<<>>} \cup {<<c>> : c \in Text}]
        /\ [f \in Names |-> -1] \in [Names -> Int]
        /\ [t \in Tables |-> {}] \in [Tables -> SUBSET Names]
    OBVIOUS
  <2>6. QED
    BY <2>1, <2>2, <2>3, <2>4 DEF Working
<1>2. Advances(e, y) /\ UNCHANGED <<disk, inventory, table, news>>
  BY DEF Begin, Advances
<1>. HIDE DEF y
<1>3. \A f \in Names : Faithful(y, f)
  <2>. TAKE f \in Names
  <2>1. y.used[f] = <<>> /\ y.stage[f] \in {"class", "parse"} /\ y.seen[f] = disk[f]
    BY <1>1
  <2>2. Of(f, y.seen[f].guard, y.seen[f].content)
    BY <2>1 DEF Of
  <2>3. QED
    BY <2>1, <2>2 DEF Faithful, Current
<1>4. Prepared(y) = {}
  BY <1>1, CacheAssumption DEF Prepared
<1>5. Derived(y, scan[e])
  BY <1>1, <1>3, <1>4 DEF Derived, Fresh
<1>6. days' = d /\ d \in Int
  BY CacheAssumption DEF Begin
<1>7. scan' \in [Engines -> {Idle} \cup Working] /\ ScansInv' /\ ReadyInv' /\ NewsInv'
  BY <1>2, <1>5, ScanMoves
<1>8. QED
  BY <1>2, <1>6, <1>7, Stays

LEMMA ExpireNext ==
    ASSUME CacheInv, NEW e \in Engines, Expire(e)
    PROVE  CacheInv'
<1>. DEFINE y == [scan[e] EXCEPT !.late = TRUE]
<1>1. scan[e] \in Working
  BY Pcs DEF CacheInv, Types, Expire
<1>2. /\ Kept(y, scan[e]) /\ y.stage = scan[e].stage /\ y.got = scan[e].got
      /\ y.used = scan[e].used
  BY <1>1 DEF Working, Kept
<1>3. Advances(e, y) /\ UNCHANGED <<disk, inventory, table, news, days>>
  BY DEF Expire, Advances
<1>. HIDE DEF y
<1>4. \A f \in Names : Faithful(scan[e], f)
  BY <1>1, Pcs DEF CacheInv, ScansInv, Expire, Idle
<1>5. Derived(y, scan[e])
  BY <1>2, <1>4, KeptDerived DEF Faithful, Current, Kept
<1>6. QED
  BY <1>3, <1>5, ScanMoves, Stays DEF CacheInv, Types

LEMMA PrepareNext ==
    ASSUME CacheInv, NEW e \in Engines, PrepareBatch(e)
    PROVE  CacheInv'
<1>. DEFINE z == scan[e]
            next == z.next + BatchSize
            batch == {Files[i] : i \in {j \in DOMAIN Files : z.next <= j /\ j < next}}
            y == [z EXCEPT !.existed = @ \cup (inventory \cap batch), !.next = next,
                           !.pc = IF next > Len(Files) THEN "work" ELSE "inventory"]
<1>1. z \in Working
  BY Pcs DEF CacheInv, Types, PrepareBatch, Idle
<1>2. UNCHANGED <<disk, table, news, days>> /\ days \in Int
  BY DEF PrepareBatch, bounds, CacheInv, Types
<1>3. CASE scan' = [scan EXCEPT ![e] = Idle] /\ UNCHANGED inventory
  <2>1. Advances(e, Idle)
    BY <1>3 DEF Advances
  <2>2. QED
    BY <1>2, <1>3, <2>1, IdleDerived, ScanMoves, Stays
<1>4. CASE /\ inventory' = inventory \cup batch
           /\ Advances(e, y)
  <2>0. inventory \subseteq Names /\ batch \subseteq Names /\ next \in Int
    BY <1>1, CacheAssumption DEF CacheInv, Types, Names, Range, Working
  <2>1. /\ y \in Working /\ y.seen = z.seen /\ y.stage = z.stage /\ y.got = z.got
        /\ y.used = z.used /\ y.strict = z.strict /\ y.profile = z.profile
        /\ y.existed = z.existed \cup (inventory \cap batch)
        /\ y.next = next
        /\ y.pc = "work" => next > Len(Files)
    BY <1>1, <2>0 DEF Working
  <2>2. Prepared(y) = Prepared(z) \cup batch
    <3>1. Prepared(y) = {Files[i] : i \in {j \in DOMAIN Files : j < next}}
      BY <2>1 DEF Prepared
    <3>2. z.next \in Int /\ z.next < next /\ DOMAIN Files \subseteq Int
      BY <1>1, CacheAssumption DEF Working
    <3>3. {j \in DOMAIN Files : j < next} = {j \in DOMAIN Files : j < z.next}
              \cup {j \in DOMAIN Files : z.next <= j /\ j < next}
      BY <3>2, <2>0
    <3>4. QED
      BY <3>1, <3>3 DEF Prepared
  <2>3. y.pc = "work" => Names \subseteq Prepared(y)
    BY <2>1, <2>0, CacheAssumption DEF Prepared, Names, Range
  <2>4. y # Idle /\ z # Idle
    BY <2>1, <1>1, Pcs DEF Working
  <2>. HIDE DEF y, batch, next
  <2>5. \A f \in Names : Faithful(y, f)
    BY <2>1, <2>4 DEF CacheInv, ScansInv, Faithful, Current
  <2>6. /\ scan' \in [Engines -> {Idle} \cup Working]
        /\ scan'[e] = y
        /\ \A x \in Engines : x # e => scan'[x] = scan[x]
    BY <1>4, <2>1, Others DEF CacheInv
  <2>7. ScansInv'
    BY <1>2, <2>5, <2>6 DEF CacheInv, ScansInv, Faithful, Of, Current
  <2>8. ReadyInv'
    BY <2>3, <2>6 DEF CacheInv, ReadyInv, Prepared
  <2>9. \A f \in Names : Fresh(y, f) => Fresh(z, f) \/ (f \in batch /\ f \notin inventory)
    BY <2>1, <2>2, <2>4 DEF Fresh
  <2>10. \A f \in Names, x \in Engines : Fresh(scan[x], f)' <=> Fresh(scan'[x], f)
    BY DEF Fresh, Prepared
  <2>11. \A f \in Names, x \in Engines : Fresh(scan[x], f)' =>
            Fresh(scan[x], f) \/ (x = e /\ f \in batch /\ f \notin inventory)
    BY <2>6, <2>9, <2>10
  <2>12. news \in [Names -> Int]
    BY DEF CacheInv, Types
  <2>13. NewsInv'
    BY <1>2, <1>4, <2>11, <2>12 DEF CacheInv, NewsInv
  <2>14. Types'
    BY <1>2, <1>4, <2>0, <2>6 DEF CacheInv, Types
  <2>15. RowsInv' /\ WithinCap'
    BY <1>2 DEF CacheInv, RowsInv, RowSound, Of, WithinCap
  <2>16. QED
    BY <2>7, <2>8, <2>13, <2>14, <2>15 DEF CacheInv
<1>5. QED
  BY <1>3, <1>4, Zenon DEF PrepareBatch, Upserted, Advances

LEMMA Works ==
    ASSUME CacheInv, NEW e \in Engines, scan[e].pc = "work"
    PROVE  /\ scan[e] \in Working /\ scan[e] # Idle
           /\ \A f \in Names : Faithful(scan[e], f) /\ f \in Prepared(scan[e])
<1>1. scan[e] \in Working /\ scan[e] # Idle
  BY Pcs DEF CacheInv, Types, Idle
<1>2. QED
  BY <1>1 DEF CacheInv, ScansInv, ReadyInv

(* A file of a working scan goes to a stage that reads or writes nothing.    *)
Staged(z, f, s) == [z EXCEPT !.stage = [z.stage EXCEPT ![f] = s]]

LEMMA StagedDerived ==
    ASSUME CacheInv, NEW e \in Engines, scan[e].pc = "work", NEW f \in Names,
           NEW s \in {"class-read", "parse", "parse-read", "done"},
           s \in Unread => scan[e].stage[f] \in Unread
    PROVE  Derived(Staged(scan[e], f, s), scan[e]) /\ Staged(scan[e], f, s).stage[f] = s
<1>. DEFINE z == scan[e]
            y == Staged(z, f, s)
<1>1. z \in Working /\ \A g \in Names : Faithful(z, g)
  BY Works
<1>2. /\ y \in Working /\ y.pc = z.pc /\ y.profile = z.profile /\ y.strict = z.strict
      /\ y.seen = z.seen /\ y.existed = z.existed /\ y.next = z.next
      /\ y.got = z.got /\ y.used = z.used /\ y.stage = [z.stage EXCEPT ![f] = s]
  <2>1. [z.stage EXCEPT ![f] = s] \in [Names -> Stages]
    BY <1>1 DEF Working, Stages, Unread
  <2>2. QED
    BY <1>1, <2>1 DEF Working, Staged
<1>3. \A g \in Names : y.stage[g] = IF g = f THEN s ELSE z.stage[g]
  BY <1>1, <1>2 DEF Working
<1>. HIDE DEF y
<1>4. Kept(y, z)
  BY <1>1, <1>2 DEF Kept
<1>5. \A g \in Names : /\ y.stage[g] \in Unread => z.stage[g] \in Unread
                       /\ y.stage[g] \in {"class-write", "parse-write"} =>
                              Of(g, y.seen[g].guard, y.got[g])
                       /\ Current(y, g)
  BY <1>1, <1>2, <1>3 DEF Faithful, Current
<1>6. Derived(y, z)
  BY <1>4, <1>5, KeptDerived
<1>7. QED
  BY <1>3, <1>6 DEF y

(* A hit; its text is used if it is that of a parse.                        *)
Hit(z, f, t, u) ==
    [z EXCEPT !.stage = [z.stage EXCEPT ![f] = After(t)],
              !.hits = [z.hits EXCEPT ![t] = z.hits[t] \cup {f}],
              !.used = [z.used EXCEPT ![f] = u]]
Use(z, f, t, found) == IF t = "parse" THEN <<found.content>> ELSE z.used[f]

(* A text that is used: the row was that of the guard, and the guard stands. *)
LEMMA HitDerived ==
    ASSUME CacheInv, NEW e \in Engines, scan[e].pc = "work", NEW f \in Names, NEW t \in Tables,
           scan[e].stage[f] = t, Verified(e, f),
           Lookup(table[t], Want(e, f), f \in scan[e].existed).hit
    PROVE  Derived(Hit(scan[e], f, t, Use(scan[e], f, t, Lookup(table[t], Want(e, f), f \in scan[e].existed))),
                   scan[e])
<1>. DEFINE z == scan[e]
            c == Lookup(table[t], Want(e, f), f \in scan[e].existed).content
            u == Use(z, f, t, Lookup(table[t], Want(e, f), f \in scan[e].existed))
            y == Hit(z, f, t, u)
<1>1. z \in Working /\ \A g \in Names : Faithful(z, g)
  BY Works
<1>2. PICK r \in Exact(table[t], Want(e, f)) : c = r.content
  BY LookupFinds
<1>3. r \in CacheRow /\ RowSound(r)
  BY <1>2 DEF CacheInv, Types, RowsInv, Exact
<1>4. r.file = f /\ r.guard = z.seen[f].guard /\ r.profile = z.profile
  BY <1>2 DEF Exact, Key, Want
<1>5. c \in Text /\ c = <<c[1], c[2]>> /\ c[2] = z.profile
  BY <1>2, <1>3, <1>4 DEF CacheRow, Text, RowSound
<1>6. z.strict => c[1] = z.seen[f].content
  <2>1. SUFFICES ASSUME z.strict PROVE c[1] = z.seen[f].content
    OBVIOUS
  <2>2. disk[f].guard = z.seen[f].guard
    BY <2>1 DEF Verified
  <2>3. disk[f].guard \in Int
    BY DEF CacheInv, Types, Sighting
  <2>4. c[1] = disk[f].content
    BY <1>2, <1>3, <1>4, <2>2, <2>3 DEF RowSound, Of
  <2>5. z.seen[f].content = disk[f].content
    BY <1>1, <2>2, <2>3 DEF Faithful, Of
  <2>6. QED
    BY <2>4, <2>5
<1>7. /\ u \in {<<>>} \cup {<<x>> : x \in Text}
      /\ z.strict /\ u # <<>> => u = <<<<z.seen[f].content, z.profile>>>>
  <2>1. CASE t = "parse"
    <3>1. u = <<c>>
      BY <2>1 DEF Use
    <3>2. QED
      BY <3>1, <1>5, <1>6
  <2>2. CASE t # "parse"
    <3>1. u = z.used[f]
      BY <2>2 DEF Use
    <3>2. QED
      BY <3>1, <1>1 DEF Working, Faithful, Current
  <2>3. QED
    BY <2>1, <2>2
<1>. HIDE DEF u
<1>9. After(t) \in {"parse", "done"} /\ (After(t) \in Unread => z.stage[f] \in Unread)
  BY DEF After, Tables, Unread
<1>10. /\ [z.stage EXCEPT ![f] = After(t)] \in [Names -> Stages]
       /\ [z.hits EXCEPT ![t] = z.hits[t] \cup {f}] \in [Tables -> SUBSET Names]
       /\ [z.used EXCEPT ![f] = u] \in [Names -> {<<>>} \cup {<<x>> : x \in Text}]
  <2>1. [z.stage EXCEPT ![f] = After(t)] \in [Names -> Stages]
    BY <1>1, <1>9 DEF Working, Stages, Unread
  <2>2. [z.hits EXCEPT ![t] = z.hits[t] \cup {f}] \in [Tables -> SUBSET Names]
    BY <1>1 DEF Working
  <2>3. [z.used EXCEPT ![f] = u] \in [Names -> {<<>>} \cup {<<x>> : x \in Text}]
    BY <1>1, <1>7 DEF Working
  <2>4. QED
    BY <2>1, <2>2, <2>3
<1>11. /\ y \in Working /\ y.pc = z.pc /\ y.profile = z.profile /\ y.strict = z.strict
       /\ y.seen = z.seen /\ y.existed = z.existed /\ y.next = z.next /\ y.got = z.got
       /\ y.stage = [z.stage EXCEPT ![f] = After(t)] /\ y.used = [z.used EXCEPT ![f] = u]
  BY <1>1, <1>10 DEF Working, Hit
<1>. HIDE DEF y
<1>12. \A g \in Names : /\ y.stage[g] = IF g = f THEN After(t) ELSE z.stage[g]
                        /\ y.used[g] = IF g = f THEN u ELSE z.used[g]
  <2>0. /\ y.stage = [z.stage EXCEPT ![f] = After(t)] /\ y.used = [z.used EXCEPT ![f] = u]
        /\ DOMAIN z.stage = Names /\ DOMAIN z.used = Names
    BY <1>1, <1>11 DEF Working
  <2>1. \A g \in Names : y.stage[g] = IF g = f THEN After(t) ELSE z.stage[g]
    BY <2>0, Zenon
  <2>3. \A g \in Names : y.used[g] = IF g = f THEN u ELSE z.used[g]
    BY <2>0, Zenon
  <2>4. QED
    BY <2>1, <2>3
<1>13. Kept(y, z)
  BY <1>1, <1>11 DEF Kept
<1>14. \A g \in Names : /\ y.stage[g] \in Unread => z.stage[g] \in Unread
                        /\ y.stage[g] \in {"class-write", "parse-write"} =>
                               Of(g, y.seen[g].guard, y.got[g])
  BY <1>1, <1>9, <1>11, <1>12 DEF Faithful
<1>15. \A g \in Names : Current(y, g)
  BY <1>1, <1>7, <1>11, <1>12 DEF Faithful, Current
<1>16. Derived(y, z)
  BY <1>13, <1>14, <1>15, KeptDerived
<1>17. QED
  BY <1>16 DEF y, u

LEMMA ConsultNext ==
    ASSUME CacheInv, NEW e \in Engines, NEW f \in Names, NEW t \in Tables, Consult(e, f, t)
    PROVE  CacheInv'
<1>. DEFINE z == scan[e]
            want == Want(e, f)
            found == Lookup(table[t], want, f \in z.existed)
<1>1. z.pc = "work" /\ z.stage[f] = t
  BY DEF Consult, Turn
<1>2. UNCHANGED <<disk, inventory, table, days>> /\ days \in Int
  BY DEF Consult, bounds, CacheInv, Types
<1>3. CASE scan' = [scan EXCEPT ![e] = Idle] /\ UNCHANGED news
  <2>1. Advances(e, Idle)
    BY <1>3 DEF Advances
  <2>2. QED
    BY <1>2, <1>3, <2>1, IdleDerived, ScanMoves, Stays
<1>4. CASE scan' = [scan EXCEPT ![e].stage[f] = "done"] /\ UNCHANGED news
  <2>1. Advances(e, Staged(z, f, "done"))
    BY <1>4 DEF Advances, Staged
  <2>2. Derived(Staged(z, f, "done"), z)
    BY <1>1, StagedDerived DEF Unread
  <2>3. QED
    BY <1>2, <1>4, <2>1, <2>2, ScanMoves, Stays
<1>5. CASE /\ found.hit /\ Verified(e, f) /\ UNCHANGED news
           /\ scan' = [scan EXCEPT ![e].stage[f] = After(t), ![e].hits[t] = @ \cup {f},
                           ![e].used[f] = IF t = "parse" THEN <<found.content>> ELSE @]
  <2>. DEFINE y == Hit(z, f, t, Use(z, f, t, found))
  <2>1. Advances(e, y)
    <3>1. z \in Working
      BY <1>1, Works
    <3>2. QED
      BY <1>5, <3>1 DEF Advances, Working, CacheInv, Types, Hit, Use
  <2>2. Derived(y, z)
    BY <1>1, <1>5, HitDerived
  <2>3. QED
    BY <1>2, <1>5, <2>1, <2>2, ScanMoves, Stays
<1>6. CASE /\ ~found.hit
           /\ scan' = [scan EXCEPT ![e].stage[f] = Reading(t)]
           /\ news' = IF found.reason = "new_file" /\ t = "parse"
                      THEN [news EXCEPT ![f] = @ + 1] ELSE news
  <2>. DEFINE y == Staged(z, f, Reading(t))
  <2>1. Advances(e, y)
    BY <1>6 DEF Advances, Staged
  <2>2. Reading(t) \in {"class-read", "parse-read"} /\ (Reading(t) \in Unread => z.stage[f] \in Unread)
    BY <1>1 DEF Reading, Tables, Unread
  <2>3. Derived(y, z) /\ y.stage[f] = Reading(t)
    BY <1>1, <2>2, StagedDerived
  <2>. HIDE DEF y
  <2>4. /\ scan' \in [Engines -> {Idle} \cup Working] /\ ScansInv' /\ ReadyInv'
        /\ \A g \in Names, x \in Engines : Fresh(scan[x], g)' => Fresh(scan[x], g)
        /\ \A g \in Names : Fresh(scan[e], g)' => Fresh(y, g)
    BY <1>2, <2>1, <2>3, ScanSteps
  <2>5. CASE found.reason = "new_file" /\ t = "parse"
    <3>1. f \notin z.existed
      BY <1>6, <2>5, LookupMisses
    <3>2. Fresh(z, f)
      BY <1>1, <2>5, <3>1, Works DEF Fresh, Unread
    <3>3. ~Fresh(y, f)
      BY <2>3, <2>5 DEF Fresh, Reading, Unread
    <3>4. news \in [Names -> Int]
      BY DEF CacheInv, Types
    <3>5. news' = [news EXCEPT ![f] = news[f] + 1]
      BY <1>6, <2>5
    <3>6. \A g \in Names : news'[g] = IF g = f THEN 1 ELSE news[g]
      BY <3>2, <3>4, <3>5 DEF CacheInv, NewsInv
    <3>7. \A x \in Engines : ~Fresh(scan[x], f)'
      BY <2>4, <3>2, <3>3 DEF CacheInv, NewsInv
    <3>8. f \in inventory
      BY <3>2 DEF CacheInv, NewsInv
    <3>9. NewsInv'
      BY <1>2, <2>4, <3>6, <3>7, <3>8 DEF CacheInv, NewsInv
    <3>10. news' \in [Names -> Int]
      BY <3>4, <3>5
    <3>11. Types' /\ RowsInv' /\ WithinCap'
      BY <1>2, <2>4, <3>10 DEF CacheInv, Types, RowsInv, RowSound, Of, WithinCap
    <3>12. QED
      BY <2>4, <3>9, <3>11 DEF CacheInv
  <2>6. CASE ~(found.reason = "new_file" /\ t = "parse")
    <3>1. news' = news
      BY <1>6, <2>6
    <3>2. NewsInv'
      BY <1>2, <2>4, <3>1 DEF CacheInv, NewsInv
    <3>3. QED
      BY <1>2, <2>4, <3>1, <3>2, Stays
  <2>7. QED
    BY <2>5, <2>6
<1>7. QED
  BY <1>3, <1>4, <1>5, <1>6, Zenon DEF Consult

(* What a worker read, and where the file goes.                             *)
Took(z, f, c, s, k) ==
    [z EXCEPT !.got = [z.got EXCEPT ![f] = c], !.stage = [z.stage EXCEPT ![f] = s], !.clock = k]

LEMMA TookDerived ==
    ASSUME CacheInv, NEW e \in Engines, scan[e].pc = "work", NEW f \in Names, NEW c \in Int,
           NEW s \in Stages, NEW k \in Int,
           s \in Unread => scan[e].stage[f] \in Unread,
           s \in {"class-write", "parse-write"} => Of(f, scan[e].seen[f].guard, c)
    PROVE  Derived(Took(scan[e], f, c, s, k), scan[e])
<1>. DEFINE z == scan[e]
            y == Took(z, f, c, s, k)
<1>1. z \in Working /\ \A g \in Names : Faithful(z, g)
  BY Works
<1>2. /\ y \in Working /\ y.pc = z.pc /\ y.profile = z.profile /\ y.strict = z.strict
      /\ y.seen = z.seen /\ y.existed = z.existed /\ y.next = z.next /\ y.used = z.used
      /\ y.got = [z.got EXCEPT ![f] = c] /\ y.stage = [z.stage EXCEPT ![f] = s]
  <2>1. [z.got EXCEPT ![f] = c] \in [Names -> Int] /\ [z.stage EXCEPT ![f] = s] \in [Names -> Stages]
    BY <1>1 DEF Working
  <2>2. QED
    BY <1>1, <2>1 DEF Working, Took
<1>. HIDE DEF y
<1>3. \A g \in Names : /\ y.stage[g] = IF g = f THEN s ELSE z.stage[g]
                       /\ y.got[g] = IF g = f THEN c ELSE z.got[g]
  BY <1>1, <1>2 DEF Working
<1>4. Kept(y, z)
  BY <1>1, <1>2 DEF Kept
<1>5. \A g \in Names : /\ y.stage[g] \in Unread => z.stage[g] \in Unread
                       /\ y.stage[g] \in {"class-write", "parse-write"} =>
                              Of(g, y.seen[g].guard, y.got[g])
                       /\ Current(y, g)
  BY <1>1, <1>2, <1>3 DEF Faithful, Current
<1>6. Derived(y, z)
  BY <1>4, <1>5, KeptDerived
<1>7. QED
  BY <1>6 DEF y

LEMMA ReadNext ==
    ASSUME CacheInv, NEW e \in Engines, NEW f \in Names, Read(e, f)
    PROVE  CacheInv'
<1>. DEFINE z == scan[e]
            c == IF Verified(e, f) THEN disk[f].content ELSE z.got[f]
            s == IF ~Verified(e, f) THEN "done"
                 ELSE IF z.stage[f] = "parse-read" THEN "parse-write" ELSE "class-write"
<1>1. z.pc = "work" /\ z.stage[f] \in {"parse-read", "class-read"} /\ z \in Working
  BY Works DEF Read, Turn
<1>2. UNCHANGED <<disk, inventory, table, news, days>> /\ days \in Int
  BY DEF Read, bounds, CacheInv, Types
<1>3. Advances(e, Took(z, f, c, s, z.clock))
  <2>1. scan' = [scan EXCEPT ![e] = [z EXCEPT !.got = [z.got EXCEPT ![f] = c],
                                             !.stage = [z.stage EXCEPT ![f] = s]]]
    BY Zenon DEF Read
  <2>. HIDE DEF c, s
  <2>2. QED
    BY <1>1, <2>1 DEF Advances, Took, Working
<1>4. c \in Int /\ s \in Stages /\ (s \in Unread => z.stage[f] \in Unread)
  BY <1>1 DEF CacheInv, Types, Sighting, Working, Stages, Unread
<1>5. s \in {"class-write", "parse-write"} => Of(f, z.seen[f].guard, c)
  <2>1. SUFFICES ASSUME s \in {"class-write", "parse-write"} PROVE Of(f, z.seen[f].guard, c)
    OBVIOUS
  <2>2. c = disk[f].content
    BY <2>1
  <2>3. Of(f, z.seen[f].guard, z.seen[f].content)
    BY <1>1, Works DEF Faithful
  <2>4. QED
    BY <2>2, <2>3 DEF Of
<1>6. z.clock \in Int
  BY <1>1 DEF Working
<1>. HIDE DEF c, s
<1>7. Derived(Took(z, f, c, s, z.clock), z)
  BY <1>1, <1>4, <1>5, <1>6, TookDerived
<1>8. QED
  BY <1>2, <1>3, <1>7, ScanMoves, Stays

(* A step that moves one scan and changes a table.                          *)
LEMMA TableChanges ==
    ASSUME CacheInv, scan' \in [Engines -> {Idle} \cup Working], ScansInv', ReadyInv', NewsInv',
           UNCHANGED <<disk, inventory, news, days>>,
           table' \in [Tables -> SUBSET CacheRow],
           \A t \in Tables : Total(table'[t]) <= Cap /\ \A r \in table'[t] : RowSound(r)
    PROVE  CacheInv'
<1>1. Types'
  BY DEF CacheInv, Types
<1>2. RowsInv'
  BY DEF RowsInv, RowSound, Of
<1>3. WithinCap'
  BY DEF WithinCap
<1>4. QED
  BY <1>1, <1>2, <1>3 DEF CacheInv

LEMMA RowOfSound ==
    ASSUME CacheInv, NEW e \in Engines, scan[e].pc = "work", NEW f \in Names,
           scan[e].stage[f] \in {"class-write", "parse-write"}
    PROVE  RowOf(e, f) \in CacheRow /\ RowSound(RowOf(e, f))
<1>. DEFINE z == scan[e]
            r == RowOf(e, f)
<1>1. z \in Working /\ Of(f, z.seen[f].guard, z.got[f])
  BY Works DEF Faithful
<1>2. Bucket(z.clock) \in Int
  BY <1>1, CacheAssumption DEF Working, Bucket
<1>3. r = [file |-> f, version |-> z.seen[f].version, guard |-> z.seen[f].guard,
           profile |-> z.profile, content |-> <<z.got[f], z.profile>>,
           bucket |-> Bucket(z.clock), at |-> z.clock, state |-> "whole", day |-> days]
  BY Zenon DEF RowOf
<1>4. /\ z.seen[f].version \in Int /\ z.seen[f].guard \in Int /\ z.profile \in Profiles
      /\ <<z.got[f], z.profile>> \in Text /\ z.clock \in Int /\ days \in Int
  BY <1>1 DEF Working, Sighting, Text, CacheInv, Types
<1>. HIDE DEF r
<1>5. r \in CacheRow
  BY <1>2, <1>3, <1>4 DEF CacheRow
<1>6. r.file = f /\ r.guard = z.seen[f].guard /\ r.content[1] = z.got[f] /\ r.content[2] = r.profile
  BY <1>3
<1>7. RowSound(r)
  BY <1>1, <1>6 DEF RowSound
<1>8. QED
  BY <1>5, <1>7 DEF r

LEMMA SettleNext ==
    ASSUME CacheInv, NEW e \in Engines, NEW f \in Names, NEW t \in Tables, Settle(e, f, t)
    PROVE  CacheInv'
<1>. DEFINE z == scan[e]
<1>1. z.pc = "work" /\ z \in Working /\ z.stage[f] = Writing(t)
  BY Works DEF Settle, Turn
<1>2. UNCHANGED <<disk, inventory, news, days>> /\ days \in Int
  BY DEF Settle, bounds, CacheInv, Types
<1>3. /\ After(t) \in {"parse", "done"}
      /\ After(t) \in Unread => z.stage[f] \in Unread
      /\ z.stage[f] \in {"class-write", "parse-write"}
  BY <1>1 DEF After, Writing, Tables, Unread
<1>4. z.clock \in Int /\ -1 \in Int
  BY <1>1 DEF Working
<1>5. CASE /\ \E rows \in Written(t, table[t], RowOf(e, f)) : table' = [table EXCEPT ![t] = rows]
           /\ scan' = [scan EXCEPT ![e].stage[f] = After(t), ![e].got[f] = -1, ![e].clock = @ + 1]
  <2>1. Advances(e, Took(z, f, -1, After(t), z.clock + 1))
    BY <1>1, <1>5 DEF Advances, Took, Working, CacheInv, Types
  <2>2. Derived(Took(z, f, -1, After(t), z.clock + 1), z)
    BY <1>1, <1>3, <1>4, TookDerived DEF Stages, Unread
  <2>3. scan' \in [Engines -> {Idle} \cup Working] /\ ScansInv' /\ ReadyInv' /\ NewsInv'
    BY <1>2, <2>1, <2>2, ScanMoves
  <2>4. PICK rows \in Written(t, table[t], RowOf(e, f)) : table' = [table EXCEPT ![t] = rows]
    BY <1>5
  <2>5. Total(rows) <= Cap /\ rows \subseteq table[t] \cup {RowOf(e, f)}
    BY WrittenFits DEF CacheInv, WithinCap
  <2>6. RowOf(e, f) \in CacheRow /\ RowSound(RowOf(e, f))
    BY <1>1, <1>3, RowOfSound
  <2>7. table \in [Tables -> SUBSET CacheRow]
    BY DEF CacheInv, Types
  <2>8. table' \in [Tables -> SUBSET CacheRow]
    BY <2>4, <2>5, <2>6, <2>7
  <2>9. \A u \in Tables : table'[u] = IF u = t THEN rows ELSE table[u]
    BY <2>4, <2>7
  <2>10. \A u \in Tables : Total(table'[u]) <= Cap
    BY <2>5, <2>9 DEF CacheInv, WithinCap
  <2>11. \A u \in Tables : \A r \in table'[u] : RowSound(r)
    BY <2>5, <2>6, <2>9 DEF CacheInv, RowsInv
  <2>12. QED
    BY <1>2, <2>3, <2>8, <2>10, <2>11, TableChanges
<1>6. CASE /\ scan' = [scan EXCEPT ![e].got[f] = -1,
                        ![e].stage[f] = IF Verified(e, f) THEN After(t) ELSE "done"]
           /\ UNCHANGED table
  <2>. DEFINE s == IF Verified(e, f) THEN After(t) ELSE "done"
  <2>1. s \in {"parse", "done"} /\ (s \in Unread => z.stage[f] \in Unread)
    BY <1>3 DEF Unread
  <2>2. scan' = [scan EXCEPT ![e] = [z EXCEPT !.got = [z.got EXCEPT ![f] = -1],
                                             !.stage = [z.stage EXCEPT ![f] = s]]]
    BY <1>6, Zenon
  <2>. HIDE DEF s
  <2>3. Advances(e, Took(z, f, -1, s, z.clock))
    BY <1>1, <2>2 DEF Advances, Took, Working
  <2>4. Derived(Took(z, f, -1, s, z.clock), z)
    BY <1>1, <1>4, <2>1, TookDerived DEF Stages, Unread
  <2>5. QED
    BY <1>2, <1>6, <2>3, <2>4, ScanMoves, Stays
<1>7. QED
  BY <1>5, <1>6, Zenon DEF Settle

LEMMA TouchNext ==
    ASSUME CacheInv, NEW e \in Engines, Touch(e)
    PROVE  CacheInv'
<1>. DEFINE z == scan[e]
            b == Bucket(z.clock)
            new == [t \in Tables |-> Touched(table[t], z.hits[t], b)]
<1>1. z.pc = "work" /\ z \in Working
  BY Works DEF Touch
<1>2. UNCHANGED <<disk, inventory, news, days>> /\ days \in Int
  BY DEF Touch, bounds, CacheInv, Types
<1>3. Advances(e, Idle)
  BY DEF Touch, Advances
<1>4. scan' \in [Engines -> {Idle} \cup Working] /\ ScansInv' /\ ReadyInv' /\ NewsInv'
  BY <1>2, <1>3, IdleDerived, ScanMoves
<1>5. CASE UNCHANGED table
  BY <1>2, <1>4, <1>5, Stays
<1>6. CASE table' = new
  <2>1. b \in Int
    BY <1>1, CacheAssumption DEF Working, Bucket
  <2>. HIDE DEF b
  <2>2. ASSUME NEW t \in Tables
        PROVE  /\ Touched(table[t], z.hits[t], b) \in SUBSET CacheRow
               /\ Total(Touched(table[t], z.hits[t], b)) <= Cap
               /\ \A r \in Touched(table[t], z.hits[t], b) : RowSound(r)
    <3>. DEFINE H == z.hits[t]
                T(r) == IF r.file \in H THEN [r EXCEPT !.bucket = b, !.day = days] ELSE r
    <3>1. table[t] \in SUBSET CacheRow /\ \A r \in table[t] : RowSound(r)
      BY DEF CacheInv, Types, RowsInv
    <3>2. \A r \in CacheRow : /\ T(r) \in CacheRow /\ T(r).file = r.file /\ T(r).version = r.version
                              /\ T(r).guard = r.guard /\ T(r).profile = r.profile
                              /\ T(r).content = r.content
      BY <1>2, <2>1 DEF CacheRow
    <3>3. Touched(table[t], H, b) = {T(r) : r \in table[t]}
      BY DEF Touched
    <3>. HIDE DEF T, H
    <3>4. \A r \in table[t] : RowSound(T(r)) /\ Key(T(r)) = Key(r)
      BY <3>1, <3>2 DEF RowSound, Key
    <3>5. {Key(r) : r \in Touched(table[t], H, b)} = {Key(r) : r \in table[t]}
      BY <3>3, <3>4
    <3>6. Total(Touched(table[t], H, b)) = Total(table[t])
      BY <3>5, SameKeys
    <3>7. Total(table[t]) <= Cap
      BY DEF CacheInv, WithinCap
    <3>8. QED
      BY <3>1, <3>2, <3>3, <3>4, <3>6, <3>7 DEF H
  <2>3. table' \in [Tables -> SUBSET CacheRow]
    BY <1>6, <2>2
  <2>4. \A t \in Tables : table'[t] = Touched(table[t], z.hits[t], b)
    BY <1>6
  <2>5. \A t \in Tables : Total(table'[t]) <= Cap /\ \A r \in table'[t] : RowSound(r)
    BY <2>2, <2>4
  <2>6. QED
    BY <1>2, <1>4, <2>3, <2>5, TableChanges
<1>7. QED
  BY <1>5, <1>6, Zenon DEF Touch

LEMMA RewriteNext ==
    ASSUME CacheInv, NEW f \in Names, NEW v \in {0, 1}, Rewrite(f, v)
    PROVE  CacheInv'
<1>1. UNCHANGED <<inventory, table, scan, news, days>>
  BY DEF Rewrite
<1>2. disk \in [Names -> Sighting] /\ disk' \in [Names -> Sighting]
  BY DEF CacheInv, Types, Rewrite, Sighting
<1>3. \A g \in Names : disk'[g].guard = disk[g].guard + 1 \/ disk'[g] = disk[g]
  BY <1>2 DEF Rewrite, Sighting
<1>4. ASSUME NEW g \in Names, NEW guard \in Int, NEW content, Of(g, guard, content)
      PROVE  Of(g, guard, content)'
  <2>1. disk[g].guard \in Int
    BY <1>2 DEF Sighting
  <2>2. QED
    BY <1>3, <1>4, <2>1 DEF Of
<1>5. Types'
  BY <1>1, <1>2 DEF CacheInv, Types
<1>6. RowsInv'
  <2>1. SUFFICES ASSUME NEW t \in Tables, NEW r \in table[t] PROVE RowSound(r)'
    BY <1>1 DEF RowsInv
  <2>2. r \in CacheRow /\ RowSound(r)
    BY DEF CacheInv, Types, RowsInv
  <2>3. QED
    BY <1>4, <2>2 DEF RowSound, CacheRow
<1>7. ScansInv'
  <2>1. SUFFICES ASSUME NEW e \in Engines, scan[e] # Idle, NEW g \in Names PROVE Faithful(scan[e], g)'
    BY <1>1 DEF ScansInv
  <2>2. scan[e] \in Working /\ Faithful(scan[e], g)
    BY <2>1, Pcs DEF CacheInv, Types, ScansInv
  <2>3. scan[e].seen[g].guard \in Int
    BY <2>2 DEF Working, Sighting
  <2>4. Of(g, scan[e].seen[g].guard, scan[e].seen[g].content)'
    BY <1>1, <1>4, <2>2, <2>3 DEF Faithful
  <2>5. (scan[e].stage[g] \in {"class-write", "parse-write"} => Of(g, scan[e].seen[g].guard, scan[e].got[g]))'
    BY <1>1, <1>4, <2>2, <2>3 DEF Faithful
  <2>6. QED
    BY <1>1, <2>2, <2>4, <2>5 DEF Faithful, Current
<1>8. ReadyInv' /\ NewsInv' /\ WithinCap'
  BY <1>1 DEF CacheInv, ReadyInv, NewsInv, WithinCap, Prepared, Fresh
<1>9. QED
  BY <1>5, <1>6, <1>7, <1>8 DEF CacheInv

LEMMA DamageNext ==
    ASSUME CacheInv, NEW t \in Tables, NEW r \in table[t], NEW s \in {"damaged", "undecodable"},
           Damage(t, r, s)
    PROVE  CacheInv'
<1>. DEFINE d == [r EXCEPT !.state = s]
            rows == (table[t] \ {r}) \cup {d}
<1>1. UNCHANGED <<disk, inventory, scan, news, days>> /\ table' = [table EXCEPT ![t] = rows]
  BY DEF Damage
<1>2. table \in [Tables -> SUBSET CacheRow] /\ r \in CacheRow /\ RowSound(r)
  BY DEF CacheInv, Types, RowsInv
<1>3. /\ d \in CacheRow /\ d.file = r.file /\ d.version = r.version /\ d.guard = r.guard
      /\ d.profile = r.profile /\ d.content = r.content
  BY <1>2 DEF CacheRow
<1>. HIDE DEF d
<1>4. RowSound(d) /\ Key(d) = Key(r)
  BY <1>2, <1>3 DEF RowSound, Key
<1>5. {Key(x) : x \in rows} = {Key(x) : x \in table[t]}
  BY <1>4
<1>6. Total(rows) <= Cap
  BY <1>5, SameKeys DEF CacheInv, WithinCap
<1>. HIDE DEF rows
<1>7. \A u \in Tables : table'[u] = IF u = t THEN rows ELSE table[u]
  BY <1>1, <1>2
<1>8. rows \subseteq table[t] \cup {d}
  BY DEF rows
<1>9. table' \in [Tables -> SUBSET CacheRow]
  BY <1>1, <1>2, <1>3, <1>8
<1>10. \A u \in Tables : Total(table'[u]) <= Cap
  BY <1>6, <1>7 DEF CacheInv, WithinCap
<1>11. \A u \in Tables : \A x \in table'[u] : RowSound(x)
  BY <1>4, <1>7, <1>8 DEF CacheInv, RowsInv
<1>12. scan' \in [Engines -> {Idle} \cup Working] /\ ScansInv' /\ ReadyInv' /\ NewsInv'
  BY <1>1 DEF CacheInv, Types, ScansInv, ReadyInv, NewsInv, Faithful, Of, Current, Prepared, Fresh
<1>13. QED
  BY <1>1, <1>9, <1>10, <1>11, <1>12, TableChanges

-----------------------------------------------------------------------------
(* The invariant and what follows from it.                                   *)

LEMMA CacheStarts ==
    ASSUME Init
    PROVE  CacheInv
<1>1. Types
  BY DEF Init, Types, Sighting
<1>2. RowsInv
  BY DEF Init, RowsInv
<1>3. ScansInv /\ ReadyInv
  BY DEF Init, ScansInv, ReadyInv, Idle
<1>4. \A e \in Engines : scan[e] = Idle
  BY DEF Init
<1>5. NewsInv
  BY <1>4 DEF Init, NewsInv, Fresh
<1>6. WithinCap
  BY EmptyTotal, CacheAssumption DEF Init, WithinCap
<1>7. QED
  BY <1>1, <1>2, <1>3, <1>5, <1>6 DEF CacheInv

LEMMA CacheQuiet ==
    ASSUME CacheInv, UNCHANGED vars
    PROVE  CacheInv'
<1>1. UNCHANGED <<disk, inventory, table, scan, news, days>>
  BY DEF vars
<1>2. scan' \in [Engines -> {Idle} \cup Working] /\ days' \in Int
  BY <1>1 DEF CacheInv, Types
<1>3. ScansInv' /\ ReadyInv' /\ NewsInv'
  BY <1>1 DEF CacheInv, ScansInv, ReadyInv, NewsInv, Faithful, Of, Current, Prepared, Fresh
<1>4. QED
  BY <1>1, <1>2, <1>3, Stays

LEMMA CacheStays == CacheInv /\ [Next]_vars => CacheInv'
<1>1. SUFFICES ASSUME CacheInv, [Next]_vars PROVE CacheInv'
  OBVIOUS
<1>2. CASE \E e \in Engines, p \in Profiles, s \in Policies, d \in 0 .. MaxDays : Begin(e, p, s, d)
  BY <1>1, <1>2, BeginNext
<1>3. CASE \E e \in Engines : PrepareBatch(e) \/ Touch(e) \/ Expire(e)
  BY <1>1, <1>3, PrepareNext, TouchNext, ExpireNext
<1>4. CASE \E e \in Engines, f \in Names : LookupParse(e, f) \/ LookupClassification(e, f)
  BY <1>1, <1>4, ConsultNext DEF LookupParse, LookupClassification, Tables
<1>5. CASE \E e \in Engines, f \in Names : Read(e, f)
  BY <1>1, <1>5, ReadNext
<1>6. CASE \E e \in Engines, f \in Names : WriteParse(e, f) \/ WriteClassification(e, f)
  BY <1>1, <1>6, SettleNext DEF WriteParse, WriteClassification, Tables
<1>7. CASE \E f \in Names, v \in {0, 1} : Rewrite(f, v)
  BY <1>1, <1>7, RewriteNext
<1>8. CASE \E t \in Tables : \E r \in table[t], s \in {"damaged", "undecodable"} : Damage(t, r, s)
  BY <1>1, <1>8, DamageNext
<1>9. CASE UNCHANGED vars
  BY <1>1, <1>9, CacheQuiet
<1>10. QED
  BY <1>1, <1>2, <1>3, <1>4, <1>5, <1>6, <1>7, <1>8, <1>9, Zenon DEF Next

LEMMA CacheAlways == Spec => []CacheInv
<1>1. Init => CacheInv
  BY CacheStarts
<1>2. QED
  BY <1>1, CacheStays, PTL DEF Spec

(* A cached text handed to a scan that re-observes its files is what its own *)
(* profile reads in the file discovery saw: files rewritten under the same  *)
(* size and mtime, and rows written by scans that trusted discovery, never  *)
(* get in between.                                                          *)
THEOREM CachedTextsAreCurrent == Spec => []HitsAreCurrent
<1>1. CacheInv => HitsAreCurrent
  <2>1. SUFFICES ASSUME CacheInv, NEW e \in Engines, NEW f \in DOMAIN scan[e].used,
                        scan[e].strict, scan[e].used[f] # <<>>
                 PROVE  scan[e].used[f] = <<<<scan[e].seen[f].content, scan[e].profile>>>>
    BY DEF HitsAreCurrent
  <2>2. CASE scan[e] = Idle
    BY <2>1, <2>2 DEF Idle
  <2>3. CASE scan[e] # Idle
    <3>1. scan[e] \in Working
      BY <2>1, <2>3, Pcs DEF CacheInv, Types
    <3>2. f \in Names
      BY <3>1 DEF Working
    <3>3. Current(scan[e], f)
      BY <2>1, <2>3, <3>2 DEF CacheInv, ScansInv, Faithful
    <3>4. QED
      BY <2>1, <3>3 DEF Current
  <2>4. QED
    BY <2>2, <2>3
<1>2. QED
  BY <1>1, CacheAlways, PTL

(* After every commit of a write, a touch or a rollback, neither cache holds *)
(* more bytes than its cap: the write and its eviction are one transaction.  *)
THEOREM CachesStayWithinCap == Spec => []WithinCap
<1>1. CacheInv => WithinCap
  BY DEF CacheInv
<1>2. QED
  BY <1>1, CacheAlways, PTL

(* One scan at most finds a file new, however engines overlap, batches of    *)
(* the inventory roll back and rows are evicted.                             *)
THEOREM FilesAreNewOnce == Spec => []NewIsReportedOnce
<1>1. CacheInv => NewIsReportedOnce
  BY DEF CacheInv, NewsInv, NewIsReportedOnce
<1>2. QED
  BY <1>1, CacheAlways, PTL
=============================================================================
