------------------------------ MODULE ScanCache ------------------------------
(***************************************************************************)
(* The parse and classification caches of the scanner (store/cache.rs, the *)
(* cache operations of store/mod.rs, the inventory of store/inventory.rs,  *)
(* the store side of scheduler_adapter.rs): rows keyed by the file, its    *)
(* version, its source guard and the profile that read it, written one     *)
(* success at a time in transactions that evict down to a cap, looked up   *)
(* by later scans with a reason for every miss, and touched once a day.    *)
(*                                                                         *)
(* Two engines may work at once: a scan whose lease was taken over keeps   *)
(* writing.  A scan with a window re-observes a file's guard whenever it   *)
(* verifies it; the others trust what discovery saw.  A row's              *)
(* day is the calendar day of its last use, a history field; the code      *)
(* stores a date computed from the scheduler's clock, which counts         *)
(* milliseconds since the scan began.                                      *)
(***************************************************************************)
EXTENDS Integers, Sequences, FiniteSets, SequencesExt, FiniteSetsExt, Functions

CONSTANTS
    Files,        \* the files of the work directory, a sequence in inventory order
    Pdfs,         \* those a classifier looks at before they are parsed
    Rank,         \* recompute_rank of a file's backend
    Pages,        \* the pages a classifier examines in a file
    Size,         \* entry_size_bytes of a file's row
    Profiles,     \* parse and classifier profiles: settings and builds
    Engines,      \* scanner processes
    Policies,     \* guard policies of the requests: TRUE re-observes a file (a windowed request)
    Cap,          \* the byte cap of either cache
    BatchSize,    \* CACHE_TRANSACTION_BATCH_SIZE
    DayLength,    \* milliseconds of a day
    MaxScans,     \* bound: scans
    MaxChanges,   \* bound: files rewritten
    MaxDays,      \* bound: days
    MaxFaults     \* bound: rows damaged, scans out of time

Names == Range(Files)
Tables == {"parse", "class"}

ASSUME CacheAssumption ==
    /\ Files \in Seq(Names) /\ Pdfs \subseteq Names /\ Policies \subseteq BOOLEAN
    /\ Cap \in Nat /\ BatchSize \in Nat \ {0} /\ DayLength \in Nat \ {0}
    /\ \A f \in Names : Rank[f] \in Nat /\ Pages[f] \in Nat /\ Size[f] \in Nat
    /\ {MaxScans, MaxChanges, MaxDays, MaxFaults} \subseteq Nat

VARIABLES
    disk,       \* each file: its version (mtime and size), guard and content
    inventory,  \* file_inventory
    table,      \* parse_cache and classification_cache: sets of rows
    scan,       \* the scan of every engine
    out,        \* history: the rows the last commit evicted, by table
    news,       \* history: how many scans reported each file as new
    scans, changes, days, faults

vars == <<disk, inventory, table, scan, out, news, scans, changes, days, faults>>
bounds == <<scans, changes, days, faults>>

Idle == [pc |-> "idle", profile |-> "none", strict |-> FALSE, seen |-> <<>>,
         existed |-> {}, next |-> 1, stage |-> <<>>, got |-> <<>>, hits |-> [t \in Tables |-> {}],
         clock |-> 0, late |-> FALSE, used |-> <<>>]

Init ==
    /\ disk = [f \in Names |-> [version |-> 0, guard |-> 0, content |-> 0]]
    /\ inventory = {}
    /\ table = [t \in Tables |-> {}]
    /\ scan = [e \in Engines |-> Idle]
    /\ out = [t \in Tables |-> {}]
    /\ news = [f \in Names |-> 0]
    /\ scans = 0 /\ changes = 0 /\ days = 0 /\ faults = 0

-----------------------------------------------------------------------------
(* Keys, lookups and the tree of miss reasons.                              *)

(* The key binds the file, what discovery saw of it, and the profile hash,   *)
(* which fingerprints the route's settings, contracts and builds.            *)
KeyWithoutGuard(r) == <<r.file, r.version, r.profile>>
Key(r) == <<r.file, r.version, r.guard, r.profile>>

(* The bytes of a row and its payload; a damaged payload is a miss, damaged   *)
(* bytes fail the lookup.                                                    *)
Whole(r) == r.state = "whole"
Readable(r) == r.state # "damaged"

(* resolve_cache_lookup.                                                     *)
Reason(rows, want, existed) ==
    LET same == {r \in rows : r.file = want.file}
    IN CASE \E r \in same : r.version = want.version /\ r.guard = want.guard -> "identity_changed"
         [] same # {} /\ ~\E r \in same : r.version = want.version /\ r.guard = want.guard ->
              "source_version_changed"
         [] same = {} /\ existed -> "entry_absent_or_evicted"
         [] OTHER -> "new_file"

Exact(rows, want) == {r \in rows : Key(r) = Key(want)}

(* Found: the content of the exact row, or why there is none.                *)
Lookup(rows, want, existed) ==
    LET exact == Exact(rows, want)
    IN IF exact = {} THEN [hit |-> FALSE, reason |-> Reason(rows, want, existed)]
       ELSE LET r == CHOOSE r \in exact : TRUE
            IN IF Whole(r) THEN [hit |-> TRUE, content |-> r.content]
               ELSE [hit |-> FALSE, reason |-> "entry_absent_or_evicted"]

-----------------------------------------------------------------------------
(* Writes and eviction.                                                      *)

(* The bytes of a table, by primary key.                                     *)
Total(rows) == MapThenSumSet(LAMBDA k : Size[k[1]], {Key(r) : r \in rows})

(* date_bucket_for_ms, of a time in milliseconds.                            *)
Bucket(ms) == ms \div DayLength

(* What a row of either table costs to make again.                          *)
ParseCost(f) == Rank[f]
ClassCost(f) == Pages[f]
Cost(t, f) == IF t = "parse" THEN ParseCost(f) ELSE ClassCost(f)

(* The columns of the eviction order, first to last.                        *)
EvictionKey(t, r) == <<Cost(t, r.file), r.bucket, r.at>>
Before(t, r, s) ==
    LET a == EvictionKey(t, r)
        b == EvictionKey(t, s)
    IN \E i \in DOMAIN a : a[i] < b[i] /\ \A j \in 1 .. i - 1 : a[j] = b[j]

(* What may remain after eviction: rows go first to last, ties in any order,  *)
(* and the last to go was one too many for the cap.                          *)
Evict(t, rows) ==
    {kept \in SUBSET rows :
        /\ Total(kept) <= Cap
        /\ \A r \in kept, gone \in rows \ kept : ~Before(t, r, gone)
        /\ kept # rows => \E last \in rows \ kept :
               /\ \A gone \in rows \ kept : ~Before(t, last, gone)
               /\ Total(kept \cup {last}) > Cap}

(* One record in one transaction: upsert, then evict, unless the entry alone  *)
(* exceeds the cap.                                                          *)
WrittenEvictedFirst(t, rows, r) == {kept \cup {r} : kept \in Evict(t, rows \ Exact(rows, r))}
Written(t, rows, r) ==
    IF Size[r.file] > Cap THEN {rows} ELSE Evict(t, (rows \ Exact(rows, r)) \cup {r})

-----------------------------------------------------------------------------
(* A scan.                                                                   *)

(* Discovery and its guards; the profile is fixed by the preflight.  A day    *)
(* may have passed since all was idle.                                       *)
Begin(e, profile, strict, day) ==
    /\ scan[e].pc = "idle" /\ scans < MaxScans
    /\ scans' = scans + 1
    /\ day >= days
    /\ (\A x \in Engines : scan[x].pc = "idle") \/ day = days
    /\ days' = day
    /\ scan' = [scan EXCEPT ![e] =
                  [pc |-> "inventory", profile |-> profile, strict |-> strict, seen |-> disk,
                   existed |-> {}, next |-> 1,
                   stage |-> [f \in Names |-> IF f \in Pdfs THEN "class" ELSE "parse"],
                   got |-> [f \in Names |-> -1], hits |-> [t \in Tables |-> {}],
                   clock |-> 0, late |-> FALSE, used |-> [f \in Names |-> <<>>]]]
    /\ UNCHANGED <<disk, inventory, table, out, news, changes, faults>>

(* upsert_inventory.                                                         *)
UpsertedLater(batch) == inventory
Upserted(batch) == inventory \cup batch

(* prepare_inventory: batches, each its own transaction; the deadline rolls   *)
(* the current one back and ends the scan.                                   *)
PrepareBatch(e) ==
    /\ scan[e].pc = "inventory"
    /\ LET next == scan[e].next + BatchSize
           batch == {Files[i] : i \in {j \in DOMAIN Files : scan[e].next <= j /\ j < next}}
       IN \/ /\ ~scan[e].late
             /\ inventory' = Upserted(batch)
             /\ scan' = [scan EXCEPT ![e].existed = @ \cup (inventory \cap batch), ![e].next = next,
                           ![e].pc = IF next > Len(Files) THEN "work" ELSE "inventory"]
          \/ /\ scan[e].late
             /\ scan' = [scan EXCEPT ![e] = Idle]
             /\ UNCHANGED inventory
    /\ UNCHANGED <<disk, table, out, news, bounds>>

Want(e, f) == [file |-> f, version |-> scan[e].seen[f].version, guard |-> scan[e].seen[f].guard,
               profile |-> scan[e].profile]

(* The waves settle their files in plan order.                               *)
Turn(e, f) ==
    /\ scan[e].pc = "work"
    /\ \A i \in DOMAIN Files :
           (\A j \in 1 .. i - 1 : scan[e].stage[Files[j]] = "done") /\ scan[e].stage[Files[i]] # "done"
           => Files[i] = f

(* SourceGuardObserver::verify; without the strict policy the guard that     *)
(* discovery saw is the one compared.                                        *)
Unverified(e, f) == TRUE
Verified(e, f) == scan[e].strict => disk[f].guard = scan[e].seen[f].guard

(* lookup_parse, lookup_classification; damaged bytes fail the scan.  The     *)
(* guard is verified before a classification is looked up and before a       *)
(* cached text is used; a file that fails it is done, as an error.           *)
After(t) == IF t = "class" THEN "parse" ELSE "done"
Reading(t) == IF t = "class" THEN "class-read" ELSE "parse-read"
Writing(t) == IF t = "class" THEN "class-write" ELSE "parse-write"
Consult(e, f, t) ==
    /\ Turn(e, f) /\ ~scan[e].late /\ scan[e].stage[f] = t
    /\ LET want == Want(e, f)
           found == Lookup(table[t], want, f \in scan[e].existed)
           guarded == t = "class" \/ found.hit
       IN \/ /\ \E r \in Exact(table[t], want) : ~Readable(r)
             /\ scan' = [scan EXCEPT ![e] = Idle]
             /\ UNCHANGED news
          \/ /\ \A r \in Exact(table[t], want) : Readable(r)
             /\ guarded /\ ~Verified(e, f)
             /\ scan' = [scan EXCEPT ![e].stage[f] = "done"]
             /\ UNCHANGED news
          \/ /\ \A r \in Exact(table[t], want) : Readable(r)
             /\ found.hit /\ Verified(e, f)
             /\ scan' = [scan EXCEPT ![e].stage[f] = After(t), ![e].hits[t] = @ \cup {f},
                           ![e].used[f] = IF t = "parse" THEN <<found.content>> ELSE @]
             /\ UNCHANGED news
          \/ /\ \A r \in Exact(table[t], want) : Readable(r)
             /\ ~found.hit
             /\ guarded => Verified(e, f)
             /\ scan' = [scan EXCEPT ![e].stage[f] = Reading(t)]
             /\ news' = IF found.reason = "new_file" /\ t = "parse"
                        THEN [news EXCEPT ![f] = @ + 1] ELSE news
    /\ UNCHANGED <<disk, inventory, table, out, bounds>>

LookupParse(e, f) == Consult(e, f, "parse")
LookupClassification(e, f) == Consult(e, f, "class")

(* The worker reads the file; the scan verifies the guard before and after,   *)
(* and writes a success while there is time.                                 *)
Read(e, f) ==
    /\ Turn(e, f) /\ scan[e].stage[f] \in {"parse-read", "class-read"}
    /\ scan' = [scan EXCEPT ![e].got[f] = IF Verified(e, f) THEN disk[f].content ELSE @,
                  ![e].stage[f] = IF ~Verified(e, f) THEN "done"
                                  ELSE IF @ = "parse-read" THEN "parse-write" ELSE "class-write"]
    /\ UNCHANGED <<disk, inventory, table, out, news, bounds>>

RowOf(e, f) ==
    [file |-> f, version |-> scan[e].seen[f].version, guard |-> scan[e].seen[f].guard,
     profile |-> scan[e].profile, content |-> <<scan[e].got[f], scan[e].profile>>,
     bucket |-> Bucket(scan[e].clock), at |-> scan[e].clock, state |-> "whole", day |-> days]

Settle(e, f, t) ==
    /\ Turn(e, f) /\ scan[e].stage[f] = Writing(t)
    /\ \/ /\ Verified(e, f) /\ ~scan[e].late
          /\ \E rows \in Written(t, table[t], RowOf(e, f)) :
                 /\ table' = [table EXCEPT ![t] = rows]
                 /\ out' = [[u \in Tables |-> {}] EXCEPT
                               ![t] = table[t] \ (rows \cup Exact(table[t], RowOf(e, f)))]
          /\ scan' = [scan EXCEPT ![e].stage[f] = After(t), ![e].got[f] = -1, ![e].clock = @ + 1]
       \/ /\ ~Verified(e, f) \/ scan[e].late
          /\ scan' = [scan EXCEPT ![e].got[f] = -1,
                        ![e].stage[f] = IF Verified(e, f) THEN After(t) ELSE "done"]
          /\ UNCHANGED <<table, out>>
    /\ UNCHANGED <<disk, inventory, news, bounds>>

WriteParse(e, f) == Settle(e, f, "parse")
WriteClassification(e, f) == Settle(e, f, "class")

(* touch_cache_access: every row of a hit file gets the bucket of now.       *)
Touched(rows, hits, bucket) ==
    {IF r.file \in hits THEN [r EXCEPT !.bucket = bucket, !.day = days] ELSE r : r \in rows}

Touch(e) ==
    /\ scan[e].pc = "work"
    /\ scan[e].late \/ \A f \in Names : scan[e].stage[f] = "done"
    /\ table' = IF scan[e].late THEN table
                ELSE [t \in Tables |-> Touched(table[t], scan[e].hits[t], Bucket(scan[e].clock))]
    /\ scan' = [scan EXCEPT ![e] = Idle]
    /\ out' = [t \in Tables |-> {}]
    /\ UNCHANGED <<disk, inventory, news, bounds>>

-----------------------------------------------------------------------------
(* The environment.                                                          *)

(* Bound: the environment acts while a scan is there, or to come, to see it. *)
Observed == scans < MaxScans \/ \E e \in Engines : scan[e].pc # "idle"

(* A file is rewritten; its mtime and size may be kept or restored.          *)
Rewrite(f, version) ==
    /\ changes < MaxChanges /\ Observed
    /\ changes' = changes + 1
    /\ disk' = [disk EXCEPT ![f] = [version |-> version, guard |-> @.guard + 1,
                                     content |-> 1 - @.content]]
    /\ UNCHANGED <<inventory, table, scan, out, news, scans, days, faults>>

Expire(e) ==
    /\ scan[e].pc # "idle" /\ ~scan[e].late /\ faults < MaxFaults
    /\ faults' = faults + 1
    /\ scan' = [scan EXCEPT ![e].late = TRUE]
    /\ UNCHANGED <<disk, inventory, table, out, news, scans, changes, days>>

(* Bound: a row is damaged between scans; a lookup reads it once.            *)
Damage(t, r, state) ==
    /\ faults < MaxFaults /\ scans < MaxScans /\ r.state = "whole"
    /\ \A e \in Engines : scan[e].pc = "idle"
    /\ faults' = faults + 1
    /\ table' = [table EXCEPT ![t] = (@ \ {r}) \cup {[r EXCEPT !.state = state]}]
    /\ UNCHANGED <<disk, inventory, scan, out, news, scans, changes, days>>

Next ==
    \/ \E e \in Engines : \/ \E p \in Profiles, s \in Policies, d \in 0 .. MaxDays : Begin(e, p, s, d)
                          \/ PrepareBatch(e) \/ Touch(e) \/ Expire(e)
                          \/ \E f \in Names :
                                 \/ LookupParse(e, f) \/ LookupClassification(e, f) \/ Read(e, f)
                                 \/ WriteParse(e, f) \/ WriteClassification(e, f)
    \/ \E f \in Names, v \in {0, 1} : Rewrite(f, v)
    \/ \E t \in Tables : \E r \in table[t], s \in {"damaged", "undecodable"} : Damage(t, r, s)

Spec == Init /\ [][Next]_vars

-----------------------------------------------------------------------------
(* Safety.                                                                   *)

(* What a cached text hands to a scan that re-observes its files is what its  *)
(* own profile would read in the file discovery saw, although the file may   *)
(* have been rewritten under the same size and mtime, and a scan that did    *)
(* not re-observe it may have written the row.                               *)
HitsAreCurrent ==
    \A e \in Engines : \A f \in DOMAIN scan[e].used :
        scan[e].strict /\ scan[e].used[f] # <<>> =>
            scan[e].used[f] = <<<<scan[e].seen[f].content, scan[e].profile>>>>

(* Neither cache holds more bytes than its cap after any commit.             *)
WithinCap == \A t \in Tables : Total(table[t]) <= Cap

(* A file is reported as new by one scan at most, whatever batches were       *)
(* rolled back, rows evicted or engines overlapped.                          *)
NewIsReportedOnce == \A f \in Names : news[f] <= 1

(* What cache.rs says of last_accessed_bucket, the current UTC date: of two   *)
(* rows that cost the same to recompute, the one used last stays.            *)
LastUsedStays ==
    \A t \in Tables : \A v \in out[t], r \in table[t] :
        Cost(t, v.file) = Cost(t, r.file) => v.day <= r.day
=============================================================================
