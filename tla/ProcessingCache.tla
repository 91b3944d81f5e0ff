-------------------------- MODULE ProcessingCache --------------------------
(***************************************************************************)
(* The processing cache of personal runs: CacheQuota and CacheReservation  *)
(* (processing_cache.rs) with SnapshotStore::put_bytes (snapshots.rs) as    *)
(* its writer.  One process at a time holds the processing lock; it keeps   *)
(* the entries and the byte counters in memory and saves the entries to     *)
(* .cache-ledger.json, which is replaced by a rename.                        *)
(*                                                                         *)
(* A step is one access to the file system with the local computation that  *)
(* follows it.  Any step may fail, and the process may die between two.     *)
(***************************************************************************)
EXTENDS Integers, FiniteSets, Functions

CONSTANTS
    Names,      \* snapshots: <run>/<kind>-<digest>.json, one per content
    Temps,      \* names of temporary files
    Size,       \* bytes of each snapshot
    Limit,      \* max_bytes less control_bytes
    Response,   \* RESPONSE_RESERVATION_BYTES
    MaxFaults,  \* bound on crashes and I/O errors
    MaxDays     \* bound on how often 7 days pass

ASSUME SizeAssumption ==
    Size \in [Names -> Nat \ {0}] /\ Limit \in Nat /\ Response \in Nat
ASSUME PathAssumption ==
    Names \cap Temps = {} /\ IsFiniteSet(Names) /\ IsFiniteSet(Temps) /\ Names # {}
ASSUME CacheBoundsAssumption == MaxFaults \in Nat /\ MaxDays \in Nat

Paths  == Names \cup Temps
Absent == -1
NoPath == "none"
ASSUME NoPathAssumption == NoPath \notin Paths

(* No entry; pending; not pending; not pending and at least 7 days old.     *)
Entry == {"none", "pending", "kept", "old"}

VARIABLES
    files,     \* bytes of each file below the root, or Absent
    ledger,    \* the entries in .cache-ledger.json
    entries,   \* the entries in memory
    used, reserved,
    response,  \* the reservation for a response is held
    pc,        \* what the process that holds the lock is doing
    name, temp,    \* the snapshot being put and its temporary file
    tracked,       \* paths of the reservation
    faults, days

memory == <<entries, used, reserved, response>>
put    == <<name, temp, tracked>>
bounds == <<faults, days>>
vars   == <<files, ledger, memory, pc, put, bounds>>

Places == {"closed", "pruning", "idle", "create", "register", "track", "write", "link",
           "drop", "commit", "undo", "release", "removing"}

TypeOK ==
    /\ files \in [Paths -> Nat \cup {Absent}]
    /\ ledger \in [Paths -> Entry]
    /\ entries \in [Paths -> Entry]
    /\ used \in Nat /\ reserved \in Nat
    /\ response \in BOOLEAN
    /\ pc \in Places
    /\ name \in Names \cup {NoPath}
    /\ temp \in Temps \cup {NoPath}
    /\ tracked \subseteq Paths
    /\ faults \in 0 .. MaxFaults /\ days \in 0 .. MaxDays

Init ==
    /\ files = [p \in Paths |-> Absent]
    /\ ledger = [p \in Paths |-> "none"]
    /\ entries = [p \in Paths |-> "none"]
    /\ used = 0 /\ reserved = 0 /\ response = FALSE
    /\ pc = "closed"
    /\ name = NoPath /\ temp = NoPath /\ tracked = {}
    /\ faults = 0 /\ days = 0

---------------------------------------------------------------------------
Present == {p \in Paths : files[p] # Absent}

BytesOf(S) == SumFunctionOnSet(files, S \cap Present)

(* Mutant: a subtraction that does not saturate.                            *)
LessUnchecked(a, b) == a - b

(* saturating_sub                                                           *)
Less(a, b) == IF b > a THEN 0 ELSE a - b

(* Mutant: other reservations are overlooked.                               *)
FitsUsed(bytes) == used + bytes <= Limit

Fits(bytes) == used + reserved + bytes <= Limit

Goto(place) == pc' = place

Fault == faults < MaxFaults /\ faults' = faults + 1

Idle ==
    /\ pc' = "idle"
    /\ name' = NoPath /\ temp' = NoPath /\ tracked' = {}

---------------------------------------------------------------------------
(* The processing lock is taken, the ledger is read and compared with the   *)
(* files: an unregistered file stops the command (PROCESSING_UNKNOWN_FILE). *)

Open ==
    LET found == [p \in Paths |-> IF ledger[p] = "pending" THEN "kept" ELSE ledger[p]]
    IN  /\ pc = "closed"
        /\ \A p \in Present : ledger[p] # "none"
        /\ entries' = found
        /\ ledger' = found
        /\ used' = BytesOf(Paths)
        /\ reserved' = 0
        /\ Goto("pruning")
        /\ UNCHANGED <<files, response, put, bounds>>

(* Mutant: every entry that is not pending is removed.                      *)
PruneKept ==
    /\ pc = "pruning"
    /\ IF \E p \in Paths : entries[p] \in {"kept", "old"}
       THEN \E p \in Paths :
               /\ entries[p] \in {"kept", "old"}
               /\ files' = [files EXCEPT ![p] = Absent]
               /\ used' = Less(used, BytesOf({p}))
               /\ entries' = [entries EXCEPT ![p] = "none"]
               /\ Goto("removing")
       ELSE Goto("idle") /\ UNCHANGED <<files, used, entries>>
    /\ UNCHANGED <<ledger, reserved, response, put, bounds>>

(* prune_snapshots removes what has expired, one path after the other.      *)
Prune ==
    /\ pc = "pruning"
    /\ IF \E p \in Paths : entries[p] = "old"
       THEN \E p \in Paths :
               /\ entries[p] = "old"
               /\ files' = [files EXCEPT ![p] = Absent]
               /\ used' = Less(used, BytesOf({p}))
               /\ entries' = [entries EXCEPT ![p] = "none"]
               /\ Goto("removing")
       ELSE Goto("idle") /\ UNCHANGED <<files, used, entries>>
    /\ UNCHANGED <<ledger, reserved, response, put, bounds>>

SaveRemoval ==
    /\ pc = "removing"
    /\ ledger' = entries
    /\ Goto("pruning")
    /\ UNCHANGED <<files, memory, put, bounds>>

(* The command ends, or an error of open_inner ends it.                     *)
Reset ==
    /\ pc' = "closed"
    /\ entries' = [p \in Paths |-> "none"]
    /\ used' = 0 /\ reserved' = 0 /\ response' = FALSE
    /\ name' = NoPath /\ temp' = NoPath /\ tracked' = {}

Close ==
    /\ pc = "idle"
    /\ Reset
    /\ UNCHANGED <<files, ledger, bounds>>

PruneFails ==
    /\ pc \in {"pruning", "removing"}
    /\ Fault
    /\ Reset
    /\ UNCHANGED <<files, ledger, days>>

---------------------------------------------------------------------------
(* The room for a response is held while its request is saved and sent.     *)

ReserveResponse ==
    /\ pc = "idle" /\ ~response
    /\ Fits(Response)
    /\ reserved' = reserved + Response
    /\ response' = TRUE
    /\ UNCHANGED <<files, ledger, entries, used, pc, put, bounds>>

(* Drop of a reservation without paths: the ledger is saved, and an error    *)
(* of that is passed over.                                                   *)
ReleaseResponse ==
    /\ pc = "idle" /\ response
    /\ reserved' = Less(reserved, Response)
    /\ response' = FALSE
    /\ \/ ledger' = entries /\ UNCHANGED faults
       \/ Fault /\ UNCHANGED ledger
    /\ UNCHANGED <<files, entries, used, pc, put, days>>

---------------------------------------------------------------------------
(* put_bytes: a file that is there is used, any other is written to a       *)
(* temporary file first and linked to its name when it is complete.         *)

Reserve(n) ==
    /\ pc = "idle"
    /\ files[n] = Absent
    /\ Fits(2 * Size[n])
    /\ reserved' = reserved + 2 * Size[n]
    /\ name' = n /\ tracked' = {}
    /\ Goto("create")
    /\ UNCHANGED <<files, ledger, entries, used, response, temp, bounds>>

CreateTemp(t) ==
    /\ pc = "create"
    /\ files[t] = Absent /\ entries[t] = "none"
    /\ files' = [files EXCEPT ![t] = 0]
    /\ temp' = t
    /\ Goto("register")
    /\ UNCHANGED <<ledger, memory, name, tracked, bounds>>

(* track_inner: the entry is saved before the reservation owns the path.    *)
Track(p, next) ==
    /\ entries' = [entries EXCEPT ![p] = "pending"]
    /\ ledger' = entries'
    /\ tracked' = tracked \cup {p}
    /\ Goto(next)

(* Mutant: only the final name is registered.                               *)
RegisterNameOnly ==
    /\ pc = "register"
    /\ Goto("track")
    /\ UNCHANGED <<files, ledger, memory, put, bounds>>

RegisterTemp ==
    /\ pc = "register"
    /\ Track(temp, "track")
    /\ UNCHANGED <<files, used, reserved, response, name, temp, bounds>>

TrackName ==
    /\ pc = "track"
    /\ entries[name] = "none"
    /\ Track(name, "write")
    /\ UNCHANGED <<files, used, reserved, response, name, temp, bounds>>

(* PROCESSING_WRITE_CONFLICT                                                *)
TrackConflict ==
    /\ pc = "track"
    /\ entries[name] # "none"
    /\ Goto("undo")
    /\ UNCHANGED <<files, ledger, memory, put, bounds>>

(* The save of track_inner fails: the entry is in memory, and the           *)
(* reservation does not own the path.                                       *)
TrackFails ==
    /\ pc \in {"register", "track"}
    /\ pc = "track" => entries[name] = "none"
    /\ Fault
    /\ entries' = [entries EXCEPT ![IF pc = "track" THEN name ELSE temp] = "pending"]
    /\ Goto("undo")
    /\ UNCHANGED <<files, ledger, used, reserved, response, put, days>>

WriteTemp ==
    /\ pc = "write"
    /\ files' = [files EXCEPT ![temp] = Size[name]]
    /\ Goto("link")
    /\ UNCHANGED <<ledger, memory, put, bounds>>

(* An I/O error leaves any part of the content behind.                      *)
WriteFails(bytes) ==
    /\ pc = "write"
    /\ Fault
    /\ bytes \in 0 .. Size[name]
    /\ files' = [files EXCEPT ![temp] = bytes]
    /\ Goto("undo")
    /\ UNCHANGED <<ledger, memory, put, days>>

(* The same, and the process dies of it.                                    *)
WriteTorn(bytes) ==
    /\ pc = "write"
    /\ Fault
    /\ bytes \in 0 .. Size[name]
    /\ files' = [files EXCEPT ![temp] = bytes]
    /\ Reset
    /\ UNCHANGED <<ledger, days>>

(* Mutant: the name is created first and filled afterwards.                 *)
LinkEmpty ==
    /\ pc = "link"
    /\ files' = [files EXCEPT ![name] = 0]
    /\ Goto("drop")
    /\ UNCHANGED <<ledger, memory, put, bounds>>

Link ==
    /\ pc = "link"
    /\ files' = [files EXCEPT ![name] = files[temp]]
    /\ Goto("drop")
    /\ UNCHANGED <<ledger, memory, put, bounds>>

(* The create of the temporary file or the link fails.                      *)
StepFails ==
    /\ pc \in {"create", "link"}
    /\ Fault
    /\ Goto("undo")
    /\ UNCHANGED <<files, ledger, memory, put, days>>

(* drop(temporary); an error of it is ignored.                              *)
DropTemp ==
    /\ pc = "drop"
    /\ files' = [files EXCEPT ![temp] = Absent]
    /\ Goto("commit")
    /\ UNCHANGED <<ledger, memory, put, bounds>>

DropTempFails ==
    /\ pc = "drop"
    /\ Fault
    /\ Goto("commit")
    /\ UNCHANGED <<files, ledger, memory, put, days>>

---------------------------------------------------------------------------
(* commit(): what is not kept is removed, the rest counts as used.          *)

CommitMemory ==
    /\ entries' = [p \in Paths |-> IF p = name THEN "kept"
                                   ELSE IF p \in tracked THEN "none" ELSE entries[p]]
    /\ files' = [p \in Paths |-> IF p \in tracked \ {name} THEN Absent ELSE files[p]]
    /\ used' = used + BytesOf({name})
    /\ reserved' = Less(reserved, 2 * Size[name])

(* Mutant: the reservation is given back, its bytes are not counted.        *)
CommitUncounted ==
    /\ pc = "commit"
    /\ entries' = [p \in Paths |-> IF p = name THEN "kept"
                                   ELSE IF p \in tracked THEN "none" ELSE entries[p]]
    /\ files' = [p \in Paths |-> IF p \in tracked \ {name} THEN Absent ELSE files[p]]
    /\ reserved' = Less(reserved, 2 * Size[name])
    /\ ledger' = entries'
    /\ Idle
    /\ UNCHANGED <<used, response, bounds>>

Commit ==
    /\ pc = "commit"
    /\ CommitMemory
    /\ ledger' = entries'
    /\ Idle
    /\ UNCHANGED <<response, bounds>>

(* A size cannot be read, or the ledger cannot be saved after the counters  *)
(* have been changed: the reservation is dropped after all.                 *)
CommitFails ==
    /\ pc = "commit"
    /\ Fault
    /\ CommitMemory \/ UNCHANGED <<files, entries, used, reserved>>
    /\ Goto("undo")
    /\ UNCHANGED <<ledger, response, put, days>>

---------------------------------------------------------------------------
(* An error unwinds put_bytes: the temporary file goes, then the            *)
(* reservation removes its paths (Drop), then execute() gives up the room   *)
(* for the response.                                                        *)

(* Undo leaves the paths it cannot remove, which keep their entries; when   *)
(* even their size cannot be read, the whole reservation counts for each.   *)
Undo(left) ==
    /\ pc = "undo"
    /\ left \subseteq (tracked \cup {temp}) \cap Present
    /\ IF left = {} THEN UNCHANGED faults ELSE Fault
    /\ files' = [p \in Paths |-> IF p \in (tracked \cup {temp}) \ left THEN Absent ELSE files[p]]
    /\ entries' = [p \in Paths |-> IF p \in tracked \ left THEN "none" ELSE entries[p]]
    /\ \/ used' = used + BytesOf(left \cap tracked)
       \/ used' = used + Cardinality(left \cap tracked) * 2 * Size[name]
    /\ reserved' = Less(reserved, 2 * Size[name])
    /\ Goto("release")
    /\ UNCHANGED <<ledger, response, put, days>>

ReleaseAll ==
    /\ Idle
    /\ reserved' = IF response THEN Less(reserved, Response) ELSE reserved
    /\ response' = FALSE

Release ==
    /\ pc = "release"
    /\ ledger' = entries
    /\ ReleaseAll
    /\ UNCHANGED <<files, entries, used, bounds>>

(* The error of the last save is ignored.                                   *)
ReleaseFails ==
    /\ pc = "release"
    /\ Fault
    /\ ReleaseAll
    /\ UNCHANGED <<files, ledger, entries, used, days>>

Crash ==
    /\ pc # "closed"
    /\ Fault
    /\ Reset
    /\ UNCHANGED <<files, ledger, days>>

(* Seven days pass without a command.                                       *)
DaysPass ==
    /\ pc = "closed" /\ days < MaxDays
    /\ days' = days + 1
    /\ ledger' = [p \in Paths |-> IF ledger[p] = "none" THEN "none" ELSE "old"]
    /\ UNCHANGED <<files, memory, pc, put, faults>>

(* PROCESSING_UNKNOWN_FILE names the file; somebody deletes it.             *)
DeleteUnknown(p) ==
    /\ pc = "closed"
    /\ files[p] # Absent /\ ledger[p] = "none"
    /\ files' = [files EXCEPT ![p] = Absent]
    /\ UNCHANGED <<ledger, memory, pc, put, bounds>>

---------------------------------------------------------------------------
Next ==
    \/ Open \/ Prune \/ SaveRemoval \/ PruneFails \/ Close
    \/ ReserveResponse \/ ReleaseResponse
    \/ \E n \in Names : Reserve(n)
    \/ \E t \in Temps : CreateTemp(t)
    \/ RegisterTemp \/ TrackName \/ TrackConflict \/ TrackFails
    \/ WriteTemp \/ Link \/ StepFails \/ DropTemp \/ DropTempFails
    \/ \E bytes \in 0 .. Limit : WriteFails(bytes) \/ WriteTorn(bytes)
    \/ Commit \/ CommitFails
    \/ \E left \in SUBSET Paths : Undo(left)
    \/ Release \/ ReleaseFails
    \/ Crash \/ DaysPass
    \/ \E p \in Paths : DeleteUnknown(p)

Spec == Init /\ [][Next]_vars

---------------------------------------------------------------------------
(* Every byte on the disk is counted: what a failed clean-up leaves behind, *)
(* what a dead process left, and both names of a file being put, although   *)
(* the files are only measured when the cache is opened.                    *)
EveryByteIsCounted ==
    pc # "closed" => BytesOf(Paths) <= used + reserved

(* README: files and reserved room together stay below the limit.  A failed *)
(* commit gives its reservation back twice, and the limit still holds.      *)
WithinLimit ==
    BytesOf(Paths) + (IF response THEN Response ELSE 0) <= Limit

(* The quota of processing_cache.rs: no byte escapes the account, and the   *)
(* account never exceeds the limit.                                         *)
BytesAreAccounted == EveryByteIsCounted /\ WithinLimit

(* "Register before writing content" (snapshots.rs): a file with content    *)
(* has an entry in the saved ledger at every moment, so that the next open  *)
(* accounts for it, whatever step a crash interrupted.                      *)
RegisteredBeforeContent ==
    \A p \in Paths : files[p] > 0 => ledger[p] # "none"

(* A name is either missing or complete: nobody reads a torn snapshot.      *)
SnapshotsComplete ==
    \A n \in Names : files[n] \in {Absent, Size[n]}

(* Whatever step a crash interrupted, the ledger and the files of snapshots.rs *)
(* can be opened again: counters of the right type, entries, whole files.   *)
LedgerIsSound == TypeOK /\ RegisteredBeforeContent /\ SnapshotsComplete

(* A snapshot whose commit has been saved stays for its seven days: no      *)
(* failed put, clean-up or recovery of another command removes it.          *)
CommittedStays ==
    [][\A n \in Names : ledger[n] = "kept" /\ files[n] # Absent => files'[n] = files[n]]_vars

---------------------------------------------------------------------------
(* "The processing path already exists" (processing_cache.rs): a snapshot   *)
(* is only refused with PROCESSING_WRITE_CONFLICT when its file is there.   *)
ConflictMeansFileExists ==
    pc = "track" /\ entries[name] # "none" => files[name] # Absent

=============================================================================
