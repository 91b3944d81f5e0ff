-------------------------- MODULE PublishedReport --------------------------
(***************************************************************************)
(* What the report database promises a reader of one date, whatever the    *)
(* commands, crashes and repairs behind it: there is one current version,   *)
(* it only ever moves on to a version that has not been retired, a version  *)
(* with items is only followed by versions with items, and what has been    *)
(* retired stays retired.                                                   *)
(***************************************************************************)
CONSTANTS Versions, Bodies, Full, NoVersion, NoText

VARIABLES
    current,    \* the published version, or NoVersion
    text,       \* its body
    retired     \* versions that can never be (again) the current one

Init ==
    /\ current \in Versions \cup {NoVersion}
    /\ text \in Bodies \cup {NoText}
    /\ retired = {}

(* A version is published; its predecessor is retired, and so may be others. *)
Publish(v, body) ==
    /\ v \notin retired
    /\ v # current
    /\ text \in Full => body \in Full
    /\ current' = v
    /\ text' = body
    /\ retired \cup ({current} \ {NoVersion}) \subseteq retired'
    /\ retired' \subseteq Versions \ {v}

(* A version is given up or removed without having been replaced.           *)
Retire ==
    /\ UNCHANGED <<current, text>>
    /\ retired \subseteq retired'
    /\ retired' \subseteq Versions \ {current}

Next == (\E v \in Versions, body \in Bodies : Publish(v, body)) \/ Retire

Spec == Init /\ [][Next]_<<current, text, retired>>

=============================================================================
