---------------------------- MODULE WorkspaceLock ----------------------------
(***************************************************************************)
(* What the leases promise the executions that share a workspace: whoever  *)
(* works holds its path, and nobody holds a path against a holder it       *)
(* excludes.  An expired claim may be taken back in the very step that     *)
(* grants the path to another, and a holder may stop working long before   *)
(* it lets go, but nobody lets go and works on.                            *)
(***************************************************************************)
CONSTANTS
    Holder,     \* who may hold a path
    Conflict    \* the pairs that may not hold their paths at the same time

VARIABLES
    holders,    \* who holds its path
    working     \* who is on record as working in it

Init == holders = {} /\ working = {}

\* h is granted its path: those that keep theirs do not exclude it.
Grant(h) ==
    /\ h \in holders'
    /\ \A k \in holders' \ {h} : k \in holders /\ <<h, k>> \notin Conflict /\ <<k, h>> \notin Conflict
    /\ working' \subseteq (working \cap holders') \ {h}

\* A holder starts working.
Work(h) ==
    /\ h \in holders
    /\ working' = working \cup {h}
    /\ UNCHANGED holders

\* Some stop working, and some of those that do not work let go.
Leave ==
    /\ holders' \subseteq holders
    /\ working' \subseteq working \cap holders'

Next == Leave \/ \E h \in Holder : Grant(h) \/ Work(h)

vars == <<holders, working>>

Spec == Init /\ [][Next]_vars
==============================================================================
