---------------------------- MODULE HandoffLedger ----------------------------
(***************************************************************************)
(* What the scheduler promises about handoffs, however many controllers    *)
(* run and whatever fails: a task is put before the gateway under a row of *)
(* its own, at most one run is accepted under a row, and a row goes away   *)
(* with its run still out there only when it is undone, which is counted.  *)
(* There is one exception, counted as well: the gateway may accept a run   *)
(* whose row was undone while it was being asked.                          *)
(***************************************************************************)
EXTENDS Naturals

CONSTANT Task

VARIABLES
    record,      \* the row of each task: none, open, or with a run accepted under it
    accepted,    \* runs the gateway has accepted
    undone       \* those of them that have no row, or lost it

vars == <<record, accepted, undone>>

Init ==
    /\ record = [t \in Task |-> "none"]
    /\ accepted = [t \in Task |-> 0]
    /\ undone = [t \in Task |-> 0]

\* A row is written before the gateway is asked, and only if there is none.
Open(t) ==
    /\ record[t] = "none"
    /\ record' = [record EXCEPT ![t] = "open"]
    /\ UNCHANGED <<accepted, undone>>

\* The gateway takes the run; nobody else has had one accepted under this row.
Accept(t) ==
    /\ record[t] = "open"
    /\ record' = [record EXCEPT ![t] = "run"]
    /\ accepted' = [accepted EXCEPT ![t] = accepted[t] + 1]
    /\ UNCHANGED undone

\* The gateway takes a run whose row was undone in the meantime.
AcceptUndone(t) ==
    /\ accepted' = [accepted EXCEPT ![t] = accepted[t] + 1]
    /\ undone' = [undone EXCEPT ![t] = undone[t] + 1]
    /\ UNCHANGED record

\* Rows go: of a run that was refused, or all those of a pass that is undone.
Erase(S) ==
    /\ record' = [t \in Task |-> IF t \in S THEN "none" ELSE record[t]]
    /\ undone' = [t \in Task |->
           undone[t] + (IF t \in S /\ record[t] = "run" THEN 1 ELSE 0)]
    /\ UNCHANGED accepted

Next ==
    \/ \E t \in Task : Open(t) \/ Accept(t) \/ AcceptUndone(t)
    \/ \E S \in SUBSET Task : Erase(S)

Spec == Init /\ [][Next]_vars

\* The books balance: a run that was accepted is on record or was undone.
Balanced ==
    \A t \in Task : accepted[t] = undone[t] + (IF record[t] = "run" THEN 1 ELSE 0)
==============================================================================
