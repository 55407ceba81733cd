------------------------------- MODULE MCDesk -------------------------------
(* What people ask for, decide, plan and configure: parts that do not meet, *)
(* each in a world of its own, where the others rest in their first state.  *)
EXTENDS BrainCatalog, Approvals, WorkPlan, CommandDesk, EffortProbe, EndGrace, TLC

CONSTANTS Rooms, Handler, b1, b2, ta, tb

BPolicy == <<b1, b2>>
OneLine == {<<ta, tb>>}
Chain == [p \in Piece |-> 1..(p - 1)]
TwoLevels == <<"low", "max">>

VARIABLE room

In(r) == room = r /\ UNCHANGED room

\* A checklist with one open item; a command about a task that has not begun and
\* one that runs, or about one that is over and one that waits.
DeskInit ==
    /\ room \in Rooms
    /\ CatalogInit /\ ApprovalsInit /\ PlanInit /\ CommandsInit /\ ProbeInit /\ GraceInit
    /\ room # "approvals" => gated = TRUE
    /\ doc = [p \in Piece |-> IF p = 1 THEN "open" ELSE "absent"]
    /\ <<state[ta], state[tb]>> \in {<<"CREATED", "DISPATCHED">>, <<"COMPLETE", "QUEUED">>}
    /\ room # "commands" => state[ta] = "CREATED"
    /\ \A p \in Person : role[p] = "operator"

DeskNext ==
    \/ In("catalog") /\ CatalogNext /\ UNCHANGED <<apVars, planVars, deskVars, probeVars, graceVars>>
    \/ In("approvals") /\ ApprovalsNext /\ UNCHANGED <<catalogVars, planVars, deskVars, probeVars, graceVars>>
    \/ In("plan") /\ PlanNext /\ UNCHANGED <<catalogVars, apVars, deskVars, probeVars, graceVars>>
    \/ In("commands") /\ CommandsNext /\ UNCHANGED <<catalogVars, apVars, planVars, probeVars, graceVars>>
    \/ In("ends") /\ GraceNext /\ UNCHANGED <<catalogVars, apVars, planVars, deskVars, probeVars>>
    \/ In("probe") /\ ProbeNext /\ UNCHANGED <<catalogVars, apVars, planVars, deskVars, graceVars>>

DeskSpec == DeskInit /\ [][DeskNext]_<<room, catalogVars, apVars, planVars, deskVars, probeVars, graceVars>>

\* Types, of the part that moves.
DeskTypeOK ==
    /\ room = "catalog"   => CatalogTypeOK
    /\ room = "approvals" => ApprovalsTypeOK
    /\ room = "plan"      => PlanTypeOK
    /\ room = "commands"  => CommandsTypeOK
    /\ room = "probe"     => ProbeTypeOK
    /\ room = "ends"      => GraceTypeOK

\* Ids that nothing but equality tells apart: the handlers, which every part calls
\* its own, and approvals.
Interchangeable == Permutations(Handler) \cup Permutations(Approval)
=============================================================================
