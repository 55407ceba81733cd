-------------------------- MODULE ApprovalsProofs ---------------------------
(* The L3 gate, for any number of approvals, operators, attempts and         *)
(* revisions.                                                                *)
EXTENDS Approvals, TLAPS
LOCAL INSTANCE TaskLifecycle

\* The part of the types the argument rests on.
GateTypes ==
    /\ gated \in BOOLEAN /\ approved \in BOOLEAN
    /\ attempts \in Nat
    /\ answer \in [Approval -> {"none", "open"} \cup Decision]
    /\ latest \in Approval \cup {NoApproval}
    /\ decider \in [Decider -> Deciding]
    /\ tick \in [at : {"idle", "listed", "human", "block", "pass", "handing"}, seen : TaskStatus]

\* The row decided last carries a decision, whatever was asked since; an operator who
\* is deciding works on a row that exists; an APPROVE on any row was noticed; and the
\* pass lets a gated task by only after one.
GateIInv ==
    /\ GateTypes
    /\ \A d \in Decider : decider[d].at # "idle" => decider[d].on \in Approval /\ answer[decider[d].on] # "none"
    /\ latest # NoApproval => answer[latest] \in Decision
    /\ \A a \in Approval : answer[a] = "APPROVE" => approved
    /\ gated /\ tick.at \in {"pass", "handing"} => approved
    /\ gated /\ attempts > 0 => approved

LEMMA GateInit == ApprovalsInit => GateIInv
<1> SUFFICES ASSUME ApprovalsInit PROVE GateIInv
  OBVIOUS
<1>1. NotDeciding \in Deciding /\ NotDeciding.at = "idle"
  BY DEF NotDeciding, Deciding, Decision
<1>2. decider \in [Decider -> Deciding] /\ \A d \in Decider : decider[d].at = "idle"
  BY <1>1 DEF ApprovalsInit
<1>3. /\ tick \in [at : {"idle", "listed", "human", "block", "pass", "handing"}, seen : TaskStatus]
      /\ tick.at = "idle"
  BY DEF ApprovalsInit, NoTick, TaskStatus
<1>4. answer \in [Approval -> {"none", "open"} \cup Decision] /\ \A a \in Approval : answer[a] = "none"
  BY DEF ApprovalsInit
<1>5. latest = NoApproval /\ attempts = 0 /\ gated \in BOOLEAN /\ approved = FALSE
  BY DEF ApprovalsInit
<1>6. GateTypes
  BY <1>2, <1>3, <1>4, <1>5 DEF GateTypes
<1> QED BY <1>2, <1>3, <1>4, <1>5, <1>6 DEF GateIInv

LEMMA GateStep == GateIInv /\ [ApprovalsNext]_apVars => GateIInv'
<1> SUFFICES ASSUME GateIInv, [ApprovalsNext]_apVars PROVE GateIInv'
  OBVIOUS
<1> USE ApprovalsAssumption DEF GateIInv, GateTypes
<1>1. ASSUME NEW a \in Approval, RaiseApproval(a) PROVE GateIInv'
  BY <1>1 DEF RaiseApproval, CreateApproval, Decision
<1>2. ASSUME NEW a \in Approval, ParkForApproval(a) PROVE GateIInv'
  BY <1>2 DEF ParkForApproval
<1>3. ASSUME NEW d \in Decider, NEW a \in Approval, NEW says \in Decision, BeginDecide(d, a, says)
      PROVE  GateIInv'
  <2>1. [at |-> "writing", on |-> a, says |-> says] \in Deciding
    BY DEF Deciding
  <2> QED BY <1>3, <2>1 DEF BeginDecide
<1>4. ASSUME NEW d \in Decider, WriteDecision(d) PROVE GateIInv'
  <2> DEFINE a == decider[d].on
             says == decider[d].says
  <2>1. a \in Approval /\ says \in Decision /\ answer[a] # "none"
    BY <1>4 DEF WriteDecision, Deciding
  <2>2. answer' = [answer EXCEPT ![a] = says] /\ latest' = a
    BY <1>4 DEF WriteDecision
  <2>3. approved' = (approved \/ says = "APPROVE")
    BY <1>4 DEF WriteDecision
  <2>4. UNCHANGED <<gated, attempts, tick>>
    BY <1>4 DEF WriteDecision
  <2>5. /\ decider' \in [Decider -> Deciding]
        /\ \A e \in Decider : decider'[e].at # "idle" => decider[e].at # "idle" /\ decider'[e].on = decider[e].on
    BY <1>4, <2>1 DEF WriteDecision, Deciding, NotDeciding, Decision
  <2>6. answer' \in [Approval -> {"none", "open"} \cup Decision] /\ answer'[a] \in Decision
    BY <2>1, <2>2
  <2>7. approved' \in BOOLEAN /\ (approved => approved')
    BY <2>3
  <2>8. \A b \in Approval : answer'[b] = "APPROVE" => approved'
    BY <2>1, <2>2, <2>3
  <2>9. \A b \in Approval : answer[b] # "none" => answer'[b] # "none"
    BY <2>1, <2>2 DEF Decision
  <2> HIDE DEF a, says
  <2> QED BY <2>1, <2>2, <2>4, <2>5, <2>6, <2>7, <2>8, <2>9
<1>5. ASSUME NEW d \in Decider, MoveDecided(d) PROVE GateIInv'
  BY <1>5 DEF MoveDecided, NotDeciding, Deciding, Decision
<1>6. CASE ListTask
  BY <1>6 DEF ListTask, AdmissibleStatus, WaitingStatus, TaskStatus
<1>7. CASE CheckApproval
  BY <1>7 DEF CheckApproval, CreateApproval, TurnsDown, Unused, Decision
<1>8. CASE ParkTask
  BY <1>8 DEF ParkTask, NoTick, TaskStatus
<1>9. CASE DispatchTask
  BY <1>9 DEF DispatchTask, NoTick, TaskStatus
<1>10. CASE HandoffReturns
  BY <1>10 DEF HandoffReturns, NoTick, TaskStatus
<1>11. ASSUME NEW outcome \in {"done", "failed"}, EndRun(outcome) PROVE GateIInv'
  BY <1>11 DEF EndRun
<1>12. CASE ReviseTask
  BY <1>12 DEF ReviseTask
<1>13. CASE CancelTask
  BY <1>13 DEF CancelTask
<1>14. CASE UNCHANGED apVars
  BY <1>14 DEF apVars
<1> QED
  BY <1>1, <1>2, <1>3, <1>4, <1>5, <1>6, <1>7, <1>8, <1>9, <1>10, <1>11, <1>12, <1>13, <1>14
  DEF ApprovalsNext, Admission

\* What the gate rests on, as one invariant.
THEOREM GateInductive == ApprovalsSpec => []GateIInv
  BY GateInit, GateStep, PTL DEF ApprovalsSpec

\* An L3 task never has an attempt before somebody has answered APPROVE, however many
\* people ask, decide and revise at once. (checkApproval, decide)
THEOREM UnapprovedNeverRuns == ApprovalsSpec => []NothingUnapprovedRuns
<1>1. GateIInv => NothingUnapprovedRuns
  BY DEF GateIInv, NothingUnapprovedRuns
<1> QED BY <1>1, GateInductive, PTL

-----------------------------------------------------------------------------
(* Types *)

LEMMA ApprovalsStarts == ApprovalsInit => ApprovalsTypeOK
<1> SUFFICES ASSUME ApprovalsInit PROVE ApprovalsTypeOK
  OBVIOUS
<1>1. GateTypes
  BY GateInit DEF GateIInv
<1>2. attempts \in 0..MaxAttempts /\ revisions \in 0..MaxRevisions
  BY ApprovalsAssumption DEF ApprovalsInit
<1>3. tick \in [at : {"idle", "listed", "human", "block", "pass", "handing"}, seen : AdmissibleStatus]
  BY DEF ApprovalsInit, NoTick, AdmissibleStatus, WaitingStatus
<1>4. /\ status \in TaskStatus /\ owed \in BOOLEAN /\ attempt \in {"none", "live", "done", "failed"}
      /\ unparked = {}
  BY DEF ApprovalsInit, TaskStatus
<1> QED BY <1>1, <1>2, <1>3, <1>4 DEF GateTypes, ApprovalsTypeOK

\* What the gate's own types leave out.
RestTyped ==
    /\ status \in TaskStatus /\ owed \in BOOLEAN
    /\ attempt \in {"none", "live", "done", "failed"}
    /\ attempts \in 0..MaxAttempts /\ revisions \in 0..MaxRevisions
    /\ unparked \subseteq Approval \ Unused
    /\ tick \in [at : {"idle", "listed", "human", "block", "pass", "handing"}, seen : AdmissibleStatus]

LEMMA MoveTyped == ASSUME status \in TaskStatus, NEW to \in TaskStatus, Move(to) PROVE status' \in TaskStatus
  BY DEF Move

LEMMA ApprovalsTypesKept ==
  ASSUME ApprovalsTypeOK, GateIInv, [ApprovalsNext]_apVars PROVE ApprovalsTypeOK'
<1> DEFINE Ticks == [at : {"idle", "listed", "human", "block", "pass", "handing"}, seen : AdmissibleStatus]
<1>1. GateTypes /\ GateTypes'
  BY GateStep DEF GateIInv
<1> SUFFICES RestTyped'
  BY <1>1 DEF GateTypes, RestTyped, ApprovalsTypeOK
<1>2. RestTyped
  BY DEF ApprovalsTypeOK, RestTyped
<1>3. {"QUEUED", "DISPATCHED", "RUNNING", "WAIT_HUMAN", "WAIT_RUNTIME", "BLOCKED", "COMPLETE", "CANCELLED"}
         \subseteq TaskStatus
  BY DEF TaskStatus, WaitingStatus
<1>4. NoTick \in Ticks
  BY DEF NoTick, AdmissibleStatus, WaitingStatus
<1>5. \A to \in TaskStatus : Move(to) => status' \in TaskStatus
  BY <1>2, MoveTyped DEF RestTyped
<1>6. ASSUME NEW a, CreateApproval(a) PROVE unparked \subseteq Approval \ Unused'
  BY <1>1, <1>2, <1>6 DEF CreateApproval, RestTyped, Unused, GateTypes
<1> USE DEF RestTyped
<1>7. ASSUME NEW a \in Approval, RaiseApproval(a) PROVE RestTyped'
  <2>1. a \notin Unused'
    BY <1>1, <1>7 DEF RaiseApproval, CreateApproval, Unused, GateTypes
  <2>2. unparked' \subseteq Approval \ Unused'
    BY <1>6, <1>7, <2>1 DEF RaiseApproval
  <2> QED BY <1>2, <1>7, <2>2 DEF RaiseApproval
<1>8. ASSUME NEW a \in Approval, ParkForApproval(a) PROVE RestTyped'
  <2>1. status' \in TaskStatus
    BY <1>2, <1>3, <1>5, <1>8 DEF ParkForApproval
  <2>2. unparked' \subseteq Approval \ Unused'
    BY <1>2, <1>8 DEF ParkForApproval, Unused
  <2> QED BY <1>2, <1>8, <2>1, <2>2 DEF ParkForApproval
<1>9. ASSUME NEW d \in Decider, WriteDecision(d) PROVE RestTyped'
  <2>1. decider[d].says \in Decision
    BY <1>1 DEF GateTypes, Deciding
  <2>2. Unused' \subseteq Unused
    BY <1>1, <1>9, <2>1 DEF WriteDecision, Unused, GateTypes, Decision
  <2> QED BY <1>2, <1>9, <2>2 DEF WriteDecision
<1>10. ASSUME NEW d \in Decider, MoveDecided(d) PROVE RestTyped'
  <2>1. status' \in TaskStatus
    BY <1>2, <1>3, <1>5, <1>10 DEF MoveDecided
  <2> QED BY <1>2, <1>10, <2>1 DEF MoveDecided, Unused
<1>11. CASE ListTask
  BY <1>2, <1>11 DEF ListTask, Unused
<1>12. CASE CheckApproval
  <2>1. tick' \in Ticks
    BY <1>2, <1>12 DEF CheckApproval
  <2>2. unparked' \subseteq Approval \ Unused'
    BY <1>2, <1>6, <1>12 DEF CheckApproval, Unused
  <2> QED BY <1>2, <1>12, <2>1, <2>2 DEF CheckApproval
<1>13. CASE ParkTask
  <2>1. status' \in TaskStatus
    BY <1>3, <1>5, <1>13 DEF ParkTask
  <2> QED BY <1>2, <1>4, <1>13, <2>1 DEF ParkTask, Unused
<1>14. CASE DispatchTask
  <2>1. status' \in TaskStatus
    BY <1>2, <1>3, <1>14 DEF DispatchTask, Requeued
  <2>2. tick' \in Ticks
    BY <1>2, <1>4, <1>14 DEF DispatchTask
  <2>3. attempt' \in {"none", "live", "done", "failed"} /\ attempts' \in 0..MaxAttempts
    BY <1>2, <1>14, ApprovalsAssumption DEF DispatchTask
  <2> QED BY <1>2, <1>14, <2>1, <2>2, <2>3 DEF DispatchTask, Unused
<1>15. CASE HandoffReturns
  <2>1. status' \in TaskStatus /\ attempt' \in {"none", "live", "done", "failed"}
    BY <1>2, <1>3, <1>5, <1>15 DEF HandoffReturns
  <2> QED BY <1>2, <1>4, <1>15, <2>1 DEF HandoffReturns, Unused
<1>16. ASSUME NEW outcome \in {"done", "failed"}, EndRun(outcome) PROVE RestTyped'
  <2>1. status' \in TaskStatus
    BY <1>3, <1>5, <1>16 DEF EndRun
  <2> QED BY <1>2, <1>16, <2>1 DEF EndRun, Unused
<1>17. CASE ReviseTask
  BY <1>2, <1>3, <1>17, ApprovalsAssumption DEF ReviseTask, Unused
<1>18. CASE CancelTask
  BY <1>2, <1>3, <1>18 DEF CancelTask, Unused
<1>19. ASSUME NEW d \in Decider, NEW a \in Approval, NEW says \in Decision, BeginDecide(d, a, says)
       PROVE  RestTyped'
  BY <1>2, <1>19 DEF BeginDecide, Unused
<1>20. CASE UNCHANGED apVars
  BY <1>2, <1>20 DEF apVars, Unused
<1> QED
  BY <1>7, <1>8, <1>9, <1>10, <1>11, <1>12, <1>13, <1>14, <1>15, <1>16, <1>17, <1>18, <1>19, <1>20
  DEF ApprovalsNext, Admission

\* What a task, its approvals, the operators who decide and the pass hold is of its
\* type; no approval whose task is still to be parked is one nobody asked for.
THEOREM ApprovalsTyped == ApprovalsSpec => []ApprovalsTypeOK
<1>1. ApprovalsInit => ApprovalsTypeOK /\ GateIInv
  BY ApprovalsStarts, GateInit
<1>2. ApprovalsTypeOK /\ GateIInv /\ [ApprovalsNext]_apVars => ApprovalsTypeOK' /\ GateIInv'
  BY ApprovalsTypesKept, GateStep
<1> QED BY <1>1, <1>2, PTL DEF ApprovalsSpec
=============================================================================
