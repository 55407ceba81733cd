------------------------ MODULE WorkControllerProofs ------------------------
(***************************************************************************)
(* Theorems about WorkController for any number of tasks, attempts and     *)
(* paths.  Two inductive invariants carry them.  The first holds whatever  *)
(* the environment does: the types, the three table invariants, and what   *)
(* the pass and the stop command know about the rows they are waiting for. *)
(* The second adds what is true while nobody disturbs the controller, and  *)
(* relates the tables to the runs at the gateway.                          *)
(***************************************************************************)
EXTENDS WorkController, TLAPS

\* While the pass waits for the gateway it has a row in hand.
InHand == pc \in {"aborting", "handoff", "provisioning", "marking"} => cur \in Execution

\* While it waits for a handoff that row is either finalized behind its back or
\* still PENDING with its lease.
HandoffKeepsLease ==
    pc = "handoff" => Final(cur) \/ (execStatus[cur] = "PENDING" /\ Holds(cur))

\* A stop finalizes its execution before it waits.
StoppingIsFinal == \A e \in stopping : Final(e)

\* Attempts that have not been created have no status and no lease.
UnbornIsBlank ==
    \A e \in Execution : e[2] > revision[e[1]] => execStatus[e] = "NONE" /\ ~Holds(e)

\* Whatever the pass has in hand, and whatever was ever handed to the gateway,
\* is an attempt that has been created.
HandIsKnown ==
    /\ \A e \in stalled : execStatus[e] # "NONE"
    /\ pc \in {"aborting", "handoff", "provisioning", "marking"} => execStatus[cur] # "NONE"
SentIsKnown == \A e \in Execution : run[e] # "none" => execStatus[e] # "NONE"

IInv ==
    /\ TypeOK
    /\ LeaseTableExclusive
    /\ LiveHoldsLease
    /\ OneInFlight
    /\ BudgetsRespected
    /\ InHand
    /\ HandoffKeepsLease
    /\ HandIsKnown
    /\ SentIsKnown
    /\ StoppingIsFinal
    /\ UnbornIsBlank

-----------------------------------------------------------------------------
(* The names and the rows *)

LEMMA Names ==
    /\ WaitingStatus \subseteq TaskStatus
    /\ AdmissibleStatus \subseteq TaskStatus
    /\ {"CREATED", "QUEUED", "DISPATCHED", "BLOCKED", "COMPLETE", "FAILED", "CANCELLED",
        "WAIT_QUOTA", "WAIT_RESOURCE", "WAIT_RUNTIME"} \subseteq TaskStatus
    /\ ExecutionTerminal \subseteq TaskStatus
    /\ ExecutionTerminal \subseteq ExecutionStatus
    /\ {"PENDING", "DISPATCHED", "BLOCKED", "FAILED", "COMPLETE", "CANCELLED"} \subseteq ExecutionStatus
BY DEF WaitingStatus, AdmissibleStatus, TaskStatus, ExecutionTerminal, ExecutionStatus

LEMMA Rows ==
    ASSUME TypeOK
    PROVE  /\ \A e \in Execution : TaskOf(e) \in Task
           /\ \A t \in Task : HasExecution(t) => Latest(t) \in Execution
           /\ \A t \in Task : revision[t] < MaxRevision => NewExecution(t) \in Execution
BY LimitAssumption DEF TypeOK, Execution, TaskOf, HasExecution, Latest, NewExecution

-----------------------------------------------------------------------------
(* Type correctness, one lemma for each of the shared verdicts *)

\* What the lease variable may hold.
LeaseTable == [Execution -> [at : Nat, expired : BOOLEAN]]

\* At most the lease of e is gone, and nothing else about the leases changed.
ReleasesAtMost(e) ==
    \A f \in Execution : lease'[f] = lease[f] \/ (f = e /\ lease'[f] = NoLease)

LEMMA ReleaseEffect ==
    ASSUME TypeOK, NEW e \in Execution, UNCHANGED lease \/ Release(e) \/ ReleaseIfFirst(e)
    PROVE  lease' \in LeaseTable /\ ReleasesAtMost(e)
<1>1. lease \in LeaseTable
  BY DEF TypeOK, LeaseTable
<1>2. NoLease \in [at : Nat, expired : BOOLEAN]
  BY DEF NoLease
<1>3. lease' = lease \/ lease' = [lease EXCEPT ![e] = NoLease]
  BY DEF Release, ReleaseIfFirst
<1> QED
  BY <1>1, <1>2, <1>3 DEF LeaseTable, ReleasesAtMost

LEMMA FinalizeRunTypes ==
    ASSUME TypeOK, NEW e \in Execution, NEW verdict \in {"COMPLETE", "CANCELLED"},
           FinalizeRun(e, verdict)
    PROVE  /\ status' \in [Task -> TaskStatus]
           /\ quotaRetries' \in [Task -> Nat]
           /\ resourceRetries' \in [Task -> Nat]
           /\ execStatus' \in [Execution -> ExecutionStatus \cup {"NONE"}]
           /\ lease' \in LeaseTable
<1>1. lease' \in LeaseTable
  BY ReleaseEffect DEF FinalizeRun
<1> QED
  BY <1>1, Names, Rows DEF TypeOK, FinalizeRun, ResetRetries

LEMMA RuntimeFailureEffect ==
    ASSUME NEW e \in Execution, ApplyRuntimeFailure(e)
    PROVE  /\ execStatus' = [execStatus EXCEPT ![e] = "FAILED"]
           /\ \/ UNCHANGED <<status, lease>>
              \/ /\ status[TaskOf(e)] \in {"DISPATCHED", "RUNNING"}
                 /\ \E w \in {"QUEUED", "BLOCKED"} : status' = [status EXCEPT ![TaskOf(e)] = w]
                 /\ ReleaseIfFirst(e)
<1> DEFINE within == RecentFailures(TaskOf(e), execStatus') <= RuntimeRetryLimit
<1>1. CASE within
  BY <1>1 DEF ApplyRuntimeFailure
<1>2. CASE ~within
  BY <1>2 DEF ApplyRuntimeFailure
<1> QED
  BY <1>1, <1>2

LEMMA RuntimeFailureTypes ==
    ASSUME TypeOK, NEW e \in Execution, ApplyRuntimeFailure(e)
    PROVE  /\ status' \in [Task -> TaskStatus]
           /\ execStatus' \in [Execution -> ExecutionStatus \cup {"NONE"}]
           /\ lease' \in LeaseTable
<1>1. execStatus' = [execStatus EXCEPT ![e] = "FAILED"]
  BY RuntimeFailureEffect
<1>2. \/ UNCHANGED <<status, lease>>
      \/ \E w \in {"QUEUED", "BLOCKED"} :
            status' = [status EXCEPT ![TaskOf(e)] = w] /\ ReleaseIfFirst(e)
  BY RuntimeFailureEffect
<1>3. TaskOf(e) \in Task /\ {"QUEUED", "BLOCKED"} \subseteq TaskStatus
  BY Names, Rows
<1>4. status' \in [Task -> TaskStatus]
  BY <1>2, <1>3 DEF TypeOK
<1>5. lease' \in LeaseTable
  BY <1>2, ReleaseEffect
<1>6. execStatus' \in [Execution -> ExecutionStatus \cup {"NONE"}]
  BY <1>1, Names DEF TypeOK
<1> QED
  BY <1>4, <1>5, <1>6

LEMMA PassDiesTypes ==
    ASSUME TypeOK, PassDies
    PROVE  /\ pc' \in {"idle", "reclaim", "aborting", "tick", "handoff", "provisioning", "marking"}
           /\ cur' \in Execution \cup {NoExecution}
           /\ stalled' \in SUBSET Execution
           /\ snapshot' \in [Task -> AdmissibleStatus \cup {"none"}]
BY DEF PassDies

LEMMA MoveOnTypes ==
    ASSUME TypeOK, NEW t \in Task, NEW from \in TaskStatus, NEW w \in TaskStatus,
           MoveOn(t, from, w)
    PROVE  /\ status' \in [Task -> TaskStatus]
           /\ pc' \in {"idle", "reclaim", "aborting", "tick", "handoff", "provisioning", "marking"}
           /\ cur' \in Execution \cup {NoExecution}
           /\ stalled' \in SUBSET Execution
           /\ snapshot' \in [Task -> AdmissibleStatus \cup {"none"}]
BY PassDiesTypes DEF TypeOK, MoveOn, Considered

LEMMA HandoffCatchTypes ==
    ASSUME TypeOK, cur \in Execution, NEW w \in TaskStatus, NEW bump \in Nat, HandoffCatch(w, bump)
    PROVE  /\ status' \in [Task -> TaskStatus]
           /\ quotaRetries' \in [Task -> Nat]
           /\ execStatus' \in [Execution -> ExecutionStatus \cup {"NONE"}]
           /\ lease' \in LeaseTable
           /\ pc' \in {"idle", "reclaim", "aborting", "tick", "handoff", "provisioning", "marking"}
           /\ cur' \in Execution \cup {NoExecution}
           /\ stalled' \in SUBSET Execution
           /\ snapshot' \in [Task -> AdmissibleStatus \cup {"none"}]
<1> DEFINE t == TaskOf(cur)
<1>1. t \in Task /\ status[t] \in TaskStatus
  BY Rows DEF TypeOK
<1>2. lease' \in LeaseTable
  BY ReleaseEffect DEF HandoffCatch
<1>3. CASE Final(cur)
  BY <1>2, <1>3, PassDiesTypes DEF TypeOK, HandoffCatch
<1>4. CASE ~Final(cur)
  <2>1. MoveOn(t, status[t], w)
    BY <1>4 DEF HandoffCatch
  <2>2. execStatus' = [execStatus EXCEPT ![cur] = "FAILED"]
        /\ quotaRetries' = [quotaRetries EXCEPT ![t] = @ + bump]
    BY <1>4 DEF HandoffCatch
  <2> QED
    BY <1>1, <1>2, <2>1, <2>2, MoveOnTypes, Names DEF TypeOK
<1> QED
  BY <1>3, <1>4

LEMMA ProbeNextTypes ==
    ASSUME TypeOK, NEW tasks \in SUBSET Task, NEW s \in ReconciledStatus \cup {"none"}, ProbeNext(tasks, s)
    PROVE  /\ listed' \subseteq Task
           /\ listStatus' \in ReconciledStatus \cup {"none"}
           /\ probed' \in Execution \cup {NoExecution}
BY Rows DEF TypeOK, ProbeNext, Probeable, ReconcilerRests

-----------------------------------------------------------------------------
(* Type correctness, one step for each action *)

LEMMA SinkTypes ==
    ASSUME TypeOK, Sink
    PROVE  TypeOK'
<1> PICK e \in Execution :
        \/ RunEndsCleanly(e) \/ RunEndsAborted(e) \/ RunEndsAbnormally(e)
        \/ LateErrorQuota(e) \/ LateErrorTransient(e) \/ LateErrorFatal(e)
  BY DEF Sink
<1>1. CASE RunEndsCleanly(e) \/ RunEndsAborted(e)
  BY <1>1, FinalizeRunTypes
  DEF TypeOK, LeaseTable, RunEndsCleanly, RunEndsAborted, passVars, otherVars, reconVars
<1>2. CASE RunEndsAbnormally(e)
  BY <1>2, RuntimeFailureTypes
  DEF TypeOK, LeaseTable, RunEndsAbnormally, passVars, otherVars, reconVars
<1>3. ASSUME NEW verdict \in {"FAILED", "BLOCKED"}, NEW w \in {"WAIT_QUOTA", "WAIT_RESOURCE", "BLOCKED"},
             LateVerdict(e, verdict, w)
      PROVE  /\ status' \in [Task -> TaskStatus]
             /\ execStatus' \in [Execution -> ExecutionStatus \cup {"NONE"}]
             /\ lease' \in LeaseTable
  <2>1. lease' \in LeaseTable
    BY <1>3, ReleaseEffect DEF LateVerdict
  <2>2. w \in TaskStatus /\ verdict \in ExecutionStatus
    BY Names
  <2> QED
    BY <1>3, <2>1, <2>2 DEF TypeOK, LateVerdict
<1>4. ASSUME NEW c \in [Task -> Nat], NEW w PROVE Bump(c, e, w) \in [Task -> Nat]
  <2>1. [c EXCEPT ![TaskOf(e)] = @ + 1] \in [Task -> Nat]
    BY Rows
  <2> QED
    BY <2>1, Zenon DEF Bump
<1>5. CASE LateErrorQuota(e)
  BY <1>3, <1>4, <1>5 DEF TypeOK, LeaseTable, LateErrorQuota, passVars, otherVars, reconVars
<1>6. CASE LateErrorTransient(e)
  BY <1>3, <1>4, <1>6 DEF TypeOK, LeaseTable, LateErrorTransient, passVars, otherVars, reconVars
<1>7. CASE LateErrorFatal(e)
  BY <1>3, <1>7 DEF TypeOK, LeaseTable, LateErrorFatal, passVars, otherVars, reconVars
<1> QED
  BY <1>1, <1>2, <1>5, <1>6, <1>7

LEMMA ReconcilerTypes ==
    ASSUME TypeOK, Reconciler
    PROVE  TypeOK'
<1>1. ASSUME NEW s \in ReconciledStatus, ReconcilerLists(s) PROVE TypeOK'
  <2>1. ProbeNext({t \in Task : status[t] = s}, s)
    BY <1>1 DEF ReconcilerLists
  <2> QED
    BY <1>1, <2>1, ProbeNextTypes
    DEF TypeOK, ReconcilerLists, taskVars, execVars, leaseVars, passVars
<1>2. ASSUME ProbeNext(listed, listStatus)
      PROVE  /\ listed' \subseteq Task
             /\ listStatus' \in ReconciledStatus \cup {"none"}
             /\ probed' \in Execution \cup {NoExecution}
  BY <1>2, ProbeNextTypes DEF TypeOK
<1>3. ASSUME NEW e \in Execution, ReconcilerPasses(e) PROVE TypeOK'
  BY <1>2, <1>3 DEF TypeOK, ReconcilerPasses, taskVars, execVars, leaseVars, passVars
<1>4. ASSUME NEW e \in Execution, ReconcileSettles(e) PROVE TypeOK'
  BY <1>2, <1>4, FinalizeRunTypes DEF TypeOK, LeaseTable, ReconcileSettles, passVars
<1>5. ASSUME NEW e \in Execution, ReconcileRecovers(e) PROVE TypeOK'
  <2>1. CASE Final(e)
    BY <1>5, <2>1 DEF TypeOK, ReconcileRecovers, ReconcilerRests, passVars
  <2>2. CASE ~Final(e)
    BY <1>2, <1>5, <2>2, RuntimeFailureTypes DEF TypeOK, LeaseTable, ReconcileRecovers, passVars
  <2> QED
    BY <2>1, <2>2
<1>6. ASSUME NEW e \in Execution, ReconcileAborts(e) PROVE TypeOK'
  BY <1>2, <1>6 DEF TypeOK, RunState, ReconcileAborts, taskVars, execVars, leaseVars, passVars
<1> QED
  BY <1>1, <1>3, <1>4, <1>5, <1>6 DEF Reconciler

LEMMA OperatorTypes ==
    ASSUME TypeOK, Operator
    PROVE  TypeOK'
<1> USE DEF execVars, leaseVars, passVars, otherVars, reconVars, taskVars
<1>1. ASSUME NEW t \in Task, Start(t) \/ Cancel(t) PROVE TypeOK'
  BY <1>1, Names DEF TypeOK, Start, Cancel
<1>2. ASSUME NEW t \in Task, NEW e \in Execution, StopEnds(t, e)
      PROVE  status' \in [Task -> TaskStatus] /\ lease' \in LeaseTable
  <2>1. lease' \in LeaseTable
    BY <1>2, ReleaseEffect DEF StopEnds
  <2> QED
    BY <1>2, <2>1, Names DEF TypeOK, StopEnds
<1>3. ASSUME NEW t \in Task, Stop(t) PROVE TypeOK'
  <2>1. CASE ~(HasExecution(t) /\ InFlight(Latest(t)))
    BY <1>3, <2>1, Names DEF TypeOK, Stop
  <2>2. CASE HasExecution(t) /\ InFlight(Latest(t))
    <3>1. Latest(t) \in Execution
      BY <2>2, Rows
    <3>2. execStatus' = [execStatus EXCEPT ![Latest(t)] = "CANCELLED"]
      BY <1>3, <2>2 DEF Stop
    <3>3. execStatus' \in [Execution -> ExecutionStatus \cup {"NONE"}]
      BY <3>1, <3>2, Names DEF TypeOK
    <3>4. /\ status' \in [Task -> TaskStatus]
          /\ lease' \in LeaseTable
          /\ stopping' \subseteq Execution
      BY <1>2, <1>3, <2>2, <3>1 DEF TypeOK, LeaseTable, Stop
    <3> QED
      BY <1>3, <3>3, <3>4 DEF TypeOK, LeaseTable, Stop
  <2> QED
    BY <2>1, <2>2
<1>4. ASSUME NEW t \in Task, NEW sessionMode \in {"FRESH", "CONTINUE"}, Revise(t, sessionMode)
      PROVE  TypeOK'
  BY <1>4, Names DEF TypeOK, Revise, ResetRetries
<1>5. ASSUME NEW t \in Task, Settle(t) PROVE TypeOK'
  <2>1. Latest(t) \in Execution
    BY <1>5, Rows DEF Settle
  <2>2. lease' \in LeaseTable
    BY <1>5, <2>1, ReleaseEffect DEF Settle
  <2>3. execStatus[Latest(t)] \in TaskStatus
    BY <1>5, Names DEF Settle, Final
  <2> QED
    BY <1>5, <2>2, <2>3 DEF TypeOK, LeaseTable, Settle
<1>6. ASSUME NEW e \in Execution, StopAborts(e) PROVE TypeOK'
  <2>1. status' \in [Task -> TaskStatus] /\ lease' \in LeaseTable
    BY <1>2, <1>6, Rows DEF StopAborts
  <2>2. run' \in [Execution -> RunState]
    BY <1>6 DEF TypeOK, RunState, StopAborts
  <2> QED
    BY <1>6, <2>1, <2>2 DEF TypeOK, LeaseTable, StopAborts
<1>7. ASSUME NEW e \in Execution, StopFails(e) PROVE TypeOK'
  BY <1>7 DEF TypeOK, StopFails
<1> QED
  BY <1>1, <1>3, <1>4, <1>5, <1>6, <1>7 DEF Operator

LEMMA GatewayTypes ==
    ASSUME TypeOK, Gateway \/ (\E e \in Execution : LeaseExpires(e))
    PROVE  TypeOK'
<1> USE DEF execVars, leaseVars, passVars, otherVars, reconVars, taskVars
<1>1. ASSUME NEW e \in Execution, GatewayAccepts(e) \/ GatewayRefusesLate(e) PROVE TypeOK'
  BY <1>1 DEF TypeOK, RunState, GatewayAccepts, GatewayRefusesLate
<1>2. ASSUME NEW e \in Execution, GatewayEndsRun(e) PROVE TypeOK'
  <2>1. PICK outcome \in RunOutcome : run' = [run EXCEPT ![e] = outcome]
    BY <1>2 DEF GatewayEndsRun
  <2>2. outcome \in RunState
    BY RunOutcomeAssumption DEF RunState
  <2> QED
    BY <1>2, <2>1, <2>2 DEF TypeOK, GatewayEndsRun
<1>3. ASSUME NEW e \in Execution, LeaseExpires(e) PROVE TypeOK'
  <2>1. [lease[e] EXCEPT !.expired = TRUE] \in [at: Nat, expired: BOOLEAN]
    BY DEF TypeOK, LeaseTable
  <2>2. lease' = [lease EXCEPT ![e] = [lease[e] EXCEPT !.expired = TRUE]]
    BY <1>3 DEF LeaseExpires
  <2>3. lease' \in LeaseTable
    <3> DEFINE entry == [lease[e] EXCEPT !.expired = TRUE]
    <3> HIDE DEF entry
    <3>1. entry \in [at: Nat, expired: BOOLEAN] /\ lease' = [lease EXCEPT ![e] = entry]
      BY <2>1, <2>2 DEF entry
    <3> QED
      BY <3>1 DEF TypeOK, LeaseTable
  <2> QED
    BY <1>3, <2>3 DEF TypeOK, LeaseTable, LeaseExpires
<1> QED
  BY <1>1, <1>2, <1>3 DEF Gateway

LEMMA WatchdogTypes ==
    ASSUME TypeOK, InHand,
           \/ BeginPass \/ WatchdogReclaims \/ WatchdogDefers \/ BeginTick
           \/ \E e \in Execution : WatchdogSkips(e) \/ WatchdogAborts(e)
    PROVE  TypeOK'
<1> USE DEF execVars, leaseVars, otherVars, reconVars, taskVars
<1>1. CASE BeginPass
  <2>1. lease' \in LeaseTable
    BY <1>1 DEF TypeOK, LeaseTable, BeginPass
  <2> QED
    BY <1>1, <2>1 DEF TypeOK, LeaseTable, BeginPass
<1>2. ASSUME NEW e \in Execution, WatchdogSkips(e) \/ WatchdogAborts(e) PROVE TypeOK'
  BY <1>2 DEF TypeOK, WatchdogSkips, WatchdogAborts
<1>3. CASE WatchdogReclaims
  <2>1. cur \in Execution
    BY <1>3 DEF InHand, WatchdogReclaims
  <2>2. /\ status' \in [Task -> TaskStatus]
        /\ execStatus' \in [Execution -> ExecutionStatus \cup {"NONE"}]
        /\ lease' \in LeaseTable
    <3>1. CASE Final(cur)
      BY <1>3, <3>1 DEF TypeOK, LeaseTable, WatchdogReclaims
    <3>2. CASE ~Final(cur)
      BY <1>3, <2>1, <3>2, RuntimeFailureTypes DEF WatchdogReclaims
    <3> QED
      BY <3>1, <3>2
  <2>3. run' \in [Execution -> RunState]
    BY <1>3 DEF TypeOK, RunState, WatchdogReclaims
  <2> QED
    BY <1>3, <2>2, <2>3 DEF TypeOK, LeaseTable, WatchdogReclaims
<1>4. CASE WatchdogDefers
  BY <1>4 DEF TypeOK, WatchdogDefers
<1>5. CASE BeginTick
  <2>1. lease' \in LeaseTable
    <3>1. NoLease \in [at : Nat, expired : BOOLEAN]
      BY DEF NoLease
    <3> QED
      BY <1>5, <3>1 DEF TypeOK, LeaseTable, BeginTick
  <2>2. snapshot' \in [Task -> AdmissibleStatus \cup {"none"}]
    BY <1>5 DEF TypeOK, BeginTick
  <2> QED
    BY <1>5, <2>1, <2>2 DEF TypeOK, LeaseTable, BeginTick
<1> QED
  BY <1>1, <1>2, <1>3, <1>4, <1>5

LEMMA RequeuedType ==
    ASSUME TypeOK, NEW t \in Task
    PROVE  Requeued(t) \in TaskStatus
BY Names DEF TypeOK, Requeued

LEMMA CreateTypes ==
    ASSUME TypeOK, NEW t \in Task, revision[t] < MaxRevision, NEW s \in ExecutionStatus,
           NEW lapsed, Create(t, s, lapsed)
    PROVE  /\ NewExecution(t) \in Execution
           /\ revision' \in [Task -> 0..MaxRevision]
           /\ execStatus' \in [Execution -> ExecutionStatus \cup {"NONE"}]
           /\ inherited' \in [Execution -> BOOLEAN]
<1>1. NewExecution(t) \in Execution /\ revision[t] + 1 \in 0..MaxRevision
  BY LimitAssumption, Rows DEF TypeOK
<1>2. revision' \in [Task -> 0..MaxRevision]
  BY <1>1 DEF TypeOK, Create
<1>3. execStatus' \in [Execution -> ExecutionStatus \cup {"NONE"}]
  <2>1. \A f \in Execution : StatusOnceReclaimed(f) \in ExecutionStatus \cup {"NONE"}
    BY Names DEF TypeOK, StatusOnceReclaimed
  <2> QED
    BY <2>1 DEF TypeOK, Create
<1>4. inherited' \in [Execution -> BOOLEAN]
  <2>1. PICK b \in BOOLEAN : inherited' = [inherited EXCEPT ![NewExecution(t)] = b]
    <3> DEFINE c == /\ policy[t] = "CONTINUE"
                    /\ \E r \in 1..revision[t] : sessionKey[<<t, r>>] \/ inherited[<<t, r>>]
    <3>1. c \in BOOLEAN
      OBVIOUS
    <3>2. inherited' = [inherited EXCEPT ![NewExecution(t)] = c]
      BY Zenon DEF Create
    <3> HIDE DEF c
    <3> QED
      BY <3>1, <3>2
  <2> QED
    BY <2>1 DEF TypeOK
<1> QED
  BY <1>1, <1>2, <1>3, <1>4

LEMMA TickTypes ==
    ASSUME TypeOK, NEW t \in Task,
           \/ \E w \in WaitingStatus \cup {"BLOCKED"} : TickParks(t, w)
           \/ TickThrows(t)
           \/ TickFindsInFlight(t)
           \/ TickLosesLease(t)
           \/ TickHandsOff(t)
    PROVE  TypeOK'
<1> USE DEF execVars, leaseVars, otherVars, reconVars, taskVars
<1>1. ASSUME NEW w \in WaitingStatus \cup {"BLOCKED"}, TickParks(t, w) PROVE TypeOK'
  <2>1. w \in TaskStatus /\ status[t] \in TaskStatus
    BY Names DEF TypeOK
  <2> QED
    BY <1>1, <2>1, MoveOnTypes DEF TypeOK, TickParks
<1>2. CASE TickThrows(t)
  BY <1>2, PassDiesTypes DEF TypeOK, TickThrows
<1>3. CASE TickFindsInFlight(t)
  <2>1. "WAIT_RUNTIME" \in TaskStatus
    BY Names
  <2> QED
    BY <1>3, <2>1, RequeuedType, MoveOnTypes DEF TypeOK, TickFindsInFlight
<1>4. NoLease \in [at : Nat, expired : BOOLEAN]
  BY DEF NoLease
<1>5. CASE TickHandsOff(t)
  <2>1. /\ NewExecution(t) \in Execution
        /\ revision' \in [Task -> 0..MaxRevision]
        /\ execStatus' \in [Execution -> ExecutionStatus \cup {"NONE"}]
        /\ inherited' \in [Execution -> BOOLEAN]
    BY <1>5, Names, CreateTypes DEF TickHandsOff
  <2>2. lease' \in LeaseTable /\ acquired' \in Nat
    BY <1>4, <1>5 DEF TypeOK, LeaseTable, TickHandsOff
  <2>3. run' \in [Execution -> RunState]
    BY <1>5 DEF TypeOK, RunState, TickHandsOff
  <2>4. status' \in [Task -> TaskStatus]
    BY <1>5, RequeuedType DEF TypeOK, TickHandsOff
  <2> QED
    BY <1>5, <2>1, <2>2, <2>3, <2>4 DEF TypeOK, LeaseTable, TickHandsOff
<1>6. CASE TickLosesLease(t)
  <2>1. /\ revision' \in [Task -> 0..MaxRevision]
        /\ execStatus' \in [Execution -> ExecutionStatus \cup {"NONE"}]
        /\ inherited' \in [Execution -> BOOLEAN]
    BY <1>6, Names, CreateTypes DEF TickLosesLease
  <2>2. lease' \in LeaseTable
    BY <1>4, <1>6 DEF TypeOK, LeaseTable, TickLosesLease
  <2>3. "WAIT_WORKSPACE" \in TaskStatus
    BY DEF TaskStatus, WaitingStatus
  <2> QED
    BY <1>6, <2>1, <2>2, <2>3, RequeuedType, MoveOnTypes DEF TypeOK, LeaseTable, TickLosesLease
<1> QED
  BY <1>1, <1>2, <1>3, <1>5, <1>6

LEMMA HandoffTypes ==
    ASSUME TypeOK, InHand,
           \/ HandoffRefused \/ HandoffFindsNoAgent \/ ProvisioningEnds
           \/ HandoffTimesOut \/ RecordHandoff \/ MarkDispatched \/ EndTick
    PROVE  TypeOK'
<1> USE DEF execVars, leaseVars, otherVars, reconVars, taskVars
<1>1. ASSUME pc \in {"handoff", "provisioning", "marking"}
      PROVE  cur \in Execution /\ TaskOf(cur) \in Task /\ status[TaskOf(cur)] \in TaskStatus
  BY <1>1, Rows DEF TypeOK, InHand
<1>2. {"WAIT_QUOTA", "WAIT_RUNTIME", "WAIT_RESOURCE", "DISPATCHED", "BLOCKED"} \subseteq TaskStatus
  BY Names
<1>3. CASE HandoffRefused
  <2>1. \E w \in TaskStatus, bump \in Nat : HandoffCatch(w, bump)
    BY <1>2, <1>3 DEF HandoffRefused
  <2>2. run' \in [Execution -> RunState]
    BY <1>3 DEF TypeOK, RunState, HandoffRefused
  <2>3. cur \in Execution
    BY <1>1, <1>3 DEF HandoffRefused
  <2> QED
    BY <1>3, <2>1, <2>2, <2>3, HandoffCatchTypes DEF TypeOK, LeaseTable, HandoffRefused
<1>4. CASE HandoffFindsNoAgent
  <2>1. cur \in Execution
    BY <1>1, <1>4 DEF HandoffFindsNoAgent
  <2>2. lease' \in LeaseTable
    BY <1>4, <2>1, ReleaseEffect DEF HandoffFindsNoAgent
  <2>3. run' \in [Execution -> RunState]
    BY <1>4 DEF TypeOK, RunState, HandoffFindsNoAgent
  <2>4. CASE Final(cur)
    BY <1>4, <2>2, <2>3, <2>4, PassDiesTypes DEF TypeOK, LeaseTable, HandoffFindsNoAgent
  <2>5. CASE ~Final(cur)
    BY <1>4, <2>2, <2>3, <2>5, Names DEF TypeOK, LeaseTable, HandoffFindsNoAgent
  <2> QED
    BY <2>4, <2>5
<1>5. CASE ProvisioningEnds
  BY <1>1, <1>2, <1>5, MoveOnTypes DEF TypeOK, ProvisioningEnds
<1>6. CASE HandoffTimesOut
  BY <1>1, <1>2, <1>6, HandoffCatchTypes DEF TypeOK, LeaseTable, HandoffTimesOut
<1>7. CASE RecordHandoff
  <2>1. CASE Final(cur)
    BY <1>1, <1>2, <1>7, <2>1, HandoffCatchTypes DEF TypeOK, LeaseTable, RecordHandoff
  <2>2. CASE ~Final(cur)
    BY <1>7, <2>2, Names DEF TypeOK, RecordHandoff
  <2> QED
    BY <2>1, <2>2
<1>8. CASE MarkDispatched
  <2> DEFINE t == TaskOf(cur)
  <2>1. CASE MayTransition(status[t], "DISPATCHED", "none")
    BY <1>1, <1>2, <1>8, <2>1, MoveOnTypes DEF TypeOK, MarkDispatched
  <2>2. CASE ~MayTransition(status[t], "DISPATCHED", "none")
    BY <1>1, <1>2, <1>8, <2>2, HandoffCatchTypes DEF TypeOK, LeaseTable, MarkDispatched
  <2> QED
    BY <2>1, <2>2
<1>9. CASE EndTick
  BY <1>9, PassDiesTypes DEF TypeOK, EndTick
<1> QED
  BY <1>3, <1>4, <1>5, <1>6, <1>7, <1>8, <1>9

LEMMA RestartTypes ==
    ASSUME TypeOK, Restart
    PROVE  /\ pc' \in {"idle", "reclaim", "aborting", "tick", "handoff", "provisioning", "marking"}
           /\ cur' \in Execution \cup {NoExecution}
           /\ stalled' \in SUBSET Execution
           /\ snapshot' \in [Task -> AdmissibleStatus \cup {"none"}]
           /\ listed' \subseteq Task
           /\ listStatus' \in ReconciledStatus \cup {"none"}
           /\ probed' \in Execution \cup {NoExecution}
           /\ stopping' \subseteq Execution
BY PassDiesTypes DEF Restart, ReconcilerRests

LEMMA AbortTypes ==
    ASSUME TypeOK, NEW e \in Execution
    PROVE  /\ AbortOf(e) \in [Execution -> RunState]
           /\ \A f \in Execution : AbortOf(e)[f] # "none" => run[f] # "none"
BY DEF TypeOK, AbortOf, RunState

\* What a verdict that was cut short has written.
LEMMA CutShortEffect ==
    ASSUME TypeOK, NEW e \in Execution, CrashAmidVerdict(e) \/ CrashAmidRefusal(e)
    PROVE  /\ ~Final(e)
           /\ \E v \in ExecutionTerminal \cup {"BLOCKED"} : execStatus' = [execStatus EXCEPT ![e] = v]
           /\ \/ UNCHANGED status
              \/ \E w \in TaskStatus :
                    /\ MayTransition(status[TaskOf(e)], w, "auto-retry")
                    /\ status' = [status EXCEPT ![TaskOf(e)] = w]
           /\ \/ UNCHANGED <<quotaRetries, resourceRetries>>
              \/ ResetRetries(TaskOf(e))
              \/ /\ QuotaBudgetLeft(TaskOf(e))
                 /\ quotaRetries' = [quotaRetries EXCEPT ![TaskOf(e)] = @ + 1]
                 /\ UNCHANGED resourceRetries
              \/ /\ resourceRetries[TaskOf(e)] < ResourceRetryLimit
                 /\ resourceRetries' = [resourceRetries EXCEPT ![TaskOf(e)] = @ + 1]
                 /\ UNCHANGED quotaRetries
           /\ UNCHANGED run \/ run' = AbortOf(e)
           /\ UNCHANGED <<policy, revision, sessionKey, inherited, lease, acquired, orphans>>
           /\ Restart
<1> DEFINE t == TaskOf(e)
<1>1. {"COMPLETE", "CANCELLED", "FAILED", "BLOCKED"} \subseteq ExecutionTerminal \cup {"BLOCKED"}
  BY DEF ExecutionTerminal
<1>2. ASSUME NEW v \in {"COMPLETE", "CANCELLED", "FAILED", "BLOCKED"},
             NEW w \in {"COMPLETE", "CANCELLED", "WAIT_QUOTA", "WAIT_RESOURCE", "BLOCKED"},
             CutShort(e, v, w)
      PROVE  /\ execStatus' = [execStatus EXCEPT ![e] = v]
             /\ \/ UNCHANGED status
                \/ \E x \in TaskStatus :
                      /\ MayTransition(status[t], x, "auto-retry")
                      /\ status' = [status EXCEPT ![t] = x]
  <2>1. w \in TaskStatus
    BY Names
  <2> QED
    BY <1>2, <2>1 DEF CutShort
<1>3. CASE CrashAmidVerdict(e)
  <2>1. ASSUME NEW w \in {"QUEUED", "BLOCKED"}, status[t] \in {"DISPATCHED", "RUNNING"}
        PROVE  w \in TaskStatus /\ MayTransition(status[t], w, "auto-retry")
    BY <2>1, Names DEF MayTransition, AssertTransition, CanTransition, Successors, WaitingStatus
  <2>2. CASE CutShort(e, "COMPLETE", "COMPLETE")
    BY <1>1, <1>2, <1>3, <2>2 DEF CrashAmidVerdict, leaseVars
  <2>3. CASE CutShort(e, "CANCELLED", "CANCELLED") /\ UNCHANGED <<quotaRetries, resourceRetries>>
    BY <1>1, <1>2, <1>3, <2>3 DEF CrashAmidVerdict, leaseVars
  <2>4. CASE /\ execStatus' = [execStatus EXCEPT ![e] = "FAILED"]
             /\ \/ UNCHANGED status
                \/ /\ status[t] \in {"DISPATCHED", "RUNNING"}
                   /\ \E w \in {"QUEUED", "BLOCKED"} : status' = [status EXCEPT ![t] = w]
             /\ UNCHANGED <<quotaRetries, resourceRetries>>
    BY <1>1, <1>3, <2>1, <2>4 DEF CrashAmidVerdict, leaseVars
  <2>5. ASSUME NEW b \in BOOLEAN, status' = [status EXCEPT ![t] = IF b THEN "QUEUED" ELSE "BLOCKED"]
        PROVE  \E w \in {"QUEUED", "BLOCKED"} : status' = [status EXCEPT ![t] = w]
    BY <2>5
  <2> QED
    BY <1>3, <2>2, <2>3, <2>4, <2>5 DEF CrashAmidVerdict
<1>4. CASE CrashAmidRefusal(e)
  <2>1. ~Final(e)
    BY <1>4 DEF CrashAmidRefusal, Refused, Final, ExecutionTerminal
  <2> QED
    BY <1>1, <1>2, <1>4, <2>1 DEF CrashAmidRefusal, leaseVars
<1> QED
  BY <1>3, <1>4

\* Whatever it interrupts, a crash leaves nothing in hand.
LEMMA CrashRestarts ==
    ASSUME TypeOK, Crashes
    PROVE  Restart
BY CutShortEffect
DEF Crashes, Crash, CrashAmidRecord, CrashInCatch, CrashAmidDispatch, CrashAmidSettle, CrashAmidStop

LEMMA CrashTypes ==
    ASSUME TypeOK, InHand, Crashes
    PROVE  TypeOK'
<1> USE DEF leaseVars, taskVars, execVars
<1>1. Restart
  BY CrashRestarts
<1>2. CASE Crash
  <2>1. run' \in [Execution -> RunState]
    BY <1>2, AbortTypes DEF Crash, TypeOK
  <2> QED
    BY <1>1, <1>2, <2>1, RestartTypes DEF TypeOK, Crash
<1>3. CASE CrashAmidRecord
  BY <1>1, <1>3, RestartTypes DEF TypeOK, CrashAmidRecord
<1>4. CASE CrashInCatch
  <2>1. cur \in Execution /\ TaskOf(cur) \in Task
    BY <1>4, Rows DEF CrashInCatch, CatchReached, InHand
  <2>2. lease' \in LeaseTable
    BY <1>4, <2>1, ReleaseEffect DEF CrashInCatch
  <2>3. run' \in [Execution -> RunState]
    BY <1>4 DEF TypeOK, RunState, CrashInCatch, CatchReached
  <2>4. /\ orphans' \subseteq Execution
        /\ execStatus' \in [Execution -> ExecutionStatus \cup {"NONE"}]
        /\ quotaRetries' \in [Task -> Nat]
    <3>1. CASE /\ orphans' = orphans \cup {e \in {cur} : Live(e)}
               /\ UNCHANGED <<execStatus, quotaRetries>>
      BY <2>1, <3>1 DEF TypeOK
    <3>2. CASE /\ UNCHANGED orphans
               /\ execStatus' = [execStatus EXCEPT ![cur] = "FAILED"]
               /\ \/ UNCHANGED quotaRetries
                  \/ quotaRetries' = [quotaRetries EXCEPT ![TaskOf(cur)] = @ + 1]
      BY <2>1, <3>2, Names DEF TypeOK
    <3> QED
      BY <1>4, <3>1, <3>2 DEF CrashInCatch
  <2> QED
    BY <1>1, <1>4, <2>2, <2>3, <2>4, RestartTypes DEF TypeOK, LeaseTable, CrashInCatch
<1>5. ASSUME NEW t \in Task, CrashAmidDispatch(t) PROVE TypeOK'
  <2>1. status' \in [Task -> TaskStatus]
    BY <1>5, RequeuedType DEF TypeOK, CrashAmidDispatch
  <2>2. lease' \in LeaseTable
    <3>1. NoLease \in [at : Nat, expired : BOOLEAN]
      BY DEF NoLease
    <3> QED
      BY <1>5, <3>1 DEF TypeOK, LeaseTable, CrashAmidDispatch
  <2>3. /\ revision' \in [Task -> 0..MaxRevision]
        /\ execStatus' \in [Execution -> ExecutionStatus \cup {"NONE"}]
        /\ inherited' \in [Execution -> BOOLEAN]
    <3>1. CASE UNCHANGED <<execStatus, revision, inherited>>
      BY <3>1 DEF TypeOK
    <3>2. CASE /\ revision[t] < MaxRevision
               /\ \E v \in {"PENDING", "CANCELLED"}, lapsed \in {{}, Expired(WorkspaceOf[t])} :
                     Create(t, v, lapsed)
      BY <3>2, CreateTypes, Names
    <3> QED
      BY <1>5, <3>1, <3>2 DEF CrashAmidDispatch
  <2> QED
    BY <1>1, <1>5, <2>1, <2>2, <2>3, RestartTypes DEF TypeOK, LeaseTable, CrashAmidDispatch
<1>6. ASSUME NEW t \in Task, CrashAmidSettle(t) PROVE TypeOK'
  <2>1. execStatus[Latest(t)] \in TaskStatus
    BY <1>6, Names DEF CrashAmidSettle, Final
  <2> QED
    BY <1>1, <1>6, <2>1, RestartTypes DEF TypeOK, CrashAmidSettle
<1>7. ASSUME NEW e \in Execution, CrashAmidVerdict(e) \/ CrashAmidRefusal(e) PROVE TypeOK'
  <2>1. execStatus' \in [Execution -> ExecutionStatus \cup {"NONE"}]
    BY <1>7, CutShortEffect, Names DEF TypeOK
  <2>2. status' \in [Task -> TaskStatus]
    BY <1>7, CutShortEffect DEF TypeOK
  <2>3. quotaRetries' \in [Task -> Nat] /\ resourceRetries' \in [Task -> Nat]
    <3>1. /\ [quotaRetries EXCEPT ![TaskOf(e)] = @ + 1] \in [Task -> Nat]
          /\ [resourceRetries EXCEPT ![TaskOf(e)] = @ + 1] \in [Task -> Nat]
          /\ ResetRetries(TaskOf(e)) => quotaRetries' \in [Task -> Nat] /\ resourceRetries' \in [Task -> Nat]
      BY Rows DEF TypeOK, ResetRetries
    <3>2. quotaRetries \in [Task -> Nat] /\ resourceRetries \in [Task -> Nat]
      BY DEF TypeOK
    <3> QED
      BY <1>7, <3>1, <3>2, CutShortEffect, SMTT(40)
  <2>4. run' \in [Execution -> RunState]
    BY <1>7, CutShortEffect, AbortTypes DEF TypeOK
  <2> QED
    BY <1>1, <1>7, <2>1, <2>2, <2>3, <2>4, CutShortEffect, RestartTypes, ZenonT(60) DEF TypeOK
<1>8. ASSUME NEW e \in Execution, CrashAmidStop(e) PROVE TypeOK'
  <2>1. lease' \in LeaseTable
    BY <1>8, ReleaseEffect DEF CrashAmidStop
  <2>2. run' \in [Execution -> RunState]
    BY <1>8, AbortTypes DEF TypeOK, CrashAmidStop
  <2>3. execStatus' \in [Execution -> ExecutionStatus \cup {"NONE"}]
    BY <1>8, Names DEF TypeOK, CrashAmidStop
  <2> QED
    BY <1>1, <1>8, <2>1, <2>2, <2>3, RestartTypes DEF TypeOK, LeaseTable, CrashAmidStop
<1> QED
  BY <1>2, <1>3, <1>4, <1>5, <1>6, <1>7, <1>8 DEF Crashes

\* The pass takes a row in hand when it starts to wait and drops it when it
\* stops; nobody else touches it.
LEMMA InHandStep ==
    ASSUME TypeOK, InHand, [Next]_vars
    PROVE  InHand'
<1>1. ASSUME UNCHANGED passVars PROVE InHand'
  BY <1>1 DEF InHand, passVars
<1>2. ASSUME NEW t, NEW from, NEW w, MoveOn(t, from, w) PROVE InHand'
  BY <1>2 DEF InHand, MoveOn, PassDies
<1>3. ASSUME NEW w, NEW bump, HandoffCatch(w, bump) PROVE InHand'
  <2>1. CASE Final(cur)
    BY <1>3, <2>1 DEF HandoffCatch, InHand, PassDies
  <2>2. CASE ~Final(cur)
    BY <1>2, <1>3, <2>2 DEF HandoffCatch
  <2> QED
    BY <2>1, <2>2
<1>4. CASE Sink
  BY <1>1, <1>4 DEF Sink, RunEndsCleanly, RunEndsAborted, RunEndsAbnormally, LateErrorQuota,
                    LateErrorTransient, LateErrorFatal
<1>5. CASE Reconciler
  BY <1>1, <1>5 DEF Reconciler, ReconcilerLists, ReconcilerPasses, ReconcileSettles,
                    ReconcileRecovers, ReconcileAborts
<1>6. CASE Operator
  BY <1>1, <1>6 DEF Operator, Start, Cancel, Stop, Revise, Settle, StopAborts, StopFails
<1>7. CASE Gateway
  BY <1>1, <1>7 DEF Gateway, GatewayAccepts, GatewayRefusesLate, GatewayEndsRun
<1>8. CASE Crashes
  BY <1>8, CrashRestarts DEF Restart, InHand, PassDies
<1>9. CASE \E e \in Execution : LeaseExpires(e)
  BY <1>1, <1>9 DEF LeaseExpires
<1>10. CASE Pass
  <2>1. CASE BeginPass
    BY <2>1 DEF BeginPass, InHand
  <2>2. ASSUME NEW e \in Execution, WatchdogSkips(e) \/ WatchdogAborts(e) PROVE InHand'
    BY <2>2 DEF WatchdogSkips, WatchdogAborts, InHand
  <2>3. CASE WatchdogReclaims \/ WatchdogDefers
    BY <2>3 DEF WatchdogReclaims, WatchdogDefers, InHand
  <2>4. CASE BeginTick
    BY <2>4 DEF BeginTick, InHand
  <2>5. ASSUME NEW t \in Task, NEW w, TickParks(t, w) PROVE InHand'
    BY <1>2, <2>5 DEF TickParks
  <2>6. ASSUME NEW t \in Task, TickThrows(t) PROVE InHand'
    BY <2>6 DEF TickThrows, PassDies, InHand
  <2>7. ASSUME NEW t \in Task, TickFindsInFlight(t) \/ TickLosesLease(t) PROVE InHand'
    BY <1>2, <2>7 DEF TickFindsInFlight, TickLosesLease
  <2>8. ASSUME NEW t \in Task, TickHandsOff(t) PROVE InHand'
    BY <2>8, Rows DEF TickHandsOff, InHand
  <2>9. CASE HandoffRefused
    BY <1>3, <2>9 DEF HandoffRefused
  <2>10. CASE HandoffFindsNoAgent
    BY <2>10 DEF HandoffFindsNoAgent, InHand, PassDies
  <2>11. CASE ProvisioningEnds
    BY <1>2, <2>11 DEF ProvisioningEnds
  <2>12. CASE HandoffTimesOut
    BY <1>3, <2>12 DEF HandoffTimesOut
  <2>13. CASE RecordHandoff
    BY <1>3, <2>13 DEF RecordHandoff, InHand
  <2>14. CASE MarkDispatched
    BY <1>2, <1>3, <2>14 DEF MarkDispatched
  <2>15. CASE EndTick
    BY <2>15 DEF EndTick, PassDies, InHand
  <2> QED
    BY <1>10, <2>1, <2>2, <2>3, <2>4, <2>5, <2>6, <2>7, <2>8, <2>9, <2>10, <2>11, <2>12, <2>13,
       <2>14, <2>15 DEF Pass
<1>11. CASE UNCHANGED vars
  BY <1>1, <1>11 DEF vars
<1> QED
  BY <1>4, <1>5, <1>6, <1>7, <1>8, <1>9, <1>10, <1>11 DEF Next

LEMMA TypeStep ==
    ASSUME TypeOK, InHand, [Next]_vars
    PROVE  TypeOK'
<1>1. CASE Pass
  BY <1>1, WatchdogTypes, TickTypes, HandoffTypes DEF Pass
<1>2. CASE UNCHANGED vars
  BY <1>2 DEF TypeOK, vars, taskVars, execVars, leaseVars, passVars, otherVars, reconVars
<1> QED
  BY <1>1, <1>2, SinkTypes, ReconcilerTypes, OperatorTypes, GatewayTypes, CrashTypes DEF Next

LEMMA TypeInit ==
    ASSUME Init
    PROVE  TypeOK /\ InHand
<1>1. NoLease \in [at : Nat, expired : BOOLEAN]
  BY DEF NoLease
<1>2. "CREATED" \in TaskStatus
  BY Names
<1> QED
  BY <1>1, <1>2, LimitAssumption DEF Init, TypeOK, InHand, RunState

\* Every row keeps the shape the schema gives it, whatever is thrown at the
\* controller: the CHECK constraints of the status columns are never met.
THEOREM TypeCorrect == Spec => []TypeOK
<1>1. Init => TypeOK /\ InHand
  BY TypeInit
<1>2. TypeOK /\ InHand /\ [Next]_vars => (TypeOK /\ InHand)'
  BY TypeStep, InHandStep
<1> QED
  BY <1>1, <1>2, PTL DEF Spec

-----------------------------------------------------------------------------
(* Almost every step only settles: attempts leave the flight and leases go   *)
(* back.  The others create an attempt or record its handoff.                *)

\* No attempt is created, handed off or taken back from a final status; no
\* lease is taken, and none is taken from an attempt that stays live, unless it
\* is counted as an orphan from then on.
Settles ==
    /\ revision' = revision
    /\ \A e \in Execution :
          /\ \/ execStatus'[e] = execStatus[e]
             \/ /\ execStatus[e] # "NONE"
                /\ ~Final(e)
                /\ execStatus'[e] \in ExecutionTerminal \cup {"BLOCKED"}
          /\ Holds(e)' => Holds(e)
          /\ Holds(e) /\ Live(e)' => Holds(e)' \/ e \in orphans'
          /\ e \in orphans => e \in orphans'
          /\ run'[e] # "none" => run[e] # "none"

\* A handoff under way is left alone unless its attempt is finalized.
SparesHandoff ==
    \A e \in Execution :
        execStatus[e] = "PENDING" /\ Holds(e) =>
            Final(e)' \/ (execStatus'[e] = "PENDING" /\ Holds(e)')

\* The common shape of a settling step: one attempt is settled, or none; its
\* lease may go if it is not in flight any more; no run starts.
LEMMA SettlesOne ==
    ASSUME TypeOK, NEW e \in Execution,
           revision' = revision,
           orphans' = orphans,
           \/ UNCHANGED execStatus
           \/ /\ execStatus[e] # "NONE"
              /\ ~Final(e)
              /\ \E v \in ExecutionTerminal \cup {"BLOCKED"} :
                    execStatus' = [execStatus EXCEPT ![e] = v],
           ReleasesAtMost(e),
           UNCHANGED lease \/ ~InFlight(e)',
           \A f \in Execution : run'[f] # "none" => run[f] # "none"
    PROVE  /\ Settles
           /\ ~(execStatus[e] = "PENDING" /\ execStatus'[e] = "BLOCKED") => SparesHandoff
<1>1. \A f \in Execution :
         \/ execStatus'[f] = execStatus[f]
         \/ /\ f = e
            /\ execStatus[f] # "NONE"
            /\ ~Final(f)
            /\ execStatus'[f] \in ExecutionTerminal \cup {"BLOCKED"}
  BY DEF TypeOK
<1>2. \A f \in Execution : lease'[f] = lease[f] \/ (f = e /\ lease'[f] = NoLease)
  BY DEF ReleasesAtMost
<1>3. ~(NoLease.at > 0)
  BY DEF NoLease
<1>4. \A f \in Execution : Holds(f)' => Holds(f)
  BY <1>2, <1>3 DEF Holds
<1>5. \A f \in Execution : Holds(f) /\ InFlight(f)' => Holds(f)'
  BY <1>2 DEF Holds
<1>6. Settles
  BY <1>1, <1>4, <1>5 DEF Settles, Live, InFlight
<1>7. ASSUME ~(execStatus[e] = "PENDING" /\ execStatus'[e] = "BLOCKED") PROVE SparesHandoff
  BY <1>1, <1>5, <1>7 DEF SparesHandoff, InFlight, Final
<1> QED
  BY <1>6, <1>7

\* Steps that touch neither an attempt nor a lease.
LEMMA SettlesNone ==
    ASSUME UNCHANGED <<revision, execStatus, orphans>>,
           \A f \in Execution : Holds(f)' <=> Holds(f),
           \A f \in Execution : run'[f] # "none" => run[f] # "none"
    PROVE  Settles /\ SparesHandoff
BY DEF Settles, SparesHandoff

LEMMA HoldsUnchanged ==
    ASSUME UNCHANGED lease
    PROVE  \A f \in Execution : Holds(f)' <=> Holds(f)
BY DEF Holds

LEMMA FinalizeRunSettles ==
    ASSUME TypeOK, NEW e \in Execution, NEW verdict \in {"COMPLETE", "CANCELLED"},
           FinalizeRun(e, verdict), execStatus[e] # "NONE", ~Final(e), UNCHANGED <<revision, orphans, run>>
    PROVE  Settles /\ SparesHandoff
<1>1. execStatus' = [execStatus EXCEPT ![e] = verdict] /\ ReleasesAtMost(e)
  BY ReleaseEffect DEF FinalizeRun
<1>2. execStatus'[e] = verdict
  BY <1>1 DEF TypeOK
<1>3. ~InFlight(e)' /\ verdict \in ExecutionTerminal \cup {"BLOCKED"} /\ execStatus'[e] # "BLOCKED"
  BY <1>2 DEF InFlight, ExecutionTerminal
<1> QED
  BY <1>1, <1>3, SettlesOne

LEMMA FailureSettles ==
    ASSUME TypeOK, NEW e \in Execution, execStatus' = [execStatus EXCEPT ![e] = "FAILED"],
           UNCHANGED lease \/ Release(e) \/ ReleaseIfFirst(e),
           execStatus[e] # "NONE", ~Final(e), UNCHANGED <<revision, orphans>>,
           \A f \in Execution : run'[f] # "none" => run[f] # "none"
    PROVE  Settles /\ SparesHandoff
<1>1. execStatus'[e] = "FAILED" /\ ReleasesAtMost(e)
  BY ReleaseEffect DEF TypeOK
<1>2. ~InFlight(e)' /\ "FAILED" \in ExecutionTerminal \cup {"BLOCKED"} /\ execStatus'[e] # "BLOCKED"
  BY <1>1 DEF InFlight, ExecutionTerminal
<1> QED
  BY <1>1, <1>2, SettlesOne

LEMMA ReleasedSettles ==
    ASSUME TypeOK, NEW e \in Execution, Final(e), UNCHANGED <<revision, execStatus, orphans>>,
           UNCHANGED lease \/ Release(e) \/ ReleaseIfFirst(e),
           \A f \in Execution : run'[f] # "none" => run[f] # "none"
    PROVE  Settles /\ SparesHandoff
<1>1. ReleasesAtMost(e) /\ ~InFlight(e)' /\ execStatus'[e] # "PENDING"
  BY ReleaseEffect DEF Final, InFlight, ExecutionTerminal
<1> QED
  BY <1>1, SettlesOne

LEMMA SinkSettles ==
    ASSUME TypeOK, Sink
    PROVE  Settles /\ SparesHandoff
<1> PICK e \in Execution :
        \/ RunEndsCleanly(e) \/ RunEndsAborted(e) \/ RunEndsAbnormally(e)
        \/ LateErrorQuota(e) \/ LateErrorTransient(e) \/ LateErrorFatal(e)
  BY DEF Sink
<1>1. CASE RunEndsCleanly(e) \/ RunEndsAborted(e)
  BY <1>1, FinalizeRunSettles DEF RunEndsCleanly, RunEndsAborted, EndFrame
<1>2. CASE RunEndsAbnormally(e)
  <2>1. UNCHANGED lease \/ ReleaseIfFirst(e)
    BY <1>2, RuntimeFailureEffect DEF RunEndsAbnormally
  <2> QED
    BY <1>2, <2>1, RuntimeFailureEffect, FailureSettles DEF RunEndsAbnormally, EndFrame
<1>3. ASSUME NEW verdict \in {"FAILED", "BLOCKED"}, NEW w, LateVerdict(e, verdict, w),
             execStatus[e] = "DISPATCHED", UNCHANGED <<revision, orphans, run>>
      PROVE  Settles /\ SparesHandoff
  <2>1. execStatus' = [execStatus EXCEPT ![e] = verdict] /\ (UNCHANGED lease \/ ReleaseIfFirst(e))
    BY <1>3 DEF LateVerdict
  <2>2. execStatus'[e] = verdict /\ ReleasesAtMost(e)
    BY <2>1, ReleaseEffect DEF TypeOK
  <2>3. ~InFlight(e)' /\ ~Final(e) /\ verdict \in ExecutionTerminal \cup {"BLOCKED"}
    BY <1>3, <2>2 DEF InFlight, Final, ExecutionTerminal
  <2> QED
    BY <1>3, <2>1, <2>2, <2>3, SettlesOne
<1>4. CASE LateErrorQuota(e)
  BY <1>3, <1>4 DEF LateErrorQuota, Refused
<1>5. CASE LateErrorTransient(e)
  BY <1>3, <1>5 DEF LateErrorTransient, Refused
<1>6. CASE LateErrorFatal(e)
  BY <1>3, <1>6 DEF LateErrorFatal, Refused
<1> QED
  BY <1>1, <1>2, <1>4, <1>5, <1>6

LEMMA ReconcilerSettles ==
    ASSUME TypeOK, SentIsKnown, Reconciler
    PROVE  Settles /\ SparesHandoff
<1>1. ASSUME NEW s, ReconcilerLists(s) PROVE Settles /\ SparesHandoff
  BY <1>1, SettlesNone, HoldsUnchanged DEF ReconcilerLists, execVars, leaseVars
<1>2. ASSUME NEW e \in Execution, ReconcilerPasses(e) PROVE Settles /\ SparesHandoff
  BY <1>2, SettlesNone, HoldsUnchanged DEF ReconcilerPasses, execVars, leaseVars
<1>3. ASSUME NEW e \in Execution, ReconcileSettles(e) PROVE Settles /\ SparesHandoff
  BY <1>3, FinalizeRunSettles DEF ReconcileSettles, SentIsKnown
<1>4. ASSUME NEW e \in Execution, ReconcileRecovers(e) PROVE Settles /\ SparesHandoff
  <2>1. CASE Final(e)
    BY <1>4, <2>1, SettlesNone, HoldsUnchanged DEF ReconcileRecovers
  <2>2. CASE ~Final(e)
    <3>1. ApplyRuntimeFailure(e) /\ execStatus[e] # "NONE" /\ UNCHANGED <<revision, orphans, run>>
      BY <1>4, <2>2 DEF ReconcileRecovers, GoneAtGateway, SentIsKnown
    <3>2. UNCHANGED lease \/ ReleaseIfFirst(e)
      BY <3>1, RuntimeFailureEffect
    <3> QED
      BY <2>2, <3>1, <3>2, RuntimeFailureEffect, FailureSettles
  <2> QED
    BY <2>1, <2>2
<1>5. ASSUME NEW e \in Execution, ReconcileAborts(e) PROVE Settles /\ SparesHandoff
  <2>1. \A f \in Execution : run'[f] # "none" => run[f] # "none"
    BY <1>5 DEF TypeOK, ReconcileAborts
  <2> QED
    BY <1>5, <2>1, SettlesNone, HoldsUnchanged DEF ReconcileAborts, execVars, leaseVars
<1> QED
  BY <1>1, <1>2, <1>3, <1>4, <1>5 DEF Reconciler

LEMMA OperatorSettles ==
    ASSUME TypeOK, StoppingIsFinal, Operator
    PROVE  Settles /\ SparesHandoff
<1>1. ASSUME UNCHANGED <<revision, execStatus, lease, orphans, run>> PROVE Settles /\ SparesHandoff
  BY <1>1, SettlesNone, HoldsUnchanged
<1>2. ASSUME NEW t \in Task, Start(t) \/ Cancel(t) PROVE Settles /\ SparesHandoff
  BY <1>1, <1>2 DEF Start, Cancel, execVars, leaseVars
<1>3. ASSUME NEW t \in Task, Stop(t) PROVE Settles /\ SparesHandoff
  <2>1. CASE ~(HasExecution(t) /\ InFlight(Latest(t)))
    BY <1>1, <1>3, <2>1 DEF Stop
  <2>2. CASE HasExecution(t) /\ InFlight(Latest(t))
    <3>1. PICK e \in Execution : e = Latest(t)
      BY <2>2, Rows
    <3>2. execStatus' = [execStatus EXCEPT ![e] = "CANCELLED"]
          /\ (UNCHANGED lease \/ Release(e)) /\ UNCHANGED <<revision, orphans, run>>
      BY <1>3, <2>2, <3>1 DEF Stop, StopEnds
    <3>3. execStatus'[e] = "CANCELLED" /\ ReleasesAtMost(e)
      BY <3>2, ReleaseEffect DEF TypeOK
    <3>4. /\ ~InFlight(e)' /\ execStatus[e] # "NONE" /\ ~Final(e)
          /\ "CANCELLED" \in ExecutionTerminal \cup {"BLOCKED"} /\ execStatus'[e] # "BLOCKED"
      BY <2>2, <3>1, <3>3 DEF InFlight, Final, ExecutionTerminal
    <3> QED
      BY <3>2, <3>3, <3>4, SettlesOne
  <2> QED
    BY <2>1, <2>2
<1>4. ASSUME NEW t \in Task, NEW sessionMode, Revise(t, sessionMode) PROVE Settles /\ SparesHandoff
  BY <1>1, <1>4 DEF Revise, execVars, leaseVars
<1>5. ASSUME NEW t \in Task, Settle(t) PROVE Settles /\ SparesHandoff
  <2>1. Latest(t) \in Execution
    BY <1>5, Rows DEF Settle
  <2> QED
    BY <1>5, <2>1, ReleasedSettles DEF Settle, execVars
<1>6. ASSUME NEW e \in Execution, StopAborts(e) PROVE Settles /\ SparesHandoff
  <2>1. \A f \in Execution : run'[f] # "none" => run[f] # "none"
    BY <1>6 DEF TypeOK, StopAborts
  <2> QED
    BY <1>6, <2>1, ReleasedSettles DEF StopAborts, StopEnds, StoppingIsFinal, execVars
<1>7. ASSUME NEW e \in Execution, StopFails(e) PROVE Settles /\ SparesHandoff
  BY <1>1, <1>7 DEF StopFails, execVars, leaseVars
<1> QED
  BY <1>2, <1>3, <1>4, <1>5, <1>6, <1>7 DEF Operator

LEMMA GatewaySettles ==
    ASSUME TypeOK, Gateway \/ (\E e \in Execution : LeaseExpires(e)) \/ UNCHANGED vars
    PROVE  Settles /\ SparesHandoff
<1>1. CASE Gateway
  <2>1. \A f \in Execution : run'[f] # "none" => run[f] # "none"
    BY <1>1 DEF TypeOK, Gateway, GatewayAccepts, GatewayRefusesLate, GatewayEndsRun
  <2> QED
    BY <1>1, <2>1, SettlesNone, HoldsUnchanged
    DEF Gateway, GatewayAccepts, GatewayRefusesLate, GatewayEndsRun, execVars, leaseVars
<1>2. ASSUME NEW e \in Execution, LeaseExpires(e) PROVE Settles /\ SparesHandoff
  <2>1. \A f \in Execution : Holds(f)' <=> Holds(f)
    BY <1>2 DEF TypeOK, Holds, LeaseExpires
  <2> QED
    BY <1>2, <2>1, SettlesNone DEF LeaseExpires, execVars
<1>3. CASE UNCHANGED vars
  BY <1>3, SettlesNone, HoldsUnchanged DEF vars, execVars, leaseVars
<1> QED
  BY <1>1, <1>2, <1>3

\* An attempt is created and gets no lease; of the holders of its workspace that
\* have lapsed some are taken back.
BornWithoutLease(t, s, lapsed) ==
    /\ revision[t] < MaxRevision
    /\ ~AlreadyInFlight(t)
    /\ Create(t, s, lapsed)
    /\ \A f \in Execution : lease'[f] = IF f \in lapsed THEN NoLease ELSE lease[f]
    /\ UNCHANGED <<run, orphans>>
Birth(t) ==
    \E s \in {"PENDING", "CANCELLED"}, lapsed \in {{}, Expired(WorkspaceOf[t])} :
        BornWithoutLease(t, s, lapsed)

\* A crash settles, or has just created an attempt without a lease.
LEMMA CrashSettles ==
    ASSUME IInv, Crashes
    PROVE  Settles \/ \E t \in Task : Birth(t)
<1> USE DEF IInv
<1>1. ASSUME UNCHANGED <<revision, execStatus, lease, orphans, run>> PROVE Settles
  BY <1>1, SettlesNone, HoldsUnchanged
<1>2. CASE Crash
  <2>1. \A f \in Execution : run'[f] # "none" => run[f] # "none"
    BY <1>2, AbortTypes DEF Crash
  <2> QED
    BY <1>2, <2>1, SettlesNone, HoldsUnchanged DEF Crash, execVars, leaseVars
<1>3. CASE CrashAmidRecord
  BY <1>1, <1>3 DEF CrashAmidRecord, leaseVars
<1>4. CASE CrashInCatch
  <2> PICK e \in Execution : e = cur
    BY <1>4 DEF CrashInCatch, CatchReached, InHand
  <2>1. execStatus[e] # "NONE"
    BY <1>4 DEF CrashInCatch, CatchReached, HandIsKnown
  <2>2. /\ \A f \in Execution : run'[f] # "none" => run[f] # "none"
        /\ UNCHANGED revision
        /\ Release(e)
    BY <1>4 DEF CrashInCatch, CatchReached, TypeOK
  <2>3. CASE ~Final(e) /\ execStatus' = [execStatus EXCEPT ![e] = "FAILED"] /\ UNCHANGED orphans
    BY <2>1, <2>2, <2>3, FailureSettles
  <2>4. CASE orphans' = orphans \cup {f \in {e} : Live(f)} /\ UNCHANGED execStatus
    <3>1. ReleasesAtMost(e) /\ ~(NoLease.at > 0)
      BY <2>2, ReleaseEffect DEF NoLease
    <3>2. \A f \in Execution : (Holds(f)' => Holds(f)) /\ (Holds(f) /\ f # e => Holds(f)')
      BY <3>1 DEF ReleasesAtMost, Holds
    <3>3. Live(e)' => e \in orphans'
      BY <2>4 DEF Live
    <3> QED
      BY <2>2, <2>4, <3>2, <3>3 DEF Settles
  <2> QED
    BY <1>4, <2>3, <2>4 DEF CrashInCatch
<1>5. ASSUME NEW t \in Task, CrashAmidDispatch(t) PROVE Settles \/ Birth(t)
  <2>1. CASE UNCHANGED <<execStatus, revision, inherited, lease>>
    BY <1>1, <1>5, <2>1 DEF CrashAmidDispatch
  <2>2. CASE /\ revision[t] < MaxRevision /\ ~AlreadyInFlight(t)
             /\ Create(t, "PENDING", {})
             /\ UNCHANGED lease
    <3>1. BornWithoutLease(t, "PENDING", {})
      BY <1>5, <2>2 DEF CrashAmidDispatch, BornWithoutLease
    <3> QED
      BY <3>1 DEF Birth
  <2>3. ASSUME NEW s \in {"PENDING", "CANCELLED"},
               revision[t] < MaxRevision, ~AlreadyInFlight(t),
               Create(t, s, Expired(WorkspaceOf[t])),
               lease' = [f \in Execution |-> IF f \in Expired(WorkspaceOf[t]) THEN NoLease ELSE lease[f]]
        PROVE  Birth(t)
    <3>1. BornWithoutLease(t, s, Expired(WorkspaceOf[t]))
      BY <1>5, <2>3 DEF CrashAmidDispatch, BornWithoutLease
    <3> QED
      BY <3>1 DEF Birth
  <2> QED
    BY <1>5, <2>1, <2>2, <2>3 DEF CrashAmidDispatch
<1>6. ASSUME NEW t \in Task, CrashAmidSettle(t) PROVE Settles
  BY <1>1, <1>6 DEF CrashAmidSettle, execVars, leaseVars
<1>7. ASSUME NEW e \in Execution, CrashAmidVerdict(e) \/ CrashAmidRefusal(e) PROVE Settles
  <2>1. \A f \in Execution : run'[f] # "none" => run[f] # "none"
    BY <1>7, CutShortEffect, AbortTypes
  <2>2. execStatus[e] # "NONE"
    BY <1>7
    DEF CrashAmidVerdict, CrashAmidRefusal, Refused, EndFrame, GoneAtGateway, HandIsKnown, SentIsKnown
  <2>3. PICK v \in ExecutionTerminal \cup {"BLOCKED"} : execStatus' = [execStatus EXCEPT ![e] = v]
    BY <1>7, CutShortEffect
  <2>4. ReleasesAtMost(e) /\ UNCHANGED <<revision, orphans, lease>> /\ ~Final(e)
    BY <1>7, CutShortEffect DEF ReleasesAtMost
  <2> QED
    BY <2>1, <2>2, <2>3, <2>4, SettlesOne
<1>8. ASSUME NEW e \in Execution, CrashAmidStop(e) PROVE Settles
  <2>1. \A f \in Execution : run'[f] # "none" => run[f] # "none"
    BY <1>8, AbortTypes DEF CrashAmidStop
  <2>2. ReleasesAtMost(e) /\ UNCHANGED <<revision, orphans>>
    BY <1>8, ReleaseEffect DEF CrashAmidStop
  <2>3. CASE InFlight(e) /\ execStatus' = [execStatus EXCEPT ![e] = "CANCELLED"]
    <3>1. /\ ~InFlight(e)' /\ execStatus[e] # "NONE" /\ ~Final(e)
          /\ "CANCELLED" \in ExecutionTerminal \cup {"BLOCKED"}
      BY <2>3 DEF TypeOK, InFlight, Final, ExecutionTerminal
    <3> QED
      BY <2>1, <2>2, <2>3, <3>1, SettlesOne
  <2>4. CASE e \in stopping /\ Release(e) /\ UNCHANGED execStatus
    BY <2>1, <2>2, <2>4, ReleasedSettles DEF StoppingIsFinal
  <2> QED
    BY <1>8, <2>3, <2>4 DEF CrashAmidStop
<1> QED
  BY <1>2, <1>3, <1>4, <1>5, <1>6, <1>7, <1>8 DEF Crashes

\* The part of the pass that neither creates nor records an attempt.
LEMMA PassSettles ==
    ASSUME IInv,
           \/ BeginPass \/ WatchdogReclaims \/ WatchdogDefers \/ BeginTick
           \/ \E e \in Execution : WatchdogSkips(e) \/ WatchdogAborts(e)
           \/ \E t \in Task :
                 \/ \E w \in WaitingStatus \cup {"BLOCKED"} : TickParks(t, w)
                 \/ TickThrows(t)
                 \/ TickFindsInFlight(t)
           \/ HandoffRefused \/ HandoffFindsNoAgent \/ ProvisioningEnds \/ HandoffTimesOut
           \/ (RecordHandoff /\ Final(cur)) \/ MarkDispatched \/ EndTick
    PROVE  Settles
<1> USE DEF IInv
<1>1. ASSUME UNCHANGED <<revision, execStatus, lease, orphans, run>> PROVE Settles
  BY <1>1, SettlesNone, HoldsUnchanged
<1>2. CASE BeginPass
  <2>1. \A f \in Execution : Holds(f)' <=> Holds(f)
    BY <1>2 DEF TypeOK, Holds, BeginPass
  <2> QED
    BY <1>2, <2>1, SettlesNone DEF BeginPass, execVars
<1>3. ASSUME pc \in {"aborting", "handoff", "provisioning", "marking"}
      PROVE  cur \in Execution /\ execStatus[cur] # "NONE"
  BY <1>3 DEF InHand, HandIsKnown
<1>4. CASE WatchdogReclaims
  <2>1. UNCHANGED revision /\ \A f \in Execution : run'[f] # "none" => run[f] # "none"
    BY <1>4 DEF TypeOK, WatchdogReclaims
  <2>2. CASE Final(cur)
    BY <1>4, <2>1, <2>2, SettlesNone, HoldsUnchanged DEF WatchdogReclaims
  <2>3. CASE ~Final(cur)
    <3>1. ApplyRuntimeFailure(cur) /\ cur \in Execution /\ execStatus[cur] # "NONE"
      BY <1>3, <1>4, <2>3 DEF WatchdogReclaims
    <3>2. UNCHANGED lease \/ ReleaseIfFirst(cur)
      BY <3>1, RuntimeFailureEffect
    <3>3. UNCHANGED orphans
      BY <1>4 DEF WatchdogReclaims
    <3> QED
      BY <2>1, <2>3, <3>1, <3>2, <3>3, RuntimeFailureEffect, FailureSettles
  <2> QED
    BY <2>2, <2>3
<1>5. CASE WatchdogDefers \/ ProvisioningEnds \/ EndTick
  BY <1>1, <1>5 DEF WatchdogDefers, ProvisioningEnds, EndTick, execVars, leaseVars
<1>6. CASE BeginTick
  <2>1. \A f \in Execution : (Holds(f)' => Holds(f)) /\ (Holds(f) /\ Live(f) => Holds(f)')
    BY <1>6 DEF TypeOK, Holds, NoLease, ActivelyRunning, BeginTick
  <2> QED
    BY <1>6, <2>1 DEF Settles, BeginTick, execVars, Live
<1>7. ASSUME NEW e \in Execution, WatchdogSkips(e) \/ WatchdogAborts(e) PROVE Settles
  BY <1>1, <1>7 DEF WatchdogSkips, WatchdogAborts, execVars, leaseVars
<1>8. ASSUME NEW t \in Task, NEW w, TickParks(t, w) \/ TickThrows(t) \/ TickFindsInFlight(t)
      PROVE  Settles
  BY <1>1, <1>8 DEF TickParks, TickThrows, TickFindsInFlight, execVars, leaseVars
<1>9. ASSUME NEW w, NEW bump, HandoffCatch(w, bump), cur \in Execution, execStatus[cur] # "NONE",
             UNCHANGED <<revision, orphans>>,
             \A f \in Execution : run'[f] # "none" => run[f] # "none"
      PROVE  Settles
  <2> PICK e \in Execution : e = cur
    BY <1>9
  <2>1. Release(e) /\ execStatus[e] # "NONE"
    BY <1>9 DEF HandoffCatch
  <2>2. CASE Final(e)
    BY <1>9, <2>1, <2>2, ReleasedSettles DEF HandoffCatch
  <2>3. CASE ~Final(e)
    BY <1>9, <2>1, <2>3, FailureSettles DEF HandoffCatch
  <2> QED
    BY <2>2, <2>3
<1>10. CASE HandoffRefused
  <2>1. \A f \in Execution : run'[f] # "none" => run[f] # "none"
    BY <1>10 DEF TypeOK, HandoffRefused
  <2> QED
    BY <1>3, <1>9, <1>10, <2>1 DEF HandoffRefused
<1>11. CASE HandoffFindsNoAgent
  <2> PICK e \in Execution : e = cur
    BY <1>3, <1>11 DEF HandoffFindsNoAgent
  <2>1. /\ execStatus[e] # "NONE"
        /\ Release(e)
        /\ UNCHANGED revision
        /\ \A f \in Execution : run'[f] # "none" => run[f] # "none"
    BY <1>3, <1>11 DEF TypeOK, HandoffFindsNoAgent
  <2>2. CASE Final(e)
    BY <1>11, <2>1, <2>2, ReleasedSettles DEF HandoffFindsNoAgent
  <2>3. CASE ~Final(e)
    BY <1>11, <2>1, <2>3, FailureSettles DEF HandoffFindsNoAgent
  <2> QED
    BY <2>2, <2>3
<1>12. CASE HandoffTimesOut
  BY <1>3, <1>9, <1>12 DEF HandoffTimesOut
<1>13. CASE RecordHandoff /\ Final(cur)
  BY <1>3, <1>9, <1>13 DEF RecordHandoff
<1>14. CASE MarkDispatched
  <2>1. CASE UNCHANGED <<execStatus, lease>>
    BY <1>1, <1>14, <2>1 DEF MarkDispatched
  <2>2. CASE HandoffCatch("WAIT_RUNTIME", 0)
    BY <1>3, <1>9, <1>14, <2>2 DEF MarkDispatched
  <2> QED
    BY <1>14, <2>1, <2>2 DEF MarkDispatched
<1> QED
  BY <1>2, <1>4, <1>5, <1>6, <1>7, <1>8, <1>10, <1>11, <1>12, <1>13, <1>14

-----------------------------------------------------------------------------
(* The three steps that do more *)

\* The new attempt is the only one of its task in flight and the only holder of
\* its workspace that excludes anybody.
LEMMA HandsOffKeeps ==
    ASSUME IInv, TypeOK', NEW t \in Task, TickHandsOff(t)
    PROVE  /\ LeaseTableExclusive'
           /\ LiveHoldsLease'
           /\ OneInFlight'
           /\ UnbornIsBlank'
           /\ SentIsKnown'
           /\ \A e \in Execution : Final(e) => execStatus'[e] = execStatus[e]
<1> USE DEF IInv
<1> PICK new \in Execution : new = NewExecution(t)
  BY Rows DEF TickHandsOff
<1> DEFINE taken == Expired(WorkspaceOf[t])
<1>1. /\ TaskOf(new) = t
      /\ new = <<t, revision[t] + 1>>
      /\ execStatus[new] = "NONE"
      /\ revision[t] \in Nat
      /\ revision' = [revision EXCEPT ![t] = revision[t] + 1]
  BY DEF TickHandsOff, Create, NewExecution, TypeOK, UnbornIsBlank, TaskOf
<1>2. \A f \in Execution :
         execStatus'[f] = IF f = new THEN "PENDING"
                          ELSE IF f \in taken THEN StatusOnceReclaimed(f) ELSE execStatus[f]
  BY DEF TickHandsOff, Create
<1>3. \A f \in Execution :
         lease'[f] = IF f = new THEN [at |-> acquired + 1, expired |-> FALSE]
                     ELSE IF f \in taken THEN NoLease ELSE lease[f]
  BY DEF TickHandsOff
<1>4. acquired + 1 > 0 /\ ~(NoLease.at > 0)
  BY DEF TypeOK, NoLease
<1>5. Holds(new)' /\ \A f \in Execution \ {new} : Holds(f)' <=> Holds(f) /\ f \notin taken
  BY <1>3, <1>4 DEF Holds
<1> HIDE DEF taken
<1>6. \A f \in Execution : StatusOnceReclaimed(f) \in ExecutionTerminal \cup {"BLOCKED"}
                            /\ (Final(f) => StatusOnceReclaimed(f) = execStatus[f])
  BY DEF StatusOnceReclaimed, Final
<1>7. LeaseTableExclusive'
  <2>1. ASSUME NEW f \in Execution \ {new}, Holds(f)'
        PROVE  ~Excludes(new, f) /\ ~Excludes(f, new)
    <3>1. Holds(f) /\ f \notin taken
      BY <1>5, <2>1
    <3>2. CASE PathOf(f) # WorkspaceOf[t]
      BY <1>1, <3>2 DEF Excludes, PathOf
    <3>3. CASE PathOf(f) = WorkspaceOf[t]
      <4>1. f \in Holders(WorkspaceOf[t]) /\ ~lease[f].expired
        BY <3>1, <3>3 DEF Holders, Expired, taken
      <4>2. Compatible(ModeOf[t], LeaseMode(f))
        BY <4>1 DEF TickHandsOff, Blockers
      <4> QED
        BY <1>1, <4>2 DEF Excludes, Compatible, LeaseMode
    <3> QED
      BY <3>2, <3>3
  <2>2. \A f, g \in Execution \ {new} : Holds(f)' /\ Holds(g)' => ~Excludes(f, g)
    BY <1>5 DEF LeaseTableExclusive
  <2>3. ~Excludes(new, new)
    BY DEF Excludes
  <2>4. \A f, g \in Execution : Holds(f)' /\ Holds(g)' => ~Excludes(f, g)
    BY <2>1, <2>2, <2>3
  <2> QED
    BY <2>4 DEF LeaseTableExclusive, Excludes, PathOf, LeaseMode, TaskOf
<1>8. LiveHoldsLease'
  <2>1. \A f \in Execution : Live(f)' => Holds(f)' \/ f \in orphans
    <3> SUFFICES ASSUME NEW f \in Execution, Live(f)' PROVE Holds(f)' \/ f \in orphans
      OBVIOUS
    <3>1. f # new /\ f \notin taken /\ execStatus'[f] = execStatus[f]
      BY <1>2, <1>6 DEF Live, ExecutionTerminal
    <3> QED
      BY <1>5, <3>1 DEF LiveHoldsLease, Live
  <2> QED
    BY <2>1 DEF LiveHoldsLease, TickHandsOff
<1>9. OneInFlight'
  <2>1. ASSUME NEW f \in Execution, InFlight(f)' PROVE f = <<TaskOf(f), revision'[TaskOf(f)]>>
    <3>1. CASE f = new
      BY <1>1, <3>1 DEF TypeOK
    <3>2. CASE f # new
      <4>1. InFlight(f)
        BY <1>2, <1>6, <2>1, <3>2 DEF InFlight, ExecutionTerminal
      <4>2. f = <<TaskOf(f), revision[TaskOf(f)]>>
        BY <4>1 DEF OneInFlight, Latest
      <4>3. TaskOf(f) # t
        <5>1. SUFFICES ASSUME TaskOf(f) = t PROVE FALSE
          OBVIOUS
        <5>2. HasExecution(t) /\ Latest(t) = f
          BY <4>2, <5>1 DEF HasExecution, Latest, Execution, TaskOf
        <5> QED
          BY <4>1, <5>2 DEF TickHandsOff, AlreadyInFlight
      <4> QED
        BY <1>1, <4>2, <4>3, Rows DEF TypeOK
    <3> QED
      BY <3>1, <3>2
  <2> QED
    BY <2>1 DEF OneInFlight, Latest, TaskOf
<1>10. UnbornIsBlank'
  <2>1. ASSUME NEW f \in Execution, f[2] > revision'[f[1]]
        PROVE  execStatus'[f] = "NONE" /\ ~(Holds(f)')
    <3>1. f # new
      BY <1>1, <2>1 DEF TypeOK
    <3>2. f[2] > revision[f[1]]
      BY <1>1, <2>1, LimitAssumption DEF TypeOK, Execution
    <3>3. execStatus[f] = "NONE" /\ ~Holds(f)
      BY <3>2 DEF UnbornIsBlank
    <3>4. f \notin taken
      BY <3>3 DEF taken, Expired, Holders
    <3> QED
      BY <1>2, <1>5, <3>1, <3>3, <3>4
  <2> QED
    BY <2>1 DEF UnbornIsBlank
<1>11. SentIsKnown'
  <2>1. ASSUME NEW f \in Execution, run'[f] # "none" PROVE execStatus'[f] # "NONE"
    <3>1. CASE f = new
      BY <1>2, <3>1
    <3>2. CASE f # new
      <4>1. run[f] # "none"
        BY <2>1, <3>2 DEF TypeOK, TickHandsOff
      <4> QED
        BY <1>2, <1>6, <3>2, <4>1 DEF SentIsKnown, ExecutionTerminal
    <3> QED
      BY <3>1, <3>2
  <2> QED
    BY <2>1 DEF SentIsKnown
<1>12. \A e \in Execution : Final(e) => execStatus'[e] = execStatus[e]
  BY <1>1, <1>2, <1>6 DEF Final, ExecutionTerminal
<1> QED
  BY <1>7, <1>8, <1>9, <1>10, <1>11, <1>12

\* An attempt born without a lease changes what lapsed holders had and nothing
\* else that matters: nobody works under its name yet.
LEMMA BirthKeeps ==
    ASSUME IInv, TypeOK', NEW t \in Task, Birth(t)
    PROVE  /\ LeaseTableExclusive'
           /\ LiveHoldsLease'
           /\ OneInFlight'
           /\ UnbornIsBlank'
           /\ SentIsKnown'
           /\ \A e \in Execution : Final(e) => execStatus'[e] = execStatus[e]
<1> USE DEF IInv
<1> PICK s \in {"PENDING", "CANCELLED"}, taken \in {{}, Expired(WorkspaceOf[t])} :
        BornWithoutLease(t, s, taken)
  BY DEF Birth
<1> PICK new \in Execution : new = NewExecution(t)
  BY Rows DEF BornWithoutLease
<1>1. /\ new = <<t, revision[t] + 1>>
      /\ execStatus[new] = "NONE"
      /\ ~Holds(new)
      /\ revision[t] \in Nat
      /\ revision' = [revision EXCEPT ![t] = revision[t] + 1]
  BY DEF BornWithoutLease, Create, NewExecution, TypeOK, UnbornIsBlank
<1>2. \A f \in Execution :
         execStatus'[f] = IF f = new THEN s
                          ELSE IF f \in taken THEN StatusOnceReclaimed(f) ELSE execStatus[f]
  BY DEF BornWithoutLease, Create
<1>3. \A f \in Execution : Holds(f)' <=> Holds(f) /\ f \notin taken
  BY DEF BornWithoutLease, Holds, NoLease
<1>4. \A f \in taken : Holds(f)
  BY DEF Expired, Holders
<1>5. \A f \in Execution : StatusOnceReclaimed(f) \in ExecutionTerminal \cup {"BLOCKED"}
                            /\ (Final(f) => StatusOnceReclaimed(f) = execStatus[f])
  BY DEF StatusOnceReclaimed, Final
<1>6. \A f \in Execution \ {new} :
         InFlight(f)' => InFlight(f) /\ f \notin taken /\ execStatus'[f] = execStatus[f]
  BY <1>2, <1>5 DEF InFlight, ExecutionTerminal
<1>7. LeaseTableExclusive'
  <2>1. \A f, g \in Execution : Holds(f)' /\ Holds(g)' => ~Excludes(f, g)
    BY <1>3 DEF LeaseTableExclusive
  <2> QED
    BY <2>1 DEF LeaseTableExclusive, Excludes, PathOf, LeaseMode, TaskOf
<1>8. LiveHoldsLease'
  <2>1. ~Live(new)'
    BY <1>2 DEF Live
  <2>2. \A f \in Execution : Live(f)' => Holds(f)' \/ f \in orphans
    BY <1>3, <1>6, <2>1 DEF LiveHoldsLease, Live, InFlight
  <2> QED
    BY <2>2 DEF LiveHoldsLease, BornWithoutLease
<1>9. OneInFlight'
  <2>1. ASSUME NEW f \in Execution, InFlight(f)' PROVE f = <<TaskOf(f), revision'[TaskOf(f)]>>
    <3>1. CASE f = new
      BY <1>1, <3>1 DEF TypeOK, TaskOf
    <3>2. CASE f # new
      <4>1. InFlight(f) /\ f = <<TaskOf(f), revision[TaskOf(f)]>>
        BY <1>6, <2>1, <3>2 DEF OneInFlight, Latest
      <4>2. TaskOf(f) # t
        <5>1. SUFFICES ASSUME TaskOf(f) = t PROVE FALSE
          OBVIOUS
        <5>2. HasExecution(t) /\ Latest(t) = f
          BY <4>1, <5>1 DEF HasExecution, Latest, Execution, TaskOf
        <5> QED
          BY <4>1, <5>2 DEF BornWithoutLease, AlreadyInFlight
      <4> QED
        BY <1>1, <4>1, <4>2, Rows DEF TypeOK
    <3> QED
      BY <3>1, <3>2
  <2> QED
    BY <2>1 DEF OneInFlight, Latest, TaskOf
<1>10. UnbornIsBlank'
  <2>1. ASSUME NEW f \in Execution, f[2] > revision'[f[1]]
        PROVE  execStatus'[f] = "NONE" /\ ~(Holds(f)')
    <3>1. f # new
      BY <1>1, <2>1 DEF TypeOK
    <3>2. f[2] > revision[f[1]]
      BY <1>1, <2>1, LimitAssumption DEF TypeOK, Execution
    <3>3. execStatus[f] = "NONE" /\ ~Holds(f)
      BY <3>2 DEF UnbornIsBlank
    <3> QED
      BY <1>2, <1>3, <1>4, <3>1, <3>3
  <2> QED
    BY <2>1 DEF UnbornIsBlank
<1>11. SentIsKnown'
  BY <1>2, <1>5 DEF SentIsKnown, BornWithoutLease, ExecutionTerminal
<1>12. \A e \in Execution : Final(e) => execStatus'[e] = execStatus[e]
  BY <1>1, <1>2, <1>5 DEF Final, ExecutionTerminal
<1> QED
  BY <1>7, <1>8, <1>9, <1>10, <1>11, <1>12

LEMMA LosesIsBirth ==
    ASSUME NEW t \in Task, TickLosesLease(t)
    PROVE  Birth(t)
<1>1. BornWithoutLease(t, "CANCELLED", Expired(WorkspaceOf[t]))
  BY DEF TickLosesLease, BornWithoutLease
<1> QED
  BY <1>1 DEF Birth

\* The record of a handoff puts an attempt on the books that holds its lease.
LEMMA RecordKeeps ==
    ASSUME IInv, RecordHandoff, ~Final(cur)
    PROVE  /\ LeaseTableExclusive'
           /\ LiveHoldsLease'
           /\ OneInFlight'
           /\ UnbornIsBlank'
           /\ SentIsKnown'
           /\ \A e \in Execution : Final(e) => execStatus'[e] = execStatus[e]
<1> USE DEF IInv
<1> PICK e \in Execution : e = cur
  BY DEF InHand, RecordHandoff
<1>1. /\ execStatus[e] = "PENDING"
      /\ Holds(e)
      /\ execStatus' = [execStatus EXCEPT ![e] = "DISPATCHED"]
      /\ UNCHANGED <<revision, lease, orphans, run>>
  BY DEF RecordHandoff, HandoffKeepsLease
<1>2. \A f \in Execution : execStatus'[f] = IF f = e THEN "DISPATCHED" ELSE execStatus[f]
  BY <1>1 DEF TypeOK
<1>3. \A f \in Execution : Holds(f)' <=> Holds(f)
  BY <1>1, HoldsUnchanged
<1>4. LeaseTableExclusive'
  <2>1. \A f, g \in Execution : Holds(f)' /\ Holds(g)' => ~Excludes(f, g)
    BY <1>3 DEF LeaseTableExclusive
  <2> QED
    BY <2>1 DEF LeaseTableExclusive, Excludes, PathOf, LeaseMode, TaskOf
<1>5. LiveHoldsLease'
  BY <1>1, <1>2, <1>3 DEF LiveHoldsLease, Live
<1>6. OneInFlight'
  <2>1. \A f \in Execution : InFlight(f)' => InFlight(f)
    BY <1>1, <1>2 DEF InFlight
  <2> QED
    BY <1>1, <2>1 DEF OneInFlight, Latest, TaskOf
<1>7. UnbornIsBlank'
  BY <1>1, <1>2, <1>3 DEF UnbornIsBlank
<1>8. SentIsKnown' /\ \A f \in Execution : Final(f) => execStatus'[f] = execStatus[f]
  BY <1>1, <1>2 DEF SentIsKnown, Final, ExecutionTerminal
<1> QED
  BY <1>4, <1>5, <1>6, <1>7, <1>8

LEMMA SettlesKeeps ==
    ASSUME IInv, Settles
    PROVE  /\ LeaseTableExclusive'
           /\ LiveHoldsLease'
           /\ OneInFlight'
           /\ UnbornIsBlank'
           /\ SentIsKnown'
           /\ \A e \in Execution : Final(e) => execStatus'[e] = execStatus[e]
<1> USE DEF IInv
<1>1. \A e, f \in Execution : Holds(e)' /\ Holds(f)' => ~Excludes(e, f)
  BY DEF Settles, LeaseTableExclusive
<1>2. \A e \in Execution : (Live(e)' => Live(e)) /\ (InFlight(e)' => InFlight(e))
  BY DEF Settles, Live, InFlight, ExecutionTerminal
<1>3. LeaseTableExclusive'
  BY <1>1 DEF LeaseTableExclusive, Excludes, PathOf, LeaseMode, TaskOf
<1>4. LiveHoldsLease'
  <2>1. \A e \in Execution : Live(e)' => Holds(e)' \/ e \in orphans'
    BY <1>2 DEF Settles, LiveHoldsLease
  <2> QED
    BY <2>1 DEF LiveHoldsLease
<1>5. OneInFlight'
  <2>1. \A e \in Execution : InFlight(e)' => e = <<TaskOf(e), revision'[TaskOf(e)]>>
    BY <1>2 DEF Settles, OneInFlight, Latest
  <2> QED
    BY <2>1 DEF OneInFlight, Latest, TaskOf
<1>6. UnbornIsBlank'
  <2>1. \A e \in Execution : e[2] > revision'[e[1]] => execStatus'[e] = "NONE" /\ ~(Holds(e)')
    BY DEF Settles, UnbornIsBlank
  <2> QED
    BY <2>1 DEF UnbornIsBlank
<1>7. SentIsKnown'
  BY DEF SentIsKnown, Settles, ExecutionTerminal
<1>8. \A e \in Execution : Final(e) => execStatus'[e] = execStatus[e]
  BY DEF Settles
<1> QED
  BY <1>3, <1>4, <1>5, <1>6, <1>7, <1>8

\* Every step settles, creates an attempt or records one as handed off.
LEMMA StepKinds ==
    ASSUME IInv, [Next]_vars
    PROVE  \/ Settles
           \/ \E t \in Task : TickHandsOff(t) \/ Birth(t)
           \/ RecordHandoff /\ ~Final(cur)
<1> USE DEF IInv
<1>1. CASE Pass
  BY <1>1, PassSettles, LosesIsBirth DEF Pass
<1> QED
  BY <1>1, SinkSettles, ReconcilerSettles, OperatorSettles, GatewaySettles, CrashSettles DEF Next

LEMMA TableStep ==
    ASSUME IInv, [Next]_vars
    PROVE  /\ LeaseTableExclusive'
           /\ LiveHoldsLease'
           /\ OneInFlight'
           /\ UnbornIsBlank'
           /\ SentIsKnown'
           /\ \A e \in Execution : Final(e) => execStatus'[e] = execStatus[e]
<1>1. TypeOK'
  BY TypeStep DEF IInv
<1> QED
  BY <1>1, StepKinds, SettlesKeeps, HandsOffKeeps, BirthKeeps, RecordKeeps

-----------------------------------------------------------------------------
(* What waits on the gateway *)

\* A stop under way never sees its attempt come back to life.
LEMMA StoppingStep ==
    ASSUME IInv, [Next]_vars
    PROVE  StoppingIsFinal'
<1>1. \A e \in Execution : Final(e) => Final(e)'
  BY TableStep DEF Final
<1>2. ASSUME stopping' \subseteq stopping PROVE StoppingIsFinal'
  BY <1>1, <1>2 DEF IInv, TypeOK, StoppingIsFinal
<1>3. CASE Pass
  BY <1>2, <1>3
  DEF Pass, BeginPass, WatchdogSkips, WatchdogAborts, WatchdogReclaims, WatchdogDefers, BeginTick,
      TickParks, TickThrows, TickFindsInFlight, TickLosesLease, TickHandsOff, HandoffRefused, HandoffFindsNoAgent,
      ProvisioningEnds, HandoffTimesOut, RecordHandoff, MarkDispatched, EndTick, otherVars
<1>4. CASE Sink
  BY <1>2, <1>4
  DEF Sink, RunEndsCleanly, RunEndsAborted, RunEndsAbnormally, LateErrorQuota, LateErrorTransient,
      LateErrorFatal, otherVars
<1>5. CASE Reconciler
  BY <1>2, <1>5
  DEF Reconciler, ReconcilerLists, ReconcilerPasses, ReconcileSettles, ReconcileRecovers,
      ReconcileAborts
<1>6. CASE Operator
  <2>1. ASSUME NEW t \in Task, Stop(t) PROVE StoppingIsFinal'
    <3>1. CASE stopping' = stopping
      BY <1>2, <3>1
    <3>2. CASE stopping' # stopping
      <4>1. HasExecution(t)
        BY <2>1, <3>2 DEF Stop
      <4> PICK e \in Execution : e = Latest(t)
        BY <4>1, Rows DEF IInv
      <4>2. stopping' = stopping \cup {e} /\ execStatus' = [execStatus EXCEPT ![e] = "CANCELLED"]
        BY <2>1, <3>2 DEF Stop
      <4>3. Final(e)'
        BY <4>2 DEF IInv, TypeOK, Final, ExecutionTerminal
      <4> QED
        BY <1>1, <4>2, <4>3 DEF IInv, TypeOK, StoppingIsFinal
    <3> QED
      BY <3>1, <3>2
  <2> QED
    BY <1>2, <1>6, <2>1 DEF Operator, Start, Cancel, Revise, Settle, StopAborts, StopFails, otherVars
<1>7. CASE Gateway
  BY <1>2, <1>7 DEF Gateway, GatewayAccepts, GatewayRefusesLate, GatewayEndsRun, otherVars
<1>8. CASE Crashes
  BY <1>2, <1>8, CrashRestarts DEF IInv, Restart
<1>9. CASE \E e \in Execution : LeaseExpires(e)
  BY <1>2, <1>9 DEF LeaseExpires, otherVars
<1>10. CASE UNCHANGED vars
  BY <1>2, <1>10 DEF vars, otherVars
<1> QED
  BY <1>3, <1>4, <1>5, <1>6, <1>7, <1>8, <1>9, <1>10 DEF Next

\* While the pass waits, nothing done elsewhere takes the row from its hand.
LEMMA HandStep ==
    ASSUME IInv, [Next]_vars
    PROVE  HandIsKnown' /\ HandoffKeepsLease'
<1> USE DEF IInv
<1>1. \A e \in Execution : execStatus[e] # "NONE" => execStatus'[e] # "NONE"
  <2>1. CASE Settles
    BY <2>1 DEF Settles, ExecutionTerminal
  <2>2. ASSUME NEW t \in Task, TickHandsOff(t) \/ Birth(t)
        PROVE  \A e \in Execution : execStatus[e] # "NONE" => execStatus'[e] # "NONE"
    BY <2>2 DEF TickHandsOff, Birth, BornWithoutLease, Create, StatusOnceReclaimed
  <2>3. CASE RecordHandoff /\ ~Final(cur)
    BY <2>3 DEF TypeOK, RecordHandoff
  <2> QED
    BY <2>1, <2>2, <2>3, StepKinds
<1>2. ASSUME UNCHANGED passVars, SparesHandoff PROVE HandIsKnown' /\ HandoffKeepsLease'
  <2>1. UNCHANGED <<pc, cur, stalled>>
    BY <1>2 DEF passVars
  <2>2. HandIsKnown'
    BY <1>1, <2>1 DEF TypeOK, InHand, HandIsKnown
  <2>3. HandoffKeepsLease'
    <3>1. SUFFICES ASSUME pc = "handoff" PROVE HandoffKeepsLease'
      BY <2>1 DEF HandoffKeepsLease
    <3> PICK e \in Execution : e = cur
      BY <3>1 DEF InHand
    <3>2. CASE Final(e)
      BY <2>1, <3>2, TableStep DEF HandoffKeepsLease, Final
    <3>3. CASE ~Final(e)
      <4>1. Final(e)' \/ (execStatus'[e] = "PENDING" /\ Holds(e)')
        BY <1>2, <3>1, <3>3 DEF HandoffKeepsLease, SparesHandoff
      <4> QED
        BY <2>1, <4>1 DEF HandoffKeepsLease, Holds, Final
    <3> QED
      BY <3>2, <3>3
  <2> QED
    BY <2>2, <2>3
<1>3. ASSUME pc' \in {"idle", "reclaim", "tick"}, stalled' \subseteq stalled
      PROVE  HandIsKnown' /\ HandoffKeepsLease'
  BY <1>1, <1>3 DEF TypeOK, HandIsKnown, HandoffKeepsLease
<1>4. ASSUME NEW t, NEW from, NEW w, MoveOn(t, from, w), pc = "tick" \/ pc \in {"provisioning", "marking", "handoff"}
      PROVE  pc' \in {"idle", "reclaim", "tick"} /\ stalled' \subseteq stalled
  BY <1>4 DEF MoveOn, PassDies
<1>5. ASSUME NEW w, NEW bump, HandoffCatch(w, bump)
      PROVE  pc' \in {"idle", "reclaim", "tick"} /\ stalled' \subseteq stalled
  <2>1. CASE Final(cur)
    BY <1>5, <2>1 DEF HandoffCatch, PassDies
  <2>2. CASE ~Final(cur)
    BY <1>5, <2>2 DEF HandoffCatch, MoveOn, PassDies
  <2> QED
    BY <2>1, <2>2
<1>6. CASE Pass
  <2>1. CASE BeginPass
    BY <1>1, <2>1 DEF BeginPass, HandIsKnown, HandoffKeepsLease, Live
  <2>2. ASSUME NEW e \in Execution, WatchdogSkips(e) PROVE HandIsKnown' /\ HandoffKeepsLease'
    BY <1>3, <2>2 DEF WatchdogSkips
  <2>3. ASSUME NEW e \in Execution, WatchdogAborts(e) PROVE HandIsKnown' /\ HandoffKeepsLease'
    <3>1. UNCHANGED execStatus /\ cur' = e /\ execStatus[e] # "NONE" /\ stalled' \subseteq stalled
          /\ pc' = "aborting"
      BY <2>3 DEF WatchdogAborts, execVars, HandIsKnown
    <3> QED
      BY <3>1 DEF HandIsKnown, HandoffKeepsLease
  <2>4. CASE WatchdogReclaims \/ WatchdogDefers
    BY <1>3, <2>4 DEF WatchdogReclaims, WatchdogDefers
  <2>5. CASE BeginTick
    BY <1>3, <2>5 DEF BeginTick
  <2>6. ASSUME NEW t \in Task, NEW w,
               TickParks(t, w) \/ TickThrows(t) \/ TickFindsInFlight(t) \/ TickLosesLease(t)
        PROVE  HandIsKnown' /\ HandoffKeepsLease'
    BY <1>3, <1>4, <2>6
    DEF TickParks, TickThrows, TickFindsInFlight, TickLosesLease, Dispatching, PassDies
  <2>7. ASSUME NEW t \in Task, TickHandsOff(t) PROVE HandIsKnown' /\ HandoffKeepsLease'
    <3> PICK new \in Execution : new = NewExecution(t)
      BY <2>7, Rows DEF TickHandsOff
    <3>1. /\ cur' = new
          /\ execStatus'[new] = "PENDING"
          /\ lease'[new].at = acquired + 1
          /\ stalled' = stalled
      BY <2>7 DEF TickHandsOff, Create
    <3>2. HandIsKnown'
      BY <1>1, <3>1 DEF TypeOK, HandIsKnown
    <3>3. HandoffKeepsLease'
      BY <3>1 DEF TypeOK, HandoffKeepsLease, Holds
    <3> QED
      BY <3>2, <3>3
  <2>8. CASE HandoffRefused \/ HandoffTimesOut
    BY <1>3, <1>5, <2>8 DEF HandoffRefused, HandoffTimesOut
  <2>9. CASE HandoffFindsNoAgent
    <3>1. CASE Final(cur)
      BY <1>3, <2>9, <3>1 DEF HandoffFindsNoAgent, PassDies
    <3>2. CASE ~Final(cur)
      BY <1>1, <2>9, <3>2 DEF HandoffFindsNoAgent, TypeOK, InHand, HandIsKnown, HandoffKeepsLease
    <3> QED
      BY <3>1, <3>2
  <2>10. CASE ProvisioningEnds
    BY <1>3, <1>4, <2>10 DEF ProvisioningEnds
  <2>11. CASE RecordHandoff
    <3>1. CASE Final(cur)
      BY <1>3, <1>5, <2>11, <3>1 DEF RecordHandoff
    <3>2. CASE ~Final(cur)
      BY <1>1, <2>11, <3>2 DEF RecordHandoff, TypeOK, InHand, HandIsKnown, HandoffKeepsLease
    <3> QED
      BY <3>1, <3>2
  <2>12. CASE MarkDispatched
    BY <1>3, <1>4, <1>5, <2>12 DEF MarkDispatched
  <2>13. CASE EndTick
    BY <1>3, <2>13 DEF EndTick, PassDies
  <2> QED
    BY <1>6, <2>1, <2>2, <2>3, <2>4, <2>5, <2>6, <2>7, <2>8, <2>9, <2>10, <2>11, <2>12, <2>13
    DEF Pass
<1>7. CASE Sink
  BY <1>2, <1>7, SinkSettles
  DEF Sink, RunEndsCleanly, RunEndsAborted, RunEndsAbnormally, LateErrorQuota, LateErrorTransient,
      LateErrorFatal
<1>8. CASE Reconciler
  BY <1>2, <1>8, ReconcilerSettles
  DEF Reconciler, ReconcilerLists, ReconcilerPasses, ReconcileSettles, ReconcileRecovers,
      ReconcileAborts
<1>9. CASE Operator
  BY <1>2, <1>9, OperatorSettles
  DEF Operator, Start, Cancel, Stop, Revise, Settle, StopAborts, StopFails
<1>10. CASE Gateway
  BY <1>2, <1>10, GatewaySettles DEF Gateway, GatewayAccepts, GatewayRefusesLate, GatewayEndsRun
<1>11. CASE Crashes
  BY <1>3, <1>11, CrashRestarts DEF Restart, PassDies
<1>12. CASE \E e \in Execution : LeaseExpires(e)
  BY <1>2, <1>12, GatewaySettles DEF LeaseExpires
<1>13. CASE UNCHANGED vars
  BY <1>2, <1>13, GatewaySettles DEF vars
<1> QED
  BY <1>6, <1>7, <1>8, <1>9, <1>10, <1>11, <1>12, <1>13 DEF Next

-----------------------------------------------------------------------------
(* The budgets: every path that counts a refusal has looked at the budget in  *)
(* the same step.                                                             *)

\* Counters stay where they are, start again or stay within the budget.
CountersBehave ==
    \A t \in Task :
        /\ quotaRetries'[t] \in {0, quotaRetries[t]} \/ quotaRetries'[t] <= QuotaRetryLimit
        /\ resourceRetries'[t] \in {0, resourceRetries[t]} \/ resourceRetries'[t] <= ResourceRetryLimit

LEMMA CountersStep ==
    ASSUME IInv, [Next]_vars
    PROVE  CountersBehave
<1> USE DEF IInv
<1>1. ASSUME UNCHANGED <<quotaRetries, resourceRetries>> PROVE CountersBehave
  BY <1>1 DEF CountersBehave
<1>2. ASSUME NEW t \in Task, ResetRetries(t) PROVE CountersBehave
  BY <1>2 DEF TypeOK, CountersBehave, ResetRetries
<1>3. ASSUME NEW e \in Execution, NEW verdict, FinalizeRun(e, verdict) PROVE CountersBehave
  BY <1>1, <1>2, <1>3, Rows DEF FinalizeRun
<1>4. ASSUME NEW w, HandoffCatch(w, 0), cur \in Execution, UNCHANGED resourceRetries PROVE CountersBehave
  <2>1. UNCHANGED quotaRetries
    BY <1>4, Rows DEF HandoffCatch, TypeOK
  <2> QED
    BY <1>1, <1>4, <2>1
<1>5. ASSUME pc \in {"handoff", "marking"} PROVE cur \in Execution
  BY <1>5 DEF InHand
<1>6. CASE Pass
  <2>1. CASE HandoffRefused
    <3>1. cur \in Execution /\ UNCHANGED resourceRetries
      BY <1>5, <2>1 DEF HandoffRefused
    <3>2. CASE QuotaBudgetLeft(TaskOf(cur)) /\ HandoffCatch("WAIT_QUOTA", 1)
      <4>1. CASE Final(cur)
        BY <1>1, <3>1, <3>2, <4>1 DEF HandoffCatch
      <4>2. CASE ~Final(cur)
        <5>1. quotaRetries' = [quotaRetries EXCEPT ![TaskOf(cur)] = @ + 1]
          BY <3>2, <4>2 DEF HandoffCatch
        <5> QED
          BY <3>1, <3>2, <5>1, LimitAssumption DEF CountersBehave, QuotaBudgetLeft, TypeOK
      <4> QED
        BY <4>1, <4>2
    <3>3. CASE \E w : HandoffCatch(w, 0)
      BY <1>4, <3>1, <3>3
    <3> QED
      BY <2>1, <3>2, <3>3 DEF HandoffRefused
  <2>2. CASE HandoffTimesOut
    BY <1>4, <1>5, <2>2 DEF HandoffTimesOut
  <2>3. CASE RecordHandoff
    BY <1>1, <1>4, <1>5, <2>3 DEF RecordHandoff
  <2>4. CASE MarkDispatched
    BY <1>1, <1>4, <1>5, <2>4 DEF MarkDispatched
  <2>5. CASE ~(HandoffRefused \/ HandoffTimesOut \/ RecordHandoff \/ MarkDispatched)
    BY <1>1, <1>6, <2>5
    DEF Pass, BeginPass, WatchdogSkips, WatchdogAborts, WatchdogReclaims, WatchdogDefers, BeginTick,
        TickParks, TickThrows, TickFindsInFlight, TickLosesLease, TickHandsOff, HandoffFindsNoAgent,
        ProvisioningEnds, EndTick, taskVars
  <2> QED
    BY <2>1, <2>2, <2>3, <2>4, <2>5
<1>7. CASE Sink
  <2>1. ASSUME NEW e \in Execution, LateErrorQuota(e) PROVE CountersBehave
    BY <2>1, LimitAssumption DEF LateErrorQuota, CountersBehave, QuotaBudgetLeft, Bump, TypeOK
  <2>2. ASSUME NEW e \in Execution, LateErrorTransient(e) PROVE CountersBehave
    BY <2>2, LimitAssumption DEF LateErrorTransient, CountersBehave, Bump, TypeOK
  <2> QED
    BY <1>1, <1>3, <1>7, <2>1, <2>2
    DEF Sink, RunEndsCleanly, RunEndsAborted, RunEndsAbnormally, LateErrorFatal
<1>8. CASE Reconciler
  BY <1>1, <1>3, <1>8
  DEF Reconciler, ReconcilerLists, ReconcilerPasses, ReconcileSettles, ReconcileRecovers,
      ReconcileAborts, taskVars
<1>9. CASE Operator
  BY <1>1, <1>2, <1>9
  DEF Operator, Start, Cancel, Stop, Revise, Settle, StopAborts, StopFails, taskVars
<1>10. CASE Gateway \/ (\E e \in Execution : LeaseExpires(e)) \/ UNCHANGED vars
  BY <1>1, <1>10
  DEF Gateway, GatewayAccepts, GatewayRefusesLate, GatewayEndsRun, LeaseExpires, vars, taskVars
<1>11. CASE Crashes
  <2>1. ASSUME NEW e \in Execution, CrashAmidVerdict(e) \/ CrashAmidRefusal(e) PROVE CountersBehave
    <3>1. /\ quotaRetries \in [Task -> Nat]
          /\ resourceRetries \in [Task -> Nat]
          /\ TaskOf(e) \in Task
      BY Rows DEF TypeOK
    <3>2. CASE /\ QuotaBudgetLeft(TaskOf(e))
               /\ quotaRetries' = [quotaRetries EXCEPT ![TaskOf(e)] = @ + 1]
               /\ UNCHANGED resourceRetries
      BY <3>1, <3>2, LimitAssumption DEF CountersBehave, QuotaBudgetLeft
    <3>3. CASE /\ resourceRetries[TaskOf(e)] < ResourceRetryLimit
               /\ resourceRetries' = [resourceRetries EXCEPT ![TaskOf(e)] = @ + 1]
               /\ UNCHANGED quotaRetries
      BY <3>1, <3>3, LimitAssumption DEF CountersBehave
    <3> QED
      BY <1>1, <1>2, <2>1, <3>1, <3>2, <3>3, CutShortEffect
  <2>2. CASE CrashInCatch
    <3>1. cur \in Execution
      BY <1>5, <2>2 DEF CrashInCatch, CatchReached
    <3>2. CASE UNCHANGED quotaRetries
      BY <1>1, <2>2, <3>2 DEF CrashInCatch
    <3>3. CASE /\ QuotaBudgetLeft(TaskOf(cur))
               /\ quotaRetries' = [quotaRetries EXCEPT ![TaskOf(cur)] = @ + 1]
               /\ UNCHANGED resourceRetries
      BY <3>1, <3>3, LimitAssumption, Rows DEF CountersBehave, QuotaBudgetLeft, TypeOK
    <3> QED
      BY <2>2, <3>2, <3>3 DEF CrashInCatch
  <2>3. CASE Crash \/ CrashAmidRecord \/ (\E t \in Task : CrashAmidDispatch(t) \/ CrashAmidSettle(t))
             \/ (\E e \in Execution : CrashAmidStop(e))
    BY <1>1, <2>3 DEF Crash, CrashAmidRecord, CrashAmidDispatch, CrashAmidSettle, CrashAmidStop, taskVars
  <2> QED
    BY <1>11, <2>1, <2>2, <2>3 DEF Crashes
<1> QED
  BY <1>6, <1>7, <1>8, <1>9, <1>10, <1>11 DEF Next

LEMMA BudgetStep ==
    ASSUME IInv, [Next]_vars
    PROVE  BudgetsRespected'
BY CountersStep, LimitAssumption DEF IInv, TypeOK, CountersBehave, BudgetsRespected

-----------------------------------------------------------------------------
(* The invariant and what follows from it *)

LEMMA InductiveInit ==
    ASSUME Init
    PROVE  IInv
<1>1. \A e \in Execution : ~Holds(e) /\ ~InFlight(e) /\ ~Live(e)
  BY DEF Init, NoLease, Holds, InFlight, Live
<1> QED
  BY <1>1, TypeInit, LimitAssumption
  DEF IInv, Init, LeaseTableExclusive, LiveHoldsLease, OneInFlight, BudgetsRespected,
      HandoffKeepsLease, HandIsKnown, SentIsKnown, StoppingIsFinal, UnbornIsBlank

LEMMA InductiveStep ==
    ASSUME IInv, [Next]_vars
    PROVE  IInv'
BY TypeStep, InHandStep, TableStep, StoppingStep, HandStep, BudgetStep DEF IInv

\* The invariant the other theorems are read off: the tables, the budgets and
\* what the pass and a stop under way may rely on.
THEOREM Inductive == Spec => []IInv
BY InductiveInit, InductiveStep, PTL DEF Spec

\* leases.acquire, the orphan sweep and every release keep the holders of a path
\* compatible, for any number of tasks, readers and attempts.
THEOREM LeaseTableIsExclusive == Spec => []LeaseTableExclusive
<1>1. IInv => LeaseTableExclusive
  BY DEF IInv
<1> QED
  BY <1>1, Inductive, PTL

\* What is on record as running holds its workspace: no schedule of sweeps,
\* reclaims, refusals and stops leaves a DISPATCHED attempt without its lease.
THEOREM LiveAttemptsHoldLeases == Spec => []LiveHoldsLease
<1>1. IInv => LiveHoldsLease
  BY DEF IInv
<1> QED
  BY <1>1, Inductive, PTL

\* A task never has two attempts in flight, crashes and late frames included.
THEOREM AtMostOneInFlight == Spec => []OneInFlight
<1>1. IInv => OneInFlight
  BY DEF IInv
<1> QED
  BY <1>1, Inductive, PTL

\* The two counters that decide between waiting and BLOCKED stay within their
\* budgets although two paths count.
THEOREM BudgetsAreRespected == Spec => []BudgetsRespected
<1>1. IInv => BudgetsRespected
  BY DEF IInv
<1> QED
  BY <1>1, Inductive, PTL

\* An execution row is immutable once finalized: the writers that would violate
\* this throw instead, and the throw leaves the row alone.
THEOREM FinalizedIsImmutable ==
    Spec => [][\A e \in Execution : Final(e) => execStatus'[e] = execStatus[e]]_vars
<1>1. IInv /\ [Next]_vars => [\A e \in Execution : Final(e) => execStatus'[e] = execStatus[e]]_vars
  BY TableStep
<1> QED
  BY <1>1, Inductive, PTL DEF Spec

-----------------------------------------------------------------------------
(* Cancel is a dead end *)

LEMMA DeadEnd == \A w, reason : MayTransition("CANCELLED", w, reason) => w = "CANCELLED"
BY DEF MayTransition, AssertTransition, CanTransition, Successors, WaitingStatus

LEMMA CancelStep ==
    ASSUME IInv, [Next]_vars, NEW t \in Task, status[t] = "CANCELLED"
    PROVE  status'[t] = "CANCELLED"
<1> USE DEF IInv
<1>1. ASSUME UNCHANGED status PROVE status'[t] = "CANCELLED"
  BY <1>1
<1>2. ASSUME NEW s, NEW w, w = "CANCELLED" \/ s # t, status' = [status EXCEPT ![s] = w]
      PROVE  status'[t] = "CANCELLED"
  BY <1>2 DEF TypeOK
<1>3. \A w : CanTransition("CANCELLED", w) => w = "CANCELLED"
  BY DEF CanTransition, Successors, WaitingStatus
<1>4. ASSUME NEW s, NEW from, NEW w, MoveOn(s, from, w), from = "CANCELLED" \/ s # t, w # "CANCELLED"
      PROVE  status'[t] = "CANCELLED"
  BY <1>2, <1>4, DeadEnd DEF MoveOn
<1>5. ASSUME NEW e \in Execution, NEW verdict, FinalizeRun(e, verdict)
      PROVE  status'[t] = "CANCELLED"
  BY <1>1, <1>2, <1>3, <1>5 DEF FinalizeRun
<1>6. ASSUME NEW e \in Execution, ApplyRuntimeFailure(e) PROVE status'[t] = "CANCELLED"
  BY <1>1, <1>2, <1>6, RuntimeFailureEffect
<1>7. ASSUME NEW w, NEW bump, w # "CANCELLED", HandoffCatch(w, bump) PROVE status'[t] = "CANCELLED"
  BY <1>1, <1>4, <1>7 DEF HandoffCatch
<1>8. ASSUME NEW e, NEW verdict, NEW w, w # "CANCELLED", LateVerdict(e, verdict, w)
      PROVE  status'[t] = "CANCELLED"
  BY <1>1, <1>2, <1>8, DeadEnd DEF LateVerdict
<1>9. CASE Pass
  <2>1. ASSUME NEW s \in Task, NEW w \in WaitingStatus \cup {"BLOCKED"}, TickParks(s, w)
        PROVE  status'[t] = "CANCELLED"
    BY <1>4, <2>1 DEF TickParks, WaitingStatus
  <2>2. ASSUME NEW s \in Task, Dispatching(s) PROVE Requeued(s) = "CANCELLED" \/ s # t
    BY <2>2, DeadEnd DEF Dispatching, CanRequeue, Requeued
  <2>3. ASSUME NEW s \in Task, TickFindsInFlight(s) \/ TickLosesLease(s) PROVE status'[t] = "CANCELLED"
    BY <1>4, <2>2, <2>3 DEF TickFindsInFlight, TickLosesLease
  <2>4. ASSUME NEW s \in Task, TickHandsOff(s) PROVE status'[t] = "CANCELLED"
    BY <1>2, <2>2, <2>4 DEF TickHandsOff
  <2>5. CASE HandoffRefused \/ HandoffTimesOut
    BY <1>7, <2>5 DEF HandoffRefused, HandoffTimesOut
  <2>6. CASE ProvisioningEnds
    BY <1>4, <2>6 DEF ProvisioningEnds
  <2>7. CASE RecordHandoff
    BY <1>1, <1>7, <2>7 DEF RecordHandoff
  <2>8. CASE MarkDispatched
    BY <1>4, <1>7, <2>8 DEF MarkDispatched
  <2>9. CASE WatchdogReclaims
    <3>1. cur \in Execution
      BY <2>9 DEF InHand, WatchdogReclaims
    <3> QED
      BY <1>1, <1>6, <2>9, <3>1 DEF WatchdogReclaims
  <2>10. ASSUME NEW s \in Task, TickThrows(s) PROVE status'[t] = "CANCELLED"
    BY <1>1, <2>10 DEF TickThrows, taskVars
  <2>11. CASE BeginPass \/ (\E e \in Execution : WatchdogSkips(e) \/ WatchdogAborts(e))
              \/ WatchdogDefers \/ BeginTick \/ HandoffFindsNoAgent \/ EndTick
    BY <1>1, <2>11
    DEF BeginPass, WatchdogSkips, WatchdogAborts, WatchdogDefers, BeginTick, HandoffFindsNoAgent,
        EndTick, taskVars
  <2> QED
    BY <1>9, <2>1, <2>3, <2>4, <2>5, <2>6, <2>7, <2>8, <2>9, <2>10, <2>11 DEF Pass
<1>10. CASE Sink
  BY <1>5, <1>6, <1>8, <1>10
  DEF Sink, RunEndsCleanly, RunEndsAborted, RunEndsAbnormally, LateErrorQuota, LateErrorTransient,
      LateErrorFatal
<1>11. CASE Reconciler
  BY <1>1, <1>5, <1>6, <1>11
  DEF Reconciler, ReconcilerLists, ReconcilerPasses, ReconcileSettles, ReconcileRecovers,
      ReconcileAborts, taskVars
<1>12. CASE Operator
  <2>1. ASSUME NEW s, NEW e, StopEnds(s, e) PROVE status'[t] = "CANCELLED"
    BY <1>1, <1>2, <2>1, DeadEnd DEF StopEnds
  <2>2. ASSUME NEW s \in Task, Stop(s) PROVE status'[t] = "CANCELLED"
    BY <1>1, <1>2, <2>1, <2>2 DEF Stop
  <2>3. ASSUME NEW s \in Task, NEW sessionMode, Revise(s, sessionMode) PROVE status'[t] = "CANCELLED"
    BY <1>2, <2>3, DeadEnd DEF Revise
  <2>4. ASSUME NEW s \in Task, Start(s) \/ Cancel(s) \/ Settle(s) PROVE status'[t] = "CANCELLED"
    BY <1>2, <1>3, <2>4 DEF Start, Cancel, Settle
  <2>5. ASSUME NEW e \in Execution, StopAborts(e) \/ StopFails(e) PROVE status'[t] = "CANCELLED"
    BY <1>1, <2>1, <2>5 DEF StopAborts, StopFails, taskVars
  <2> QED
    BY <1>12, <2>2, <2>3, <2>4, <2>5 DEF Operator
<1>13. CASE Gateway \/ (\E e \in Execution : LeaseExpires(e)) \/ UNCHANGED vars
  BY <1>1, <1>13
  DEF Gateway, GatewayAccepts, GatewayRefusesLate, GatewayEndsRun, LeaseExpires, vars, taskVars
<1>14. CASE Crashes
  <2>1. ASSUME NEW s \in Task, CrashAmidDispatch(s) PROVE status'[t] = "CANCELLED"
    <3>1. Requeued(s) = "CANCELLED" \/ s # t
      BY <2>1, DeadEnd DEF CrashAmidDispatch, Dispatching, CanRequeue, Requeued
    <3> QED
      BY <1>2, <2>1, <3>1 DEF CrashAmidDispatch
  <2>2. ASSUME NEW s \in Task, CrashAmidSettle(s) PROVE status'[t] = "CANCELLED"
    BY <1>2, <1>3, <2>2 DEF CrashAmidSettle
  <2>3. ASSUME NEW e \in Execution, CrashAmidVerdict(e) \/ CrashAmidRefusal(e)
        PROVE  status'[t] = "CANCELLED"
    <3>1. PICK w : \/ UNCHANGED status
                   \/ /\ MayTransition(status[TaskOf(e)], w, "auto-retry")
                      /\ status' = [status EXCEPT ![TaskOf(e)] = w]
      BY <2>3, CutShortEffect
    <3> QED
      BY <1>1, <1>2, <3>1, DeadEnd
  <2>4. CASE Crash \/ CrashAmidRecord \/ CrashInCatch \/ (\E e \in Execution : CrashAmidStop(e))
    BY <1>1, <2>4 DEF Crash, CrashAmidRecord, CrashInCatch, CrashAmidStop, taskVars
  <2> QED
    BY <1>14, <2>1, <2>2, <2>3, <2>4 DEF Crashes
<1> QED
  BY <1>9, <1>10, <1>11, <1>12, <1>13, <1>14 DEF Next

\* An operator's cancel is never overruled: no pass, verdict, stop or repair,
\* however stale what it read, moves the task out of CANCELLED.
THEOREM CancelIsNeverOverruled == Spec => CancelIsFinal
<1>1. IInv /\ [Next]_vars
      => [\A t \in Task : status[t] = "CANCELLED" => status'[t] = "CANCELLED"]_vars
  BY CancelStep
<1> QED
  BY <1>1, Inductive, PTL DEF Spec, CancelIsFinal

-----------------------------------------------------------------------------
(* The lease table implements WorkspaceLock *)

LEMMA LockInit ==
    ASSUME Init
    PROVE  Lock!Init
BY DEF Init, Lock!Init, NoLease, Holds, Live

LEMMA LockStep ==
    ASSUME IInv, [Next]_vars
    PROVE  [Lock!Next]_Lock!vars
<1> DEFINE holders == {e \in Execution : Holds(e)}
           working == {e \in Execution : Live(e)} \ orphans
<1>1. LeaseTableExclusive' /\ LiveHoldsLease'
  BY TableStep
<1>2. working' \subseteq holders'
  BY <1>1 DEF LiveHoldsLease
<1>3. CASE Settles
  <2>1. holders' \subseteq holders /\ working' \subseteq working
    BY <1>3 DEF Settles, Live, ExecutionTerminal
  <2>2. Lock!Leave
    BY <1>2, <2>1 DEF Lock!Leave
  <2> QED
    BY <2>2 DEF Lock!Next
<1>4. ASSUME NEW t \in Task, TickHandsOff(t) PROVE Lock!Next
  <2> PICK new \in Execution : new = NewExecution(t)
    BY <1>4, Rows DEF IInv, TickHandsOff
  <2>1. new \in holders'
    BY <1>4 DEF IInv, TypeOK, TickHandsOff, Holds
  <2>2. \A f \in holders' \ {new} : f \in holders
    BY <1>4 DEF IInv, TypeOK, TickHandsOff, Holds, NoLease
  <2>3. \A f \in holders' \ {new} : ~Excludes(new, f) /\ ~Excludes(f, new)
    BY <1>1, <2>1 DEF LeaseTableExclusive, Excludes, PathOf, LeaseMode, TaskOf
  <2>4. working' \subseteq working \ {new}
    BY <1>4 DEF TickHandsOff, Create, StatusOnceReclaimed, Final, Live, ExecutionTerminal
  <2>5. Lock!Grant(new)
    BY <1>2, <2>1, <2>2, <2>3, <2>4 DEF Lock!Grant
  <2> QED
    BY <2>5 DEF Lock!Next
<1>5. ASSUME NEW t \in Task, Birth(t) PROVE Lock!Next
  <2> PICK s \in {"PENDING", "CANCELLED"}, lapsed \in {{}, Expired(WorkspaceOf[t])} :
             BornWithoutLease(t, s, lapsed)
    BY <1>5 DEF Birth
  <2>1. holders' \subseteq holders
    BY DEF BornWithoutLease, Holds, NoLease
  <2>2. working' \subseteq working
    BY DEF BornWithoutLease, Create, StatusOnceReclaimed, Final, Live, ExecutionTerminal
  <2>3. Lock!Leave
    BY <1>2, <2>1, <2>2 DEF Lock!Leave
  <2> QED
    BY <2>3 DEF Lock!Next
<1>6. CASE RecordHandoff /\ ~Final(cur)
  <2> PICK e \in Execution : e = cur
    BY <1>6 DEF IInv, InHand, RecordHandoff
  <2>1. /\ Holds(e)
        /\ execStatus' = [execStatus EXCEPT ![e] = "DISPATCHED"]
        /\ UNCHANGED <<lease, orphans>>
    BY <1>6 DEF IInv, RecordHandoff, HandoffKeepsLease
  <2>2. holders' = holders /\ e \in holders
    BY <2>1 DEF Holds
  <2>3. CASE e \in orphans
    <3>1. working' = working
      BY <2>1, <2>3 DEF IInv, TypeOK, Live
    <3> QED
      BY <2>2, <3>1 DEF Lock!vars
  <2>4. CASE e \notin orphans
    <3>1. working' = working \cup {e}
      BY <2>1, <2>4 DEF IInv, TypeOK, Live
    <3>2. Lock!Work(e)
      BY <2>2, <3>1 DEF Lock!Work
    <3> QED
      BY <3>2 DEF Lock!Next
  <2> QED
    BY <2>3, <2>4
<1> QED
  BY <1>3, <1>4, <1>5, <1>6, StepKinds

\* Leases and execution statuses, as every handler writes them, refine the lock
\* on a shared workspace: grants go to executions nobody excludes, only holders
\* are on record as running, and a row stops claiming to run before or as its
\* lease goes.
THEOREM LeasesImplementLock == Spec => ImplementsLock
<1>1. Init => Lock!Init
  BY LockInit
<1>2. IInv /\ [Next]_vars => [Lock!Next]_Lock!vars
  BY LockStep
<1> QED
  BY <1>1, <1>2, Inductive, PTL DEF Spec, ImplementsLock, Lock!Spec

-----------------------------------------------------------------------------
(* A controller nobody disturbs: no operator cancels or stops, no handoff is  *)
(* lost, nothing crashes and no lease outlives its heartbeat.  Operators may  *)
(* still revise and repair, gates refuse, handoffs and runs fail in every way *)
(* and frames get lost.  Then the tables tell what really runs.               *)

Orderly == Environment \subseteq {"revise", "settle"}

NothingDisturbed ==
    /\ \A e \in Execution : ~lease[e].expired
    /\ stopping = {}

\* What the gateway was handed or runs is an attempt in flight; an attempt is
\* BLOCKED only because the gateway refused it.
RunsAccountedFor ==
    \A e \in Execution :
        /\ run[e] = "sent" => execStatus[e] = "PENDING"
        /\ run[e] = "live" => InFlight(e)
        /\ execStatus[e] = "BLOCKED" => run[e] = "refused"

\* A pending attempt is the one the pass is handing off, and the task of a live
\* one is DISPATCHED from the step that marks it on.
AttemptsMatchTasks ==
    \A e \in Execution :
        /\ execStatus[e] = "CANCELLED" => status[TaskOf(e)] = "CANCELLED"
        /\ execStatus[e] = "PENDING" => pc = "handoff" /\ e = cur
        /\ Live(e) => status[TaskOf(e)] = "DISPATCHED" \/ (pc = "marking" /\ e = cur)

Busy(t) == pc \in {"handoff", "provisioning", "marking"} /\ t = TaskOf(cur)

\* What the tick read is still so: a task it has yet to consider is admissible,
\* and holds no lease.
PassIsCurrent ==
    /\ \A t \in Task : snapshot[t] # "none" => status[t] \in AdmissibleStatus \/ Busy(t)
    /\ pc \in {"handoff", "marking"} /\ InFlight(cur) => status[TaskOf(cur)] \in AdmissibleStatus
    /\ \A e \in Execution :
          pc \in {"tick", "handoff", "provisioning", "marking"} /\ Holds(e)
          => snapshot[TaskOf(e)] = "none" \/ (e = cur /\ pc \in {"handoff", "marking"})

\* Nobody creates an attempt behind the back of the pass: what the watchdog read
\* and what is being handed off is the newest of its task, and the attempt is
\* over while its sandbox is provisioned.
HandIsNewest ==
    /\ pc \in {"reclaim", "aborting"} => \A e \in stalled : e = Latest(TaskOf(e))
    /\ pc \in {"aborting", "handoff", "provisioning", "marking"} => cur = Latest(TaskOf(cur))
    /\ pc = "provisioning" => Final(cur)

UInv ==
    /\ IInv
    /\ HandIsNewest
    /\ NothingDisturbed
    /\ RunsAccountedFor
    /\ AttemptsMatchTasks
    /\ PassIsCurrent

LEMMA StatusNames ==
    /\ \A w \in AdmissibleStatus :
          w \notin {"CREATED", "DISPATCHED", "RUNNING", "BLOCKED", "COMPLETE", "FAILED", "CANCELLED", "none"}
    /\ "QUEUED" \in AdmissibleStatus
    /\ \A w \in AdmissibleStatus : MayTransition(w, "DISPATCHED", "none")
BY DEF AdmissibleStatus, WaitingStatus, MayTransition, AssertTransition, CanTransition, Successors

LEMMA ExecutionNames ==
    ASSUME NEW e \in Execution
    PROVE  /\ InFlight(e) <=> execStatus[e] = "PENDING" \/ Live(e)
           /\ Live(e) => ~Final(e) /\ execStatus[e] \notin {"NONE", "PENDING", "BLOCKED"}
           /\ execStatus[e] = "PENDING" => ~Final(e) /\ ~Live(e)
           /\ TypeOK => InFlight(e) \/ Final(e) \/ execStatus[e] \in {"NONE", "BLOCKED"}
BY DEF InFlight, Live, Final, ExecutionTerminal, ExecutionStatus, TypeOK

\* In an undisturbed controller two attempts of a task in flight are the same.
LEMMA OnlyOne ==
    ASSUME UInv, NEW e \in Execution, NEW f \in Execution,
           InFlight(e), InFlight(f), TaskOf(e) = TaskOf(f)
    PROVE  e = f
BY DEF UInv, IInv, OneInFlight

\* A task with an attempt in flight is not waiting to be considered, unless it
\* is the one the pass is busy with.
LEMMA NotListed ==
    ASSUME UInv, NEW e \in Execution, InFlight(e), snapshot[TaskOf(e)] # "none"
    PROVE  Busy(TaskOf(e))
<1>1. TaskOf(e) \in Task
  BY Rows DEF UInv, IInv
<1>2. execStatus[e] = "PENDING" => Busy(TaskOf(e))
  BY DEF UInv, AttemptsMatchTasks, Busy
<1>3. Live(e) => status[TaskOf(e)] \notin AdmissibleStatus \/ Busy(TaskOf(e))
  BY StatusNames DEF UInv, AttemptsMatchTasks, Busy
<1> QED
  BY <1>1, <1>2, <1>3, ExecutionNames DEF UInv, PassIsCurrent

LEMMA NewestStep ==
    ASSUME IInv, HandIsNewest, [Next]_vars
    PROVE  HandIsNewest'
<1> USE DEF IInv, TaskOf
<1>1. \A e \in Execution : Final(e) => Final(e)'
  BY TableStep DEF Final
<1>2. ASSUME pc' \in {"idle", "tick"} PROVE HandIsNewest'
  BY <1>2 DEF HandIsNewest
<1>3. ASSUME UNCHANGED <<revision, pc, cur>>, stalled' \subseteq stalled PROVE HandIsNewest'
  <2>1. pc = "provisioning" => cur \in Execution
    BY DEF InHand
  <2> QED
    BY <1>1, <1>3, <2>1 DEF HandIsNewest, Latest, Final
<1>4. ASSUME UNCHANGED <<revision, passVars>> PROVE HandIsNewest'
  BY <1>3, <1>4 DEF passVars
<1>5. ASSUME NEW t, NEW from, NEW w, MoveOn(t, from, w) PROVE HandIsNewest'
  BY <1>2, <1>5 DEF MoveOn, PassDies
<1>6. ASSUME NEW w, NEW bump, HandoffCatch(w, bump) PROVE HandIsNewest'
  BY <1>2, <1>5, <1>6 DEF HandoffCatch, PassDies
<1>7. CASE Pass
  <2>1. CASE BeginPass
    BY <2>1 DEF BeginPass, execVars, HandIsNewest, Latest, OneInFlight, InFlight, Live
  <2>2. ASSUME NEW e \in Execution, WatchdogSkips(e) PROVE HandIsNewest'
    BY <1>3, <2>2 DEF WatchdogSkips, execVars
  <2>3. ASSUME NEW e \in Execution, WatchdogAborts(e) PROVE HandIsNewest'
    BY <2>3 DEF WatchdogAborts, execVars, HandIsNewest, Latest
  <2>4. CASE WatchdogReclaims \/ WatchdogDefers
    BY <2>4 DEF WatchdogReclaims, WatchdogDefers, execVars, HandIsNewest, Latest
  <2>5. CASE BeginTick
    BY <1>2, <2>5 DEF BeginTick
  <2>6. ASSUME NEW t \in Task, NEW w,
               TickParks(t, w) \/ TickThrows(t) \/ TickFindsInFlight(t) \/ TickLosesLease(t)
        PROVE  HandIsNewest'
    BY <1>2, <1>5, <2>6 DEF TickParks, TickThrows, TickFindsInFlight, TickLosesLease, PassDies
  <2>7. ASSUME NEW t \in Task, TickHandsOff(t) PROVE HandIsNewest'
    <3>1. cur' = <<t, revision'[t]>> /\ pc' = "handoff"
      BY <2>7 DEF TypeOK, TickHandsOff, Create, NewExecution
    <3> QED
      BY <3>1 DEF HandIsNewest, Latest
  <2>8. CASE HandoffRefused \/ HandoffTimesOut
    BY <1>6, <2>8 DEF HandoffRefused, HandoffTimesOut
  <2>9. CASE HandoffFindsNoAgent
    <3>1. CASE Final(cur)
      BY <1>2, <2>9, <3>1 DEF HandoffFindsNoAgent, PassDies
    <3>2. CASE ~Final(cur)
      <4>1. /\ cur \in Execution
            /\ execStatus' = [execStatus EXCEPT ![cur] = "FAILED"]
            /\ pc = "handoff" /\ pc' = "provisioning"
            /\ UNCHANGED <<revision, cur>>
        BY <2>9, <3>2 DEF HandoffFindsNoAgent, InHand
      <4> QED
        BY <4>1 DEF HandIsNewest, Latest, Final, ExecutionTerminal, TypeOK
    <3> QED
      BY <3>1, <3>2
  <2>10. CASE ProvisioningEnds
    BY <1>5, <2>10 DEF ProvisioningEnds
  <2>11. CASE RecordHandoff
    <3>1. CASE Final(cur)
      BY <1>6, <2>11, <3>1 DEF RecordHandoff
    <3>2. CASE ~Final(cur)
      BY <2>11, <3>2 DEF RecordHandoff, HandIsNewest, Latest
    <3> QED
      BY <3>1, <3>2
  <2>12. CASE MarkDispatched
    BY <1>5, <1>6, <2>12 DEF MarkDispatched
  <2>13. CASE EndTick
    BY <1>2, <2>13 DEF EndTick, PassDies
  <2> QED
    BY <1>7, <2>1, <2>2, <2>3, <2>4, <2>5, <2>6, <2>7, <2>8, <2>9, <2>10, <2>11, <2>12, <2>13 DEF Pass
<1>8. CASE Sink
  BY <1>4, <1>8
  DEF Sink, RunEndsCleanly, RunEndsAborted, RunEndsAbnormally, LateErrorQuota, LateErrorTransient,
      LateErrorFatal
<1>9. CASE Reconciler
  BY <1>4, <1>9
  DEF Reconciler, ReconcilerLists, ReconcilerPasses, ReconcileSettles, ReconcileRecovers,
      ReconcileAborts, execVars
<1>10. CASE Operator
  BY <1>4, <1>10
  DEF Operator, Start, Cancel, Stop, Revise, Settle, StopAborts, StopFails, execVars
<1>11. CASE Gateway \/ \E e \in Execution : LeaseExpires(e)
  BY <1>4, <1>11
  DEF Gateway, GatewayAccepts, GatewayRefusesLate, GatewayEndsRun, LeaseExpires, execVars
<1>12. CASE Crashes
  BY <1>2, <1>12, CrashRestarts DEF IInv, Restart, PassDies
<1>13. CASE UNCHANGED vars
  BY <1>4, <1>13 DEF vars, execVars
<1> QED
  BY <1>7, <1>8, <1>9, <1>10, <1>11, <1>12, <1>13 DEF Next

\* One attempt is settled by what became of its run at the gateway.
SettledByRun(e) ==
    /\ InFlight(e)
    /\ run[e] \notin {"sent", "live"}
    /\ UNCHANGED <<pc, cur, snapshot, stopping>>
    /\ run' = run
    /\ ReleasesAtMost(e)
    /\ \A t \in Task \ {TaskOf(e)} : status'[t] = status[t]
    /\ \E v \in ExecutionTerminal \cup {"BLOCKED"} :
          /\ execStatus' = [execStatus EXCEPT ![e] = v]
          /\ v = "BLOCKED" => run[e] = "refused"
          /\ v = "CANCELLED" => status'[TaskOf(e)] = "CANCELLED"

LEMMA SettledByRunKeeps ==
    ASSUME UInv, IInv', [Next]_vars, NEW e \in Execution, SettledByRun(e)
    PROVE  UInv'
<1> USE DEF TaskOf
<1>0. HandIsNewest'
  BY NewestStep DEF UInv
<1> PICK v \in ExecutionTerminal \cup {"BLOCKED"} :
        /\ execStatus' = [execStatus EXCEPT ![e] = v]
        /\ v = "BLOCKED" => run[e] = "refused"
        /\ v = "CANCELLED" => status'[TaskOf(e)] = "CANCELLED"
  BY DEF SettledByRun
<1>1. \A f \in Execution : execStatus'[f] = IF f = e THEN v ELSE execStatus[f]
  BY DEF UInv, IInv, TypeOK
<1>2. \A f \in Execution : (InFlight(f)' <=> f # e /\ InFlight(f)) /\ (Live(f)' <=> f # e /\ Live(f))
  BY <1>1 DEF InFlight, Live, ExecutionTerminal
<1>3. \A f \in Execution : (Holds(f)' => Holds(f)) /\ (lease'[f].expired => lease[f].expired)
  BY DEF SettledByRun, ReleasesAtMost, Holds, NoLease
<1>4. UNCHANGED <<pc, cur, snapshot, stopping, run>>
      /\ \A t \in Task : t # TaskOf(e) => status'[t] = status[t]
  BY DEF SettledByRun
<1>5. \A f \in Execution : TaskOf(f) \in Task
  BY Rows DEF UInv, IInv
<1>6. NothingDisturbed'
  BY <1>3, <1>4 DEF UInv, NothingDisturbed
<1>7. RunsAccountedFor'
  BY <1>1, <1>2, <1>4 DEF UInv, RunsAccountedFor, SettledByRun
<1>8. AttemptsMatchTasks'
  <2>1. ASSUME NEW f \in Execution, execStatus'[f] = "CANCELLED" PROVE status'[TaskOf(f)] = "CANCELLED"
    BY <1>1, <1>5, <2>1, CancelStep DEF UInv, AttemptsMatchTasks
  <2>2. ASSUME NEW f \in Execution, execStatus'[f] = "PENDING" PROVE pc' = "handoff" /\ f = cur'
    BY <1>1, <1>4, <2>2 DEF UInv, AttemptsMatchTasks, ExecutionTerminal
  <2>3. ASSUME NEW f \in Execution, Live(f)'
        PROVE  status'[TaskOf(f)] = "DISPATCHED" \/ (pc' = "marking" /\ f = cur')
    <3>1. Live(f) /\ InFlight(f) /\ f # e
      BY <1>2, <2>3, ExecutionNames
    <3>2. TaskOf(f) # TaskOf(e)
      BY <3>1, OnlyOne DEF SettledByRun
    <3> QED
      BY <1>4, <1>5, <3>1, <3>2 DEF UInv, AttemptsMatchTasks
  <2> QED
    BY <2>1, <2>2, <2>3 DEF AttemptsMatchTasks
<1>9. PassIsCurrent'
  <2>1. ASSUME NEW t \in Task, snapshot'[t] # "none" PROVE status'[t] \in AdmissibleStatus \/ Busy(t)'
    <3>1. Busy(t)' <=> Busy(t)
      BY <1>4 DEF Busy
    <3>2. CASE t # TaskOf(e)
      BY <1>4, <2>1, <3>1, <3>2 DEF UInv, PassIsCurrent
    <3>3. CASE t = TaskOf(e)
      BY <1>4, <2>1, <3>1, <3>3, NotListed DEF SettledByRun
    <3> QED
      BY <3>2, <3>3
  <2>2. ASSUME pc' \in {"handoff", "marking"}, InFlight(cur)' PROVE status'[TaskOf(cur')] \in AdmissibleStatus
    <3>1. PICK f \in Execution : f = cur /\ cur' = f
      BY <1>4, <2>2 DEF UInv, IInv, InHand
    <3>2. InFlight(f) /\ f # e
      <4>1. InFlight(f)'
        BY <2>2, <3>1 DEF InFlight
      <4> QED
        BY <1>2, <4>1
    <3>3. TaskOf(f) # TaskOf(e)
      BY <3>2, OnlyOne DEF SettledByRun
    <3> QED
      BY <1>4, <1>5, <2>2, <3>1, <3>2, <3>3 DEF UInv, PassIsCurrent
  <2>3. ASSUME NEW f \in Execution, pc' \in {"tick", "handoff", "provisioning", "marking"}, Holds(f)'
        PROVE  snapshot'[TaskOf(f)] = "none" \/ (f = cur' /\ pc' \in {"handoff", "marking"})
    BY <1>3, <1>4, <2>3 DEF UInv, PassIsCurrent
  <2> QED
    BY <2>1, <2>2, <2>3 DEF PassIsCurrent
<1> QED
  BY <1>0, <1>6, <1>7, <1>8, <1>9 DEF UInv

\* A step that leaves the attempts and the pass alone: at most the status of one
\* task changes, and the runs stay accounted for.
LEMMA AsideKeeps ==
    ASSUME UInv, IInv', [Next]_vars, NEW t \in Task,
           UNCHANGED <<execStatus, pc, cur, snapshot, stopping>>,
           \A f \in Execution : lease'[f] \in {lease[f], NoLease},
           RunsAccountedFor',
           \A s \in Task \ {t} : status'[s] = status[s],
           \/ status'[t] = status[t]
           \/ /\ status[t] # "CANCELLED"
              /\ \A f \in Execution : InFlight(f) /\ TaskOf(f) = t =>
                    status[t] # "DISPATCHED" /\ status'[t] \in AdmissibleStatus
              /\ snapshot[t] # "none" => status'[t] \in AdmissibleStatus \/ Busy(t)
    PROVE  UInv'
<1> USE DEF TaskOf
<1>1. \A f \in Execution : TaskOf(f) \in Task
  BY Rows DEF UInv, IInv
<1>2. \A f \in Execution : /\ InFlight(f)' <=> InFlight(f)
                           /\ Live(f)' <=> Live(f)
                           /\ Holds(f)' => Holds(f)
                           /\ lease'[f].expired => lease[f].expired
  BY DEF InFlight, Live, Holds, NoLease
<1>3. HandIsNewest' /\ NothingDisturbed'
  BY <1>2, NewestStep DEF UInv, NothingDisturbed
<1>4. AttemptsMatchTasks'
  <2>1. ASSUME NEW f \in Execution, execStatus'[f] = "CANCELLED" PROVE status'[TaskOf(f)] = "CANCELLED"
    BY <1>1, <2>1 DEF UInv, AttemptsMatchTasks
  <2>2. ASSUME NEW f \in Execution, Live(f)'
        PROVE  status'[TaskOf(f)] = "DISPATCHED" \/ (pc' = "marking" /\ f = cur')
    BY <1>1, <1>2, <2>2, ExecutionNames DEF UInv, AttemptsMatchTasks
  <2> QED
    BY <2>1, <2>2 DEF UInv, AttemptsMatchTasks
<1>5. PassIsCurrent'
  <2>1. ASSUME NEW s \in Task, snapshot'[s] # "none" PROVE status'[s] \in AdmissibleStatus \/ Busy(s)'
    BY <2>1 DEF UInv, PassIsCurrent, Busy
  <2>2. ASSUME pc' \in {"handoff", "marking"}, InFlight(cur)' PROVE status'[TaskOf(cur')] \in AdmissibleStatus
    <3>1. PICK f \in Execution : f = cur /\ cur' = f
      BY <2>2 DEF UInv, IInv, InHand
    <3>2. InFlight(f) /\ pc \in {"handoff", "marking"}
      BY <2>2, <3>1 DEF InFlight
    <3> QED
      BY <1>1, <3>1, <3>2 DEF UInv, PassIsCurrent
  <2>3. ASSUME NEW f \in Execution, pc' \in {"tick", "handoff", "provisioning", "marking"}, Holds(f)'
        PROVE  snapshot'[TaskOf(f)] = "none" \/ (f = cur' /\ pc' \in {"handoff", "marking"})
    BY <1>2, <2>3 DEF UInv, PassIsCurrent
  <2> QED
    BY <2>1, <2>2, <2>3 DEF PassIsCurrent
<1> QED
  BY <1>3, <1>4, <1>5 DEF UInv

\* The pass comes back to its list, or dies, and is done with the task t.
LEMMA ReturnKeepsList ==
    ASSUME UInv, NEW t \in Task,
           pc \in {"tick", "handoff", "provisioning", "marking"},
           pc' \in {"idle", "tick"},
           \A s \in Task : snapshot'[s] \in {"none", snapshot[s]},
           \A s \in Task : snapshot'[s] # "none" => s # t /\ ~Busy(s),
           \A s \in Task \ {t} : status'[s] = status[s],
           \A f \in Execution : lease'[f] \in {lease[f], NoLease}
    PROVE  PassIsCurrent'
<1> USE DEF TaskOf
<1>1. \A f \in Execution : TaskOf(f) \in Task
  BY Rows DEF UInv, IInv
<1>2. \A f \in Execution : Holds(f)' => Holds(f)
  BY DEF Holds, NoLease
<1>3. ASSUME NEW s \in Task, snapshot'[s] # "none" PROVE status'[s] \in AdmissibleStatus
  BY <1>3 DEF UInv, PassIsCurrent
<1>4. ASSUME NEW f \in Execution, Holds(f)' PROVE snapshot'[TaskOf(f)] = "none"
  BY <1>1, <1>2, <1>4 DEF UInv, PassIsCurrent, Busy
<1> QED
  BY <1>3, <1>4 DEF PassIsCurrent

\* Moving on from a task leaves the list as MoveOn promises.
LEMMA MoveOnList ==
    ASSUME UInv, NEW t \in Task, NEW from, NEW w, MoveOn(t, from, w)
    PROVE  /\ pc' \in {"idle", "tick"}
           /\ \A s \in Task : snapshot'[s] \in {"none", snapshot[s]}
           /\ snapshot'[t] = "none"
           /\ \A s \in Task \ {t} : status'[s] = status[s]
           /\ status'[t] \in {from, w}
           /\ MayTransition(from, w, "none") => status'[t] = w
BY DEF UInv, IInv, TypeOK, MoveOn, PassDies, Considered

\* A tick that parks a task does so to one without an attempt in flight.
LEMMA TickKeeps ==
    ASSUME UInv, IInv', [Next]_vars, NEW t \in Task, pc = "tick",
           UNCHANGED <<execStatus, lease, run, stopping>>,
           \/ snapshot[t] # "none" /\ \E from, w : MoveOn(t, from, w)
           \/ UNCHANGED status /\ PassDies
    PROVE  UInv'
<1> USE DEF TaskOf
<1>1. \A f \in Execution : TaskOf(f) \in Task
  BY Rows DEF UInv, IInv
<1>2. /\ pc' \in {"idle", "tick"}
      /\ \A s \in Task : snapshot'[s] \in {"none", snapshot[s]}
      /\ snapshot'[t] = "none"
      /\ \A s \in Task \ {t} : status'[s] = status[s]
  BY MoveOnList DEF PassDies
<1>3. PassIsCurrent'
  BY <1>2, ReturnKeepsList DEF Busy
<1>4. ASSUME NEW f \in Execution, InFlight(f) \/ execStatus[f] = "CANCELLED"
      PROVE  status'[TaskOf(f)] = status[TaskOf(f)]
  <2>1. CASE UNCHANGED status
    BY <2>1
  <2>2. CASE snapshot[t] # "none"
    <3>1. TaskOf(f) # t
      BY <1>4, <2>2, NotListed, StatusNames DEF Busy, UInv, AttemptsMatchTasks, PassIsCurrent
    <3> QED
      BY <1>1, <1>2, <3>1
  <2> QED
    BY <2>1, <2>2
<1>5. \A f \in Execution : (InFlight(f)' <=> InFlight(f)) /\ (Live(f)' <=> Live(f))
  BY DEF InFlight, Live
<1>6. AttemptsMatchTasks'
  BY <1>1, <1>4, <1>5, ExecutionNames DEF UInv, AttemptsMatchTasks
<1>7. RunsAccountedFor' /\ NothingDisturbed'
  BY <1>5 DEF UInv, RunsAccountedFor, NothingDisturbed
<1> QED
  BY <1>3, <1>6, <1>7, NewestStep DEF UInv

\* A handoff that fails settles the attempt the pass has in hand.
LEMMA CatchKeeps ==
    ASSUME UInv, IInv', [Next]_vars, NEW w, NEW bump, HandoffCatch(w, bump),
           pc \in {"handoff", "marking"},
           UNCHANGED stopping,
           run' = run \/ run' = [run EXCEPT ![cur] = "rejected"],
           run'[cur] \notin {"sent", "live"}
    PROVE  UInv'
<1> USE DEF TaskOf
<1> PICK e \in Execution : e = cur
  BY DEF UInv, IInv, InHand
<1>1. \A f \in Execution : TaskOf(f) \in Task
  BY Rows DEF UInv, IInv
<1>2. /\ execStatus'[e] \in ExecutionTerminal
      /\ execStatus'[e] = "CANCELLED" => execStatus[e] = "CANCELLED"
      /\ \A f \in Execution \ {e} : execStatus'[f] = execStatus[f]
  BY DEF HandoffCatch, UInv, IInv, TypeOK, Final, ExecutionTerminal
<1>3. \A f \in Execution : lease'[f] \in {lease[f], NoLease}
  BY DEF HandoffCatch, Release, UInv, IInv, TypeOK
<1>4. /\ pc' \in {"idle", "tick"}
      /\ \A s \in Task : snapshot'[s] \in {"none", snapshot[s]}
      /\ snapshot'[TaskOf(e)] = "none"
      /\ \A s \in Task \ {TaskOf(e)} : status'[s] = status[s]
  BY <1>1, MoveOnList DEF HandoffCatch, PassDies
<1>5. PassIsCurrent'
  BY <1>1, <1>3, <1>4, ReturnKeepsList DEF Busy
<1>6. NothingDisturbed'
  BY <1>3 DEF UInv, NothingDisturbed, NoLease
<1>7. \A f \in Execution : /\ InFlight(f)' <=> f # e /\ InFlight(f)
                           /\ Live(f)' <=> f # e /\ Live(f)
  BY <1>2 DEF InFlight, Live, ExecutionTerminal
<1>8. \A f \in Execution \ {e} : run'[f] = run[f]
  BY DEF UInv, IInv, TypeOK
<1>9. RunsAccountedFor'
  BY <1>2, <1>7, <1>8 DEF UInv, RunsAccountedFor, ExecutionTerminal
<1>10. AttemptsMatchTasks'
  <2>1. ASSUME NEW f \in Execution, execStatus'[f] = "CANCELLED" PROVE status'[TaskOf(f)] = "CANCELLED"
    BY <1>1, <1>2, <2>1, CancelStep DEF UInv, AttemptsMatchTasks
  <2>2. ASSUME NEW f \in Execution PROVE execStatus'[f] # "PENDING"
    BY <1>2 DEF UInv, AttemptsMatchTasks, ExecutionTerminal
  <2>3. ASSUME NEW f \in Execution, Live(f)' PROVE status'[TaskOf(f)] = "DISPATCHED"
    <3>1. f # e /\ Live(f) /\ InFlight(f)
      BY <1>7, <2>3, ExecutionNames
    <3>2. TaskOf(f) # TaskOf(e)
      BY <3>1 DEF UInv, IInv, OneInFlight, HandIsNewest
    <3> QED
      BY <1>1, <1>4, <3>1, <3>2 DEF UInv, AttemptsMatchTasks
  <2> QED
    BY <2>1, <2>2, <2>3 DEF AttemptsMatchTasks
<1> QED
  BY <1>5, <1>6, <1>9, <1>10, NewestStep DEF UInv

\* What the statuses of a task with an attempt in flight may be.
LEMMA InFlightStatus ==
    ASSUME UInv, NEW e \in Execution, InFlight(e)
    PROVE  status[TaskOf(e)] \in AdmissibleStatus \cup {"DISPATCHED"}
<1>1. pc \in {"handoff", "marking"} /\ e = cur => status[TaskOf(e)] \in AdmissibleStatus
  BY DEF UInv, PassIsCurrent
<1> QED
  BY <1>1, ExecutionNames DEF UInv, AttemptsMatchTasks

LEMMA FinalizeRunIsSettling ==
    ASSUME UInv, NEW e \in Execution, NEW verdict \in {"COMPLETE", "CANCELLED"},
           FinalizeRun(e, verdict), ~Final(e), execStatus[e] # "NONE",
           run[e] \in {"done", "failed", "aborted"},
           UNCHANGED <<pc, cur, snapshot, stopping, run>>
    PROVE  SettledByRun(e)
<1>1. InFlight(e)
  BY ExecutionNames DEF UInv, IInv, RunsAccountedFor
<1>2. status[TaskOf(e)] \in AdmissibleStatus \cup {"DISPATCHED"} /\ TaskOf(e) \in Task
  BY <1>1, InFlightStatus, Rows DEF UInv, IInv
<1>3. \A w \in AdmissibleStatus \cup {"DISPATCHED"} : CanTransition(w, "CANCELLED")
  BY DEF AdmissibleStatus, WaitingStatus, CanTransition, Successors
<1>4. verdict = "CANCELLED" => status'[TaskOf(e)] = "CANCELLED"
  BY <1>2, <1>3 DEF FinalizeRun, UInv, IInv, TypeOK
<1>5. ReleasesAtMost(e)
  BY ReleaseEffect DEF FinalizeRun, UInv, IInv
<1>6. /\ execStatus' = [execStatus EXCEPT ![e] = verdict]
      /\ \A t \in Task \ {TaskOf(e)} : status'[t] = status[t]
  BY DEF FinalizeRun, UInv, IInv, TypeOK
<1>7. verdict \in ExecutionTerminal \cup {"BLOCKED"} /\ verdict # "BLOCKED"
  BY DEF ExecutionTerminal
<1> QED
  BY <1>1, <1>4, <1>5, <1>6, <1>7 DEF SettledByRun

LEMMA RuntimeFailureIsSettling ==
    ASSUME UInv, NEW e \in Execution, ApplyRuntimeFailure(e), ~Final(e), execStatus[e] # "NONE",
           run[e] \in {"done", "failed", "aborted"},
           UNCHANGED <<pc, cur, snapshot, stopping, run>>
    PROVE  SettledByRun(e)
<1>1. InFlight(e)
  BY ExecutionNames DEF UInv, IInv, RunsAccountedFor
<1>2. ReleasesAtMost(e)
  BY RuntimeFailureEffect, ReleaseEffect DEF UInv, IInv
<1>3. /\ execStatus' = [execStatus EXCEPT ![e] = "FAILED"]
      /\ \A t \in Task \ {TaskOf(e)} : status'[t] = status[t]
  BY RuntimeFailureEffect DEF UInv, IInv, TypeOK
<1>4. "FAILED" \in ExecutionTerminal \cup {"BLOCKED"}
  BY DEF ExecutionTerminal
<1> QED
  BY <1>1, <1>2, <1>3, <1>4 DEF SettledByRun

LEMMA SinkUndisturbed ==
    ASSUME UInv, IInv', [Next]_vars, Sink
    PROVE  UInv'
<1> PICK e \in Execution :
        \/ RunEndsCleanly(e) \/ RunEndsAborted(e) \/ RunEndsAbnormally(e)
        \/ LateErrorQuota(e) \/ LateErrorTransient(e) \/ LateErrorFatal(e)
  BY DEF Sink
<1>1. CASE RunEndsCleanly(e) \/ RunEndsAborted(e)
  BY <1>1, FinalizeRunIsSettling, SettledByRunKeeps
  DEF RunEndsCleanly, RunEndsAborted, EndFrame, passVars, otherVars
<1>2. CASE RunEndsAbnormally(e)
  BY <1>2, RuntimeFailureIsSettling, SettledByRunKeeps
  DEF RunEndsAbnormally, EndFrame, passVars, otherVars
<1>3. ASSUME NEW verdict \in {"FAILED", "BLOCKED"}, NEW w, LateVerdict(e, verdict, w), Refused(e),
             UNCHANGED <<run, passVars, otherVars>>
      PROVE  SettledByRun(e)
  <2>1. InFlight(e) /\ run[e] = "refused"
    BY <1>3 DEF Refused, InFlight
  <2>2. ReleasesAtMost(e)
    BY <1>3, ReleaseEffect DEF LateVerdict, UInv, IInv
  <2>3. /\ execStatus' = [execStatus EXCEPT ![e] = verdict]
        /\ \A t \in Task \ {TaskOf(e)} : status'[t] = status[t]
    BY <1>3 DEF LateVerdict, UInv, IInv, TypeOK
  <2>4. verdict \in ExecutionTerminal \cup {"BLOCKED"} /\ verdict # "CANCELLED"
    BY DEF ExecutionTerminal
  <2> QED
    BY <1>3, <2>1, <2>2, <2>3, <2>4 DEF SettledByRun, passVars, otherVars
<1>4. CASE LateErrorQuota(e) \/ LateErrorTransient(e) \/ LateErrorFatal(e)
  BY <1>3, <1>4, SettledByRunKeeps DEF LateErrorQuota, LateErrorTransient, LateErrorFatal, Refused
<1> QED
  BY <1>1, <1>2, <1>4

\* Steps that touch no task, no attempt and no lease.
LEMMA OnlyRunsKeep ==
    ASSUME UInv, IInv', [Next]_vars,
           UNCHANGED <<status, execStatus, pc, cur, snapshot, stopping>>,
           UNCHANGED lease,
           RunsAccountedFor'
    PROVE  UInv'
<1>1. CASE Task = {}
  <2>1. \A f \in Execution : FALSE
    BY <1>1 DEF Execution
  <2> QED
    BY <1>1, <2>1, NewestStep
    DEF UInv, NothingDisturbed, AttemptsMatchTasks, PassIsCurrent, IInv, InHand
<1>2. ASSUME NEW t \in Task PROVE UInv'
  BY <1>2, AsideKeeps
<1> QED
  BY <1>1, <1>2

LEMMA ReconcilerUndisturbed ==
    ASSUME UInv, IInv', [Next]_vars, Reconciler
    PROVE  UInv'
<1>1. ASSUME UNCHANGED <<taskVars, execVars, leaseVars, run, passVars, stopping>> PROVE UInv'
  <2>1. RunsAccountedFor'
    BY <1>1 DEF UInv, RunsAccountedFor, InFlight, execVars
  <2> QED
    BY <1>1, <2>1, OnlyRunsKeep DEF taskVars, execVars, leaseVars, passVars
<1>2. ASSUME NEW s, ReconcilerLists(s) PROVE UInv'
  BY <1>1, <1>2 DEF ReconcilerLists
<1>3. ASSUME NEW e \in Execution, ReconcilerPasses(e) PROVE UInv'
  BY <1>1, <1>3 DEF ReconcilerPasses
<1>4. ASSUME NEW e \in Execution, ReconcileSettles(e) PROVE UInv'
  BY <1>4, FinalizeRunIsSettling, SettledByRunKeeps
  DEF ReconcileSettles, UInv, IInv, SentIsKnown, passVars
<1>5. ASSUME NEW e \in Execution, ReconcileRecovers(e) PROVE UInv'
  <2>1. CASE Final(e)
    <3>1. UNCHANGED <<status, execStatus, lease, run, pc, cur, snapshot, stopping>>
      BY <1>5, <2>1 DEF ReconcileRecovers, passVars
    <3>2. RunsAccountedFor'
      BY <3>1 DEF UInv, RunsAccountedFor, InFlight
    <3> QED
      BY <3>1, <3>2, OnlyRunsKeep
  <2>2. CASE ~Final(e)
    BY <1>5, <2>2, RuntimeFailureIsSettling, SettledByRunKeeps
    DEF ReconcileRecovers, GoneAtGateway, UInv, IInv, SentIsKnown, passVars
  <2> QED
    BY <2>1, <2>2
<1>6. ASSUME NEW e \in Execution, ReconcileAborts(e) PROVE UInv'
  <2>1. /\ UNCHANGED <<status, execStatus, lease, pc, cur, snapshot, stopping>>
        /\ run[e] = "live"
        /\ run' = [run EXCEPT ![e] = "aborted"]
    BY <1>6 DEF ReconcileAborts, taskVars, execVars, leaseVars, passVars
  <2>2. RunsAccountedFor'
    BY <2>1 DEF UInv, IInv, TypeOK, RunsAccountedFor, InFlight
  <2> QED
    BY <2>1, <2>2, OnlyRunsKeep
<1> QED
  BY <1>2, <1>3, <1>4, <1>5, <1>6 DEF Reconciler

LEMMA GatewayUndisturbed ==
    ASSUME UInv, IInv', [Next]_vars, Gateway \/ UNCHANGED vars
    PROVE  UInv'
<1>1. UNCHANGED <<status, execStatus, pc, cur, snapshot, stopping, lease>>
  BY DEF Gateway, GatewayAccepts, GatewayRefusesLate, GatewayEndsRun, vars, taskVars, execVars, leaseVars,
         passVars, otherVars
<1>2. RunsAccountedFor'
  <2>1. CASE UNCHANGED vars
    BY <2>1 DEF UInv, RunsAccountedFor, InFlight, vars, execVars
  <2>2. ASSUME NEW e \in Execution, GatewayAccepts(e) PROVE RunsAccountedFor'
    BY <1>1, <2>2 DEF GatewayAccepts, UInv, IInv, TypeOK, RunsAccountedFor, InFlight
  <2>3. ASSUME NEW e \in Execution, GatewayRefusesLate(e) PROVE RunsAccountedFor'
    BY <1>1, <2>3 DEF GatewayRefusesLate, UInv, IInv, TypeOK, RunsAccountedFor, InFlight
  <2>4. ASSUME NEW e \in Execution, GatewayEndsRun(e) PROVE RunsAccountedFor'
    BY <1>1, <2>4, RunOutcomeAssumption
    DEF GatewayEndsRun, UInv, IInv, TypeOK, RunsAccountedFor, InFlight
  <2> QED
    BY <2>1, <2>2, <2>3, <2>4 DEF Gateway
<1> QED
  BY <1>1, <1>2, OnlyRunsKeep

\* Operators revise and repair tasks; neither reaches one with an attempt in
\* flight that the tables call live.
LEMMA OperatorUndisturbed ==
    ASSUME Orderly, UInv, IInv', [Next]_vars, Operator
    PROVE  UInv'
<1> USE DEF TaskOf
<1>1. ASSUME NEW t \in Task, UNCHANGED <<execStatus, run, pc, cur, snapshot, stopping>>
      PROVE  RunsAccountedFor'
  BY <1>1 DEF UInv, RunsAccountedFor, InFlight
<1>2. ASSUME NEW t \in Task, Start(t) PROVE UInv'
  <2>1. /\ status[t] = "CREATED"
        /\ status' = [status EXCEPT ![t] = "QUEUED"]
        /\ UNCHANGED <<execStatus, run, pc, cur, snapshot, stopping, lease>>
    BY <1>2 DEF Start, execVars, leaseVars, passVars, otherVars
  <2>2. status'[t] = "QUEUED" /\ "QUEUED" \in AdmissibleStatus
        /\ \A s \in Task \ {t} : status'[s] = status[s]
    BY <2>1, StatusNames DEF UInv, IInv, TypeOK
  <2> QED
    BY <1>1, <2>1, <2>2, AsideKeeps
<1>3. ASSUME NEW t \in Task, NEW sessionMode, Revise(t, sessionMode) PROVE UInv'
  <2>1. /\ status[t] = "BLOCKED" \/ MayTransition(status[t], "QUEUED", "revision")
        /\ status' = [status EXCEPT ![t] = "QUEUED"]
        /\ UNCHANGED <<execStatus, run, pc, cur, snapshot, stopping, lease>>
    BY <1>3 DEF Revise, execVars, leaseVars, passVars, otherVars
  <2>2. status'[t] = "QUEUED" /\ "QUEUED" \in AdmissibleStatus
        /\ \A s \in Task \ {t} : status'[s] = status[s]
    BY <2>1, StatusNames DEF UInv, IInv, TypeOK
  <2>3. status[t] # "CANCELLED" /\ status[t] # "DISPATCHED"
    BY <2>1, DeadEnd DEF MayTransition, AssertTransition
  <2> QED
    BY <1>1, <2>1, <2>2, <2>3, AsideKeeps
<1>4. ASSUME NEW t \in Task, Settle(t) PROVE UInv'
  <2> PICK e \in Execution : e = Latest(t)
    BY <1>4, Rows DEF Settle, UInv, IInv
  <2>1. /\ Final(e)
        /\ CanTransition(status[t], execStatus[e])
        /\ status' = [status EXCEPT ![t] = execStatus[e]]
        /\ TaskOf(e) = t
        /\ UNCHANGED <<execStatus, run, pc, cur, snapshot, stopping>>
    BY <1>4 DEF Settle, execVars, passVars, otherVars, Latest
  <2>2. \A f \in Execution : lease'[f] \in {lease[f], NoLease}
    BY <1>4, ReleaseEffect DEF Settle, ReleasesAtMost, UInv, IInv
  <2>3. \A f \in Execution : ~(InFlight(f) /\ TaskOf(f) = t)
    BY <2>1, ExecutionNames DEF UInv, IInv, OneInFlight
  <2>4. status[t] # "CANCELLED" /\ execStatus[e] # "CANCELLED"
    BY <2>1 DEF CanTransition, Successors, WaitingStatus, UInv, AttemptsMatchTasks
  <2>5. snapshot[t] # "none" => Busy(t)
    <3>1. \A w \in AdmissibleStatus : ~CanTransition(w, "COMPLETE") /\ ~CanTransition(w, "FAILED")
      BY DEF AdmissibleStatus, WaitingStatus, CanTransition, Successors
    <3> QED
      BY <2>1, <2>4, <3>1 DEF Final, ExecutionTerminal, UInv, PassIsCurrent
  <2>6. \A s \in Task \ {t} : status'[s] = status[s]
    BY <2>1 DEF UInv, IInv, TypeOK
  <2> QED
    BY <1>1, <2>1, <2>2, <2>3, <2>4, <2>5, <2>6, AsideKeeps
<1>5. ~(\E t \in Task : Cancel(t) \/ Stop(t)) /\ ~(\E e \in Execution : StopAborts(e) \/ StopFails(e))
  BY DEF Orderly, Cancel, Stop, StopAborts, StopFails, UInv, NothingDisturbed
<1> QED
  BY <1>2, <1>3, <1>4, <1>5 DEF Operator

\* The peek at the workspace suffices: what the pass read when its tick began is
\* still so, and a task on its list holds no lease.
LEMMA PeekFollows ==
    ASSUME UInv
    PROVE  PeekSuffices
<1> SUFFICES ASSUME NEW t \in Task, Dispatching(t), NEW f \in Blockers(t)
             PROVE  FALSE
  BY DEF PeekSuffices
<1>1. f \in Execution /\ Holds(f) /\ PathOf(f) = WorkspaceOf[t]
      /\ ~lease[f].expired /\ ~Compatible(ModeOf[t], LeaseMode(f))
  BY DEF Blockers, Holders
<1>2. TaskOf(f) = t
  BY <1>1 DEF Dispatching, WorkspaceBlocked, Holders
<1> QED
  BY <1>1, <1>2 DEF Dispatching, UInv, PassIsCurrent

LEMMA WatchdogUndisturbed ==
    ASSUME Orderly, UInv, IInv', [Next]_vars,
           \/ BeginPass \/ WatchdogReclaims \/ WatchdogDefers \/ BeginTick
           \/ \E e \in Execution : WatchdogSkips(e) \/ WatchdogAborts(e)
    PROVE  UInv'
<1> USE DEF TaskOf
<1>1. HandIsNewest'
  BY NewestStep DEF UInv
<1>2. \A e \in Execution : TaskOf(e) \in Task
  BY Rows DEF UInv, IInv
<1>3. ASSUME pc \notin {"tick", "handoff", "provisioning", "marking"},
             pc' \notin {"tick", "handoff", "provisioning", "marking"},
             UNCHANGED <<status, execStatus, run, snapshot, stopping>>,
             \A e \in Execution : lease'[e].expired => lease[e].expired
      PROVE  UInv'
  <2>1. RunsAccountedFor' /\ NothingDisturbed'
    BY <1>3 DEF UInv, RunsAccountedFor, NothingDisturbed, InFlight
  <2>2. AttemptsMatchTasks'
    BY <1>3 DEF UInv, AttemptsMatchTasks, Live
  <2>3. PassIsCurrent'
    BY <1>3 DEF UInv, PassIsCurrent, Busy
  <2> QED
    BY <1>1, <2>1, <2>2, <2>3 DEF UInv
<1>4. CASE BeginPass
  <2>1. \A e \in Execution : lease'[e].expired => lease[e].expired
    BY <1>4 DEF BeginPass, UInv, IInv, TypeOK
  <2> QED
    BY <1>3, <1>4, <2>1 DEF BeginPass, taskVars, execVars, otherVars
<1>5. CASE WatchdogDefers
  BY <1>3, <1>5 DEF WatchdogDefers, taskVars, execVars, leaseVars, otherVars
<1>6. ASSUME NEW e \in Execution, WatchdogSkips(e) \/ WatchdogAborts(e) PROVE UInv'
  BY <1>3, <1>6 DEF WatchdogSkips, WatchdogAborts, taskVars, execVars, leaseVars, otherVars
<1>7. CASE WatchdogReclaims
  <2> PICK e \in Execution : e = cur /\ pc = "aborting" /\ e = Latest(TaskOf(e))
    BY <1>7 DEF WatchdogReclaims, UInv, IInv, InHand, HandIsNewest
  <2>1. /\ \A f \in Execution \ {e} : run'[f] = run[f]
        /\ run'[e] # "live"
        /\ run'[e] \in {run[e], "aborted"}
        /\ run[e] # "live" => run' = run
        /\ UNCHANGED <<snapshot, stopping>>
        /\ pc' = "reclaim"
    BY <1>7 DEF WatchdogReclaims, UInv, IInv, TypeOK, otherVars
  <2>2. run[e] # "sent"
    BY DEF UInv, RunsAccountedFor, AttemptsMatchTasks
  <2>3. CASE Final(e)
    <3>1. UNCHANGED <<status, execStatus, lease>>
      BY <1>7, <2>3 DEF WatchdogReclaims
    <3>2. run' = run
      BY <2>1, <2>3 DEF UInv, RunsAccountedFor, InFlight, Final, ExecutionTerminal
    <3> QED
      BY <1>3, <2>1, <3>1, <3>2
  <2>4. CASE ~Final(e)
    <3>1. ApplyRuntimeFailure(e)
      BY <1>7, <2>4 DEF WatchdogReclaims
    <3>2. /\ execStatus' = [execStatus EXCEPT ![e] = "FAILED"]
          /\ \A t \in Task \ {TaskOf(e)} : status'[t] = status[t]
          /\ UNCHANGED status \/ status[TaskOf(e)] \in {"DISPATCHED", "RUNNING"}
      <4>1. /\ execStatus' = [execStatus EXCEPT ![e] = "FAILED"]
            /\ \/ UNCHANGED <<status, lease>>
               \/ /\ status[TaskOf(e)] \in {"DISPATCHED", "RUNNING"}
                  /\ \E w \in {"QUEUED", "BLOCKED"} : status' = [status EXCEPT ![TaskOf(e)] = w]
        BY <3>1, RuntimeFailureEffect
      <4> QED
        BY <4>1 DEF UInv, IInv, TypeOK
    <3>3. \A f \in Execution : execStatus'[f] = IF f = e THEN "FAILED" ELSE execStatus[f]
      BY <3>2 DEF UInv, IInv, TypeOK
    <3>4. \A f \in Execution : lease'[f] \in {lease[f], NoLease}
      BY <3>1, RuntimeFailureEffect, ReleaseEffect DEF UInv, IInv, ReleasesAtMost
    <3>5. \A f \in Execution : (InFlight(f)' <=> f # e /\ InFlight(f)) /\ (Live(f)' <=> f # e /\ Live(f))
      BY <3>3 DEF InFlight, Live
    <3>6. RunsAccountedFor' /\ NothingDisturbed'
      BY <2>1, <2>2, <3>3, <3>4, <3>5 DEF UInv, RunsAccountedFor, NothingDisturbed, NoLease
    <3>7. AttemptsMatchTasks'
      <4>1. ASSUME NEW f \in Execution, execStatus'[f] = "CANCELLED" PROVE status'[TaskOf(f)] = "CANCELLED"
        BY <1>2, <3>3, <4>1, CancelStep DEF UInv, AttemptsMatchTasks
      <4>2. ASSUME NEW f \in Execution, Live(f)' PROVE status'[TaskOf(f)] = "DISPATCHED"
        <5>1. f # e /\ Live(f) /\ InFlight(f)
          BY <3>5, <4>2, ExecutionNames
        <5>2. TaskOf(f) # TaskOf(e)
          BY <5>1 DEF UInv, IInv, OneInFlight
        <5> QED
          BY <1>2, <3>2, <5>1, <5>2 DEF UInv, AttemptsMatchTasks
      <4>3. \A f \in Execution : execStatus'[f] # "PENDING"
        BY <3>3 DEF UInv, AttemptsMatchTasks
      <4> QED
        BY <4>1, <4>2, <4>3 DEF AttemptsMatchTasks
    <3>8. PassIsCurrent'
      <4>1. ASSUME NEW t \in Task, snapshot'[t] # "none" PROVE status'[t] \in AdmissibleStatus
        BY <2>1, <3>2, <4>1, StatusNames DEF UInv, PassIsCurrent, Busy
      <4> QED
        BY <2>1, <4>1 DEF PassIsCurrent
    <3> QED
      BY <1>1, <3>6, <3>7, <3>8 DEF UInv
  <2> QED
    BY <2>3, <2>4
<1>8. CASE BeginTick
  <2>1. /\ pc = "reclaim"
        /\ pc' = "tick"
        /\ UNCHANGED <<status, execStatus, run, stopping>>
        /\ \A e \in Execution : lease'[e] = IF Live(e) THEN lease[e] ELSE NoLease
        /\ \A t \in Task : snapshot'[t] # "none" => status[t] \in AdmissibleStatus
    BY <1>8 DEF BeginTick, ActivelyRunning, taskVars, execVars, otherVars
  <2>2. RunsAccountedFor' /\ NothingDisturbed'
    BY <2>1 DEF UInv, RunsAccountedFor, NothingDisturbed, InFlight, NoLease
  <2>3. AttemptsMatchTasks'
    BY <2>1 DEF UInv, AttemptsMatchTasks, Live
  <2>4. ASSUME NEW e \in Execution, Holds(e)' PROVE snapshot'[TaskOf(e)] = "none"
    <3>1. Live(e)
      BY <2>1, <2>4 DEF Holds, NoLease
    <3> QED
      BY <1>2, <2>1, <3>1, StatusNames DEF UInv, AttemptsMatchTasks
  <2>5. PassIsCurrent'
    BY <2>1, <2>4 DEF PassIsCurrent
  <2> QED
    BY <1>1, <2>2, <2>3, <2>5 DEF UInv
<1> QED
  BY <1>4, <1>5, <1>6, <1>7, <1>8

\* No lease has expired, so none is taken from anybody, and the new attempt is
\* the only one handed to the gateway.
LEMMA HandsOffUndisturbed ==
    ASSUME UInv, IInv', [Next]_vars, NEW t \in Task, TickHandsOff(t)
    PROVE  UInv'
<1> USE DEF TaskOf
<1> PICK new \in Execution : new = NewExecution(t)
  BY Rows DEF TickHandsOff, UInv, IInv
<1>1. /\ pc = "tick" /\ pc' = "handoff" /\ cur' = new /\ TaskOf(new) = t
      /\ snapshot[t] # "none"
      /\ UNCHANGED <<snapshot, stopping>>
      /\ status[t] \in AdmissibleStatus
      /\ status'[t] \in AdmissibleStatus
      /\ \A s \in Task \ {t} : status'[s] = status[s]
  BY StatusNames
  DEF TickHandsOff, Dispatching, Requeued, NewExecution, otherVars, UInv, IInv, TypeOK, PassIsCurrent, Busy
<1>2. Expired(WorkspaceOf[t]) = {}
  BY DEF Expired, Holders, UInv, NothingDisturbed
<1>3. /\ \A f \in Execution : execStatus'[f] = IF f = new THEN "PENDING" ELSE execStatus[f]
      /\ \A f \in Execution : lease'[f] = IF f = new THEN [at |-> acquired + 1, expired |-> FALSE] ELSE lease[f]
      /\ \A f \in Execution : run'[f] = IF f = new THEN "sent" ELSE run[f]
  BY <1>2 DEF TickHandsOff, Create, UInv, IInv, TypeOK
<1>4. \A f \in Execution : TaskOf(f) \in Task
  BY Rows DEF UInv, IInv
<1>5. \A f \in Execution \ {new} : (InFlight(f)' <=> InFlight(f)) /\ (Live(f)' <=> Live(f))
  BY <1>3 DEF InFlight, Live
<1>6. NothingDisturbed'
  BY <1>1, <1>3 DEF UInv, NothingDisturbed
<1>7. RunsAccountedFor'
  BY <1>3, <1>5 DEF UInv, RunsAccountedFor
<1>8. \A f \in Execution : InFlight(f) => TaskOf(f) # t
  BY <1>1, NotListed DEF Busy
<1>9. AttemptsMatchTasks'
  <2>1. ASSUME NEW f \in Execution, execStatus'[f] = "CANCELLED" PROVE status'[TaskOf(f)] = "CANCELLED"
    BY <1>3, <1>4, <2>1, CancelStep DEF UInv, AttemptsMatchTasks
  <2>2. ASSUME NEW f \in Execution, execStatus'[f] = "PENDING" PROVE f = new
    BY <1>1, <1>3, <2>2 DEF UInv, AttemptsMatchTasks
  <2>3. ASSUME NEW f \in Execution, Live(f)' PROVE status'[TaskOf(f)] = "DISPATCHED"
    <3>1. f # new /\ Live(f) /\ InFlight(f)
      BY <1>3, <1>5, <2>3, ExecutionNames DEF Live
    <3> QED
      BY <1>1, <1>4, <1>8, <3>1 DEF UInv, AttemptsMatchTasks
  <2> QED
    BY <1>1, <2>1, <2>2, <2>3 DEF AttemptsMatchTasks
<1>10. PassIsCurrent'
  <2>1. ASSUME NEW s \in Task, snapshot'[s] # "none" PROVE status'[s] \in AdmissibleStatus
    BY <1>1, <2>1 DEF UInv, PassIsCurrent, Busy
  <2>2. ASSUME NEW f \in Execution, Holds(f)' PROVE snapshot'[TaskOf(f)] = "none" \/ f = new
    BY <1>1, <1>3, <2>2 DEF UInv, PassIsCurrent, Holds
  <2> QED
    BY <1>1, <2>1, <2>2 DEF PassIsCurrent
<1> QED
  BY <1>6, <1>7, <1>9, <1>10, NewestStep DEF UInv

LEMMA HandoffUndisturbed ==
    ASSUME Orderly, UInv, IInv', [Next]_vars,
           \/ HandoffRefused \/ HandoffFindsNoAgent \/ ProvisioningEnds
           \/ HandoffTimesOut \/ RecordHandoff \/ MarkDispatched
    PROVE  UInv'
<1> USE DEF TaskOf
<1>1. pc \in {"handoff", "provisioning", "marking"}
  BY DEF HandoffRefused, HandoffFindsNoAgent, ProvisioningEnds, HandoffTimesOut, RecordHandoff,
         MarkDispatched
<1> PICK e \in Execution : e = cur /\ TaskOf(e) \in Task
  BY <1>1, Rows DEF UInv, IInv, InHand
<1>2. HandIsNewest'
  BY NewestStep DEF UInv
<1>3. \A f \in Execution : TaskOf(f) \in Task
  BY Rows DEF UInv, IInv
<1>4. CASE HandoffRefused
  <2>1. \E w, bump : HandoffCatch(w, bump)
    BY <1>4 DEF HandoffRefused
  <2>2. /\ pc = "handoff"
        /\ run' = [run EXCEPT ![cur] = "rejected"]
        /\ UNCHANGED stopping
        /\ run'[cur] = "rejected"
    BY <1>4 DEF HandoffRefused, otherVars, UInv, IInv, TypeOK
  <2> QED
    BY <2>1, <2>2, CatchKeeps
<1>5. CASE HandoffFindsNoAgent
  <2>1. pc = "handoff" /\ run[e] = "sent" /\ execStatus[e] = "PENDING" /\ ~Final(e) /\ InFlight(e)
    BY <1>5, ExecutionNames DEF HandoffFindsNoAgent, UInv, RunsAccountedFor
  <2>2. /\ pc' = "provisioning"
        /\ UNCHANGED <<cur, snapshot, stopping, status>>
        /\ \A f \in Execution : run'[f] = IF f = e THEN "rejected" ELSE run[f]
        /\ \A f \in Execution : execStatus'[f] = IF f = e THEN "FAILED" ELSE execStatus[f]
        /\ \A f \in Execution : lease'[f] = IF f = e THEN NoLease ELSE lease[f]
    BY <1>5, <2>1 DEF HandoffFindsNoAgent, Release, UInv, IInv, TypeOK, taskVars, otherVars
  <2>3. \A f \in Execution : (InFlight(f)' <=> f # e /\ InFlight(f)) /\ (Live(f)' <=> f # e /\ Live(f))
    BY <2>2 DEF InFlight, Live
  <2>4. RunsAccountedFor' /\ NothingDisturbed'
    BY <2>2, <2>3 DEF UInv, RunsAccountedFor, NothingDisturbed, NoLease
  <2>5. AttemptsMatchTasks'
    BY <2>1, <2>2, <2>3 DEF UInv, AttemptsMatchTasks
  <2>6. PassIsCurrent'
    <3>1. ASSUME NEW f \in Execution, Holds(f)' PROVE snapshot'[TaskOf(f)] = "none"
      BY <2>1, <2>2, <3>1 DEF UInv, PassIsCurrent, Holds, NoLease
    <3> QED
      BY <2>1, <2>2, <3>1 DEF UInv, PassIsCurrent, Busy
  <2> QED
    BY <1>2, <2>4, <2>5, <2>6 DEF UInv
<1>6. CASE ProvisioningEnds
  <2>1. /\ pc = "provisioning"
        /\ MoveOn(TaskOf(e), status[TaskOf(e)], "WAIT_RESOURCE")
        /\ UNCHANGED <<execStatus, lease, run, stopping>>
    BY <1>6 DEF ProvisioningEnds, execVars, leaseVars, otherVars
  <2>2. /\ pc' \in {"idle", "tick"}
        /\ \A s \in Task : snapshot'[s] \in {"none", snapshot[s]}
        /\ snapshot'[TaskOf(e)] = "none"
        /\ \A s \in Task \ {TaskOf(e)} : status'[s] = status[s]
    BY <2>1, MoveOnList
  <2>3. PassIsCurrent'
    BY <2>1, <2>2, ReturnKeepsList DEF Busy
  <2>4. \A f \in Execution : (InFlight(f)' <=> InFlight(f)) /\ (Live(f)' <=> Live(f))
    BY <2>1 DEF InFlight, Live
  <2>5. RunsAccountedFor' /\ NothingDisturbed'
    BY <2>1, <2>4 DEF UInv, RunsAccountedFor, NothingDisturbed
  <2>6. AttemptsMatchTasks'
    <3>1. ASSUME NEW f \in Execution, execStatus'[f] = "CANCELLED" PROVE status'[TaskOf(f)] = "CANCELLED"
      BY <1>3, <2>1, <3>1, CancelStep DEF UInv, AttemptsMatchTasks
    <3>2. ASSUME NEW f \in Execution, InFlight(f) PROVE TaskOf(f) # TaskOf(e)
      <4>1. Final(e) /\ e = Latest(TaskOf(e))
        BY <2>1 DEF UInv, HandIsNewest
      <4> QED
        BY <3>2, <4>1, ExecutionNames DEF UInv, IInv, OneInFlight
    <3>3. ASSUME NEW f \in Execution, Live(f)' PROVE status'[TaskOf(f)] = "DISPATCHED"
      BY <1>3, <2>1, <2>2, <2>4, <3>2, <3>3, ExecutionNames DEF UInv, AttemptsMatchTasks
    <3>4. \A f \in Execution : execStatus'[f] # "PENDING"
      BY <2>1 DEF UInv, AttemptsMatchTasks
    <3> QED
      BY <3>1, <3>3, <3>4 DEF AttemptsMatchTasks
  <2> QED
    BY <1>2, <2>3, <2>5, <2>6 DEF UInv
<1>7. CASE HandoffTimesOut
  BY <1>7 DEF Orderly, HandoffTimesOut
<1>8. CASE RecordHandoff
  <2>1. pc = "handoff" /\ run[e] \notin {"none", "sent"} /\ UNCHANGED <<run, stopping>>
    BY <1>8 DEF RecordHandoff, Accepted, otherVars
  <2>2. CASE Final(e)
    <3>1. run[e] # "live"
      BY <2>2 DEF UInv, RunsAccountedFor, InFlight, Final, ExecutionTerminal
    <3>2. HandoffCatch("WAIT_RUNTIME", 0)
      BY <1>8, <2>2 DEF RecordHandoff
    <3> QED
      BY <2>1, <3>1, <3>2, CatchKeeps
  <2>3. CASE ~Final(e)
    <3>1. execStatus[e] = "PENDING" /\ InFlight(e)
      BY <2>1, <2>3, ExecutionNames DEF UInv, IInv, HandoffKeepsLease
    <3>2. /\ pc' = "marking"
          /\ UNCHANGED <<status, lease, cur, snapshot>>
          /\ \A f \in Execution : execStatus'[f] = IF f = e THEN "DISPATCHED" ELSE execStatus[f]
      BY <1>8, <2>3 DEF RecordHandoff, UInv, IInv, TypeOK
    <3>3. \A f \in Execution : (InFlight(f)' <=> InFlight(f)) /\ (Live(f)' <=> f = e \/ Live(f))
      BY <3>1, <3>2 DEF InFlight, Live
    <3>4. RunsAccountedFor' /\ NothingDisturbed'
      BY <2>1, <3>2, <3>3 DEF UInv, RunsAccountedFor, NothingDisturbed
    <3>5. AttemptsMatchTasks'
      BY <2>1, <3>2, <3>3 DEF UInv, AttemptsMatchTasks
    <3>6. PassIsCurrent'
      BY <2>1, <3>1, <3>2 DEF UInv, PassIsCurrent, Busy, Holds
    <3> QED
      BY <1>2, <3>4, <3>5, <3>6 DEF UInv
  <2> QED
    BY <2>2, <2>3
<1>9. CASE MarkDispatched
  <2>1. pc = "marking" /\ UNCHANGED <<run, stopping>>
    BY <1>9 DEF MarkDispatched, otherVars
  <2>2. CASE MayTransition(status[TaskOf(e)], "DISPATCHED", "none")
    <3>1. MoveOn(TaskOf(e), status[TaskOf(e)], "DISPATCHED") /\ UNCHANGED <<execStatus, lease>>
      BY <1>9, <2>2 DEF MarkDispatched
    <3>2. /\ pc' \in {"idle", "tick"}
          /\ \A s \in Task : snapshot'[s] \in {"none", snapshot[s]}
          /\ snapshot'[TaskOf(e)] = "none"
          /\ \A s \in Task \ {TaskOf(e)} : status'[s] = status[s]
          /\ status'[TaskOf(e)] = "DISPATCHED"
      BY <2>2, <3>1, MoveOnList
    <3>3. PassIsCurrent'
      BY <2>1, <3>1, <3>2, ReturnKeepsList DEF Busy
    <3>4. \A f \in Execution : (InFlight(f)' <=> InFlight(f)) /\ (Live(f)' <=> Live(f))
      BY <3>1 DEF InFlight, Live
    <3>5. RunsAccountedFor' /\ NothingDisturbed'
      BY <2>1, <3>1, <3>4 DEF UInv, RunsAccountedFor, NothingDisturbed
    <3>6. AttemptsMatchTasks'
      <4>1. ASSUME NEW f \in Execution, execStatus'[f] = "CANCELLED" PROVE status'[TaskOf(f)] = "CANCELLED"
        BY <1>3, <3>1, <4>1, CancelStep DEF UInv, AttemptsMatchTasks
      <4>2. ASSUME NEW f \in Execution, Live(f)' PROVE status'[TaskOf(f)] = "DISPATCHED"
        BY <1>3, <3>2, <3>4, <4>2 DEF UInv, AttemptsMatchTasks
      <4>3. \A f \in Execution : execStatus'[f] # "PENDING"
        BY <2>1, <3>1 DEF UInv, AttemptsMatchTasks
      <4> QED
        BY <4>1, <4>2, <4>3 DEF AttemptsMatchTasks
    <3> QED
      BY <1>2, <3>3, <3>5, <3>6 DEF UInv
  <2>3. CASE ~MayTransition(status[TaskOf(e)], "DISPATCHED", "none")
    <3>1. HandoffCatch("WAIT_RUNTIME", 0)
      BY <1>9, <2>3 DEF MarkDispatched
    <3>2. ~InFlight(e)
      BY <2>1, <2>3, StatusNames DEF UInv, PassIsCurrent
    <3>3. run[e] \notin {"sent", "live"}
      BY <3>2 DEF UInv, RunsAccountedFor, InFlight
    <3> QED
      BY <2>1, <3>1, <3>3, CatchKeeps
  <2> QED
    BY <2>2, <2>3
<1> QED
  BY <1>4, <1>5, <1>6, <1>7, <1>8, <1>9

LEMMA UndisturbedStep ==
    ASSUME Orderly, UInv, [Next]_vars
    PROVE  UInv'
<1>1. IInv'
  BY InductiveStep DEF UInv
<1>2. CASE Pass
  <2>1. ASSUME NEW t \in Task, NEW w, TickParks(t, w) \/ TickFindsInFlight(t) \/ TickThrows(t)
        PROVE  UInv'
    <3>1. pc = "tick" /\ UNCHANGED <<execStatus, lease, run, stopping>>
      BY <2>1 DEF TickParks, TickFindsInFlight, TickThrows, Dispatching, execVars, leaseVars, otherVars
    <3>2. \/ snapshot[t] # "none" /\ \E from, to : MoveOn(t, from, to)
          \/ UNCHANGED status /\ PassDies
      BY <2>1 DEF TickParks, TickFindsInFlight, TickThrows, Dispatching, taskVars
    <3> QED
      BY <1>1, <3>1, <3>2, TickKeeps
  <2>2. ASSUME NEW t \in Task, TickLosesLease(t) PROVE UInv'
    BY <2>2, PeekFollows DEF PeekSuffices, TickLosesLease
  <2>3. ASSUME NEW t \in Task, TickHandsOff(t) PROVE UInv'
    BY <1>1, <2>3, HandsOffUndisturbed
  <2>4. CASE EndTick
    <3>1. /\ pc = "tick" /\ pc' = "idle"
          /\ \A s \in Task : snapshot'[s] = "none"
          /\ UNCHANGED <<status, execStatus, lease, run, stopping>>
      BY <2>4 DEF EndTick, PassDies, taskVars, execVars, leaseVars, otherVars
    <3>2. RunsAccountedFor' /\ NothingDisturbed' /\ AttemptsMatchTasks'
      BY <3>1 DEF UInv, RunsAccountedFor, NothingDisturbed, AttemptsMatchTasks, InFlight, Live
    <3>3. PassIsCurrent'
      BY <3>1 DEF PassIsCurrent
    <3> QED
      BY <1>1, <3>2, <3>3, NewestStep DEF UInv
  <2> QED
    BY <1>1, <1>2, <2>1, <2>2, <2>3, <2>4, WatchdogUndisturbed, HandoffUndisturbed DEF Pass
<1>3. ~Crashes /\ ~(\E e \in Execution : LeaseExpires(e))
  BY DEF Orderly, Crashes, Crash, CrashAmidRecord, CrashInCatch, CrashAmidDispatch, CrashAmidSettle,
         CrashAmidVerdict, CrashAmidRefusal, CrashAmidStop, LeaseExpires
<1> QED
  BY <1>1, <1>2, <1>3, SinkUndisturbed, ReconcilerUndisturbed, OperatorUndisturbed, GatewayUndisturbed
  DEF Next

LEMMA UndisturbedInit ==
    ASSUME Init
    PROVE  UInv
BY InductiveInit
DEF Init, UInv, HandIsNewest, NothingDisturbed, RunsAccountedFor, AttemptsMatchTasks, PassIsCurrent,
    NoLease, Holds, InFlight, Live

\* The invariant of a controller nobody disturbs.
THEOREM Undisturbed == Orderly => (Spec => []UInv)
<1> SUFFICES ASSUME Orderly PROVE Spec => []UInv
  OBVIOUS
<1>1. Init => UInv
  BY UndisturbedInit
<1>2. UInv /\ [Next]_vars => UInv'
  BY UndisturbedStep
<1> QED
  BY <1>1, <1>2, PTL DEF Spec

\* While nobody interferes, nothing runs at the gateway that the books do not
\* account for: every verdict of sink, reconciler and watchdog falls on a run that
\* is over, and no handoff that reached the gateway is written off.
THEOREM NoRunIsForgotten == Orderly => (Spec => []NoZombieRun)
<1>1. UInv => NoZombieRun
  BY DEF UInv, RunsAccountedFor, NoZombieRun
<1> QED
  BY <1>1, Undisturbed, PTL

\* Only a crash in the catch of dispatch orphans an attempt.
LEMMA NothingOrphaned ==
    ASSUME Orderly
    PROVE  Spec => [](orphans = {})
<1>1. Init => orphans = {}
  BY DEF Init
<1>2. ASSUME [Next]_vars PROVE orphans' = orphans
  <2> USE DEF leaseVars
  <2>1. CASE Pass
    BY <2>1 DEF Pass, BeginPass, WatchdogSkips, WatchdogAborts, WatchdogReclaims, WatchdogDefers,
       BeginTick, TickParks, TickThrows, TickFindsInFlight, TickLosesLease, TickHandsOff,
       HandoffRefused, HandoffFindsNoAgent, ProvisioningEnds, HandoffTimesOut, RecordHandoff,
       MarkDispatched, EndTick
  <2>2. CASE Sink
    BY <2>2 DEF Sink, RunEndsCleanly, RunEndsAborted, RunEndsAbnormally, LateErrorQuota,
       LateErrorTransient, LateErrorFatal
  <2>3. CASE Reconciler
    BY <2>3 DEF Reconciler, ReconcilerLists, ReconcilerPasses, ReconcileSettles,
       ReconcileRecovers, ReconcileAborts
  <2>4. CASE Operator
    <3>1. ASSUME NEW t \in Task, Start(t) \/ Cancel(t) \/ Settle(t) PROVE orphans' = orphans
      BY <3>1 DEF Start, Cancel, Settle
    <3>2. ASSUME NEW t \in Task, Stop(t) PROVE orphans' = orphans
      BY <3>2 DEF Stop
    <3>3. ASSUME NEW t \in Task, NEW sessionMode, Revise(t, sessionMode) PROVE orphans' = orphans
      BY <3>3 DEF Revise
    <3>4. ASSUME NEW e \in Execution, StopAborts(e) \/ StopFails(e) PROVE orphans' = orphans
      BY <3>4 DEF StopAborts, StopFails
    <3> QED
      BY <2>4, <3>1, <3>2, <3>3, <3>4 DEF Operator
  <2>5. CASE Gateway
    BY <2>5 DEF Gateway, GatewayAccepts, GatewayRefusesLate, GatewayEndsRun
  <2>6. ~Crashes /\ ~(\E e \in Execution : LeaseExpires(e))
    BY DEF Orderly, Crashes, Crash, CrashAmidRecord, CrashInCatch, CrashAmidDispatch,
           CrashAmidSettle, CrashAmidVerdict, CrashAmidRefusal, CrashAmidStop, LeaseExpires
  <2>7. CASE UNCHANGED vars
    BY <2>7 DEF vars
  <2> QED
    BY <1>2, <2>1, <2>2, <2>3, <2>4, <2>5, <2>6, <2>7 DEF Next
<1>3. orphans = {} /\ [Next]_vars => (orphans = {})'
  BY <1>2
<1> QED
  BY <1>1, <1>3, PTL DEF Spec

\* P4-07 where it matters: of two runs that really go on in one workspace neither
\* may write to it unless it is alone.  Each has an attempt in flight, each attempt
\* in flight holds its lease, and the lease table excludes the rest.
THEOREM RunsExcludeEachOther == Orderly => (Spec => []GatewayExclusive)
<1> SUFFICES ASSUME Orderly PROVE Spec => []GatewayExclusive
  OBVIOUS
<1>1. ASSUME UInv, orphans = {}, NEW e \in Execution, run[e] = "live" PROVE Holds(e)
  <2>1. InFlight(e)
    BY <1>1 DEF UInv, RunsAccountedFor
  <2>2. CASE Live(e)
    BY <1>1, <2>2 DEF UInv, IInv, LiveHoldsLease
  <2>3. CASE execStatus[e] = "PENDING"
    BY <1>1, <2>3, ExecutionNames DEF UInv, IInv, AttemptsMatchTasks, HandoffKeepsLease
  <2> QED
    BY <2>1, <2>2, <2>3, ExecutionNames
<1>2. UInv /\ orphans = {} => GatewayExclusive
  BY <1>1 DEF UInv, IInv, LeaseTableExclusive, GatewayExclusive
<1> QED
  BY <1>2, Undisturbed, NothingOrphaned, PTL

\* The reconciler's invariant, from the other side: a parked task has no run to
\* stop, because a task with an attempt in flight is admissible or DISPATCHED.
THEOREM BlockedTasksDoNotRun == Orderly => (Spec => []BlockedIsNotRunning)
<1>1. UInv => BlockedIsNotRunning
  BY InFlightStatus, StatusNames DEF UInv, RunsAccountedFor, BlockedIsNotRunning
<1> QED
  BY <1>1, Undisturbed, PTL

\* A task reported COMPLETE has nothing in flight: neither a revision nor a repair
\* overtakes an attempt, and a late success of an older one changes nothing.
THEOREM CompleteTasksAreSettled == Orderly => (Spec => []CompleteIsSettled)
<1>1. UInv => CompleteIsSettled
  BY InFlightStatus, StatusNames DEF CompleteIsSettled
<1> QED
  BY <1>1, Undisturbed, PTL

\* checkWorkspace only peeks and leases.acquire decides by a stricter rule; while
\* nobody interferes the two agree, so no attempt is created to be thrown away.
THEOREM PeekIsEnough == Orderly => (Spec => []PeekSuffices)
<1>1. UInv => PeekSuffices
  BY PeekFollows
<1> QED
  BY <1>1, Undisturbed, PTL

\* Whatever happens, the grant that follows a clean peek is refused for nothing but
\* a lease the task's own earlier attempt left behind.
THEOREM GrantsAreLostToOneself == Spec => []LostOnlyToItself
<1>1. IInv => LostOnlyToItself
  <2> SUFFICES ASSUME IInv, NEW t \in Task, Dispatching(t), ~AlreadyInFlight(t), NEW f \in Blockers(t)
               PROVE  TaskOf(f) = t /\ ~InFlight(f)
    BY DEF LostOnlyToItself
  <2>1. f \in Execution /\ TaskOf(f) = t
    BY DEF Blockers, Holders, Dispatching, WorkspaceBlocked
  <2>2. ASSUME InFlight(f) PROVE FALSE
    <3>1. f = Latest(t)
      BY <2>1, <2>2 DEF IInv, OneInFlight
    <3>2. HasExecution(t)
      BY <2>1, <3>1, LimitAssumption DEF Execution, HasExecution, Latest
    <3> QED
      BY <2>2, <3>1, <3>2 DEF AlreadyInFlight
  <2> QED
    BY <2>1, <2>2
<1> QED
  BY <1>1, Inductive, PTL

=============================================================================
