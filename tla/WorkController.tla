--------------------------- MODULE WorkController ---------------------------
(***************************************************************************)
(* The core of the controller: tasks, their executions (one row per        *)
(* attempt), the workspace leases, the scheduler pass that reclaims and    *)
(* dispatches, the session-event sink, the reconciler and the operator's   *)
(* commands, against a gateway that runs the work.                         *)
(*                                                                         *)
(* Granularity.  The store is the single-process one (SQLite), whose       *)
(* statements are synchronous: a handler keeps the event loop, and is one  *)
(* step, up to each call it makes to the gateway, where minutes may pass   *)
(* and everything else interleaves.  The tick makes one such call per      *)
(* dispatched task and none in between, so while pc = "tick" only the pass *)
(* moves.  A crash may fall between any two statements of a handler: what  *)
(* it has written stays, in the order it writes (the Crash actions).       *)
(* Between recording a handoff on the execution and on the task (pc =      *)
(* "marking") frames that arrived together with the accept are handled too. *)
(* Time is abstract: a lease may expire, a run go quiet, or a backoff      *)
(* elapse at any moment.  Admission's gates other than the workspace, and  *)
(* the data they read, are the set GateOutcome of verdicts they may return.*)
(***************************************************************************)
EXTENDS TaskLifecycle, Integers, FiniteSets

CONSTANTS
    Task,               \* task rows
    Path,               \* workspace paths
    WorkspaceOf,        \* the path each task works in
    ModeOf,             \* the lease mode each task asks for
    MaxRevision,        \* bound: executions created per task
    RuntimeRetryLimit,  \* config.runtimeRetryLimit
    QuotaRetryLimit,    \* QUOTA_RETRY_LIMIT
    ResourceRetryLimit, \* RESOURCE_RETRY_LIMIT
    GateOutcome,        \* verdicts of the gates that are not modelled
    RunOutcome,         \* how a run may end at the gateway on its own
    Environment         \* which disturbances a run allows

ASSUME WorkspaceAssumption == WorkspaceOf \in [Task -> Path]
ASSUME ModeAssumption == ModeOf \in [Task -> {"read", "write"}]
ASSUME LimitAssumption ==
    /\ MaxRevision \in Nat
    /\ RuntimeRetryLimit \in Nat
    /\ QuotaRetryLimit \in Nat
    /\ ResourceRetryLimit \in Nat
ASSUME GateAssumption == GateOutcome \subseteq WaitingStatus \cup {"BLOCKED"}
ASSUME RunOutcomeAssumption == RunOutcome \subseteq {"done", "failed", "aborted"}
ASSUME EnvironmentAssumption ==
    Environment \subseteq {"cancel", "stop", "revise", "settle", "crash", "timeout", "expiry"}

VARIABLES
    status,         \* tasks.status
    policy,         \* tasks.session_policy
    quotaRetries,   \* tasks.quota_retries
    resourceRetries,\* tasks.resource_retries
    revision,       \* highest executions.revision_no per task
    execStatus,     \* executions.status
    sessionKey,     \* executions.session_key has been recorded
    inherited,      \* executions.session_ref was inherited from a previous run
    lease,          \* the leases row of each execution
    acquired,       \* acquired_at of the newest lease
    orphans,        \* history: attempts on record as running whose lease a dying catch released
    run,            \* the gateway's run of each execution
    pc,             \* where the scheduler pass is
    cur,            \* the execution the pass is waiting on the gateway for
    stalled,        \* executions the watchdog still has to look at
    snapshot,       \* the task rows the tick still has to consider
    listed,         \* tasks the reconciler has read but not asked about
    listStatus,     \* the status it read them with
    probed,         \* the execution it is asking the gateway about
    stopping        \* executions whose stop is waiting for the gateway's abort

taskVars == <<status, policy, quotaRetries, resourceRetries>>
execVars == <<revision, execStatus, sessionKey, inherited>>
leaseVars == <<lease, acquired, orphans>>
passVars == <<pc, cur, stalled, snapshot>>
reconVars == <<listed, listStatus, probed>>
otherVars == <<reconVars, stopping>>
vars == <<taskVars, execVars, leaseVars, run, passVars, otherVars>>

------------------------------------------------------------------------------
(* Executions, leases and runs *)

\* executions.id is `${taskId}#${revisionNo}`.
Execution == Task \X (1..MaxRevision)
NoExecution == <<>>

TaskOf(e) == e[1]
PathOf(e) == WorkspaceOf[TaskOf(e)]
LeaseMode(e) == ModeOf[TaskOf(e)]

Latest(t) == <<t, revision[t]>>
HasExecution(t) == revision[t] > 0

Live(e) == execStatus[e] \in {"DISPATCHED", "RUNNING"}
InFlight(e) == execStatus[e] \in {"PENDING", "DISPATCHED", "RUNNING"}
\* finalized_at is set: the row can never be written again.
Final(e) == execStatus[e] \in ExecutionTerminal

\* How many attempts of the task count as failures, given the statuses es.  The
\* six-hour window of the query is taken to span the whole history.
RecentFailures(t, es) ==
    Cardinality({e \in {t} \X (1..MaxRevision) : es[e] \in {"FAILED", "CANCELLED", "BLOCKED"}})

NoLease == [at |-> 0, expired |-> FALSE]
Holds(e) == lease[e].at > 0
Holders(p) == {e \in Execution : Holds(e) /\ PathOf(e) = p}
Expired(p) == {e \in Holders(p) : lease[e].expired}

\* leases.get(path) returns only the oldest holder of the path.
FirstHolder(e) == Holds(e) /\ \A f \in Holders(PathOf(e)) : lease[e].at <= lease[f].at

SharedByAnyReader(m, n) == m = "read" \/ n = "read"
Compatible(m, n) == m = "read" /\ n = "read"

Release(e) == lease' = [lease EXCEPT ![e] = NoLease]
\* The handlers that look the lease up by path release it only when the first
\* row they get back is their own.
ReleaseIfFirst(e) == lease' = IF FirstHolder(e) THEN [lease EXCEPT ![e] = NoLease] ELSE lease

\* "sent": handed to the socket, not yet accepted.  "refused": accepted, then
\* refused by the second res frame.  "rejected": the handoff itself failed.
RunState == {"none", "sent", "rejected", "live", "refused", "done", "failed", "aborted"}
Accepted(e) == run[e] \in {"live", "refused", "done", "failed", "aborted"}

------------------------------------------------------------------------------
\* Statuses under which the reconciler looks for a run.
ReconciledStatus == {"DISPATCHED", "RUNNING", "WAIT_HUMAN", "BLOCKED"}

TypeOK ==
    /\ status \in [Task -> TaskStatus]
    /\ policy \in [Task -> {"FRESH", "CONTINUE"}]
    /\ quotaRetries \in [Task -> Nat]
    /\ resourceRetries \in [Task -> Nat]
    /\ revision \in [Task -> 0..MaxRevision]
    /\ execStatus \in [Execution -> ExecutionStatus \cup {"NONE"}]
    /\ sessionKey \in [Execution -> BOOLEAN]
    /\ inherited \in [Execution -> BOOLEAN]
    /\ lease \in [Execution -> [at : Nat, expired : BOOLEAN]]
    /\ acquired \in Nat
    /\ orphans \subseteq Execution
    /\ run \in [Execution -> RunState]
    /\ pc \in {"idle", "reclaim", "aborting", "tick", "handoff", "provisioning", "marking"}
    /\ cur \in Execution \cup {NoExecution}
    /\ stalled \in SUBSET Execution
    /\ snapshot \in [Task -> AdmissibleStatus \cup {"none"}]
    /\ listed \subseteq Task
    /\ listStatus \in ReconciledStatus \cup {"none"}
    /\ probed \in Execution \cup {NoExecution}
    /\ stopping \subseteq Execution

Init ==
    /\ status = [t \in Task |-> "CREATED"]
    /\ policy = [t \in Task |-> "FRESH"]
    /\ quotaRetries = [t \in Task |-> 0]
    /\ resourceRetries = [t \in Task |-> 0]
    /\ revision = [t \in Task |-> 0]
    /\ execStatus = [e \in Execution |-> "NONE"]
    /\ sessionKey = [e \in Execution |-> FALSE]
    /\ inherited = [e \in Execution |-> FALSE]
    /\ lease = [e \in Execution |-> NoLease]
    /\ acquired = 0
    /\ orphans = {}
    /\ run = [e \in Execution |-> "none"]
    /\ pc = "idle"
    /\ cur = NoExecution
    /\ stalled = {}
    /\ snapshot = [t \in Task |-> "none"]
    /\ listed = {}
    /\ listStatus = "none"
    /\ probed = NoExecution
    /\ stopping = {}

------------------------------------------------------------------------------
(* The verdicts every discovery path shares *)

ResetRetries(t) ==
    /\ quotaRetries' = [quotaRetries EXCEPT ![t] = 0]
    /\ resourceRetries' = [resourceRetries EXCEPT ![t] = 0]

\* finalizeRun: the execution takes the verdict, the task follows where the
\* state machine lets it, the lease goes when it is the path's first.
FinalizeRun(e, verdict) ==
    LET t == TaskOf(e)
        taskFollows == status[t] = verdict \/ CanTransition(status[t], verdict)
    IN  /\ execStatus' = [execStatus EXCEPT ![e] = verdict]
        /\ status' = IF taskFollows THEN [status EXCEPT ![t] = verdict] ELSE status
        /\ IF taskFollows /\ verdict = "COMPLETE"
           THEN ResetRetries(t)
           ELSE UNCHANGED <<quotaRetries, resourceRetries>>
        /\ ReleaseIfFirst(e)

\* applyRuntimeFailure: FAILED for the attempt; a task still claiming to be
\* live is queued again within its budget and parked BLOCKED beyond it, any
\* other task is left where it stands with its lease untouched.
ApplyRuntimeFailure(e) ==
    LET t == TaskOf(e)
        failures == RecentFailures(t, execStatus')
    IN  /\ execStatus' = [execStatus EXCEPT ![e] = "FAILED"]
        /\ IF status[t] \in {"DISPATCHED", "RUNNING"}
           THEN /\ status' = [status EXCEPT ![t] = IF failures <= RuntimeRetryLimit
                                                   THEN "QUEUED" ELSE "BLOCKED"]
                /\ ReleaseIfFirst(e)
           ELSE UNCHANGED <<status, lease>>

------------------------------------------------------------------------------
(* The scheduler pass: heartbeat, watchdog, orphan sweep, tick *)

\* A throw inside the pass ends it: the rest of the snapshot is not looked at.
PassDies ==
    /\ pc' = "idle"
    /\ cur' = NoExecution
    /\ stalled' = {}
    /\ snapshot' = [t \in Task |-> "none"]

ReconcilerRests ==
    /\ listed' = {}
    /\ listStatus' = "none"
    /\ probed' = NoExecution

\* heartbeatLiveLeases renews what live executions hold, then the watchdog
\* reads the executions that have been quiet for too long.
BeginPass ==
    /\ pc = "idle"
    /\ lease' = [e \in Execution |->
                    IF Holds(e) /\ Live(e) THEN [lease[e] EXCEPT !.expired = FALSE] ELSE lease[e]]
    /\ stalled' \in SUBSET {e \in Execution : Live(e)}
    /\ pc' = "reclaim"
    /\ UNCHANGED <<taskVars, execVars, acquired, orphans, run, cur, snapshot, otherVars>>

\* The gateway describes the session as running or done, or cannot be reached:
\* the row is left for somebody else.
WatchdogSkips(e) ==
    /\ pc = "reclaim"
    /\ e \in stalled
    /\ stalled' = stalled \ {e}
    /\ UNCHANGED <<taskVars, execVars, leaseVars, run, pc, cur, snapshot, otherVars>>

\* Any other answer, or a describe that timed out and reads as no answer: the
\* run has to be stopped before anything is freed.
WatchdogAborts(e) ==
    /\ pc = "reclaim"
    /\ e \in stalled
    /\ run[e] \in {"live", "done"} => "timeout" \in Environment
    /\ pc' = "aborting"
    /\ cur' = e
    /\ stalled' = stalled \ {e}
    /\ UNCHANGED <<taskVars, execVars, leaseVars, run, snapshot, otherVars>>

\* The abort is confirmed ("aborted" or "no-active-run").  The watchdog holds
\* the row it read before asking, so a row finalized meanwhile makes the write
\* throw, which the loop swallows.
WatchdogReclaims ==
    /\ pc = "aborting"
    /\ pc' = "reclaim"
    /\ cur' = NoExecution
    /\ run' = IF run[cur] = "live" THEN [run EXCEPT ![cur] = "aborted"] ELSE run
    /\ IF Final(cur)
       THEN UNCHANGED <<execStatus, status, lease>>
       ELSE ApplyRuntimeFailure(cur)
    /\ UNCHANGED <<policy, quotaRetries, resourceRetries, revision, sessionKey,
                   inherited, acquired, orphans, stalled, snapshot, otherVars>>

\* The abort is inconclusive: the row is held exactly as it is.
WatchdogDefers ==
    /\ pc = "aborting"
    /\ pc' = "reclaim"
    /\ cur' = NoExecution
    /\ UNCHANGED <<taskVars, execVars, leaseVars, run, stalled, snapshot, otherVars>>

\* Whose lease the orphan sweep leaves alone.
StartedRunning(e) == execStatus[e] = "RUNNING"
ActivelyRunning(e) == Live(e)

\* The orphan sweep frees every lease whose owner is not actively running;
\* then the tick reads the admissible tasks whose backoff has elapsed.
BeginTick ==
    /\ pc = "reclaim"
    /\ stalled = {}
    /\ lease' = [e \in Execution |-> IF ActivelyRunning(e) THEN lease[e] ELSE NoLease]
    /\ \E ready \in SUBSET {t \in Task : status[t] \in AdmissibleStatus} :
          snapshot' = [t \in Task |-> IF t \in ready THEN status[t] ELSE "none"]
    /\ pc' = "tick"
    /\ UNCHANGED <<taskVars, execVars, acquired, orphans, run, cur, stalled, otherVars>>

Considered(t) == [snapshot EXCEPT ![t] = "none"]

\* The task gets status w and the tick moves on; the move is refused when the
\* task has meanwhile left the statuses that lead to w, and that kills the pass.
MoveOn(t, from, w) ==
    IF MayTransition(from, w, "none")
    THEN /\ status' = [status EXCEPT ![t] = w]
         /\ pc' = "tick"
         /\ cur' = NoExecution
         /\ snapshot' = Considered(t)
         /\ UNCHANGED stalled
    ELSE /\ status' = [status EXCEPT ![t] = from]
         /\ PassDies

\* checkWorkspace: a live lease of another task that excludes this one.
WorkspaceBlocked(t) ==
    \E f \in Holders(WorkspaceOf[t]) :
        /\ ~lease[f].expired
        /\ TaskOf(f) # t
        /\ ~Compatible(ModeOf[t], LeaseMode(f))

\* A gate refuses the task.
TickParks(t, w) ==
    /\ pc = "tick"
    /\ snapshot[t] # "none"
    /\ \/ w \in GateOutcome
       \/ w = "WAIT_WORKSPACE" /\ WorkspaceBlocked(t)
    /\ MoveOn(t, status[t], w)
    /\ UNCHANGED <<policy, quotaRetries, resourceRetries, execVars, leaseVars, run, otherVars>>

------------------------------------------------------------------------------
(* Dispatch: create the execution, take the lease, hand off, record *)

\* A task whose listed status is not QUEUED is queued again before hand-off.
Requeued(t) == IF snapshot[t] = "QUEUED" THEN status[t] ELSE "QUEUED"
CanRequeue(t) == snapshot[t] = "QUEUED" \/ MayTransition(status[t], "QUEUED", "none")

TickThrows(t) ==
    /\ pc = "tick"
    /\ snapshot[t] # "none"
    /\ ~WorkspaceBlocked(t)
    /\ ~CanRequeue(t)
    /\ PassDies
    /\ UNCHANGED <<taskVars, execVars, leaseVars, run, otherVars>>

Dispatching(t) ==
    /\ pc = "tick"
    /\ snapshot[t] # "none"
    /\ ~WorkspaceBlocked(t)
    /\ CanRequeue(t)

\* A task whose latest execution is in flight is not dispatched twice.
AlreadyLive(t) == HasExecution(t) /\ Live(Latest(t))
AlreadyUnderWay(t) == HasExecution(t) /\ execStatus[Latest(t)] \in {"PENDING", "RUNNING"}
AlreadyInFlight(t) == HasExecution(t) /\ InFlight(Latest(t))

TickFindsInFlight(t) ==
    /\ Dispatching(t)
    /\ AlreadyInFlight(t)
    /\ MoveOn(t, Requeued(t), "WAIT_RUNTIME")
    /\ UNCHANGED <<policy, quotaRetries, resourceRetries, execVars, leaseVars, run, otherVars>>

\* executions.create leaves the new row in status s; the first half of
\* leases.acquire takes back what is lapsed, and unfinished executions among it
\* become BLOCKED.
KeptStatus(f) == execStatus[f]
StatusOnceReclaimed(f) == IF Final(f) THEN execStatus[f] ELSE "BLOCKED"

SameExecution(t) == <<t, revision[t]>>
NewExecution(t) == <<t, revision[t] + 1>>
Create(t, s, lapsed) ==
    LET e == NewExecution(t)
    IN  /\ revision' = [revision EXCEPT ![t] = @ + 1]
        /\ inherited' = [inherited EXCEPT ![e] =
               /\ policy[t] = "CONTINUE"
               /\ \E r \in 1..revision[t] : sessionKey[<<t, r>>] \/ inherited[<<t, r>>]]
        /\ execStatus' = [f \in Execution |->
               IF f = e THEN s
               ELSE IF f \in lapsed THEN StatusOnceReclaimed(f)
               ELSE execStatus[f]]

\* Who still excludes the new execution once the expired holders are gone.
Blockers(t) ==
    {f \in Holders(WorkspaceOf[t]) : ~lease[f].expired /\ ~Compatible(ModeOf[t], LeaseMode(f))}

\* The peek skipped a lease that the grant does not skip: the attempt is written
\* off before it was handed to anybody, and the task parks.
TickLosesLease(t) ==
    /\ Dispatching(t)
    /\ revision[t] < MaxRevision
    /\ ~AlreadyInFlight(t)
    /\ Blockers(t) # {}
    /\ Create(t, "CANCELLED", Expired(WorkspaceOf[t]))
    /\ lease' = [f \in Execution |-> IF f \in Expired(WorkspaceOf[t]) THEN NoLease ELSE lease[f]]
    /\ MoveOn(t, Requeued(t), "WAIT_WORKSPACE")
    /\ UNCHANGED <<policy, quotaRetries, resourceRetries, sessionKey, acquired, orphans, run, otherVars>>

\* The workspace is granted and the handoff is on its way to the gateway.
TickHandsOff(t) ==
    /\ Dispatching(t)
    /\ revision[t] < MaxRevision
    /\ ~AlreadyInFlight(t)
    /\ Blockers(t) = {}
    /\ Create(t, "PENDING", Expired(WorkspaceOf[t]))
    /\ lease' = [f \in Execution |->
           IF f = NewExecution(t) THEN [at |-> acquired + 1, expired |-> FALSE]
           ELSE IF f \in Expired(WorkspaceOf[t]) THEN NoLease ELSE lease[f]]
    /\ acquired' = acquired + 1
    /\ run' = [run EXCEPT ![NewExecution(t)] = "sent"]
    /\ status' = [status EXCEPT ![t] = Requeued(t)]
    /\ pc' = "handoff"
    /\ cur' = NewExecution(t)
    /\ UNCHANGED <<policy, quotaRetries, resourceRetries, sessionKey, orphans, stalled, snapshot, otherVars>>

\* The catch of dispatch: release, then FAILED for the attempt, then park.  On
\* a row finalized meanwhile the second write throws and kills the pass.
HandoffCatch(w, bump) ==
    LET t == TaskOf(cur)
    IN  /\ Release(cur)
        /\ IF Final(cur)
           THEN /\ PassDies
                /\ UNCHANGED <<status, execStatus, quotaRetries>>
           ELSE /\ execStatus' = [execStatus EXCEPT ![cur] = "FAILED"]
                /\ quotaRetries' = [quotaRetries EXCEPT ![t] = @ + bump]
                /\ MoveOn(t, status[t], w)

QuotaBudgetLeftInclusive(t) == quotaRetries[t] <= QuotaRetryLimit
QuotaBudgetLeft(t) == quotaRetries[t] < QuotaRetryLimit

\* The gateway answers the handoff with an error: a quota refusal on a short
\* window is counted and parked until the budget is spent, a long window parks
\* and a fatal refusal blocks at once, anything else is a runtime problem.
HandoffRefused ==
    /\ pc = "handoff"
    /\ run[cur] = "sent"
    /\ run' = [run EXCEPT ![cur] = "rejected"]
    /\ \/ /\ QuotaBudgetLeft(TaskOf(cur))
          /\ HandoffCatch("WAIT_QUOTA", 1)
       \/ /\ ~QuotaBudgetLeft(TaskOf(cur))
          /\ HandoffCatch("BLOCKED", 0)
       \/ \E w \in {"WAIT_QUOTA", "WAIT_RUNTIME", "BLOCKED"} : HandoffCatch(w, 0)
    /\ UNCHANGED <<policy, resourceRetries, revision, sessionKey, inherited, acquired, orphans, otherVars>>

\* No agent serves the model, so nothing was sent; the pass goes off to provision
\* a sandbox with the attempt written off and its task not parked yet.
HandoffFindsNoAgent ==
    /\ pc = "handoff"
    /\ run[cur] = "sent"
    /\ run' = [run EXCEPT ![cur] = "rejected"]
    /\ Release(cur)
    /\ IF Final(cur)
       THEN /\ PassDies
            /\ UNCHANGED execStatus
       ELSE /\ execStatus' = [execStatus EXCEPT ![cur] = "FAILED"]
            /\ pc' = "provisioning"
            /\ UNCHANGED <<cur, stalled, snapshot>>
    /\ UNCHANGED <<taskVars, revision, sessionKey, inherited, acquired, orphans, otherVars>>

\* Whatever came of the sandbox, the task waits for the resource.
ProvisioningEnds ==
    /\ pc = "provisioning"
    /\ MoveOn(TaskOf(cur), status[TaskOf(cur)], "WAIT_RESOURCE")
    /\ UNCHANGED <<policy, quotaRetries, resourceRetries, execVars, leaseVars, run, otherVars>>

\* The request times out or the socket drops: the answer is unknown here, while
\* the gateway may have the run already or start it later.
HandoffTimesOut ==
    /\ "timeout" \in Environment
    /\ pc = "handoff"
    /\ HandoffCatch("WAIT_RUNTIME", 0)
    /\ UNCHANGED <<policy, resourceRetries, revision, sessionKey, inherited, acquired, orphans, run, otherVars>>

\* The accept arrives: session_key and DISPATCHED are written on the execution.
RecordHandoff ==
    /\ pc = "handoff"
    /\ Accepted(cur)
    /\ IF Final(cur)
       THEN /\ HandoffCatch("WAIT_RUNTIME", 0)
            /\ UNCHANGED sessionKey
       ELSE /\ sessionKey' = [sessionKey EXCEPT ![cur] = TRUE]
            /\ execStatus' = [execStatus EXCEPT ![cur] = "DISPATCHED"]
            /\ pc' = "marking"
            /\ UNCHANGED <<status, quotaRetries, lease, cur, stalled, snapshot>>
    /\ UNCHANGED <<policy, resourceRetries, revision, inherited, acquired, orphans, run, otherVars>>

\* The task follows its execution; a task that moved meanwhile throws into the
\* same catch as a refused handoff.
MarkDispatched ==
    LET t == TaskOf(cur)
    IN  /\ pc = "marking"
        /\ IF MayTransition(status[t], "DISPATCHED", "none")
           THEN /\ MoveOn(t, status[t], "DISPATCHED")
                /\ UNCHANGED <<execStatus, quotaRetries, lease>>
           ELSE HandoffCatch("WAIT_RUNTIME", 0)
        /\ UNCHANGED <<policy, resourceRetries, revision, sessionKey, inherited, acquired, orphans, run, otherVars>>

EndTick ==
    /\ pc = "tick"
    /\ \A t \in Task : snapshot[t] = "none"
    /\ PassDies
    /\ UNCHANGED <<taskVars, execVars, leaseVars, run, otherVars>>

------------------------------------------------------------------------------
(* Who may run while the pass has not yielded: nobody during the tick, only  *)
(* handlers of frames read together with the accept after it.                *)

FramesHandled == pc # "tick"
RequestsHandled == pc \notin {"tick", "marking"}

------------------------------------------------------------------------------
(* The session-event sink.  A frame may arrive late, again, or never. *)

\* applyEnd ignores unknown and finalized executions.
EndFrameTwice(e, outcome) ==
    /\ FramesHandled
    /\ run[e] = outcome
    /\ execStatus[e] # "NONE"

EndFrame(e, outcome) ==
    /\ FramesHandled
    /\ run[e] = outcome
    /\ execStatus[e] # "NONE"
    /\ ~Final(e)

RunEndsCleanly(e) ==
    /\ EndFrame(e, "done")
    /\ FinalizeRun(e, "COMPLETE")
    /\ UNCHANGED <<policy, revision, sessionKey, inherited, acquired, orphans, run, passVars, otherVars>>

\* `aborted` is read as a cancellation, whoever asked for the abort.
RunEndsAborted(e) ==
    /\ EndFrame(e, "aborted")
    /\ FinalizeRun(e, "CANCELLED")
    /\ UNCHANGED <<policy, revision, sessionKey, inherited, acquired, orphans, run, passVars, otherVars>>

RunEndsAbnormally(e) ==
    /\ EndFrame(e, "failed")
    /\ ApplyRuntimeFailure(e)
    /\ UNCHANGED <<policy, quotaRetries, resourceRetries, revision, sessionKey, inherited,
                   acquired, orphans, run, passVars, otherVars>>

\* The tail of every late refusal: the attempt takes verdict, the task moves to
\* w, and only if that move is legal are the counter and the lease reached.
LateVerdict(e, verdict, w) ==
    LET t == TaskOf(e)
    IN  /\ execStatus' = [execStatus EXCEPT ![e] = verdict]
        /\ IF MayTransition(status[t], w, "none")
           THEN /\ status' = [status EXCEPT ![t] = w]
                /\ ReleaseIfFirst(e)
           ELSE UNCHANGED <<status, lease>>

Bump(counter, e, w) ==
    IF MayTransition(status[TaskOf(e)], w, "none")
    THEN [counter EXCEPT ![TaskOf(e)] = @ + 1]
    ELSE counter

\* applyLateError: accepted, then refused.  Only an execution still waiting for
\* its first sign of life can be condemned.
Refused(e) ==
    /\ FramesHandled
    /\ run[e] = "refused"
    /\ execStatus[e] = "DISPATCHED"

LateErrorQuota(e) ==
    /\ Refused(e)
    /\ IF QuotaBudgetLeft(TaskOf(e))
       THEN /\ LateVerdict(e, "FAILED", "WAIT_QUOTA")
            /\ quotaRetries' = Bump(quotaRetries, e, "WAIT_QUOTA")
       ELSE /\ LateVerdict(e, "BLOCKED", "BLOCKED")
            /\ UNCHANGED quotaRetries
    /\ UNCHANGED <<policy, resourceRetries, revision, sessionKey, inherited, acquired, orphans, run, passVars, otherVars>>

LateErrorTransient(e) ==
    /\ Refused(e)
    /\ IF resourceRetries[TaskOf(e)] < ResourceRetryLimit
       THEN /\ LateVerdict(e, "FAILED", "WAIT_RESOURCE")
            /\ resourceRetries' = Bump(resourceRetries, e, "WAIT_RESOURCE")
       ELSE /\ LateVerdict(e, "BLOCKED", "BLOCKED")
            /\ UNCHANGED resourceRetries
    /\ UNCHANGED <<policy, quotaRetries, revision, sessionKey, inherited, acquired, orphans, run, passVars, otherVars>>

LateErrorFatal(e) ==
    /\ Refused(e)
    /\ LateVerdict(e, "BLOCKED", "BLOCKED")
    /\ UNCHANGED <<policy, quotaRetries, resourceRetries, revision, sessionKey, inherited,
                   acquired, orphans, run, passVars, otherVars>>

------------------------------------------------------------------------------
(* The reconciler: one status at a time it lists the tasks that may have a   *)
(* run, then asks the gateway about the latest execution of each, with the   *)
(* status it listed them with in hand all along.                             *)

ProbeableOnceStarted(t) ==
    /\ HasExecution(t)
    /\ sessionKey[Latest(t)]
    /\ execStatus[Latest(t)] = "RUNNING"

Probeable(t) ==
    /\ HasExecution(t)
    /\ sessionKey[Latest(t)]
    /\ ~Final(Latest(t))

\* On to the next task of the list that has something to ask about.
ProbeNext(tasks, s) ==
    \/ \E t \in tasks :
          /\ Probeable(t)
          /\ probed' = Latest(t)
          /\ listed' = tasks \ {t}
          /\ listStatus' = s
    \/ /\ \A t \in tasks : ~Probeable(t)
       /\ ReconcilerRests

ReconcilerLists(s) ==
    /\ RequestsHandled
    /\ probed = NoExecution
    /\ \E t \in Task : status[t] = s /\ Probeable(t)
    /\ ProbeNext({t \in Task : status[t] = s}, s)
    /\ UNCHANGED <<taskVars, execVars, leaseVars, run, passVars, stopping>>

Answered(e) ==
    /\ FramesHandled
    /\ probed = e

\* No answer, or one that changes nothing.
ReconcilerPasses(e) ==
    /\ Answered(e)
    /\ ProbeNext(listed, listStatus)
    /\ UNCHANGED <<taskVars, execVars, leaseVars, run, passVars, stopping>>

\* applyDescribe reads the row again and leaves a finalized one alone.
ReconcileSettles(e) ==
    /\ Answered(e)
    /\ run[e] = "done"
    /\ ~Final(e)
    /\ FinalizeRun(e, "COMPLETE")
    /\ ProbeNext(listed, listStatus)
    /\ UNCHANGED <<policy, revision, sessionKey, inherited, acquired, orphans, run, passVars, stopping>>

\* The gateway's own terminal classification: failed, killed or timeout.
NotDoneAtGateway(e) == run[e] # "done"
GoneAtGateway(e) == run[e] \in {"failed", "aborted"}

\* The verdict of retry.mjs on the row as it was read: a row finalized meanwhile
\* makes the write throw, which ends the reconciler's pass.
ReconcileRecovers(e) ==
    /\ Answered(e)
    /\ GoneAtGateway(e)
    /\ listStatus \in {"DISPATCHED", "RUNNING"}
    /\ IF Final(e)
       THEN /\ ReconcilerRests
            /\ UNCHANGED <<status, execStatus, lease>>
       ELSE /\ ApplyRuntimeFailure(e)
            /\ ProbeNext(listed, listStatus)
    /\ UNCHANGED <<policy, quotaRetries, resourceRetries, revision, sessionKey, inherited,
                   acquired, orphans, run, passVars, stopping>>

\* A run still going under a task listed as BLOCKED is stopped at the gateway.
ReconcileAborts(e) ==
    /\ Answered(e)
    /\ listStatus = "BLOCKED"
    /\ run[e] = "live"
    /\ run' = [run EXCEPT ![e] = "aborted"]
    /\ ProbeNext(listed, listStatus)
    /\ UNCHANGED <<taskVars, execVars, leaseVars, passVars, stopping>>

------------------------------------------------------------------------------
(* The operator *)

Start(t) ==
    /\ RequestsHandled
    /\ status[t] = "CREATED"
    /\ status' = [status EXCEPT ![t] = "QUEUED"]
    /\ UNCHANGED <<policy, quotaRetries, resourceRetries, execVars, leaseVars, run, passVars, otherVars>>

\* Only the task moves: the run, the execution and the lease stay.
Cancel(t) ==
    /\ "cancel" \in Environment /\ RequestsHandled
    /\ CanTransition(status[t], "CANCELLED")
    /\ status' = [status EXCEPT ![t] = "CANCELLED"]
    /\ UNCHANGED <<policy, quotaRetries, resourceRetries, execVars, leaseVars, run, passVars, otherVars>>

\* The tail of a stop: the lease goes, the task parks; a task that cannot park
\* makes the call fail here.
StopEndsForced(t, e) ==
    /\ Release(e)
    /\ status' = [status EXCEPT ![t] = "BLOCKED"]

StopEnds(t, e) ==
    /\ Release(e)
    /\ status' = IF MayTransition(status[t], "BLOCKED", "none")
                 THEN [status EXCEPT ![t] = "BLOCKED"] ELSE status

\* The execution is finalized first; with a session_ref on the row the gateway
\* is asked to abort it before the rest is done.
Stop(t) ==
    LET e == Latest(t)
        live == HasExecution(t) /\ InFlight(e)
    IN  /\ "stop" \in Environment /\ RequestsHandled
        /\ status[t] \notin {"COMPLETE", "CANCELLED"}
        /\ \/ /\ ~live
              /\ CanTransition(status[t], "BLOCKED")
              /\ status' = [status EXCEPT ![t] = "BLOCKED"]
              /\ UNCHANGED <<execStatus, lease, stopping>>
           \/ /\ live
              /\ execStatus' = [execStatus EXCEPT ![e] = "CANCELLED"]
              /\ IF sessionKey[e] \/ inherited[e]
                 THEN /\ stopping' = stopping \cup {e}
                      /\ UNCHANGED <<status, lease>>
                 ELSE /\ StopEnds(t, e)
                      /\ UNCHANGED stopping
        /\ UNCHANGED <<policy, quotaRetries, resourceRetries, revision, sessionKey, inherited,
                       acquired, orphans, run, passVars, reconVars>>

\* session_ref names the run's own session unless it was inherited; an abort
\* that is not answered leaves the run alone, and the stop goes on regardless.
StopAborts(e) ==
    /\ FramesHandled
    /\ e \in stopping
    /\ stopping' = stopping \ {e}
    /\ \/ run' = IF run[e] = "live" /\ ~inherited[e] THEN [run EXCEPT ![e] = "aborted"] ELSE run
       \/ "timeout" \in Environment /\ UNCHANGED run
    /\ StopEnds(TaskOf(e), e)
    /\ UNCHANGED <<policy, quotaRetries, resourceRetries, execVars, acquired, orphans, passVars, reconVars>>

\* The gateway cannot be reached at all: the call fails half done.
StopFails(e) ==
    /\ "timeout" \in Environment /\ FramesHandled
    /\ e \in stopping
    /\ stopping' = stopping \ {e}
    /\ UNCHANGED <<taskVars, execVars, leaseVars, run, passVars, reconVars>>

\* createRevision: one transaction; BLOCKED goes through RESUMABLE on the way.
Revise(t, sessionMode) ==
    /\ "revise" \in Environment /\ RequestsHandled
    /\ status[t] = "BLOCKED" \/ MayTransition(status[t], "QUEUED", "revision")
    /\ status' = [status EXCEPT ![t] = "QUEUED"]
    /\ policy' = [policy EXCEPT ![t] = sessionMode]
    /\ ResetRetries(t)
    /\ UNCHANGED <<execVars, leaseVars, run, passVars, otherVars>>

\* The admin repair: the task takes the status its final execution maps to.
Settle(t) ==
    /\ "settle" \in Environment /\ RequestsHandled
    /\ HasExecution(t)
    /\ Final(Latest(t))
    /\ CanTransition(status[t], execStatus[Latest(t)])
    /\ status' = [status EXCEPT ![t] = execStatus[Latest(t)]]
    /\ ReleaseIfFirst(Latest(t))
    /\ UNCHANGED <<policy, quotaRetries, resourceRetries, execVars, acquired, orphans, run, passVars, otherVars>>

------------------------------------------------------------------------------
(* The process dies and is started again, between two handlers or between two *)
(* statements of one: the rows stay as they were last written, what waited on *)
(* the gateway is forgotten.                                                   *)

Restart ==
    /\ PassDies
    /\ ReconcilerRests
    /\ stopping' = {}

\* An abort that is on its way to the gateway stops the run all the same.
AbortAsked(e) == (pc = "aborting" /\ cur = e) \/ (e \in stopping /\ ~inherited[e])

AbortOf(e) == IF run[e] = "live" THEN [run EXCEPT ![e] = "aborted"] ELSE run

Crash ==
    /\ "crash" \in Environment
    /\ Restart
    /\ UNCHANGED run \/ \E e \in Execution : AbortAsked(e) /\ run' = AbortOf(e)
    /\ UNCHANGED <<taskVars, execVars, leaseVars>>

\* dispatch up to the gateway: the task is queued again, the row is created, the
\* workspace is refused, the attempt is written off.
CrashAmidDispatch(t) ==
    /\ "crash" \in Environment
    /\ Dispatching(t)
    /\ status' = [status EXCEPT ![t] = Requeued(t)]
    /\ \/ UNCHANGED <<execStatus, revision, inherited, lease>>
       \/ /\ revision[t] < MaxRevision
          /\ ~AlreadyInFlight(t)
          /\ \/ /\ Create(t, "PENDING", {})
                /\ UNCHANGED lease
             \/ /\ Blockers(t) # {}
                /\ \E s \in {"PENDING", "CANCELLED"} : Create(t, s, Expired(WorkspaceOf[t]))
                /\ lease' = [f \in Execution |->
                       IF f \in Expired(WorkspaceOf[t]) THEN NoLease ELSE lease[f]]
    /\ Restart
    /\ UNCHANGED <<policy, quotaRetries, resourceRetries, sessionKey, acquired, orphans, run>>

\* The accept is half recorded: session_key is there, DISPATCHED is not.
CrashAmidRecord ==
    /\ "crash" \in Environment
    /\ pc = "handoff"
    /\ Accepted(cur)
    /\ ~Final(cur)
    /\ sessionKey' = [sessionKey EXCEPT ![cur] = TRUE]
    /\ Restart
    /\ UNCHANGED <<taskVars, revision, execStatus, inherited, leaseVars, run>>

\* Who is in the catch of dispatch: a refused handoff, one whose answer was lost
\* or came for a finalized row, one whose task cannot follow.
CatchReached ==
    \/ /\ pc = "handoff"
       /\ run[cur] = "sent"
       /\ run' = [run EXCEPT ![cur] = "rejected"]
    \/ /\ pc = "handoff"
       /\ "timeout" \in Environment \/ (Accepted(cur) /\ Final(cur))
       /\ UNCHANGED run
    \/ /\ pc = "marking"
       /\ ~MayTransition(status[TaskOf(cur)], "DISPATCHED", "none")
       /\ UNCHANGED run

\* The catch releases, then writes FAILED, then counts a refusal, then parks.
CrashInCatch ==
    LET t == TaskOf(cur)
    IN  /\ "crash" \in Environment
        /\ CatchReached
        /\ Release(cur)
        /\ \/ /\ orphans' = orphans \cup {e \in {cur} : Live(e)}
              /\ UNCHANGED <<execStatus, quotaRetries>>
           \/ /\ ~Final(cur)
              /\ UNCHANGED orphans
              /\ execStatus' = [execStatus EXCEPT ![cur] = "FAILED"]
              /\ \/ UNCHANGED quotaRetries
                 \/ /\ run'[cur] = "rejected"
                    /\ QuotaBudgetLeft(t)
                    /\ quotaRetries' = [quotaRetries EXCEPT ![t] = @ + 1]
        /\ Restart
        /\ UNCHANGED <<status, policy, resourceRetries, revision, sessionKey, inherited, acquired>>

\* The attempt takes its verdict, and its task has moved or not.
CutShort(e, verdict, w) ==
    /\ execStatus' = [execStatus EXCEPT ![e] = verdict]
    /\ \/ UNCHANGED status
       \/ /\ MayTransition(status[TaskOf(e)], w, "auto-retry")
          /\ status' = [status EXCEPT ![TaskOf(e)] = w]

\* The attempt, then the task, then the counters, and the lease is not reached:
\* a frame or an answer to the reconciler ends the run, or the watchdog gives up.
CrashAmidVerdict(e) ==
    LET t == TaskOf(e)
        failures == RecentFailures(t, execStatus')
    IN  /\ "crash" \in Environment
        /\ ~Final(e)
        /\ \/ /\ EndFrame(e, "done") \/ (Answered(e) /\ run[e] = "done")
              /\ CutShort(e, "COMPLETE", "COMPLETE")
              /\ \/ UNCHANGED <<quotaRetries, resourceRetries>>
                 \/ status'[t] = "COMPLETE" /\ ResetRetries(t)
           \/ /\ EndFrame(e, "aborted")
              /\ CutShort(e, "CANCELLED", "CANCELLED")
              /\ UNCHANGED <<quotaRetries, resourceRetries>>
           \/ /\ \/ EndFrame(e, "failed")
                 \/ Answered(e) /\ GoneAtGateway(e) /\ listStatus \in {"DISPATCHED", "RUNNING"}
                 \/ pc = "aborting" /\ cur = e
              /\ execStatus' = [execStatus EXCEPT ![e] = "FAILED"]
              /\ \/ UNCHANGED status
                 \/ /\ status[t] \in {"DISPATCHED", "RUNNING"}
                    /\ status' = [status EXCEPT ![t] = IF failures <= RuntimeRetryLimit
                                                       THEN "QUEUED" ELSE "BLOCKED"]
              /\ UNCHANGED <<quotaRetries, resourceRetries>>
        /\ run' = AbortOf(e)
        /\ Restart
        /\ UNCHANGED <<policy, revision, sessionKey, inherited, leaseVars>>

CrashAmidRefusal(e) ==
    LET t == TaskOf(e)
    IN  /\ "crash" \in Environment
        /\ Refused(e)
        /\ \/ /\ QuotaBudgetLeft(t)
              /\ CutShort(e, "FAILED", "WAIT_QUOTA")
              /\ \/ UNCHANGED quotaRetries
                 \/ status'[t] = "WAIT_QUOTA" /\ quotaRetries' = [quotaRetries EXCEPT ![t] = @ + 1]
              /\ UNCHANGED resourceRetries
           \/ /\ resourceRetries[t] < ResourceRetryLimit
              /\ CutShort(e, "FAILED", "WAIT_RESOURCE")
              /\ \/ UNCHANGED resourceRetries
                 \/ /\ status'[t] = "WAIT_RESOURCE"
                    /\ resourceRetries' = [resourceRetries EXCEPT ![t] = @ + 1]
              /\ UNCHANGED quotaRetries
           \/ /\ CutShort(e, "BLOCKED", "BLOCKED")
              /\ UNCHANGED <<quotaRetries, resourceRetries>>
        /\ Restart
        /\ UNCHANGED <<policy, revision, sessionKey, inherited, leaseVars, run>>

\* A stop finalizes, asks for the abort, releases, parks.
CrashAmidStop(e) ==
    /\ "crash" \in Environment
    /\ \/ /\ "stop" \in Environment /\ RequestsHandled
          /\ HasExecution(TaskOf(e)) /\ e = Latest(TaskOf(e)) /\ InFlight(e)
          /\ status[TaskOf(e)] \notin {"COMPLETE", "CANCELLED"}
          /\ execStatus' = [execStatus EXCEPT ![e] = "CANCELLED"]
          /\ UNCHANGED lease \/ (~sessionKey[e] /\ ~inherited[e] /\ Release(e))
          /\ UNCHANGED run
       \/ /\ e \in stopping
          /\ UNCHANGED run \/ (AbortAsked(e) /\ run' = AbortOf(e))
          /\ Release(e)
          /\ UNCHANGED execStatus
    /\ Restart
    /\ UNCHANGED <<taskVars, revision, sessionKey, inherited, acquired, orphans>>

\* A repair moves the task, then releases.
CrashAmidSettle(t) ==
    /\ "crash" \in Environment /\ "settle" \in Environment /\ RequestsHandled
    /\ HasExecution(t)
    /\ Final(Latest(t))
    /\ CanTransition(status[t], execStatus[Latest(t)])
    /\ status' = [status EXCEPT ![t] = execStatus[Latest(t)]]
    /\ Restart
    /\ UNCHANGED <<policy, quotaRetries, resourceRetries, execVars, leaseVars, run>>

Crashes ==
    \/ Crash
    \/ CrashAmidRecord
    \/ CrashInCatch
    \/ \E t \in Task : CrashAmidDispatch(t) \/ CrashAmidSettle(t)
    \/ \E e \in Execution : CrashAmidVerdict(e) \/ CrashAmidRefusal(e) \/ CrashAmidStop(e)

------------------------------------------------------------------------------
(* The gateway and the clock *)

GatewayAccepts(e) ==
    /\ run[e] = "sent"
    /\ run' = [run EXCEPT ![e] = "live"]
    /\ UNCHANGED <<taskVars, execVars, leaseVars, passVars, otherVars>>

GatewayRefusesLate(e) ==
    /\ run[e] = "live"
    /\ run' = [run EXCEPT ![e] = "refused"]
    /\ UNCHANGED <<taskVars, execVars, leaseVars, passVars, otherVars>>

GatewayEndsRun(e) ==
    /\ run[e] = "live"
    /\ \E outcome \in RunOutcome : run' = [run EXCEPT ![e] = outcome]
    /\ UNCHANGED <<taskVars, execVars, leaseVars, passVars, otherVars>>

LeaseExpires(e) ==
    /\ "expiry" \in Environment /\ RequestsHandled
    /\ Holds(e)
    /\ ~lease[e].expired
    /\ lease' = [lease EXCEPT ![e].expired = TRUE]
    /\ UNCHANGED <<taskVars, execVars, acquired, orphans, run, passVars, otherVars>>

------------------------------------------------------------------------------
Pass ==
    \/ BeginPass
    \/ \E e \in Execution : WatchdogSkips(e) \/ WatchdogAborts(e)
    \/ WatchdogReclaims
    \/ WatchdogDefers
    \/ BeginTick
    \/ \E t \in Task :
          \/ \E w \in WaitingStatus \cup {"BLOCKED"} : TickParks(t, w)
          \/ TickThrows(t)
          \/ TickFindsInFlight(t)
          \/ TickLosesLease(t)
          \/ TickHandsOff(t)
    \/ HandoffRefused
    \/ HandoffFindsNoAgent
    \/ ProvisioningEnds
    \/ HandoffTimesOut
    \/ RecordHandoff
    \/ MarkDispatched
    \/ EndTick

Sink ==
    \E e \in Execution :
        \/ RunEndsCleanly(e)
        \/ RunEndsAborted(e)
        \/ RunEndsAbnormally(e)
        \/ LateErrorQuota(e)
        \/ LateErrorTransient(e)
        \/ LateErrorFatal(e)

Reconciler ==
    \/ \E s \in ReconciledStatus : ReconcilerLists(s)
    \/ \E e \in Execution :
          \/ ReconcilerPasses(e)
          \/ ReconcileSettles(e)
          \/ ReconcileRecovers(e)
          \/ ReconcileAborts(e)

Operator ==
    \/ \E t \in Task :
          \/ Start(t)
          \/ Cancel(t)
          \/ Stop(t)
          \/ \E sessionMode \in {"FRESH", "CONTINUE"} : Revise(t, sessionMode)
          \/ Settle(t)
    \/ \E e \in Execution : StopAborts(e) \/ StopFails(e)

Gateway ==
    \E e \in Execution : GatewayAccepts(e) \/ GatewayRefusesLate(e) \/ GatewayEndsRun(e)

Next ==
    \/ Pass
    \/ Sink
    \/ Reconciler
    \/ Operator
    \/ Gateway
    \/ Crashes
    \/ \E e \in Execution : LeaseExpires(e)

Spec == Init /\ [][Next]_vars

\* The pass is restarted by a timer and goes on by itself; its calls are
\* answered or fail.  The gateway answers each handoff and ends each run.  An
\* execution that stays quiet is listed by the watchdog again and again, and
\* the gateway does not refuse to describe or abort it forever.  The reconciler
\* is a timer too.  Frames are not fair: any of them may be lost.
Fairness ==
    /\ WF_vars(Pass)
    /\ \A e \in Execution :
          /\ WF_vars(GatewayAccepts(e))
          /\ WF_vars(GatewayEndsRun(e))
          /\ SF_vars(BeginPass /\ e \in stalled')
          /\ SF_vars(WatchdogAborts(e) /\ run[e] \notin {"live", "done"})
          /\ SF_vars(ReconcileSettles(e) \/ ReconcileRecovers(e))
    /\ SF_vars(WatchdogReclaims)
    /\ SF_vars(\E s \in ReconciledStatus : ReconcilerLists(s))
    /\ SF_vars(\E e \in Execution : ReconcilerPasses(e))

FairSpec == Spec /\ Fairness

------------------------------------------------------------------------------
(* Safety, whatever happens *)

\* No two holders of a path exclude each other, however the grants, reclaims,
\* sweeps and releases of leases interleave (leases.acquire, P4-07).
Excludes(e, f) ==
    e # f /\ PathOf(e) = PathOf(f) /\ "write" \in {LeaseMode(e), LeaseMode(f)}
LeaseTableExclusive == \A e, f \in Execution : Holds(e) /\ Holds(f) => ~Excludes(e, f)

\* An execution on record as running holds its workspace: no release, sweep or
\* reclaim takes the lease of an execution it leaves DISPATCHED or RUNNING.  The
\* one exception is a process that dies in dispatch's catch, after the release and
\* before FAILED, over a task that was cancelled or stopped during the handoff.
LiveHoldsLease == \A e \in Execution : Live(e) => Holds(e) \/ e \in orphans

\* P4-11: a task has at most one attempt in flight, its newest, whatever frames
\* of older attempts arrive late and wherever the controller crashed.
OneInFlight == \A e \in Execution : InFlight(e) => e = Latest(TaskOf(e))

\* The dead end stays dead: an operator's cancel is overruled neither by a pass
\* that read the task before it, nor by a stop, a verdict or a repair under way.
CancelIsFinal ==
    [][\A t \in Task : status[t] = "CANCELLED" => status'[t] = "CANCELLED"]_vars

\* Refusals are counted on two paths, before the accept (dispatch's catch) and
\* after it (applyLateError); together they never exceed the budget.
BudgetsRespected ==
    \A t \in Task : quotaRetries[t] <= QuotaRetryLimit /\ resourceRetries[t] <= ResourceRetryLimit

\* dispatch() takes the lease after checkWorkspace only peeked at it, by another
\* rule: the peek skips the task's own holders, the grant does not.  What stands in
\* the way of a grant is an attempt of the task itself that is over, and neither
\* another task's lease nor an attempt that may still run. (checkWorkspace, acquire)
LostOnlyToItself ==
    \A t \in Task : Dispatching(t) /\ ~AlreadyInFlight(t) =>
        \A f \in Blockers(t) : TaskOf(f) = t /\ ~InFlight(f)

\* The lease table is what WorkspaceLock promises: executions are the holders,
\* those on record as running are the ones that work, orphans excepted.
Lock == INSTANCE WorkspaceLock WITH
    Holder <- Execution,
    Conflict <- {p \in Execution \X Execution : Excludes(p[1], p[2])},
    holders <- {e \in Execution : Holds(e)},
    working <- {e \in Execution : Live(e)} \ orphans

ImplementsLock == Lock!Spec

------------------------------------------------------------------------------
(* Safety at the gateway: the tables say what really runs.  These hold when  *)
(* no operator stops or cancels, no handoff is lost and nothing crashes.     *)

\* A run at the gateway has an attempt in flight that accounts for it: its
\* concurrency slot, worker slot and lease are taken.
NoZombieRun == \A e \in Execution : run[e] = "live" => InFlight(e)

\* P4-07 at the gateway: no two runs that really go on share a workspace one of
\* them may write to.
GatewayExclusive ==
    \A e, f \in Execution : run[e] = "live" /\ run[f] = "live" => ~Excludes(e, f)

\* The reconciler's invariant: nothing runs at the gateway under a BLOCKED task.
BlockedIsNotRunning ==
    \A e \in Execution : status[TaskOf(e)] = "BLOCKED" => run[e] # "live"

\* A pass that is alone never loses the lease it peeked at.
PeekSuffices ==
    \A t \in Task : Dispatching(t) /\ ~AlreadyInFlight(t) => Blockers(t) = {}

\* Nothing of a COMPLETE task is still in flight, an older attempt's late
\* success included.
CompleteIsSettled ==
    \A e \in Execution : status[TaskOf(e)] = "COMPLETE" => ~InFlight(e)

------------------------------------------------------------------------------
(* What the documentation says and some schedules refute *)

\* The reconciler stops stragglers of BLOCKED tasks and nothing else: while no
\* operator interferes, a run that goes on under any other status is left alone.
OnlyStragglersAborted ==
    [][\A e \in Execution :
          /\ {"cancel", "stop"} \cap Environment = {}
          /\ "aborted" \notin RunOutcome
          /\ run[e] = "live"
          /\ run'[e] = "aborted"
          => status[TaskOf(e)] = "BLOCKED"]_vars

\* CANCELLED is a dead end: no new attempt of a cancelled task is created.
CancelledIsNotDispatched ==
    [][\A t \in Task : status[t] = "CANCELLED" => revision'[t] = revision[t]]_vars

\* With nobody cancelling, no task is CANCELLED: an abort the controller itself
\* asked for leaves a BLOCKED task resumable.
OnlyOperatorCancels ==
    {"cancel", "stop"} \cap Environment = {} => \A t \in Task : status[t] # "CANCELLED"

------------------------------------------------------------------------------
(* Liveness *)

\* Every workspace comes back, with every frame lost if need be.
EveryLeaseReturns == \A e \in Execution : Holds(e) ~> ~Holds(e)

\* Every attempt in flight leaves that state.
NoAttemptIsForgotten == \A e \in Execution : InFlight(e) ~> ~InFlight(e)
==============================================================================
