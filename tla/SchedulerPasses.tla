-------------------------- MODULE SchedulerPasses --------------------------
(***************************************************************************)
(* How scheduler passes are started and kept apart, in one process or in   *)
(* several: the wake reasons and the drain loop of each replica, the       *)
(* shared lock (in memory or in Redis), the advisory lock of PostgreSQL,   *)
(* and the transaction a pass runs in there.  What a pass decides about a  *)
(* task is WorkController's business; here a task is parked, refused or    *)
(* handed off.                                                             *)
(*                                                                         *)
(* The deployment, chosen once, is any combination of drivers main.mjs     *)
(* accepts.  With SQLite there is one replica, every statement is durable  *)
(* at once, and there is no advisory lock.  With PostgreSQL the pass is    *)
(* one transaction, which holds the lock and is undone as a whole.         *)
(*                                                                         *)
(* Faults are calls to Redis, to the database or in the pass that fail,    *)
(* answers that are lost, locks that lapse and processes that die.         *)
(***************************************************************************)
EXTENDS Integers, FiniteSets

CONSTANTS
    Replica,      \* controller processes
    Primary,      \* the one that runs where only one may
    Task,         \* task rows
    Nobody,       \* a lock that is free; no task
    Stale,        \* a lock whose holder is gone: a token, or a session, of nobody's
    MaxFaults     \* bound: faults per behaviour

ASSUME PrimaryAssumption == Primary \in Replica
ASSUME NobodyAssumption == Nobody \notin Replica \cup Task
ASSUME StaleAssumption == Stale \notin Replica \cup {Nobody}
ASSUME FaultAssumption == MaxFaults \in Nat

VARIABLES
    shared,       \* STATE_DRIVER
    store,        \* DATABASE_DRIVER
    filed,        \* tasks.create has committed
    inFlight,     \* tasks with a committed execution in flight
    weighed,      \* tasks some completed pass has considered
    handoffs,     \* how often the gateway accepted a run of each task
    undone,       \* how many of these have lost their record in a rollback
    pending,      \* pendingReasons is not empty
    owed,         \* the tasks on file at the wakes a drain still has to honour
    pc,           \* where the drain loop of each replica is
    queue,        \* the candidates its tick still has to consider
    batch,        \* all the candidates of its tick
    cur,          \* the task it is handing off
    draft,        \* executions written by its transaction, not committed
    severed,      \* its transaction's connection is gone
    lock,         \* who holds the Redis key
    guard,        \* whose session holds the advisory lock
    faults        \* faults so far

deployment == <<shared, store>>
taskVars == <<filed, weighed, handoffs, undone, inFlight>>
drainVars == <<pending, owed>>
tickVars == <<queue, batch, cur, draft, severed>>
lockVars == <<lock, guard>>
vars == <<deployment, taskVars, drainVars, pc, tickVars, lockVars, faults>>

------------------------------------------------------------------------------
Holder == Replica \cup {Stale, Nobody}

Running == {"locking", "guarding", "reading", "ticking", "sending", "unlocking", "failing"}
InPass(r) == pc[r] \in {"reading", "ticking", "sending"}
Up(r) == pc[r] \notin {"absent", "down"}

\* Only the primary runs where the store is a local file.
Fleet == IF store = "sqlite" THEN {Primary} ELSE Replica

TypeOK ==
    /\ shared \in {"memory", "redis"} /\ store \in {"sqlite", "postgres"}
    /\ filed \subseteq Task /\ inFlight \subseteq Task /\ weighed \subseteq Task
    /\ handoffs \in [Task -> Nat] /\ undone \in [Task -> Nat]
    /\ pending \in [Replica -> BOOLEAN] /\ owed \in [Replica -> SUBSET Task]
    /\ pc \in [Replica -> Running \cup {"absent", "down", "idle"}]
    /\ queue \in [Replica -> SUBSET Task] /\ batch \in [Replica -> SUBSET Task]
    /\ cur \in [Replica -> Task \cup {Nobody}]
    /\ draft \in [Replica -> SUBSET Task] /\ severed \in [Replica -> BOOLEAN]
    /\ lock \in Holder /\ guard \in Holder
    /\ faults \in Nat

Init ==
    /\ shared \in {"memory", "redis"} /\ store \in {"sqlite", "postgres"}
    /\ filed = {} /\ inFlight = {} /\ weighed = {}
    /\ handoffs = [t \in Task |-> 0] /\ undone = [t \in Task |-> 0]
    /\ pending = [r \in Replica |-> FALSE] /\ owed = [r \in Replica |-> {}]
    /\ pc = [r \in Replica |-> IF r \in Fleet THEN "idle" ELSE "absent"]
    /\ queue = [r \in Replica |-> {}] /\ batch = [r \in Replica |-> {}]
    /\ cur = [r \in Replica |-> Nobody]
    /\ draft = [r \in Replica |-> {}] /\ severed = [r \in Replica |-> FALSE]
    /\ lock = Nobody /\ guard = Nobody
    /\ faults = 0

Goto(r, where) == pc' = [pc EXCEPT ![r] = where]
Fault == faults < MaxFaults /\ faults' = faults + 1

------------------------------------------------------------------------------
(* The drain loop *)

\* A request files a task; its wake is a step of its own, after the commit.
File(t) ==
    /\ t \notin filed
    /\ \E r \in Replica : Up(r)
    /\ filed' = filed \cup {t}
    /\ UNCHANGED <<deployment, weighed, handoffs, undone, inFlight, drainVars, pc,
                   tickVars, lockVars, faults>>

\* Any handler, or the watchdog's timer.  A drain under way takes the reason up;
\* otherwise this one begins, and carries every reason recorded so far.
Notify(r) ==
    /\ Up(r)
    /\ owed' = [owed EXCEPT ![r] = filed]
    /\ IF pc[r] = "idle"
       THEN Goto(r, "locking") /\ pending' = [pending EXCEPT ![r] = FALSE]
       ELSE pending' = [pending EXCEPT ![r] = TRUE] /\ UNCHANGED pc
    /\ UNCHANGED <<deployment, taskVars, tickVars, lockVars, faults>>

\* Defect for the checks: "if" for "while", so a reason that came in flight is
\* cleared with the others.
NextTurnOnce(r) ==
    /\ Goto(r, "idle")
    /\ pending' = [pending EXCEPT ![r] = FALSE]

\* The while loop's next turn once pass() has returned.
NextTurn(r) ==
    /\ Goto(r, IF pending[r] THEN "locking" ELSE "idle")
    /\ pending' = [pending EXCEPT ![r] = FALSE]

\* pass() returned null: its reasons are gone with it.
Dropped(r) == owed' = [owed EXCEPT ![r] = IF pending[r] THEN owed[r] ELSE {}]

------------------------------------------------------------------------------
(* sharedState.withLock *)

\* The local lock is never found taken: `running` lets one pass in at a time.
TakeLock(r) ==
    /\ pc[r] = "locking"
    /\ \/ shared = "memory" /\ UNCHANGED lock
       \/ shared = "redis" /\ lock = Nobody /\ lock' = r
    /\ Goto(r, "guarding")
    /\ UNCHANGED <<deployment, taskVars, drainVars, tickVars, guard, faults>>

LockRefused(r) ==
    /\ pc[r] = "locking" /\ shared = "redis" /\ lock # Nobody
    /\ NextTurn(r) /\ Dropped(r)
    /\ UNCHANGED <<deployment, taskVars, tickVars, lockVars, faults>>

\* SET NX was applied and its answer lost: the retry after the reconnect finds
\* the key taken, by a token that nobody will ever release.
LockAnswerLost(r) ==
    /\ pc[r] = "locking" /\ shared = "redis" /\ lock = Nobody
    /\ Fault
    /\ lock' = Stale
    /\ NextTurn(r) /\ Dropped(r)
    /\ UNCHANGED <<deployment, taskVars, tickVars, guard>>

\* The command fails for good; the key may have been set all the same.
LockFails(r) ==
    /\ pc[r] = "locking" /\ shared = "redis"
    /\ Fault
    /\ lock' \in {lock} \cup (IF lock = Nobody THEN {Stale} ELSE {})
    /\ Goto(r, "idle")
    /\ owed' = [owed EXCEPT ![r] = {}]
    /\ UNCHANGED <<deployment, taskVars, pending, tickVars, guard>>

\* Defect for the checks: the release is not in a finally block.
UnlockOnSuccess(r) == lock' = IF lock = r /\ pc[r] = "unlocking" THEN Nobody ELSE lock

\* The token decides whose key is deleted.
Unlock(r) == lock' = IF lock = r THEN Nobody ELSE lock

\* Back in drain(): it goes on after a pass that returned, and ends with one that
\* threw, whatever is pending by then.
Return(r) ==
    \/ pc[r] = "unlocking" /\ NextTurn(r) /\ UNCHANGED owed
    \/ /\ pc[r] = "failing"
       /\ Goto(r, "idle")
       /\ UNCHANGED pending
       /\ owed' = [owed EXCEPT ![r] = {}]

Release(r) ==
    /\ Return(r)
    /\ Unlock(r)
    /\ UNCHANGED <<deployment, taskVars, tickVars, guard, faults>>

\* The release did not reach Redis, which is swallowed; the key will expire.
ReleaseLost(r) ==
    /\ lock = r
    /\ Return(r)
    /\ Fault
    /\ lock' = Stale
    /\ UNCHANGED <<deployment, taskVars, tickVars, guard>>

\* The key of a holder that is gone runs out ...
LockExpires ==
    /\ lock = Stale
    /\ lock' = Nobody
    /\ UNCHANGED <<deployment, taskVars, drainVars, pc, tickVars, guard, faults>>

\* ... and so may that of a live holder whose renewals fail.
LockLapses ==
    /\ lock \in Replica
    /\ Fault
    /\ lock' = Nobody
    /\ UNCHANGED <<deployment, taskVars, drainVars, pc, tickVars, guard>>

------------------------------------------------------------------------------
(* store.advisoryLock *)

\* Defect for the checks: the answer of pg_try_advisory_xact_lock is not looked at.
TakeGuardAnyway(r) ==
    /\ pc[r] = "guarding"
    /\ \/ store = "sqlite" /\ UNCHANGED guard
       \/ store = "postgres" /\ guard' = r
    /\ Goto(r, "reading")
    /\ UNCHANGED <<deployment, taskVars, drainVars, tickVars, lock, faults>>

\* BEGIN, then pg_try_advisory_xact_lock.  SQLite has no such guard.
TakeGuard(r) ==
    /\ pc[r] = "guarding"
    /\ \/ store = "sqlite" /\ UNCHANGED guard
       \/ store = "postgres" /\ guard = Nobody /\ guard' = r
    /\ Goto(r, "reading")
    /\ UNCHANGED <<deployment, taskVars, drainVars, tickVars, lock, faults>>

GuardRefused(r) ==
    /\ pc[r] = "guarding" /\ store = "postgres" /\ guard # Nobody
    /\ Goto(r, "unlocking") /\ Dropped(r)
    /\ UNCHANGED <<deployment, taskVars, pending, tickVars, lockVars, faults>>

\* The tasks of the open transaction that the gateway has a run for.
HandedOff(r) == draft[r] \ (IF pc[r] = "sending" THEN {cur[r]} ELSE {})

\* What the open transaction wrote is gone.  The runs are not.
Rollback(r) ==
    /\ undone' = [t \in Task |-> undone[t] + (IF t \in HandedOff(r) THEN 1 ELSE 0)]
    /\ draft' = [draft EXCEPT ![r] = {}]

LetGo(r) == guard' = IF guard = r THEN Nobody ELSE guard

------------------------------------------------------------------------------
(* admission.tick *)

\* The rows a transaction sees: what is committed and what it wrote itself.
Visible(r) == inFlight \cup draft[r]

Read(r) ==
    /\ pc[r] = "reading" /\ ~severed[r]
    /\ Goto(r, "ticking")
    /\ queue' = [queue EXCEPT ![r] = filed \ Visible(r)]
    /\ batch' = [batch EXCEPT ![r] = filed]
    /\ UNCHANGED <<deployment, taskVars, drainVars, cur, draft, severed, lockVars,
                   faults>>

Parks(r, t) ==
    /\ pc[r] = "ticking" /\ t \in queue[r] /\ ~severed[r]
    /\ queue' = [queue EXCEPT ![r] = queue[r] \ {t}]
    /\ UNCHANGED <<deployment, taskVars, drainVars, pc, batch, cur, draft, severed,
                   lockVars, faults>>

\* Defect for the checks: the row is written for the task of the previous turn.
WritesPrevious(r, t) ==
    IF store = "postgres"
    THEN draft' = [draft EXCEPT ![r] = draft[r] \cup {cur[r]}] /\ UNCHANGED inFlight
    ELSE inFlight' = inFlight \cup {cur[r]} /\ UNCHANGED draft

Writes(r, t) ==
    IF store = "postgres"
    THEN draft' = [draft EXCEPT ![r] = draft[r] \cup {t}] /\ UNCHANGED inFlight
    ELSE inFlight' = inFlight \cup {t} /\ UNCHANGED draft

\* The execution is created, PENDING, before the gateway is asked.
Opens(r, t) ==
    /\ pc[r] = "ticking" /\ t \in queue[r] /\ ~severed[r]
    /\ t \notin Visible(r)
    /\ Goto(r, "sending")
    /\ cur' = [cur EXCEPT ![r] = t]
    /\ queue' = [queue EXCEPT ![r] = queue[r] \ {t}]
    /\ Writes(r, t)
    /\ UNCHANGED <<deployment, filed, weighed, handoffs, undone, drainVars, batch,
                   severed, lockVars, faults>>

\* The gateway takes the run, whether or not the transaction is still there.
Accepted(r) ==
    /\ pc[r] = "sending"
    /\ Goto(r, "ticking")
    /\ handoffs' = [handoffs EXCEPT ![cur[r]] = handoffs[cur[r]] + 1]
    /\ undone' = [undone EXCEPT ![cur[r]] = undone[cur[r]] + (IF severed[r] THEN 1 ELSE 0)]
    /\ cur' = [cur EXCEPT ![r] = Nobody]
    /\ UNCHANGED <<deployment, filed, weighed, inFlight, drainVars, queue, batch,
                   draft, severed, lockVars, faults>>

\* The gateway refuses it: the execution is FAILED and the task waits again.
Refused(r) ==
    /\ pc[r] = "sending" /\ ~severed[r]
    /\ Goto(r, "ticking")
    /\ inFlight' = IF store = "postgres" THEN inFlight ELSE inFlight \ {cur[r]}
    /\ draft' = [draft EXCEPT ![r] = draft[r] \ {cur[r]}]
    /\ cur' = [cur EXCEPT ![r] = Nobody]
    /\ UNCHANGED <<deployment, filed, weighed, handoffs, undone, drainVars, queue,
                   batch, severed, lockVars, faults>>

\* The history is written and the transaction, if there is one, commits.
Completes(r) ==
    /\ pc[r] = "ticking" /\ queue[r] = {} /\ ~severed[r]
    /\ Goto(r, "unlocking")
    /\ inFlight' = inFlight \cup draft[r]
    /\ weighed' = weighed \cup batch[r]
    /\ draft' = [draft EXCEPT ![r] = {}]
    /\ batch' = [batch EXCEPT ![r] = {}]
    /\ LetGo(r)
    /\ UNCHANGED <<deployment, filed, handoffs, undone, drainVars, queue, cur,
                   severed, lock, faults>>

------------------------------------------------------------------------------
(* Failures *)

ForgetTick(r) ==
    /\ queue' = [queue EXCEPT ![r] = {}] /\ batch' = [batch EXCEPT ![r] = {}]
    /\ cur' = [cur EXCEPT ![r] = Nobody]
    /\ severed' = [severed EXCEPT ![r] = FALSE]

\* A statement fails, in the pass or in recording its history: drain() throws.
\* After the connection is gone the next statement is sure to.
PassThrows(r) ==
    /\ pc[r] \in {"guarding", "reading", "ticking"} \/ (pc[r] = "sending" /\ severed[r])
    /\ IF severed[r] THEN UNCHANGED faults ELSE Fault
    /\ Goto(r, "failing")
    /\ Rollback(r)
    /\ ForgetTick(r)
    /\ LetGo(r)
    /\ UNCHANGED <<deployment, filed, weighed, handoffs, inFlight, drainVars, lock>>

\* The connection breaks under a pass, which will know at its next statement;
\* the server ends the session when it notices.
ConnectionLost(r) ==
    /\ store = "postgres" /\ InPass(r) /\ ~severed[r]
    /\ Fault
    /\ severed' = [severed EXCEPT ![r] = TRUE]
    /\ Rollback(r)
    /\ guard' = Stale
    /\ UNCHANGED <<deployment, filed, weighed, handoffs, inFlight, drainVars, pc,
                   queue, batch, cur, lock>>

SessionEnds ==
    /\ guard = Stale
    /\ guard' = Nobody
    /\ UNCHANGED <<deployment, taskVars, drainVars, pc, tickVars, lock, faults>>

Crash(r) ==
    /\ Up(r)
    /\ Fault
    /\ Goto(r, "down")
    /\ pending' = [pending EXCEPT ![r] = FALSE]
    /\ owed' = [owed EXCEPT ![r] = {}]
    /\ Rollback(r)
    /\ lock' = IF lock = r THEN Stale ELSE lock
    /\ guard' = IF guard = r THEN Stale ELSE guard
    /\ ForgetTick(r)
    /\ UNCHANGED <<deployment, filed, weighed, handoffs, inFlight>>

Restart(r) ==
    /\ pc[r] = "down"
    /\ Goto(r, "idle")
    /\ UNCHANGED <<deployment, taskVars, drainVars, tickVars, lockVars, faults>>

------------------------------------------------------------------------------
Drain(r) ==
    \/ TakeLock(r) \/ LockRefused(r) \/ Release(r)
    \/ TakeGuard(r) \/ GuardRefused(r)
    \/ Read(r) \/ \E t \in Task : Parks(r, t) \/ Opens(r, t)
    \/ Accepted(r) \/ Refused(r) \/ Completes(r)

Failure(r) ==
    \/ LockAnswerLost(r) \/ LockFails(r) \/ ReleaseLost(r)
    \/ PassThrows(r) \/ ConnectionLost(r) \/ Crash(r)

Next ==
    \/ \E t \in Task : File(t)
    \/ \E r \in Replica : Notify(r) \/ Drain(r) \/ Failure(r) \/ Restart(r)
    \/ LockExpires \/ LockLapses \/ SessionEnds

Spec == Init /\ [][Next]_vars

\* The watchdog's timer fires; a pass goes on to its end, or fails once its
\* connection has; keys expire, sessions end and processes are started again.
Fairness ==
    /\ \A r \in Replica :
        /\ WF_vars(Notify(r))
        /\ WF_vars(Drain(r))
        /\ WF_vars(severed[r] /\ PassThrows(r))
        /\ WF_vars(Restart(r))
    /\ WF_vars(LockExpires)
    /\ WF_vars(SessionEnds)

FairSpec == Spec /\ Fairness

------------------------------------------------------------------------------
(* Properties *)

\* One logical dispatcher: whatever locks lapse and whoever dies, a task is handed
\* off a second time only if the record of the first was rolled back.
HandedOffOnce == \A t \in Task : handoffs[t] <= 1 + undone[t]

\* A task has a row in flight: committed, or in an open transaction.
OnFile(t) == t \in inFlight \/ \E r \in Replica : t \in draft[r]

\* A row has a run under it when more were handed off than were undone.
RowOf(t) ==
    IF ~OnFile(t) THEN "none" ELSE IF handoffs[t] > undone[t] THEN "run" ELSE "open"

\* The passes of all replicas together are what HandoffLedger promises.
Ledger == INSTANCE HandoffLedger WITH
    record <- [t \in Task |-> RowOf(t)],
    accepted <- handoffs,
    undone <- undone

\* However the drain loops of the replicas interleave, and whatever locks lapse,
\* connections break and processes die: the gateway is asked under a row nobody
\* else has asked under, and no row of an accepted run goes away uncounted.
ImplementsLedger == Ledger!Spec

\* A notification that arrives while a pass is in flight is still honoured: a
\* drain that ends has carried every wake it did not lose to another replica or
\* to a failure through a complete pass that saw all that was then on file.
WakesAreHonoured == \A r \in Replica : pc[r] = "idle" => owed[r] \subseteq weighed

\* Whatever wakes are dropped, every task on file comes before a complete pass,
\* or is handed off, before long: the watchdog makes good.
EveryTaskIsWeighed ==
    \A t \in Task : t \in filed ~> t \in weighed \cup inFlight

\* A task whose run is live is not dispatched again, whatever fails or restarts.
NeverTwice == \A t \in Task : handoffs[t] <= 1

==============================================================================
