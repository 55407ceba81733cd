# A TLA+ verification of the SemanggiOS Controller

The controller (`src/src`) accepts tasks, admits them against a dozen gates,
hands them to agents behind a gateway, follows what becomes of the runs, and
gives the workspaces back. Its promises are kept by actors that share the same
rows and never wait for one another: the scheduler pass, the sink of session
events, the reconciler, the operators' API, background keepers and probes, and
the gateway. This directory models that core and the parts around it, checks
them on small instances with TLC, and proves their most important safety
invariants with TLAPS for instances of any size.

## 1. The system

### Components, what each keeps, and how they meet

| Component | Source | State | Operations | Meets the others through |
|---|---|---|---|---|
| Status machines | `domain/state-machine.mjs` | none | `canTransition`, `assertTransition` | every writer of `tasks.status` |
| Scheduler pass and watchdog | `scheduler/scheduler.mjs` | wake reasons, `running` flag; the stalled executions it holds across awaits | `drain`, heartbeat, `releaseExpiredQuota`, `reclaimStalledDispatches`, orphan sweep | leases, executions, resources; `describeSession`, `abortRun` |
| Admission and dispatch | `scheduler/admission.mjs` | the rows read at the start of the tick; the execution being handed off | `tick`, `evaluate` and its gates, `dispatch`, `handleDispatchError` | leases, executions, tasks, resources, approvals; `dispatch` at the gateway |
| Leases | `domain/repositories.mjs` | one row per execution and path | `acquire`, `release`, `get`, `heartbeat` | taken by dispatch, given back by everybody |
| Tasks and executions | `domain/repositories.mjs` | status, counters, edges; one row per attempt, immutable once final | `setStatus`, `create`, `createRevision`, `cancel`, `delete` | everybody |
| Session-event sink | `runtime/session-events.mjs` | grace timers (`pendingEnds`) | `applyEnd`, `applyDescribe`, `applyLateError` | frames of the gateway, the reconciler's answers |
| Failure verdict | `domain/retry.mjs` | none | `applyRuntimeFailure` | watchdog, sink, reconciler |
| Reconciler | `runtime/reconciler.mjs` | tasks it has listed and the status it listed them with | `reconcileOnce` | `describeSession`, `abortRun`; the sink's verdicts |
| API | `api/server.mjs` | requests between two statements | start, cancel, stop, resume, revise, settle, delete; approvals; registration and plans; configuration | everything |
| Gateway adapter | `runtime/gateway-ws.mjs` | `socket`, `hello`, `runMethod`, pending requests, `dispatchedRuns`, usage waiters | `connect`, `request`, `dispatch`, `dispatchChat`, `probeLevel`, `testAgent` | the socket every caller shares |
| Agents | `domain/sandbox-provision.mjs`, `runtime/agent-registry.mjs` | the registry's cached list | `reconcileModel`, `maybeProvisionForBrain`, `resolve` | agents of the gateway; dispatch |
| Quota | `domain/quota-*.mjs` | `resources` rows, the provider's windows | `applyQuotaSignal`, recovery probe, clear, PATCH | admission gates, scheduler |
| Chat | `domain/chat-*.mjs` | sessions, messages, sandboxes | `sendMessage`, `deliver`, `completeOnce`, `resolveChatSandbox` | chat runs; late refusals of the sink |
| Configuration | `domain/brains.mjs`, `brain-map.mjs`, `model-map.mjs`, `thinking-*.mjs`, `app.mjs` | Brains, grid, model rows, measured levels | CRUD, `resolve`, policy rollout, effort sweep | routing of tasks |
| Approvals | `repositories.mjs`, `api/server.mjs` | one row per request | raise, decide | admission's L3 gate, parked tasks |
| Intake | `interface/tasks-md.mjs`, `domain/decompose.mjs`, `doc-task.mjs`, `prepare.mjs` | `docs/tasks.md` | register, plan, decompose | tasks with their edges |
| Slack | `interface/slack-app.mjs`, `intent.mjs`, `domain/operators.mjs` | pending confirmations | `handleCommand`, `runAction` | stop, cancel and revise tasks |
| Store, shared state | `db/index.mjs`, `runtime/shared-state.mjs` | transactions, advisory locks; Redis keys | `tx`, `advisoryLock`, `withLock` | everybody |
| Others | see `PROJECT.json` | | | |

### What is hard

* **Everything awaits with rows in hand.** The tick works through a list read
  minutes ago, the watchdog through its stalled executions, the reconciler
  through tasks of one status, a stop through four steps, a chat delivery with
  the session its request read, a registration with the document as it was, a
  resolution with the members of a cell. Meanwhile the others write.
* **Two vocabularies.** A task and its attempts have separate status machines;
  each handler writes one, then the other, and may find the second move illegal.
* **One socket.** Every caller shares a connection that any of them may open,
  and that any close resets.
* **Stale lists.** The gateway shows an agent some time after it was made or
  killed, keeps names locked, and the registry caches its list.
* **Silence.** Any frame may be lost, late, corrected or repeated; a handoff
  whose answer times out may still start; an abort may be inconclusive.
* **Crashes** between the rows of a handoff, inside a rollout, with grace
  timers, confirmations and sweeps in memory.
* **Several processes.** With PostgreSQL a pass is one transaction under two
  locks: the Redis key may lapse, the connection break, the whole be rolled back
  after its runs were sent.
* **Counters and clocks**: budgets bumped on two paths, capacity counted once
  per pass, windows released by a clock that may be missing.

`PROJECT.json` lists these as hazards, each at its line, with the properties
that cover it.

## 2. Modules

| Module | What it is |
|---|---|
| `TaskLifecycle` | Constant level: task and execution statuses, `TRANSITIONS`, the guards of `assertTransition`. |
| `WorkController` | The core: tasks, executions, leases, the pass, the sink, the reconciler, the operator, the gateway, crashes. |
| `SchedulerPasses` | Wakes, drain loops, the two locks and the transaction of a pass, on any number of replicas. |
| `WorkspaceLock` | The abstract specification of what leases promise; `WorkController` implements it. |
| `HandoffLedger` | The abstract specification of what the passes of all replicas promise about handoffs; `SchedulerPasses` implements it. |
| `ModelQuota` | Rows of `resources`: quota, concurrency and runtime gates, refusals, release, probe, operator edits. |
| `Approvals` | The L3 gate and the approvals a run asks for, with decisions in two statements. |
| `WorkPlan` | Registration, plans, phases and edges; admission's dependency gate. |
| `EndGrace` | The end frames of one run, the grace window, `describe`. |
| `ChatPool`, `ChatTurn` | The chat agents of a project; sessions and the delivery of their turns (extends `ChatPool`). |
| `GatewayLink` | The connection: handshake, pending requests, late refusals, subscription. |
| `Fleet` | Agents of one model: the keeper, provisioning on demand, the registry, a dispatch's choice of agent and model. |
| `BrainCatalog` | Brains, one cell of the grid, a model's row, the policy rollout at boot. |
| `CommandDesk` | Commands with confirmations; what stop, cancel and run do. |
| `EffortProbe` | Sweeps over thinking levels, the connection test, usage events. |
| `MCWorkController`, `MCParts`, `MCDesk` | Values for TLC; `MCParts` and `MCDesk` put parts that do not meet side by side. |
| `*Proofs` | Theorems and proofs: `WorkController`, `SchedulerPasses`, `ModelQuota`, `Approvals`, `CommandDesk`, `EndGrace`; `PartsProofs` for `GatewayLink`, `Fleet`, `ChatTurn` and, with `ModelQuotaProofs`, for `MCParts`; `DeskProofs` for `EffortProbe`, `BrainCatalog`, `WorkPlan` and, with the proofs of the other three parts, for `MCDesk`. |

A definition whose comment begins "Defect for the checks" is a plausible bug: a
mutant puts it in the place of the definition after it.

### State and actions against the code

`status`, `policy`, `quotaRetries`, `resourceRetries` are columns of `tasks`;
`revision`, `execStatus`, `sessionKey`, `inherited` (a `session_ref` taken over
from a previous run) are those of `executions`, whose identifiers `task#n` are
pairs `<<t, n>>`; `lease` holds each execution's row in `leases`, ordered by a
counter that stands for `acquired_at`; `run` is what the gateway really does.
The rest are locals that live across an await: `pc`, `cur`, `stalled` and
`snapshot` of the pass, `listed`, `listStatus` and `probed` of the reconciler,
`stopping` of stops under way.

* **The pass**: `BeginPass` (`heartbeatLiveLeases`, the list of stalled
  executions), `WatchdogSkips/Aborts/Reclaims/Defers`
  (`reclaimStalledDispatches`), `BeginTick` (`sweepOrphanLeases`, the rows the
  tick reads), `TickParks`, `TickThrows`, `TickFindsInFlight`, `TickLosesLease`,
  `TickHandsOff` (`admit`, `dispatch` up to the gateway call), `HandoffRefused`,
  `HandoffFindsNoAgent`, `ProvisioningEnds`, `HandoffTimesOut`, `RecordHandoff`
  (answers to that call), `MarkDispatched` (the second record), `EndTick`.
* **The sink**: `RunEndsCleanly/Aborted/Abnormally` (`applyEnd`),
  `LateErrorQuota/Transient/Fatal` (`applyLateError`).
* **The reconciler**: `ReconcilerLists`, `ReconcilerPasses`, `ReconcileSettles`,
  `ReconcileRecovers`, `ReconcileAborts`.
* **The operator**: `Start`, `Cancel`, `Stop` with `StopAborts` and `StopFails`,
  `Revise` (also what resume does), `Settle`.
* **A crash**: between two steps (`Crash`), or between two statements of one:
  `CrashAmidDispatch`, `CrashAmidRecord`, `CrashInCatch`, `CrashAmidVerdict`,
  `CrashAmidRefusal`, `CrashAmidStop`, `CrashAmidSettle`.

An action is a handler up to its next call to the gateway: with the synchronous
SQLite store nothing else can run in between, so while `pc = "tick"` only the
pass moves (`FramesHandled`, `RequestsHandled`). A `throw` inside the pass is
`PassDies`: the rest of the snapshot is dropped. `PROJECT.json` maps each
definition to its lines.

### `SchedulerPasses`

`pending` is whether a replica's `pendingReasons` holds anything, `pc` where its
drain loop is, `lock` and `guard` who holds the Redis key and the advisory lock
(`Stale`: a token, or a session, whose owner is gone). `inFlight` are the tasks
with a committed execution in flight, `draft` the rows of an open transaction,
`handoffs` counts what the gateway accepted. `store` and `shared` are chosen in
the initial state, so one run covers all four combinations of drivers. Three
variables only observe: `owed` (what was on file at the wakes a drain has still
to honour), `weighed` (what complete passes have considered), `undone` (handoffs
whose record was rolled back).

`Notify` is `notify()` by a handler or the timer; `TakeLock`, `LockRefused`,
`Release` are `withLock`; `TakeGuard`, `GuardRefused` are `advisoryLock`; `Read`,
`Parks`, `Opens`, `Accepted`, `Refused`, `Completes` are the tick and the commit.
Faults: `LockAnswerLost` (`SET NX` repeated after a reconnect), `LockFails`,
`ReleaseLost`, `LockLapses`, `PassThrows`, `ConnectionLost`, `Crash`.

What the tick decides, the watchdog and the sweep are left to `WorkController`:
here a task may be parked, refused or handed off. The gateway's treatment of a
handoff that is repeated after a rollback is not modelled: it gets the same
`idempotencyKey`, since the row `task#n` is created anew. Nor is the unique key
on `(task_id, revision_no)`; the properties hold without its help.

`HandoffLedger` is what all this amounts to for one task. A task has no row, an open
one, or one with a run accepted under it (`RowOf`: on file in `inFlight` or in a draft,
and more handoffs than rollbacks); the gateway accepts one run to a row; rows go with a
refusal or a rollback, and those that had a run are counted in `undone`. `AcceptUndone`
is the run the gateway accepts for a pass that has lost its transaction meanwhile.

### The modules around the core

Each is read against the code the same way: variables are columns, module-level
variables of the JavaScript, or locals that live across an await; an action is
what runs from one await to the next.

* **`ModelQuota`.** `stage` is the status of a task and `attempt` that of its
  execution: the runtime's limit counts the first (`RunningNow`), a model's the
  second (`Active`), and a cancel or a crash tells them apart. `avail`, `anchor`,
  `source` are a row of `resources` and the event that wrote it last; `seen` holds the candidate rows read so far for the
  task being evaluated, `room` what is left of `MaxRunning`, `lapsed` the rows
  `releaseExpiredQuota` listed. `BeginPassQ`, `ReleaseRow` are the release;
  `ChooseReady`, `ReadRow`, `StaysParked`, `HandsOff`, `CannotRequeue` the gates;
  `HandoffAccepted` both records of an accept, or the catch when the task was
  cancelled meanwhile, and `CrashQ` a death between the two; `HandoffRefused429`, `LateRefused429` the two paths of a refusal; `ProbeLists`,
  `ProbeDispatches`, `ProbeReturns`, `ClearQuota`, `PatchReads`, `PatchWrites` the
  other writers. Time is counted in short windows. The provider's own wall is
  `wall`, which the table can be wrong about in both directions.
* **`Approvals`.** One task. `decider` is an operator between the two statements
  of a decision, `tick` where admission is with the task, `unparked` an approval
  whose task has still to be moved. A run that starts moves its execution only:
  RUNNING is what an approval sets.
* **`WorkPlan`.** `rows` are tasks in order of creation with their edges now and
  at creation (`deps`, `follows`), `planner` a request half-way through a
  registration, a plan or a decomposition with the document it read.
* **`EndGrace`.** `held` and `timers` are `pendingEnds`; `applying` are verdicts
  that found the execution open and have yet to write it; `superseded` observes.
* **`ChatPool`, `ChatTurn`.** `at`, `asked`, `askedRef`, `conv` are the locals of
  `deliver`, `looked`, `old`, `found` those of the poller. A conversation of the
  gateway is the turn that opened it and its agent; its transcript is a sequence
  of prompts, answers and failures. The reference a turn stores names the agent, as
  the answer of a gateway does that sends `sessionKey`; with an older one that omits
  it the bare chat key is stored (`gateway-ws.mjs:1055`), which a switch of Brain
  does not make stale (`chat-dispatch.mjs:89-102`), and nothing is claimed there.
* **`GatewayLink`.** `link` is each WebSocket, `socket`, `hello`, `method` the
  adapter's variables. `dispatch` connects before it reads the method,
  `dispatchChat` after (`Run`, `ChatRun`); `dispatch` connects a second time to
  send, and opens one more socket if the current one is closing by then
  (`ConnectsTwice`). A greeting that offers no dispatch method is refused by
  `connect()` and kept all the same (`HelloBare`; `bare` observes it).
  `dispatchedRuns` is `tracked`; a new dispatch lets the entries go that are older
  than the request timeout (`aged`, `GrowsOld`) and then the oldest, if there is no
  room (`dropped`). `Subscriber` is the subscription's call, repeated by its timer.
  The list of agents that `dispatch` may ask for on the same socket is taken as
  cached, and the `acp.spawn` path, which sends another frame, is left out.
* **`Fleet`.** `shown` is what `agents.list` answers, `cache` the registry's copy,
  `pass` the two passes of `reconcileModel` that may overlap (timer and request). A
  task counts as busy from when its handoff has returned (`Busy`); the accept and
  its record are one step here. Routes are about models: the effort level that goes
  with one is `EffortProbe`'s.
* **`BrainCatalog`.** `boot` is where `createController` is, `desk` a request
  between two statements; `always` and `ever` observe which Brains could serve
  throughout it, and at some time during it.
* **`CommandDesk`.** `asked` numbers the questions put, `pendingConfirm` is the
  map of the same name, `line` a command between two awaits.
* **`EffortProbe`.** `probe` is the status in shared state, `sweep` each request,
  `usageWaiters` the adapter's map of waiters.

### Abstractions

* **Store.** In `WorkController` a single process with durable statements; the
  pass inside one transaction is `SchedulerPasses`. In the other modules two
  requests interleave between statements, which is what PostgreSQL deployments
  do; with SQLite a chain of statements runs to its end, so those behaviours are
  among the ones checked.
* **Time.** A lease may expire, a run go quiet and a backoff elapse at any
  moment; "quiet" covers what `touch` does to `updated_at`. The window of
  `recentFailures` spans the whole history, the end-grace window is there the delay
  of a frame (`EndGrace` has it in full).
* **Gates.** In `WorkController` the gates other than the workspace return any
  verdict of `GateOutcome`; three of them are the subject of `WorkPlan`,
  `Approvals` and `ModelQuota`, where in turn the rest pass.
* **Gateway.** A run is one variable per execution. `describe` and `abort`
  answer truthfully or not at all; a describe that times out reads as no answer.
  Frames are derived from `run[e]`, so each can come late, again or never.
* **Sessions.** Each execution has its own session, except that a stop may find
  an inherited `session_ref`, which names somebody else's.
* **Losing the lease race.** `TickLosesLease` is the grant denied after a clean
  peek: the attempt is written off as CANCELLED and the task parks in
  WAIT_WORKSPACE. One pass runs at a time, so no other task can come between; but
  the peek skips leases of the task itself (`admission.mjs:142`), and `acquire` does
  not. `LostOnlyToItself` checks, and `GrantsAreLostToOneself` proves, that a finished
  attempt of the task is the only thing that denies it; undisturbed, nothing does
  (`PeekIsEnough`).
* **Statuses not reached there.** RUNNING and WAIT_HUMAN by an approval belong to
  `Approvals`; the verdicts of `WorkController` already accept them.
* **Crash.** The store is durable statement by statement, so a crash leaves whatever
  prefix of a handler's writes was done. `Crash` falls between two steps; the other
  crash actions cut a handler between its statements, in the order it writes them:
  the task queued again, its row created, and written off (`CrashAmidDispatch`);
  `session_key` set and DISPATCHED not (`CrashAmidRecord`; between DISPATCHED on the
  execution and on the task is `Crash` at `pc = "marking"`); the catch (`CrashInCatch`); a verdict of
  the sink, the reconciler or the watchdog (`CrashAmidVerdict`, `CrashAmidRefusal`);
  a stop and a repair. An abort that was asked for may still be carried out.
* **The dying catch.** The catch of `dispatch` releases the lease (`admission.mjs:440`)
  before it writes FAILED (`:441`). Once the execution is DISPATCHED, what leads there is a
  task that cannot follow: an operator has cancelled it while the handoff was awaited,
  or the stop of an earlier attempt, whose abort was awaited, has parked it meanwhile.
  A crash between the two statements leaves the execution DISPATCHED, without a lease,
  over a run that goes on. `orphans` (a history variable) holds the executions this
  has happened to; `LiveHoldsLease` and the refinement of `WorkspaceLock` except
  them, and say that nothing else leaves an attempt on record as running without its
  lease.

## 3. What TLC checks

| Run | Instance | Shows |
|---|---|---|
| `Lifecycle` | one task, two attempts, every disturbance; crashes between any two statements | `TypeOK`, `OneInFlight`, `BudgetsRespected`, `LiveHoldsLease` (but for the orphans of a dying catch), `CancelIsFinal` |
| `Readers` | two readers and a writer, one attempt each; timeout, expiry | `LeaseTableExclusive`, where shared leases, reclaims and release by first holder meet; leases implement `WorkspaceLock` |
| `OwnPaths` | two writers, each on a path of its own, two attempts each; crashes | `LostOnlyToItself`: whom a grant is lost to |
| `Undisturbed` | two writers, two attempts each; nobody interferes, nothing is lost | `NoZombieRun`, `GatewayExclusive`: the tables tell what runs |
| `Revised` | one task, three attempts; revisions and repairs | `BlockedIsNotRunning`, `CompleteIsSettled` |
| `LeasesReturn` | one task, two attempts; stop, timeout, expiry | `EveryLeaseReturns`, `NoAttemptIsForgotten` under `FairSpec` |
| `SchedulerPasses` | two replicas, one task, two faults, four deployments | `TypeOK`, `WakesAreHonoured`; the passes implement `HandoffLedger`; `EveryTaskIsWeighed` under `FairSpec` |
| `Parts` | `ChatTurn`, `GatewayLink`, `Fleet`, `ModelQuota`, one at a time | types; `AnswerIsOwnOrNext`, `OneBrainPerConversation`; `LateRefusalNamesItsRun`, `RunNamesItsMethod`; `RunsAsRouted`; `WithinLimits` |
| `Settling` | the same parts, smaller, each under its fairness | `TurnsSettle`, `CallsReturn`, `EventsFlow`, `AgentsSettle`, `TasksLeave` |
| `Desk` | `BrainCatalog`, `Approvals`, `WorkPlan`, `CommandDesk`, `EffortProbe`, `EndGrace`, one at a time | types; `ResolvesWhatStands`, `NoBrainLosesItsModel`, `PolicyIsWhole`; `NothingUnapprovedRuns`; `PhasesInOrder`, `MarksAreHonest`; `AnsweredOnceInTime`; `VouchesForWhatRan`; `CorrectedEndCounts` |

In the first six the `Environment` of a run says which disturbances are on; except
in `OwnPaths`, all their tasks work on one path, where leases are contended. `MCParts` and `MCDesk`
hold parts that share no variable: the initial state picks one (`world`, `room`),
which moves while the others rest, so a run explores the sum of the parts and not
their product.

### Bounds

*The core.* Handlers look at one execution, at the latest of its task and at the
holders of its path. Two attempts give an old and a current one (three, where a
revision of a revision matters; one each, in `Readers`); two tasks give a holder and a contender, three a
reader that `leases.get` does not return. The retry budgets are 1 in `Lifecycle`, which counts them, so that each
is met within and at its limit; a run at its attempt bound goes on with everything
but new handoffs, so none of these runs needs deadlock checking switched off.
`acquired` counts grants and is bounded by the attempts. `OwnPaths` has two paths, so
that another task's handoff can be awaited while a run of the first task ends; its gates are
open. In `Readers` and `OwnPaths`, where it does not matter to a lease how a run ends, runs end in one way;
attempts fail there by refusals, crashes and timeouts as well.

*Passes.* Two replicas give a holder and a contender, and two faults are what it
takes to get past one lock and then break the other; tasks do not meet in the
locks, and one can be filed before, during and after any step of a pass.

*Parts.* Two Brains and two turns share a limit, so that a turn can meet the
conversation, the agent and the poller's round of another; one change of Brain or
state, one fault, and one run that dies without a word. Two sockets let one be closed under the other, two runs meet a tracker that
holds one, and two troubles are broken sockets, failed handshakes or greetings without
a method; the call of a chat is in `Settling`, where one run suffices. Fleet: floors of 0 and 2 under a cap of 2, two tasks, one fault and one
edit, so that passes, a dispatch and the operator meet on slots that are taken.
Quota: two models with a limit of one, a budget for quota refusals only (`Settling` counts
both), two tasks that share the first, one of
them with the second to fall back on, and room for one at the runtime, so that either limit can
bind first; one exhaustion, one probe or edit, one crash and a clock of two instants. `Settling` has no crash there,
since an attempt it leaves PENDING parks its task for good (see below), and a clock of four
instants, in which a window opens, is anchored and lapses. In `Settling` one turn, run, task
each suffices, since what could keep one waiting is a row, a list or a socket and
not its twin; `MaxRestarts`, `MaxNames` and `MaxFaults` are larger there, as faults
are what it has to recover from.

*Desk.* Two of everything that can be served at once. Two Brains, three
configuration requests and one restart; two approvals and one attempt; two pieces
in a chain, three tasks, two overlapping requests with one operator's act, one edit
of the document and one failure; two targets, one person, two questions (one may
replace the other), three lines, a deadline one tick away and a clock that goes
past it; two levels, two sweeps, one edit, restart or failed save; three end frames
(abnormal, its correction and another) and one restart. Handlers and approvals are
interchangeable, and `Desk` checks no liveness, so symmetry is sound.

`Parts`, `Settling` and `Desk` switch deadlock checking off: there the bounds end
requests, and a part whose work is done rests.

What the bounds cut off, the theorems of section 4 cover for the properties they
state.

Every property of a passing run is also checked against a defective variant of
the code (`mutants` in `PROJECT.json`): a dropped guard, a swapped comparison, a
release that is forced, a waiter found by the wrong key, a mark taken from the
document as it is now, a timer left armed.

### Fairness

`FairSpec` assumes what the code schedules: the pass is on a timer and its calls
are answered or fail (`WF(Pass)`); the gateway answers each handoff and ends
each run (`WF`); a quiet execution is listed by the watchdog time and again, and
the reconciler, also on a timer, visits each listed task time and again
(`SF`: every visit may find the process busy elsewhere); the gateway does not
leave every describe or abort unanswered forever. Frames are *not* fair: the
leases come back with every frame lost. Gates are not fair either.

In `SchedulerPasses`, `FairSpec` assumes the watchdog's timer, that a pass goes on
to its end or fails, that a key whose holder is gone expires (it is set with
`PX`), and, of the surroundings, that the database ends a dead session and that a
process that died is started again. Faults need not happen and are bounded.

`MCParts` states its liveness as "in this world, under this part's fairness". Chat:
every call of a delivery returns or times out and the poller's timer fires; of the
gateway nothing. Link: timers fire, the gateway answers what reaches it, a socket
told to close closes, and `retryForever` asks for the subscription again. Fleet: the
keeper's passes go on, the gateway's list and its clean-up catch up, runs end.
Quota: the clock, the pass, a PATCH between its two statements, and runs end. Faults
and edits are bounded and never fair.

### Where code and documentation part

Two runs check a sentence of the documentation that some schedule refutes; the
finding in `PROJECT.json` quotes it.

| Run | The sentence | The schedule |
|---|---|---|
| `CancelledDispatched` | a cancel is a dead end | cancelled while an earlier handoff of the same tick is awaited |
| `PassUndone` | a live execution is never dispatched twice | a PostgreSQL pass fails after a handoff and is rolled back; the run goes on, the next pass hands the task off again |

These shaped the models too; where an operator is named it is in the module, and
listing it in the run's `.cfg`, with the bound given, shows the schedule.

*Core.* The reconciler aborts stragglers by the status it listed (`reconciler.mjs:143`,
against its line 25): listed as BLOCKED, revised, dispatched anew, and the fresh run
is aborted. The end frame of the controller's own abort is read as an operator's
cancellation (`session-events.mjs:67`), although such rows should stay resumable
(`reconciler.mjs:30`). A stop before the session is recorded leaves the run going
under a BLOCKED task (`api/server.mjs:1299`, against `reconciler.mjs:26`). A cancel
moves the task only: its run goes on, and if the end frame is lost nobody settles the
attempt, since the reconciler does not list CANCELLED tasks (`LeasesReturn` therefore
has no "cancel"). An attempt left PENDING by a crash is neither stalled for the
watchdog nor known to the reconciler, and parks its task on every tick (no "crash"
there either); its run may go on while the orphan sweep gives its workspace away (no
"crash" in `Undisturbed`). A crash in the catch of `dispatch`, between the
release and FAILED, leaves an attempt DISPATCHED whose workspace is free and may be given
to another task while the run goes on (`admission.mjs:440-441`; in `Lifecycle` it is in
`orphans`). A crash after an attempt is FAILED and before its task moves leaves the task
DISPATCHED over a finished attempt, which only a repair or a stop moves. A crash between the two records of a handoff leaves the
task admissible with its attempt live; when that completes the task does not follow,
and is dispatched again. If that run ends abnormally instead, while another task's
handoff is awaited, the attempt is FAILED and its lease stays until the next orphan
sweep: the tick's peek passes over it (`admission.mjs:142`), `acquire` denies the grant
(`repositories.mjs:1384-1422`), and the new attempt is written off as CANCELLED and
counts against the attempts of its task (`TickLosesLease`, reached in `OwnPaths`). A pass
that throws leaves the wakes recorded meanwhile pending with no drain under way, until the
next notification.

*Quota.* A cancel frees the task's slot at the runtime and not the attempt's run
(`repositories.mjs:769`, `admission.mjs:304`), and a crash between the two records of a
handoff (`admission.mjs:400-401`) leaves a task that is not counted over an attempt that
runs: either way the next tick has room for one attempt more than `MaxRunning`, which is
why the second half of `WithinLimits` is about tasks and excepts those attempts; the limit of a
model, counted from executions, holds for all of them. A recovery found by the probe wakes the scheduler, but a task parked on its
alarm is not evaluated before that alarm (`main.mjs:342`, `admission.mjs:625`):
`RecoveryReachesTasks`, with the constants of `Settling`. A failed probe may extend an anchor that was
written since it read its row; the release writes over a refusal that came after its
list; PATCH restores the availability it read first (`api/server.mjs:3557-3568`).

*Chat.* A cap of one may be exceeded when an agent is listed late, against
`chat-sandbox.mjs:124-128`: `CapHolds`, `Parts` with `Limit = 1`. After a run that died
without a word, the turn is closed with the next answer in its conversation
(`chat-completion.mjs:63-68`): `AnswerIsOwn`, `Parts`. It is an answer in the same
conversation all the same, which `AnswerIsOwnOrNext` checks. A DONE row
is turned back by a write decided before the answer came: a poller that saw no answer
writes FAILED over what the delivery has closed meanwhile, since `updateDelivery` does
not ask for the status the row has (`repositories.mjs:1892`): `AnswerStands`, `Parts`.

*Connection.* `connect()` sets `hello` before it looks for a dispatch method
(`gateway-ws.mjs:367-383`): it rejects a gateway that offers none, the socket stays, and
the next `dispatch` finds a connection and sends a frame whose method is null (`:233`,
`:969`). A request that timed out may be refused later, and if a newer dispatch came in
between, its id has been purged by age (`:198-206`) and the refusal names no run. `dispatchChat` reads the run method before it connects
(`gateway-ws.mjs:1041`), which `dispatch` avoids on purpose (its line 825), so the
first frame of a chat may name none; `RunNamesItsMethod` is about `dispatch`. Callers
at boot each open a socket; the close of one that lost resets the one that is used.
A refused handshake leaves its socket open.

*Agents.* A sandbox grown for a parked task sits in a workspace of its own. When the
project has no agent with the task's model left and the connection lacks the scope to
override a model, the registry, which keeps to the project's workspace, never offers
it and the task parks again (against `docs/decisions.md:2653` and
`sandbox-provision.mjs:4-5`): `GrownAgentServes`, with the constants of `Settling`. Two parked tasks may both find the count below the cap. A worker is busy by
its `agent_ref`, whichever agent its run was really given.

*Configuration.* DELETE of a Brain racing PUT of a cell leaves a member that does not
exist; `resolve` skips it. A disabled Brain that the model catalogue names falls back
to the catalogue's entry at dispatch (`admission.mjs:190-200`). PATCH with
`effortEvidence: null` leaves a preference Brain without evidence
(`brains.mjs:406-416`).

*Approvals.* Two operators decide one approval, and APPROVE replaces REJECT on file
while the move of the reject still blocks the task, whose run goes on. A revision
queues it again, the run completes without moving it, and the task is dispatched a
second time, although approving is to resume the run (`api/server.mjs:1659-1661`):
`ApprovalResumesTheRun`, `Desk` with `MaxAttempts = 2`. A task whose last decision turned it down stays blocked through
its revisions, until somebody approves (`admission.mjs:103-104`,
`docs/decisions.md:37`): `RevisionCarriesForward`, `Desk`. A run that ends before its
handoff is on record leaves the task QUEUED. An approval raised while the task is
DISPATCHED cannot park it, and the caller reads the error as a refusal. The L3 gate
looks at the latest decision, also when it was about a tool.

*Plans.* `ChecklistInOrder` (an item whose predecessor is registered later has no
edge), `ItemsOnce` (two registrations overlap), `ParentRests` (a parent is admitted
while it is being broken down), `DeletedStaysSo` (`Desk` with `MaxPlanOps = 2`: a
hidden task is revised), against `api/server.mjs:2420`, `:2370`, `:1081-1083` and
`repositories.mjs:57-63`. Later phases of a plan stay CREATED although line 2849
says they flow by themselves. The write-back of the document puts a snapshot over
whatever was edited since. A decomposition that fails half-way leaves children CREATED.

*Slack.* A task that is COMPLETE when the question is put and revised before "yes" is
cancelled without having been named (against `slack-app.mjs:191-194`). "stop A B"
describes both and stops A.

*Effort.* Two clicks may start two sweeps (`OneSweepAtATime`, against
`api/server.mjs:336-342`), and with Redis a restart leaves the status "running" for up
to a day (`RunningIsRun`): `Desk`. A failed list of models empties `gateway_models`.

## 4. What is proved

Eight modules hold proofs; each starts from the named assumptions of the module it is
about and from nothing else.

`WorkControllerProofs` holds for any finite or infinite sets of tasks and paths,
any assignment of workspaces and modes, any bounds and any `Environment`, from
the named assumptions of `WorkController` alone.

| Theorem | Statement |
|---|---|
| `TypeCorrect` | `Spec => []TypeOK` |
| `Inductive` | `Spec => []IInv` |
| `LeaseTableIsExclusive` | `Spec => []LeaseTableExclusive` |
| `LiveAttemptsHoldLeases` | `Spec => []LiveHoldsLease` |
| `AtMostOneInFlight` | `Spec => []OneInFlight` |
| `BudgetsAreRespected` | `Spec => []BudgetsRespected` |
| `FinalizedIsImmutable` | no step rewrites a finalized execution |
| `CancelIsNeverOverruled` | `Spec => CancelIsFinal` |
| `LeasesImplementLock` | `Spec => ImplementsLock`, the refinement of `WorkspaceLock` |
| `GrantsAreLostToOneself` | `Spec => []LostOnlyToItself` |
| `Undisturbed` | `Orderly => (Spec => []UInv)` |
| `NoRunIsForgotten` | `Orderly => (Spec => []NoZombieRun)` |
| `RunsExcludeEachOther` | `Orderly => (Spec => []GatewayExclusive)` |
| `BlockedTasksDoNotRun` | `Orderly => (Spec => []BlockedIsNotRunning)` |
| `CompleteTasksAreSettled` | `Orderly => (Spec => []CompleteIsSettled)` |
| `PeekIsEnough` | `Orderly => (Spec => []PeekSuffices)` |

**The invariant.** The table invariants are not inductive alone. `RecordHandoff`
puts an attempt on record as DISPATCHED minutes after its lease was granted;
that it still holds it is `HandoffKeepsLease`: while the pass waits, the row in
its hand is either finalized or PENDING with its lease. That in turn needs
`StoppingIsFinal` (a stop under way releases only what it has finalized),
`UnbornIsBlank` (a new attempt meets no leftovers), and `HandIsKnown` and
`SentIsKnown` (verdicts are given only to rows that exist). `IInv` is the
conjunction; TLC checks it too on the instances of `Lifecycle` and `Readers`.

**The argument.** Most steps *settle*: attempts leave the flight, leases go back,
none is taken from an attempt that stays live and is not made an orphan by the same
step, and an orphan stays one (`Settles`; one lemma per actor shows it, and that a
handoff under way is spared; so does every crash that creates no row). `SettlesKeeps`
carries the table invariants over all of these at once. `TickHandsOff` and
`RecordHandoff` have lemmas of their own, and so have attempts created without a lease
(`Birth`: the grant that is lost, and crashes between creating a row and sending it). The
same split gives the refinement: settling is `Leave`, handing off is `Grant`, recording is
`Work`. The crash in the catch is a `Leave` too: what is `working` is the live attempts
that are not orphans, so the holder it takes stops working in the same step. Where nothing crashes there are no
orphans (`NothingOrphaned`). An attempt that loses its lease (`TickLosesLease`) is over
without having held one, which is a `Leave` too.

**Undisturbed.** The last six are about what really runs, and there the tables tell the
truth only where nobody interferes. `Orderly` is `Environment \subseteq {"revise",
"settle"}`: no operator cancels or stops, no handoff is lost, nothing crashes and no
lease outlives its heartbeat; operators may revise and repair, gates and the gateway
refuse, runs end in every way, and frames come late, again or never. The hypothesis is
not for convenience: under *Core* in section 3 are a stop that leaves a run going under a
BLOCKED task, and crashes that leave one without its lease or record. `UInv` adds to
`IInv` what the tables owe to the gateway:
`RunsAccountedFor` (what is sent or live is in flight on record),
`AttemptsMatchTasks` (a live attempt's task is DISPATCHED, from the step that marks it
on) and `PassIsCurrent`: what the tick read is still so. That last one is needed because
a task the tick has yet to consider would otherwise be handed off with an attempt in
flight; the task the pass is `Busy` with is excepted while its handoff is awaited.
`HandIsNewest` says that nobody creates an attempt behind the pass's back, and
`NothingDisturbed` what `Orderly` buys. A frame, verdict or repair settles one attempt
by what became of its run (`SettledByRunKeeps`), the other steps beside the pass leave
the attempts alone (`AsideKeeps`), and the pass has a lemma per step.

`SchedulerPassesProofs` holds for any replicas, tasks and number of faults, in
every deployment.

| Theorem | Statement |
|---|---|
| `PassTypeCorrect` | `Spec => []TypeOK` |
| `PassInductive` | `Spec => []IInv` |
| `OneLogicalDispatcher` | `Spec => []HandedOffOnce` |
| `PassesImplementLedger` | `Spec => ImplementsLedger`, the refinement of `HandoffLedger` |
| `HandoffsBalance` | `Spec => []Ledger!Balanced`: what was accepted is on record or was undone |
| `DrainsHonourWakes` | `Spec => []WakesAreHonoured` |

A pass is *live* while its statements reach the store. `LiveHoldsGuard` and
`PrimaryIsAlone` give `OnePassAtATime`: no two passes are live at once, although
any number may be under way once connections break. So a task that is opened has
no row in anybody's draft (`DraftIsLive`), and `HandoffsAreCounted` follows: each
handoff is on record or undone, a row whose run is still being sent not counting
as a record. `WakesAreCarried` says at each point of the loop what is owed. The
shared lock does not occur in the argument: with PostgreSQL the advisory lock
suffices, and with SQLite the `running` flag does. TLC checks the parts of `IInv`
on the instance of `SchedulerPasses`.

*The ledger.* `BooksAreKept` is what the mapping needs beyond `IInv`: of the rows of an
open transaction each but the one being asked about has a run, none of them is committed
as well, and nothing more is undone than was handed off. Then `Opens` is `Open`, since a
task that can be opened is on file nowhere; an accepted handoff is `Accept` if its row
still stands and `AcceptUndone` if it does not; a refusal, a rollback, a crash or a lost
connection is `Erase` of the rows that go; all else, commits included, is a stutter,
because a row that moves from a draft to `inFlight` stays on file.

| Module | Theorems | For any |
|---|---|---|
| `ModelQuotaProofs` | `QuotaInductive`, `LimitsHold`: `QuotaSpec => []WithinLimits`, `QuotaTyped` | finite set of tasks, models, candidate lists, limits, windows |
| `ApprovalsProofs` | `GateInductive`, `UnapprovedNeverRuns`: `ApprovalsSpec => []NothingUnapprovedRuns`, `ApprovalsTyped` | approvals, deciders, attempts, revisions |
| `CommandDeskProofs` | `CommandInductive`, `ConfirmedOnce`: `CommandsSpec => AnsweredOnceInTime`, `CommandsTyped` | targets, people, handlers, time to live, commands |
| `EndGraceProofs` | `GraceInductive`, `NewestEndRecorded`: `GraceSpec => []CorrectedEndCounts` | frames, restarts |
| `PartsProofs` (link) | `LinkInductive`, `RefusalsAreNamed`: `LinkSpec => []LateRefusalNamesItsRun`, `RunsNameTheirMethod`: `LinkSpec => RunNamesItsMethod` | sockets, runs, capacity of `dispatchedRuns` |
| `PartsProofs` (fleet) | `FleetInductive`, `NoSilentDowngrade`: `FleetSpec => []RunsAsRouted` | tasks, floors in `0..99`, cap, slots, faults, edits |
| `PartsProofs` (chat) | `ChatInductive`, `ConversationsKeepTheirBrain`: `ChatSpec => []OneBrainPerConversation` | Brains, turns, names, limit, faults, edits, restarts |
| | `AnswersInductive`, `AnswersAreOwnOrNext`: `ChatSpec => []AnswerIsOwnOrNext` | the same |
| | `AnswersAreOwn`: `ASSUME MaxRestarts = 0 PROVE ChatSpec => []AnswerIsOwn` | the same, where no run dies without a word but with its agent |
| `PartsProofs` (all four) | `PartsInductive`, `PartsTyped`: `PartsSpec => []PartsTypeOK` | any of the above |
| `DeskProofs` (effort) | `ProbeInductive`, `LevelsAreVouchedFor`: `ProbeSpec => []VouchesForWhatRan` | levels, sweeps, waits, edits, restarts |
| `DeskProofs` (catalogue) | `CatalogInductive`, `ResolutionsStand`: `CatalogSpec => []ResolvesWhatStands`, `RolloutIsWhole`: `CatalogSpec => []PolicyIsWhole`, `ModelsOutliveTheirBrains`: `CatalogSpec => NoBrainLosesItsModel`, `CatalogTyped` | finite set of Brains, policy, requests, edits, boots |
| `DeskProofs` (plans) | `PlanInductive`, `PhasesRunInOrder`: `PlanSpec => []PhasesInOrder`, `MarksStandForTasks`: `PlanSpec => []MarksAreHonest` | pieces, requests, tasks, edits, failures |
| `DeskProofs` (all six) | `DeskInductive`, `DeskTyped`: `DeskSpec => []DeskTypeOK` | any of the above |

*Limits.* The two counts of admission are of different rows: `RunningNow` of tasks,
`Active` of executions. For a model, what is in flight is counted just before an attempt
is assigned, and nothing is awaited in between that could assign too (`ModelsOK`), so a
cancel changes nothing there. For the runtime, `RoomOK` says that while a pass gates, the
tasks on record as out, the handoff that is awaited and what is left of the room stay
within `MaxRunning`, and that at most one handoff is awaited, with room for it. An
attempt whose task is not out was begun for a task that has been cancelled since
(`CancelledStays`) or is `torn`, its handoff cut in two by a crash (`TasksOK`);
`RoomSuffices` draws the conclusion. The theorem says no more of those, nor does the
code. Refusals and ends only take away (`EndsKeep`), `HandsOff` and `HandoffAccepted`
carry the counts across, and the catch of a cancelled handoff gives its place back.

*Approval.* What is true when admission reads the answers must still be when the handoff
goes out: `GateIInv` keeps `approved` along `tick.at = "pass"` and `"handing"`, and ties
`latest` and each decider to answers that exist. Decisions after that may turn the task
down; the invariant claims no more than the code does.

*Confirmation.* `QuestionsOK`: the question a person may answer is theirs, stands and
has not run. It is taken off the map before its command runs, which is why two "yes"
typed at once find it once. `Fits` says what each handler must hold for its next step.

*Grace.* `GraceIInv`: the timer armed is that of the held frame, and what was superseded
is neither held, nor armed, nor being applied, nor recorded.

*Link.* `FramesAreTracked`: a frame that may still be refused has its request id in
`dispatchedRuns`, unless it has grown old or newer ones pushed it out, and what is
forgotten is the run that was answered (`ForgetKeepsOthers`, on `RemoveAt`).
`GreetingNamesMethod`: whoever finds a handshake done finds the method it announced,
unless the last greeting announced none (`bare`), which `connect()` rejects and leaves to
the next caller. So `dispatch`, which connects first, sends a frame without a method only
after such a greeting; `RunsNameTheirMethod` is the step property that follows
(`LinkSteps`). `dispatchChat` reads first, and nothing is claimed of it.

*Fleet.* It is about models only. `PicksCarryModel`: what the registry was asked for exactly carries the task's
model, and whatever else it gave goes with an override. `HarnessesAskNobody`: a harness
never comes to that choice. That the floors are in `0..99` is an assumption, from
`brains.mjs:234-237`; what a pass counts stays below the number of names there are.

*Chat.* `OwnBrains` is the statement that is inductive: not only the conversation, but the row of the pool and the agent a delivery holds are of the Brain
that was asked; `TurnFits` says at which places of a delivery there is an agent and a
conversation at all, and that a turn is sent once. For the answer, `TranscriptFits` says
that in a transcript each prompt is followed by what became of it, except the last, which
a run is working on unless the agent is gone, and `RunFits` that a running turn's prompt
is the last of its conversation. Then the first message after a turn's prompt is the
turn's own. A run that dies without a word while its agent stays (`RunDies`) leaves a
prompt with nothing after it, so `TranscriptFits` excepts the prompts of runs that are
`Lost`, and of those says only that they are in the conversation they belong to. What a
turn may then be shown is `Shows`: its own answer or, if its run is lost, one of the
same conversation, and so of the same Brain. What is shown stays fit to be shown because
a lost run stays lost and a sent run keeps its conversation (`Onward`). Without restarts
nothing is `Lost` and the answer is the turn's own. A run that dies with its agent
(`KillAgent`) is no exception: its transcript goes too.

*Effort.* `KeysAreOwn`: two requests never share the key of a run, because `probes`
numbers them. So a waiter is given what its own run used (`WaitersFit`), and a sample in
the hand of a sweep, in the row or in the test stands for the run it names (`SampleFits`).

*Catalogue.* `ResolveFits`: between two reads of a resolution, whoever could serve all
along has been found or is still to be asked about, and whoever was found could serve at
some time. `PolicyFits`: nobody is served before the marker is written, the marker is
written over a whole policy only, and nothing but an edit changes the policy after it,
wherever crashes fall. A model about to be deleted found no Brain when its blockers were
read, so none has been there all along; Brains created since are not covered, here or
in the code. For the types, `Apart` says that what a request has found and what it has
still to look up share no Brain, so that no list it stores names one twice.

*Plans.* `RowInOrder`: an edge is dropped only towards a row that is no longer listed, and
an attempt was begun when each predecessor was over. The gate looks in one statement and
the attempt begins in a later one; `LookFits` carries the look across, and what is over
stays over. `MarksFit` and `ErrandFits` tie the marks in the document, in the copy a
request has read and in what it is about to write to tasks that exist.

*Side by side.* `MCParts` and `MCDesk` compose parts that share no variable: a step of
one is a stutter of each other, so their invariants hold together (`PartsIInv`,
`DeskIInv`), and the type invariants of the two runs follow. The first states that
`DeskInit` narrows are first states of their parts.

TLC finds each of these invariants true on the instance of its run, and `UInv` on those
of `Undisturbed` and `Revised`; only that `seen` is a sequence of something, in
`QuotaIInv`, it cannot evaluate.

**Model-checked only.** Liveness under fairness, which is outside the prover's reach,
as is ENABLED: `EveryLeaseReturns`, `NoAttemptIsForgotten`, `EveryTaskIsWeighed`,
`TurnsSettle`, `CallsReturn`, `EventsFlow`, `AgentsSettle`, `TasksLeave`. Every safety
property of a passing run is a theorem. The properties of the violation runs are false,
and so is `AnswerIsOwn` with restarts; the other operators named under *Where code and
documentation part* are no properties of any passing run.

## 5. Not modelled

* **Text and formats**: classification of sentences, Slack messages and signatures,
  Markdown beyond item states, prompts and instructions, the SQL translation.
* **Arithmetic without state**: weighted order of candidates, parsing of usage pages by
  the quota drivers, backoff lengths.
* **Rows nobody contends for**: projects, role levels, checkpoints, events, transcripts
  and usage; the inventory page. `projects.delete` removes role levels before a foreign
  key may refuse it (`repositories.mjs:171-172`), a partial failure without concurrency.
* **The worker gate** of admission, UNAVAILABLE resources and the deletion of their rows.
* **Nested transactions** in SQLite (`db/index.mjs:410`): a chain of statements there
  runs without another request in between, and no handler was found that nests two.
* **Resume's idempotency key** (`api/server.mjs:1170`): a repeated revision is allowed by
  `WorkController` wherever the code allows it; the key only decides which answer a
  retry gets.
* **A frame during an uncommitted pass** (`session-events.mjs:281`) changes no row: it is
  a lost frame, which `WorkController` has. The two modules are not composed.
* **Cryptographic device identity, the AgentOS and loopback adapters, test doubles, the
  web UI, deployment files**, and `src/server.mjs`, `src/chat-completion.mjs`, older
  copies that nothing imports.

What is left to prove: that the liveness properties follow from their fairness. What is
left to model: the gates together, since each module lets the others pass, and a frame
during an uncommitted pass.
