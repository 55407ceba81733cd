----------------------------- MODULE ModelQuota -----------------------------
(***************************************************************************)
(* The resources table and what lives by it: the model, quota, concurrency *)
(* and runtime gates of admission, the refusals that exhaust a model, the  *)
(* scheduler's release of expired windows, the recovery probe and the      *)
(* operator's edits.  Rows are read in one statement and written in a      *)
(* later one, and nothing compares them in between.                        *)
(*                                                                         *)
(* The runtime's limit is counted from tasks, a model's from executions: a *)
(* cancel moves the task and leaves its run going, and a controller that   *)
(* dies may have written one of the two records only.                      *)
(*                                                                         *)
(* Time is counted in short windows.                                       *)
(***************************************************************************)
EXTENDS Integers, Sequences, FiniteSets

Life == INSTANCE TaskLifecycle

CONSTANTS
    Model, NoModel,
    Retryable,      \* models whose short window is below RETRYABLE_SHORT_WINDOW_MS
    Job,            \* tasks whose other gates are open
    Prefers,        \* model_policy.preferred of each, resolved to models
    ModelLimit,     \* concurrency_limit
    MaxRunning,
    QuotaRetryLimit, ResourceRetryLimit,
    LongWindow,     \* the fallback anchor of a model that is not Retryable
    ProbeHorizon,   \* quotaProbeHorizonMs
    LastTime,       \* bound: the clock stops there
    MaxWalls,       \* bound: exhaustions
    MaxOthers,      \* bound: recovery probes and operator edits
    MaxCrashes      \* bound: deaths of the controller

ASSUME RetryableAssumption == Retryable \subseteq Model /\ NoModel \notin Model
ASSUME PrefersAssumption == Prefers \in [Job -> Seq(Model)] /\ \A j \in Job : Prefers[j] # <<>>
ASSUME LimitsAssumption ==
    /\ {ModelLimit, MaxRunning, LongWindow, LastTime} \subseteq Nat \ {0} /\ IsFiniteSet(Job)
    /\ {QuotaRetryLimit, ResourceRetryLimit, ProbeHorizon, MaxWalls, MaxOthers, MaxCrashes} \subseteq Nat

VARIABLES
    clock,
    wall,           \* the provider refuses a model until then
    avail,          \* resources.availability
    anchor,         \* next_available_at
    source,         \* who wrote the row last, as its event says
    stage,          \* status of each task
    alarm,          \* next_retry_at
    attempt,        \* status of its latest execution, while that is in flight
    runsOn,         \* model of that execution
    torn,           \* observed: the controller died between accept and DISPATCHED
    tries,          \* quota_retries and resource_retries
    tickAt,         \* where the scheduler's pass is
    lapsed,         \* rows its list showed as due for release, not yet written
    ready,          \* tasks it has still to evaluate
    seen,           \* rows it has read for the next of them
    room,           \* what is left of MaxRunning
    handing,        \* the task whose hand-off it awaits, if any
    probing,        \* the row the recovery probe works on
    patching,       \* the row PATCH has read
    bounds          \* exhaustions, probes and edits, deaths so far

rowVarsQ == <<avail, anchor, source>>
jobVars == <<stage, alarm, attempt, runsOn, torn, tries>>
tickVars == <<tickAt, lapsed, ready, seen, room, handing>>
quotaVars == <<clock, wall, rowVarsQ, jobVars, tickVars, probing, patching, bounds>>

------------------------------------------------------------------------------
Never == -1
Times == 0..LastTime
Capped(t) == IF t > LastTime THEN LastTime ELSE t
Row(m) == [model |-> m, avail |-> avail[m], anchor |-> anchor[m]]
NoRow == [model |-> NoModel, avail |-> "AVAILABLE", anchor |-> Never]
Rows == [model : Model \cup {NoModel}, avail : {"AVAILABLE", "QUOTA_EXHAUSTED"},
         anchor : Times \cup {Never}]

Waits == {"WAIT_QUOTA", "WAIT_CONCURRENCY", "WAIT_RESOURCE", "WAIT_RUNTIME"}
\* Nothing here enters RUNNING: a run that starts moves its execution alone.
Out == {"DISPATCHED", "RUNNING"}
Ended == {"COMPLETE", "BLOCKED", "CANCELLED"}
Waiting == {"QUEUED"} \cup Waits

QuotaTypeOK ==
    /\ clock \in Times /\ wall \in [Model -> Times]
    /\ avail \in [Model -> {"AVAILABLE", "QUOTA_EXHAUSTED"}]
    /\ anchor \in [Model -> Times \cup {Never}]
    /\ source \in [Model -> {"seed", "provider", "quota-window", "quota-no-clock",
                             "recovery-probe", "operator"}]
    /\ stage \in [Job -> Waiting \cup Out \cup Ended]
    /\ alarm \in [Job -> Times \cup {Never}]
    /\ attempt \in [Job -> {"none", "PENDING", "DISPATCHED"}]
    /\ runsOn \in [Job -> Model \cup {NoModel}]
    /\ \A j \in Job : runsOn[j] # NoModel <=> attempt[j] # "none"
    /\ torn \subseteq Job
    /\ tries \in [Job -> [quota : 0..QuotaRetryLimit, resource : 0..ResourceRetryLimit]]
    /\ tickAt \in {"idle", "releasing", "choosing", "gating"}
    /\ lapsed \subseteq Model /\ ready \subseteq Job /\ seen \in Seq(Rows) /\ room \in 0..MaxRunning
    /\ handing \subseteq Job
    /\ probing \in [at : {"rest", "listed", "testing"}, row : Rows]
    /\ patching \in Rows
    /\ bounds \in [walls : 0..MaxWalls, others : 0..MaxOthers, crashes : 0..MaxCrashes]

\* A row may have been exhausted without a clock before clocks were always derived.
QuotaInit ==
    /\ clock = 0 /\ wall = [m \in Model |-> 0]
    /\ avail \in [Model -> {"AVAILABLE", "QUOTA_EXHAUSTED"}]
    /\ anchor = [m \in Model |-> Never] /\ source = [m \in Model |-> "seed"]
    /\ stage = [j \in Job |-> "QUEUED"] /\ alarm = [j \in Job |-> Never]
    /\ attempt = [j \in Job |-> "none"] /\ runsOn = [j \in Job |-> NoModel] /\ torn = {}
    /\ tries = [j \in Job |-> [quota |-> 0, resource |-> 0]]
    /\ tickAt = "idle" /\ lapsed = {} /\ ready = {} /\ seen = <<>> /\ room = 0 /\ handing = {}
    /\ probing = [at |-> "rest", row |-> NoRow] /\ patching = NoRow
    /\ bounds = [walls |-> 0, others |-> 0, crashes |-> 0]

Counts(field, most) == bounds[field] < most /\ bounds' = [bounds EXCEPT ![field] = @ + 1]

\* setAvailability: whatever the row holds by now.
SetAvailability(m, value, at, who) ==
    /\ avail' = [avail EXCEPT ![m] = value]
    /\ anchor' = [anchor EXCEPT ![m] = at]
    /\ source' = [source EXCEPT ![m] = who]

\* applyQuotaSignal, whatever clock it made of the refusal.
ApplyQuotaSignal(m, at) == SetAvailability(m, "QUOTA_EXHAUSTED", at, "provider")

------------------------------------------------------------------------------
(* The world *)

ClockTicks ==
    /\ clock < LastTime
    /\ clock' = clock + 1
    /\ UNCHANGED <<wall, rowVarsQ, jobVars, tickVars, probing, patching, bounds>>

QuotaRunsOut(m) ==
    /\ wall[m] <= clock /\ Counts("walls", MaxWalls)
    /\ \E window \in {1, LongWindow} : wall' = [wall EXCEPT ![m] = Capped(clock + window)]
    /\ UNCHANGED <<clock, rowVarsQ, jobVars, tickVars, probing, patching>>

Refuses429(m) == wall[m] > clock

------------------------------------------------------------------------------
(* releaseExpiredQuota *)

\* Defect for the checks: a row without a clock is left alone.
WithClock(m) == avail[m] = "QUOTA_EXHAUSTED" /\ anchor[m] # Never /\ anchor[m] <= clock

ReleaseDue(m) == avail[m] = "QUOTA_EXHAUSTED" /\ (anchor[m] = Never \/ anchor[m] <= clock)

BeginPassQ ==
    /\ tickAt = "idle"
    /\ tickAt' = "releasing"
    /\ lapsed' = {m \in Model : ReleaseDue(m)}
    /\ UNCHANGED <<clock, wall, rowVarsQ, jobVars, ready, seen, room, handing, probing, patching, bounds>>

ReleaseRow(m) ==
    /\ tickAt = "releasing" /\ m \in lapsed
    /\ lapsed' = lapsed \ {m}
    /\ \E who \in {"quota-window", "quota-no-clock"} :
          /\ (who = "quota-no-clock") = (anchor[m] = Never)
          /\ SetAvailability(m, "AVAILABLE", Never, who)
    /\ UNCHANGED <<clock, wall, jobVars, tickAt, ready, seen, room, handing, probing, patching, bounds>>

ReleasesAll ==
    /\ tickAt = "releasing" /\ lapsed = {}
    /\ tickAt' = "choosing"
    /\ UNCHANGED <<clock, wall, rowVarsQ, jobVars, lapsed, ready, seen, room, handing,
                   probing, patching, bounds>>

------------------------------------------------------------------------------
(* tick, with the gates of checkModelAndQuota and checkRuntimeCapacity *)

BackoffOver(j) == alarm[j] = Never \/ alarm[j] <= clock

\* Tasks.
RunningNow == Cardinality({j \in Job : stage[j] \in Out})

\* Defect for the checks: a model's attempts are counted from their tasks as well.
Started(m) == {j \in Job : stage[j] \in Out /\ runsOn[j] = m}

\* Executions.
Active(m) == {j \in Job : attempt[j] = "DISPATCHED" /\ runsOn[j] = m}

ChooseReady ==
    /\ tickAt = "choosing"
    /\ tickAt' = "gating"
    /\ ready' = {j \in Job : stage[j] \in Waiting /\ BackoffOver(j)}
    /\ room' = MaxRunning - RunningNow
    /\ UNCHANGED <<clock, wall, rowVarsQ, jobVars, lapsed, seen, handing, probing, patching, bounds>>

\* The rows of the next task's candidates are read one by one; which task is next
\* is the business of orderCandidates.
NextJob(j) ==
    /\ tickAt = "gating" /\ j \in ready /\ handing = {}
    /\ \A i \in DOMAIN seen : i <= Len(Prefers[j]) /\ seen[i].model = Prefers[j][i]

ReadRow(j) ==
    /\ NextJob(j) /\ Len(seen) < Len(Prefers[j])
    /\ seen' = Append(seen, Row(Prefers[j][Len(seen) + 1]))
    /\ UNCHANGED <<clock, wall, rowVarsQ, jobVars, tickAt, lapsed, ready, room, handing,
                   probing, patching, bounds>>

WithQuota == {i \in DOMAIN seen : seen[i].avail = "AVAILABLE"}
Free == {i \in WithQuota : Cardinality(Active(seen[i].model)) < ModelLimit}
Clocks == {seen[i].anchor : i \in DOMAIN seen} \ {Never}
Earliest(times) == IF times = {} THEN Capped(clock + 1) ELSE CHOOSE t \in times : \A u \in times : t <= u

\* The gates, then dispatch, which leaves an attempt in flight alone.
Verdict(j) ==
    IF WithQuota = {} THEN "WAIT_QUOTA"
    ELSE IF Free = {} THEN "WAIT_CONCURRENCY"
    ELSE IF room = 0 \/ attempt[j] # "none" THEN "WAIT_RUNTIME" ELSE "open"

MayFollow(j, next) == Life!MayTransition(stage[j], next, "none")

\* What the pass holds is lost when a status is refused.
PassThrows == tickAt' = "idle" /\ ready' = {} /\ seen' = <<>> /\ room' = 0 /\ handing' = {}

\* park, with the clock the task is left with when its status cannot follow.
Park(j, next, at, else) ==
    IF MayFollow(j, next)
    THEN /\ stage' = [stage EXCEPT ![j] = next]
         /\ alarm' = [alarm EXCEPT ![j] = at]
         /\ ready' = ready \ {j} /\ seen' = <<>> /\ handing' = {} /\ UNCHANGED <<tickAt, room>>
    ELSE /\ alarm' = [alarm EXCEPT ![j] = else]
         /\ PassThrows /\ UNCHANGED stage

AllRead(j) == NextJob(j) /\ Len(seen) = Len(Prefers[j])

StaysParked(j) ==
    /\ AllRead(j) /\ Verdict(j) # "open"
    /\ Park(j, Verdict(j), Earliest(IF Verdict(j) = "WAIT_QUOTA" THEN Clocks ELSE {}), alarm[j])
    /\ UNCHANGED <<clock, wall, rowVarsQ, attempt, runsOn, torn, tries, lapsed, probing, patching, bounds>>

\* The first candidate that is free gets it.  A task the list showed QUEUED is not
\* queued again, whatever has become of it; any other is, or ends the pass.
HandsOff(j) ==
    /\ AllRead(j) /\ Verdict(j) = "open"
    /\ \/ UNCHANGED stage
       \/ MayFollow(j, "QUEUED") /\ stage' = [stage EXCEPT ![j] = "QUEUED"]
    /\ attempt' = [attempt EXCEPT ![j] = "PENDING"]
    /\ \E i \in Free : (\A k \in Free : i <= k) /\ runsOn' = [runsOn EXCEPT ![j] = seen[i].model]
    /\ handing' = {j} /\ ready' = ready \ {j} /\ seen' = <<>>
    /\ UNCHANGED <<clock, wall, rowVarsQ, alarm, torn, tries, tickAt, lapsed, room,
                   probing, patching, bounds>>

CannotRequeue(j) ==
    /\ AllRead(j) /\ Verdict(j) = "open"
    /\ ~MayFollow(j, "QUEUED")
    /\ PassThrows
    /\ UNCHANGED <<clock, wall, rowVarsQ, jobVars, lapsed, probing, patching, bounds>>

Over(j) ==
    /\ attempt' = [attempt EXCEPT ![j] = "none"]
    /\ runsOn' = [runsOn EXCEPT ![j] = NoModel]
    /\ torn' = torn \ {j}

\* A task that was cancelled meanwhile cannot be DISPATCHED: the catch.
HandoffAccepted(j) ==
    /\ j \in handing
    /\ IF MayFollow(j, "DISPATCHED")
       THEN /\ stage' = [stage EXCEPT ![j] = "DISPATCHED"]
            /\ attempt' = [attempt EXCEPT ![j] = "DISPATCHED"]
            /\ room' = room - 1 /\ handing' = {}
            /\ UNCHANGED <<alarm, runsOn, torn, tickAt, ready, seen>>
       ELSE Over(j) /\ Park(j, "WAIT_RUNTIME", Earliest({}), alarm[j])
    /\ UNCHANGED <<clock, wall, rowVarsQ, tries, lapsed, probing, patching, bounds>>

EndPassQ ==
    /\ tickAt = "gating" /\ ready = {} /\ handing = {}
    /\ tickAt' = "idle" /\ room' = 0
    /\ UNCHANGED <<clock, wall, rowVarsQ, jobVars, lapsed, ready, seen, handing, probing, patching, bounds>>

PassStep ==
    \/ BeginPassQ \/ ReleasesAll \/ ChooseReady \/ EndPassQ
    \/ \E m \in Model : ReleaseRow(m)
    \/ \E j \in Job : \/ ReadRow(j) \/ StaysParked(j) \/ HandsOff(j) \/ CannotRequeue(j)
                       \/ HandoffAccepted(j)

------------------------------------------------------------------------------
(* Attempts *)

\* The execution is over; its task follows where the table of transitions lets it.
Ends(j, next, at, counts) ==
    /\ Over(j)
    /\ IF MayFollow(j, next)
       THEN /\ stage' = [stage EXCEPT ![j] = next]
            /\ alarm' = [alarm EXCEPT ![j] = at]
            /\ tries' = [tries EXCEPT ![j] = counts]
       ELSE UNCHANGED <<stage, alarm, tries>>
    /\ UNCHANGED <<clock, wall, tickVars, probing, patching, bounds>>

\* A frame that overtakes the record of its own hand-off is WorkController's.
RunCompletesOn(j) ==
    /\ attempt[j] # "none" /\ j \notin handing
    /\ Ends(j, "COMPLETE", alarm[j], [quota |-> 0, resource |-> 0])
    /\ UNCHANGED rowVarsQ

\* The clock of a refusal: the provider's own, or the fallback of the family.
Fallback(m) == Capped(clock + (IF m \in Retryable THEN 1 ELSE LongWindow))
SignalClocks(m) == {wall[m], Fallback(m)}

\* One more of its refusals.
Bumped(j, kind) == [tries[j] EXCEPT ![kind] = @ + 1]

\* The hand-off is refused: dispatch() parks the task until the row's clock.
HandoffRefused429(j) ==
    LET m == runsOn[j] IN
    /\ j \in handing /\ Refuses429(m)
    /\ Over(j)
    /\ \E at \in SignalClocks(m) :
          /\ ApplyQuotaSignal(m, at)
          /\ \/ /\ m \in Retryable /\ tries[j].quota < QuotaRetryLimit
                /\ tries' = [tries EXCEPT ![j] = Bumped(j, "quota")]
                /\ Park(j, "WAIT_QUOTA", at, at)
             \/ /\ m \in Retryable /\ tries[j].quota >= QuotaRetryLimit
                /\ Park(j, "BLOCKED", Earliest({}), alarm[j])
                /\ UNCHANGED tries
             \/ /\ m \notin Retryable
                /\ Park(j, "WAIT_QUOTA", at, alarm[j])
                /\ UNCHANGED tries
    /\ UNCHANGED <<clock, wall, lapsed, probing, patching, bounds>>

\* The refusal comes after the gateway's answer: handleLateDispatchError.
LateRefused429(j) ==
    LET m == runsOn[j] IN
    /\ attempt[j] = "DISPATCHED" /\ Refuses429(m)
    /\ \E at \in SignalClocks(m) :
          /\ ApplyQuotaSignal(m, at)
          /\ \/ /\ m \in Retryable /\ tries[j].quota < QuotaRetryLimit
                /\ Ends(j, "WAIT_QUOTA", at, Bumped(j, "quota"))
             \/ /\ m \notin Retryable /\ tries[j].resource < ResourceRetryLimit
                /\ Ends(j, "WAIT_RESOURCE", Capped(clock + 1), Bumped(j, "resource"))
             \/ /\ IF m \in Retryable THEN tries[j].quota >= QuotaRetryLimit
                                      ELSE tries[j].resource >= ResourceRetryLimit
                /\ Ends(j, "BLOCKED", alarm[j], tries[j])

RunEnds(j) == RunCompletesOn(j) \/ HandoffRefused429(j) \/ LateRefused429(j)

------------------------------------------------------------------------------
(* The task moves alone, or its execution does *)

\* cancel: nothing is said to the execution.
CancelJob(j) ==
    /\ stage[j] # "CANCELLED" /\ MayFollow(j, "CANCELLED")
    /\ stage' = [stage EXCEPT ![j] = "CANCELLED"]
    /\ UNCHANGED <<clock, wall, rowVarsQ, alarm, attempt, runsOn, torn, tries, tickVars,
                   probing, patching, bounds>>

\* The process dies: between two steps; between the two records of an accept;
\* once an execution has its verdict and before the task has.
CrashQ ==
    /\ Counts("crashes", MaxCrashes)
    /\ \/ UNCHANGED <<attempt, runsOn, torn>>
       \/ \E j \in handing : /\ attempt' = [attempt EXCEPT ![j] = "DISPATCHED"]
                             /\ torn' = torn \cup {j}
                             /\ UNCHANGED runsOn
       \/ \E j \in Job : attempt[j] # "none" /\ Over(j)
    /\ PassThrows /\ lapsed' = {}
    /\ probing' = [at |-> "rest", row |-> NoRow] /\ patching' = NoRow
    /\ UNCHANGED <<clock, wall, rowVarsQ, stage, alarm, tries>>

------------------------------------------------------------------------------
(* The recovery probe *)

ProbeAt(place, row) == probing' = [at |-> place, row |-> row]
OnlyProbes == UNCHANGED <<clock, wall, jobVars, tickVars, patching>>

ProbeLists(m) ==
    /\ probing.at = "rest" /\ avail[m] = "QUOTA_EXHAUSTED" /\ Counts("others", MaxOthers)
    /\ anchor[m] = Never \/ anchor[m] > clock + ProbeHorizon
    /\ ProbeAt("listed", Row(m))
    /\ UNCHANGED rowVarsQ /\ OnlyProbes

\* A model with attempts of its own is left to them.
ProbeDispatches ==
    /\ probing.at = "listed"
    /\ IF Active(probing.row.model) = {} THEN ProbeAt("testing", probing.row) ELSE ProbeAt("rest", NoRow)
    /\ UNCHANGED <<rowVarsQ, bounds>> /\ OnlyProbes

\* A refusal moves only an anchor that was missing or over, in the row as listed.
ProbeReturns ==
    LET m == probing.row.model
        stale == probing.row.anchor
    IN /\ probing.at = "testing"
       /\ ProbeAt("rest", NoRow)
       /\ \/ ~Refuses429(m) /\ SetAvailability(m, "AVAILABLE", Never, "recovery-probe")
          \/ /\ Refuses429(m) /\ (stale = Never \/ stale <= clock)
             /\ ApplyQuotaSignal(m, Fallback(m))
          \/ (Refuses429(m) => stale > clock) /\ UNCHANGED rowVarsQ
       /\ UNCHANGED bounds /\ OnlyProbes

------------------------------------------------------------------------------
(* The operator *)

OnlyOperates == UNCHANGED <<clock, wall, jobVars, tickVars, probing>>

\* clear-quota, and the upsert of POST, which resets a row that exists.
ClearQuota(m) ==
    /\ avail[m] = "QUOTA_EXHAUSTED" /\ Counts("others", MaxOthers)
    /\ SetAvailability(m, "AVAILABLE", Never, "operator")
    /\ UNCHANGED patching /\ OnlyOperates

\* PATCH carries availability and clock over from the row it read.
PatchReads(m) ==
    /\ patching = NoRow /\ Counts("others", MaxOthers)
    /\ patching' = Row(m)
    /\ UNCHANGED rowVarsQ /\ OnlyOperates

PatchWrites ==
    /\ patching # NoRow
    /\ avail' = [avail EXCEPT ![patching.model] = patching.avail]
    /\ anchor' = [anchor EXCEPT ![patching.model] = patching.anchor]
    /\ patching' = NoRow
    /\ UNCHANGED <<source, bounds>> /\ OnlyOperates

------------------------------------------------------------------------------
QuotaNext ==
    \/ ClockTicks \/ PassStep
    \/ \E m \in Model : QuotaRunsOut(m) \/ ProbeLists(m) \/ ClearQuota(m) \/ PatchReads(m)
    \/ \E j \in Job : RunEnds(j) \/ CancelJob(j)
    \/ CrashQ
    \/ ProbeDispatches \/ ProbeReturns \/ PatchWrites

\* Time passes, the scheduler's passes come again and again, attempts end, a request
\* that has read its row writes it.  Nothing is asked of the probe.
QuotaFairness ==
    /\ WF_quotaVars(ClockTicks) /\ WF_quotaVars(PassStep) /\ WF_quotaVars(PatchWrites)
    /\ \A j \in Job : WF_quotaVars(RunEnds(j))

QuotaSpec == QuotaInit /\ [][QuotaNext]_quotaVars /\ QuotaFairness

------------------------------------------------------------------------------
(* Properties *)

\* On record as in flight, or being handed off by the pass.
Counted(j) == attempt[j] = "DISPATCHED" \/ j \in handing

\* A model never has more attempts in flight than its limit, whatever becomes of
\* their tasks.  The runtime never has more tasks on record as running, hand-offs
\* and attempts in flight than its own, but for the attempts whose task was
\* cancelled or whose hand-off a crash cut in two: those the count of tasks does
\* not see. (checkModelAndQuota, activeCount, checkRuntimeCapacity, countRunning)
WithinLimits ==
    /\ \A m \in Model : Cardinality({j \in Job : Counted(j) /\ runsOn[j] = m}) <= ModelLimit
    /\ Cardinality({j \in Job :
           \/ stage[j] \in Out \/ j \in handing
           \/ Counted(j) /\ stage[j] # "CANCELLED" /\ j \notin torn}) <= MaxRunning

\* Whatever the rows were overwritten with, every task leaves the queue for good:
\* no model stays exhausted and no task waits on a clock that does not come.
\* (releaseExpiredQuota, applyQuotaSignal, park)
NobodyWaitsForever == \A j \in Job : stage[j] \notin Ended ~> stage[j] \in Ended

\* A recovery reaches the tasks that wait for the model in the next pass ("recovery
\* triggers QUOTA_RESET so that a task parked in WAIT_QUOTA is evaluated again at
\* once"). (quotaRecovery.run, tick)  Does not hold: see README.
RecoveryReachesTasks ==
    tickAt = "choosing" =>
        \A j \in Job :
            /\ stage[j] = "WAIT_QUOTA"
            /\ \A i \in DOMAIN Prefers[j] : avail[Prefers[j][i]] = "AVAILABLE"
            /\ \E i \in DOMAIN Prefers[j] : source[Prefers[j][i]] = "recovery-probe"
            => BackoffOver(j)
=============================================================================
