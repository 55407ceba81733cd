----------------------------- MODULE EffortProbe ------------------------------
(***************************************************************************)
(* Measuring a model by running it: sweeps over its thinking levels, which *)
(* fill its row of thinking_levels, and the connection test of a Brain.    *)
(* Both send throwaway runs to an agent bound to the model and judge them  *)
(* by the answer to agent.wait; what a run used arrives as an event.       *)
(*                                                                         *)
(* One model.  Requests, runs, events and the operators who edit the row   *)
(* by hand interleave.                                                     *)
(***************************************************************************)
EXTENDS Integers, Sequences, FiniteSets

CONSTANTS
    Levels,         \* CANDIDATE_LEVELS, in order
    Sweep,          \* requests to probe that are served at once
    MaxWaits,       \* waits a connection test is given
    Outlives,       \* the status of a sweep is in Redis, and outlives a restart
    MaxProbes, MaxProbeTroubles     \* bounds: requests, and edits, restarts and failed saves

ASSUME ProbeAssumption == Levels \in Seq(STRING) \ {<<>>} /\ MaxWaits \in Nat \ {0} /\ Outlives \in BOOLEAN
ASSUME ProbeBounds == {MaxProbes, MaxProbeTroubles} \subseteq Nat

VARIABLES
    probe,          \* the probe's status, as getProbe reads it
    sweep,          \* what each request is doing
    test,           \* the connection test
    run,            \* the throwaway runs, by session key
    usageWaiters,   \* what each key's waiter has been given, of the keys that have one
    row,            \* the thinking_levels row
    probes, probeTroubles

probeCounts == <<probes, probeTroubles>>
probeVars == <<probe, sweep, test, run, usageWaiters, row, probeCounts>>

------------------------------------------------------------------------------
\* A session key: that of the n-th request, at its k-th level when it is a sweep.
Key == (1..MaxProbes) \X (0..Len(Levels))
NoKey == <<0, 0>>

\* status: agent.wait's answer, or that the run was refused, a call failed or the
\* gateway stopped watching.  usage: the run the reported usage belongs to.
Sample == [level : DOMAIN Levels, key : Key, status : {"ok", "error", "unknown"},
           usage : Key \cup {NoKey}]

NoSweep == [at |-> "idle", n |-> 0, samples |-> <<>>]
NoTest == [at |-> "idle", n |-> 0, waits |-> 0, retried |-> FALSE, ok |-> FALSE]
NoRow == [by |-> "nobody", levels |-> {}, samples |-> <<>>]

SweepState == [at : {"idle", "asked", "next", "waiting", "finishing"}, n : 0..MaxProbes, samples : Seq(Sample)]
TestState == [at : {"idle", "provisioning", "ready", "waiting", "over"}, n : 0..MaxProbes,
              waits : 0..MaxWaits, retried : BOOLEAN, ok : BOOLEAN]
LevelsRow == [by : {"nobody", "sweep", "operator"}, levels : SUBSET DOMAIN Levels, samples : Seq(Sample)]

ProbeTypeOK ==
    /\ probe \in {"none", "running", "over"}
    /\ sweep \in [Sweep -> SweepState] /\ test \in TestState
    /\ \A s \in Sweep : Len(sweep[s].samples) <= Len(Levels)
    /\ run \in [Key -> {"none", "running", "ok", "error"}]
    /\ DOMAIN usageWaiters \subseteq Key /\ usageWaiters \in [DOMAIN usageWaiters -> Key \cup {NoKey}]
    /\ row \in LevelsRow
    /\ probes \in 0..MaxProbes /\ probeTroubles \in 0..MaxProbeTroubles

ProbeInit ==
    /\ probe = "none" /\ sweep = [s \in Sweep |-> NoSweep] /\ test = NoTest
    /\ run = [k \in Key |-> "none"] /\ usageWaiters = [k \in {} |-> NoKey] /\ row = NoRow
    /\ probes = 0 /\ probeTroubles = 0

------------------------------------------------------------------------------
(* The sweep *)

\* A write of the row, which may fail.
Save(entry) ==
    \/ row' = entry /\ UNCHANGED probeTroubles
    \/ row' = row /\ probeTroubles < MaxProbeTroubles /\ probeTroubles' = probeTroubles + 1

KeyOf(s) == <<sweep[s].n, Len(sweep[s].samples) + 1>>

\* The status is read; the gateway's agents are listed; only then is it written.
AskToProbe(s) ==
    /\ sweep[s].at = "idle" /\ probe # "running" /\ probes < MaxProbes
    /\ probes' = probes + 1
    /\ sweep' = [sweep EXCEPT ![s] = [NoSweep EXCEPT !.at = "asked", !.n = probes + 1]]
    /\ UNCHANGED <<probe, test, run, usageWaiters, row, probeTroubles>>

\* An agent with this model is found, or there is none to probe with.
FindAgent(s) ==
    /\ sweep[s].at = "asked"
    /\ \/ probe' = "running" /\ sweep' = [sweep EXCEPT ![s].at = "next"]
       \/ probe' = "over" /\ sweep' = [sweep EXCEPT ![s] = NoSweep]
    /\ UNCHANGED <<test, run, usageWaiters, row, probeCounts>>

\* Defect for the checks: one waiter for the agent, whose session is one slot.
WaitersOfTheAgent(key) == {k \in DOMAIN usageWaiters : key[2] # 0}

WaitersOf(key) == DOMAIN usageWaiters \cap {key}

With(key, given) == [k \in DOMAIN usageWaiters \cup {key} |-> IF k = key THEN given ELSE usageWaiters[k]]
Without(key) == [k \in DOMAIN usageWaiters \ {key} |-> usageWaiters[k]]

\* Defect for the checks: a run that was accepted is a level that works.
Accepted(sample) == sample.status # "unknown"

\* classifySample: what a finished run reports, and no other word.
Completed(sample) == sample.status = "ok"

\* deriveCatalogEntry.
Entry(samples) ==
    [by |-> "sweep", samples |-> samples,
     levels |-> {samples[i].level : i \in {j \in DOMAIN samples : Completed(samples[j])}}]

\* probeLevel's waiter is there before the run is asked for.
SendLevel(s) ==
    /\ sweep[s].at = "next" /\ Len(sweep[s].samples) < Len(Levels)
    /\ run' = [run EXCEPT ![KeyOf(s)] = "running"]
    /\ usageWaiters' = With(KeyOf(s), NoKey)
    /\ sweep' = [sweep EXCEPT ![s].at = "waiting"]
    /\ UNCHANGED <<probe, test, row, probeCounts>>

\* One more sample; onLevelDone notes it and saves what there is.
SaveLevel(s, status, usage) ==
    LET samples == Append(sweep[s].samples, [level |-> Len(sweep[s].samples) + 1, key |-> KeyOf(s),
                                             status |-> status, usage |-> usage]) IN
    /\ probe' = "running" /\ Save(Entry(samples))
    /\ sweep' = [sweep EXCEPT ![s].at = IF Len(samples) = Len(Levels) THEN "finishing" ELSE "next",
                              ![s].samples = samples]
    /\ UNCHANGED <<test, probes>>

LevelRefused(s) ==
    /\ sweep[s].at = "next" /\ Len(sweep[s].samples) < Len(Levels)
    /\ SaveLevel(s, "unknown", NoKey)
    /\ UNCHANGED <<run, usageWaiters>>

\* agent.wait has answered, and the grace for the usage is over: the waiter has been
\* given what it has by then.  Or a call has failed.  The session is aborted; should
\* that fail, how the run ends tells nobody anything.
LevelMeasured(s) ==
    /\ sweep[s].at = "waiting"
    /\ \/ \E status \in {"unknown", run[KeyOf(s)]} \ {"running"} :
             SaveLevel(s, status, usageWaiters[KeyOf(s)])
       \/ SaveLevel(s, "unknown", NoKey)
    /\ usageWaiters' = Without(KeyOf(s))
    /\ run' = [run EXCEPT ![KeyOf(s)] = IF @ = "running" THEN "error" ELSE @]

\* The whole is saved again, or that fails; the status is over either way.
FinishSweep(s) ==
    /\ sweep[s].at = "finishing"
    /\ Save(Entry(sweep[s].samples)) /\ probe' = "over"
    /\ sweep' = [sweep EXCEPT ![s] = NoSweep]
    /\ UNCHANGED <<test, run, usageWaiters, probes>>

------------------------------------------------------------------------------
(* The connection test of a Brain *)

TestKey == <<test.n, 0>>

\* An agent is found, or one has to be created for it.
BeginTest ==
    /\ test.at \in {"idle", "over"} /\ probes < MaxProbes /\ probes' = probes + 1
    /\ \E at \in {"ready", "provisioning"} : test' = [NoTest EXCEPT !.at = at, !.n = probes + 1]
    /\ UNCHANGED <<probe, sweep, run, usageWaiters, row, probeTroubles>>

\* A name or a workspace the gateway keeps locked is replaced once.
ProvisionProbeAgent ==
    /\ test.at = "provisioning"
    /\ \/ test' = [test EXCEPT !.at = "ready"]
       \/ ~test.retried /\ test' = [test EXCEPT !.retried = TRUE]
       \/ test' = [test EXCEPT !.at = "over"]
    /\ UNCHANGED <<probe, sweep, run, usageWaiters, row, probeCounts>>

SendTest ==
    /\ test.at = "ready"
    /\ \/ test' = [test EXCEPT !.at = "waiting"] /\ run' = [run EXCEPT ![TestKey] = "running"]
       \/ test' = [test EXCEPT !.at = "over"] /\ UNCHANGED run
    /\ UNCHANGED <<probe, sweep, usageWaiters, row, probeCounts>>

\* testAgent asks again for as long as the gateway answers "timeout", and gives up
\* at the last wait or when a call fails.
TestAnswers ==
    /\ test.at = "waiting"
    /\ \/ /\ test.waits + 1 < MaxWaits /\ test' = [test EXCEPT !.waits = @ + 1]
       \/ test' = [test EXCEPT !.at = "over"]
       \/ /\ run[TestKey] # "running"
          /\ test' = [test EXCEPT !.at = "over", !.ok = run[TestKey] = "ok"]
    /\ UNCHANGED <<probe, sweep, run, usageWaiters, row, probeCounts>>

------------------------------------------------------------------------------
(* The gateway, operators, restarts *)

ThrowawayRunEnds(key) ==
    /\ run[key] = "running"
    /\ run' \in {[run EXCEPT ![key] = "ok"], [run EXCEPT ![key] = "error"]}
    /\ UNCHANGED <<probe, sweep, test, usageWaiters, row, probeCounts>>

\* session.message: its key's waiter takes the first usage it reports.
UsageArrives(key) ==
    /\ run[key] # "none"
    /\ \E w \in WaitersOf(key) : usageWaiters[w] = NoKey /\ usageWaiters' = With(w, key)
    /\ UNCHANGED <<probe, sweep, test, run, row, probeCounts>>

\* PUT /api/work/thinking-levels, the refresh from the seed file, or a deletion.
EditRow ==
    /\ probeTroubles < MaxProbeTroubles /\ probeTroubles' = probeTroubles + 1
    /\ \/ \E levels \in SUBSET DOMAIN Levels : row' = [NoRow EXCEPT !.by = "operator", !.levels = levels]
       \/ row' = NoRow
    /\ UNCHANGED <<probe, sweep, test, run, usageWaiters, probes>>

ProbeRestarts ==
    /\ probeTroubles < MaxProbeTroubles /\ probeTroubles' = probeTroubles + 1
    /\ sweep' = [s \in Sweep |-> NoSweep] /\ test' = NoTest
    /\ usageWaiters' = [k \in {} |-> NoKey]
    /\ probe' = IF Outlives THEN probe ELSE "none"
    /\ UNCHANGED <<run, row, probes>>

SweepStep(s) ==
    \/ AskToProbe(s) \/ FindAgent(s) \/ SendLevel(s) \/ LevelRefused(s) \/ LevelMeasured(s)
    \/ FinishSweep(s)

ProbeNext ==
    \/ \E s \in Sweep : SweepStep(s)
    \/ BeginTest \/ ProvisionProbeAgent \/ SendTest \/ TestAnswers
    \/ \E key \in Key : ThrowawayRunEnds(key) \/ UsageArrives(key)
    \/ EditRow \/ ProbeRestarts

ProbeSpec == ProbeInit /\ [][ProbeNext]_probeVars

------------------------------------------------------------------------------
(* Properties *)

\* What a sweep has the catalogue offer completed when it was run, and the usage
\* quoted as its evidence is that run's own, though sweeps overlap, runs outlive
\* their wait and events come late; a Brain is vouched for only by a run of its
\* test that completed. (probeLevel, classifySample, testAgent)
VouchesForWhatRan ==
    /\ row.by = "sweep" =>
          /\ \A l \in row.levels : \E i \in DOMAIN row.samples :
                row.samples[i].level = l /\ run[row.samples[i].key] = "ok"
          /\ \A i \in DOMAIN row.samples : row.samples[i].usage \in {NoKey, row.samples[i].key}
    /\ test.ok => run[TestKey] = "ok"

\* A second click cannot start a duplicate sweep.  Does not hold: see README.
OneSweepAtATime == \A s, r \in Sweep : {sweep[s].at, sweep[r].at} \cap {"idle", "asked"} = {} => s = r

\* A status that reads running has its sweep.  Does not hold: see README.
RunningIsRun == probe = "running" => \E s \in Sweep : sweep[s].at # "idle"
==============================================================================
