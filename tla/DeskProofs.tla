---------------------------- MODULE DeskProofs -----------------------------
(* Configuration, plans and measurements: a resolution names what stands,   *)
(* the policy is whole when the first request is served, phases run in      *)
(* their order, marks are honest, and a level is offered for a run that     *)
(* completed, for any number of Brains, tasks, items, levels and requests.  *)
(* And, with the invariants of the other parts of MCDesk, the types of all. *)
EXTENDS MCDesk, ApprovalsProofs, CommandDeskProofs, EndGraceProofs, FiniteSetTheorems, TLAPS
LOCAL INSTANCE TaskLifecycle

-----------------------------------------------------------------------------
(* Effort: the sweeps over levels and the connection test *)

\* A level counts for a run that completed, with the usage of no other run.
SampleFits(x, runs) == (x.status = "ok" => runs[x.key] = "ok") /\ x.usage \in {NoKey, x.key}

\* The runs of its later levels have not begun.
SweepFits(s) ==
    /\ \A i \in 1..Len(sweep[s].samples) : SampleFits(sweep[s].samples[i], run)
    /\ sweep[s].at # "idle" => sweep[s].n \in 1..probes
    /\ sweep[s].at = "waiting" => /\ Len(sweep[s].samples) < Len(Levels)
                                  /\ KeyOf(s) \in DOMAIN usageWaiters /\ run[KeyOf(s)] # "none"
    /\ sweep[s].at # "idle" => \A k \in 1..Len(Levels) :
          k > Len(sweep[s].samples) + (IF sweep[s].at = "waiting" THEN 1 ELSE 0)
             => run[<<sweep[s].n, k>>] = "none"

\* Each request has keys of its own.
KeysAreOwn ==
    /\ \A s, r \in Sweep : s # r /\ sweep[s].at # "idle" /\ sweep[r].at # "idle" => sweep[s].n # sweep[r].n
    /\ \A k \in Key : k[1] > probes => run[k] = "none"

WaitersFit == \A k \in DOMAIN usageWaiters : usageWaiters[k] \in {NoKey, k}

RowFits ==
    row.by = "sweep" =>
        /\ \A l \in row.levels : \E i \in 1..Len(row.samples) :
              row.samples[i].level = l /\ row.samples[i].status = "ok"
        /\ \A i \in 1..Len(row.samples) : SampleFits(row.samples[i], run)

TestFits ==
    /\ test.at \in {"provisioning", "ready", "waiting"} => test.n \in 1..probes
    /\ test.at \in {"provisioning", "ready"} => run[TestKey] = "none"
    /\ test.ok => test.at = "over" /\ test.n \in 1..probes /\ run[TestKey] = "ok"

ProbeIInv ==
    /\ ProbeTypeOK /\ (\A s \in Sweep : SweepFits(s))
    /\ KeysAreOwn /\ WaitersFit /\ RowFits /\ TestFits

LEMMA ProbeConstants ==
    /\ Len(Levels) \in Nat /\ MaxProbes \in Nat /\ MaxWaits \in Nat /\ MaxProbeTroubles \in Nat
    /\ DOMAIN Levels = 1..Len(Levels) /\ NoKey \notin Key
<1>1. Levels \in Seq(STRING)
  BY ProbeAssumption
<1>2. MaxProbes \in Nat /\ MaxProbeTroubles \in Nat
  BY ProbeBounds
<1>3. NoKey \notin Key
  BY <1>2 DEF NoKey, Key
<1> QED
  BY <1>1, <1>2, <1>3, ProbeAssumption

LEMMA RestTypes ==
    /\ NoSweep \in SweepState /\ NoTest \in TestState /\ NoRow \in LevelsRow
    /\ NoSweep.samples = <<>> /\ Len(NoSweep.samples) = 0
<1>1. <<>> \in Seq(Sample)
  OBVIOUS
<1> QED
  BY <1>1, ProbeConstants DEF NoSweep, NoTest, NoRow, SweepState, TestState, LevelsRow

LEMMA KeyTypes ==
    ASSUME ProbeTypeOK, NEW n \in 1..probes, NEW k \in 0..Len(Levels)
    PROVE  <<n, k>> \in Key
BY ProbeConstants DEF ProbeTypeOK, Key

LEMMA ProbeStarts == ProbeInit => ProbeIInv
<1> SUFFICES ASSUME ProbeInit PROVE ProbeIInv
  OBVIOUS
<1>1. DOMAIN usageWaiters = {}
  BY DEF ProbeInit
<1>2. usageWaiters \in [DOMAIN usageWaiters -> Key \cup {NoKey}]
  BY DEF ProbeInit
<1>3. ProbeTypeOK
  BY <1>1, <1>2, RestTypes, ProbeConstants DEF ProbeInit, ProbeTypeOK
<1>4. \A s \in Sweep : SweepFits(s)
  BY RestTypes DEF ProbeInit, SweepFits, NoSweep
<1> QED
  BY <1>1, <1>3, <1>4 DEF ProbeInit, ProbeIInv, KeysAreOwn, WaitersFit, RowFits, TestFits, NoSweep, NoTest, NoRow

\* Runs that completed stay so, and nothing else in a sample depends on the runs.
LEMMA RunsGrow ==
    ASSUME NEW x \in Sample, SampleFits(x, run), \A k \in Key : run[k] = "ok" => run'[k] = "ok"
    PROVE  SampleFits(x, run')
BY DEF SampleFits, Sample

LEMMA SamplesStay ==
    ASSUME NEW samples \in Seq(Sample), \A i \in 1..Len(samples) : SampleFits(samples[i], run),
           \A k \in Key : run[k] = "ok" => run'[k] = "ok"
    PROVE  \A i \in 1..Len(samples) : SampleFits(samples[i], run')
<1>1. \A i \in 1..Len(samples) : samples[i] \in Sample
  OBVIOUS
<1> QED
  BY <1>1, RunsGrow

LEMMA RowStays ==
    ASSUME ProbeTypeOK, RowFits, UNCHANGED row, \A k \in Key : run[k] = "ok" => run'[k] = "ok"
    PROVE  RowFits'
<1>1. row.by = "sweep" => \A i \in 1..Len(row.samples) : SampleFits(row.samples[i], run')
  BY SamplesStay DEF RowFits, ProbeTypeOK, LevelsRow
<1> QED
  BY <1>1 DEF RowFits

LEMMA VouchingSuffices == ProbeIInv => VouchesForWhatRan
<1> SUFFICES ASSUME ProbeIInv, row.by = "sweep"
             PROVE  /\ \A l \in row.levels : \E i \in DOMAIN row.samples :
                          row.samples[i].level = l /\ run[row.samples[i].key] = "ok"
                    /\ \A i \in DOMAIN row.samples : row.samples[i].usage \in {NoKey, row.samples[i].key}
  BY DEF ProbeIInv, TestFits, VouchesForWhatRan
<1>1. DOMAIN row.samples = 1..Len(row.samples)
  BY DEF ProbeIInv, ProbeTypeOK, LevelsRow
<1> QED
  BY <1>1 DEF ProbeIInv, RowFits, SampleFits

\* A sweep that is left alone, while its own runs stay as they are or end.
LEMMA SweepStays ==
    ASSUME ProbeTypeOK, NEW r \in Sweep, SweepFits(r), sweep'[r] = sweep[r],
           probes' \in Nat, probes <= probes',
           \A k \in Key : run[k] = "ok" => run'[k] = "ok",
           sweep[r].at # "idle" => 
              \A k \in Key : k[1] = sweep[r].n /\ k[2] # 0 => (run[k] = "none" <=> run'[k] = "none"),
           sweep[r].at = "waiting" => KeyOf(r) \in DOMAIN usageWaiters'
    PROVE  SweepFits(r)'
<1>1. sweep[r].samples \in Seq(Sample) /\ probes \in Nat
  BY ProbeConstants DEF ProbeTypeOK, SweepState
<1>2. \A i \in 1..Len(sweep[r].samples) : SampleFits(sweep[r].samples[i], run')
  <2>1. \A i \in 1..Len(sweep[r].samples) : SampleFits(sweep[r].samples[i], run)
    BY DEF SweepFits
  <2> QED
    BY <1>1, <2>1, SamplesStay
<1>3. ASSUME sweep[r].at # "idle", NEW k \in 0..Len(Levels) PROVE <<sweep[r].n, k>> \in Key
  BY <1>3, KeyTypes DEF SweepFits
<1>4. ASSUME sweep[r].at = "waiting"
      PROVE  /\ Len(sweep[r].samples) < Len(Levels)
             /\ KeyOf(r)' \in DOMAIN usageWaiters' /\ run'[KeyOf(r)'] # "none"
  <2>1. KeyOf(r)' = KeyOf(r) /\ KeyOf(r) = <<sweep[r].n, Len(sweep[r].samples) + 1>>
    BY DEF KeyOf
  <2>2. Len(sweep[r].samples) \in Nat /\ Len(sweep[r].samples) < Len(Levels)
    BY <1>1, <1>4 DEF SweepFits
  <2>3. Len(sweep[r].samples) + 1 \in 0..Len(Levels) /\ Len(sweep[r].samples) + 1 # 0
    BY <2>2, ProbeConstants
  <2>4. KeyOf(r) \in Key /\ KeyOf(r)[1] = sweep[r].n /\ KeyOf(r)[2] # 0
    BY <1>3, <1>4, <2>1, <2>3
  <2> QED
    BY <1>4, <2>1, <2>2, <2>4 DEF SweepFits
<1>5. ASSUME sweep[r].at # "idle"
      PROVE  \A k \in 1..Len(Levels) :
                k > Len(sweep[r].samples) + (IF sweep[r].at = "waiting" THEN 1 ELSE 0)
                   => run'[<<sweep[r].n, k>>] = "none"
  <2> SUFFICES ASSUME NEW k \in 1..Len(Levels),
                      k > Len(sweep[r].samples) + (IF sweep[r].at = "waiting" THEN 1 ELSE 0)
               PROVE  run'[<<sweep[r].n, k>>] = "none"
    OBVIOUS
  <2>1. run[<<sweep[r].n, k>>] = "none"
    BY <1>5 DEF SweepFits
  <2>2. k \in 0..Len(Levels) /\ k # 0
    BY ProbeConstants
  <2>3. <<sweep[r].n, k>> \in Key /\ <<sweep[r].n, k>>[1] = sweep[r].n /\ <<sweep[r].n, k>>[2] # 0
    BY <1>3, <1>5, <2>2
  <2> QED
    BY <1>5, <2>1, <2>3
<1>6. sweep[r].at # "idle" => sweep[r].n \in 1..probes'
  BY <1>1 DEF SweepFits
<1> QED
  BY <1>2, <1>4, <1>5, <1>6 DEF SweepFits

LEMMA SweepsStay ==
    ASSUME ProbeIInv, UNCHANGED <<sweep, probes>>, DOMAIN usageWaiters \subseteq DOMAIN usageWaiters',
           \A k \in Key : run[k] = "ok" => run'[k] = "ok",
           \A k \in Key : k[2] # 0 => (run[k] = "none" <=> run'[k] = "none")
    PROVE  \A s \in Sweep : SweepFits(s)'
<1> SUFFICES ASSUME NEW s \in Sweep PROVE SweepFits(s)'
  OBVIOUS
<1>1. SweepFits(s) /\ ProbeTypeOK /\ sweep'[s] = sweep[s]
  BY DEF ProbeIInv
<1>2. probes' \in Nat /\ probes <= probes'
  BY ProbeConstants DEF ProbeIInv, ProbeTypeOK
<1>3. sweep[s].at = "waiting" => KeyOf(s) \in DOMAIN usageWaiters'
  BY <1>1 DEF SweepFits
<1> HIDE DEF ProbeIInv
<1> QED
  BY <1>1, <1>2, <1>3, SweepStays

\* Requests for a sweep or a test take the next number, whose runs have not begun.
LEMMA AskingKeeps ==
    ASSUME ProbeIInv, (\E s \in Sweep : AskToProbe(s)) \/ BeginTest
    PROVE  ProbeIInv'
<1> USE DEF probeCounts
<1>1. probes \in 0..MaxProbes /\ probes < MaxProbes /\ probes' = probes + 1
  BY DEF ProbeIInv, ProbeTypeOK, AskToProbe, BeginTest
<1>2. probes' \in 1..MaxProbes /\ probes' \in Nat /\ probes <= probes' /\ probes' \in 1..probes'
  BY <1>1, ProbeConstants
<1>3. UNCHANGED <<run, row, usageWaiters, probeTroubles>>
  BY DEF AskToProbe, BeginTest
<1>4. \A k \in Key : k[1] > probes' => run'[k] = "none"
  BY <1>1, <1>3, ProbeConstants DEF ProbeIInv, KeysAreOwn, Key
<1>5. \A k \in 0..Len(Levels) : <<probes', k>> \in Key /\ run[<<probes', k>>] = "none"
  BY <1>1, <1>2, ProbeConstants DEF ProbeIInv, KeysAreOwn, Key
<1>6. RowFits' /\ WaitersFit'
  BY <1>3, RowStays DEF ProbeIInv, WaitersFit
<1>7. ASSUME NEW s \in Sweep, AskToProbe(s) PROVE ProbeIInv'
  <2>1. sweep' = [sweep EXCEPT ![s] = [NoSweep EXCEPT !.at = "asked", !.n = probes']] /\ UNCHANGED <<test, probe>>
    BY <1>1, <1>7 DEF AskToProbe
  <2> DEFINE new == [NoSweep EXCEPT !.at = "asked", !.n = probes']
  <2>2. new \in SweepState /\ new.at = "asked" /\ new.n = probes' /\ new.samples = <<>>
    <3>1. NoSweep \in SweepState /\ NoSweep.samples = <<>> /\ probes' \in 0..MaxProbes
      BY <1>2, RestTypes, ProbeConstants
    <3> QED
      BY <3>1 DEF SweepState
  <2>3. sweep'[s] = new /\ \A r \in Sweep \ {s} : sweep'[r] = sweep[r]
    BY <2>1 DEF ProbeIInv, ProbeTypeOK
  <2>4. ProbeTypeOK'
    BY <1>2, <1>3, <2>1, <2>2, <2>3, ProbeConstants, RestTypes DEF ProbeIInv, ProbeTypeOK, NoSweep
  <2>5. SweepFits(s)'
    BY <1>2, <1>3, <1>5, <2>2, <2>3, ProbeConstants DEF SweepFits
  <2>6. ASSUME NEW r \in Sweep \ {s} PROVE SweepFits(r)'
    BY <1>2, <1>3, <2>3, SweepStays DEF ProbeIInv, SweepFits
  <2>7. KeysAreOwn'
    <3>1. ASSUME NEW r \in Sweep \ {s}, sweep[r].at # "idle" PROVE sweep'[r].n # sweep'[s].n
      <4>1. sweep[r].n \in 1..probes /\ sweep'[r].n = sweep[r].n /\ sweep'[s].n = probes + 1
        BY <1>1, <2>2, <2>3, <3>1 DEF ProbeIInv, SweepFits
      <4> QED
        BY <1>1, <4>1
    <3>2. ASSUME NEW q \in Sweep, NEW r \in Sweep, q # r, sweep'[q].at # "idle", sweep'[r].at # "idle"
          PROVE  sweep'[q].n # sweep'[r].n
      <4> HIDE DEF new
      <4>1. CASE q = s \/ r = s
        BY <2>3, <3>1, <3>2, <4>1
      <4>2. CASE q # s /\ r # s
        BY <2>3, <3>2, <4>2 DEF ProbeIInv, KeysAreOwn
      <4> QED
        BY <4>1, <4>2
    <3> QED
      BY <1>4, <3>2 DEF KeysAreOwn
  <2>8. TestFits'
    BY <1>1, <1>3, <2>1 DEF ProbeIInv, TestFits, TestKey
  <2> QED
    BY <1>6, <2>4, <2>5, <2>6, <2>7, <2>8 DEF ProbeIInv
<1>8. CASE BeginTest
  <2>1. PICK at \in {"ready", "provisioning"} : test' = [NoTest EXCEPT !.at = at, !.n = probes']
    BY <1>1, <1>8 DEF BeginTest
  <2>2. test' \in TestState /\ test'.at = at /\ test'.n = probes' /\ ~test'.ok
    <3>1. NoTest \in TestState /\ ~NoTest.ok /\ probes' \in 0..MaxProbes
      BY <1>2, RestTypes, ProbeConstants DEF NoTest
    <3> QED
      BY <2>1, <3>1 DEF TestState
  <2>3. UNCHANGED <<sweep, probe>>
    BY <1>8 DEF BeginTest
  <2>4. ProbeTypeOK'
    BY <1>2, <1>3, <2>2, <2>3 DEF ProbeIInv, ProbeTypeOK
  <2>5. ASSUME NEW r \in Sweep PROVE SweepFits(r)'
    BY <1>2, <1>3, <2>3, SweepStays DEF ProbeIInv, SweepFits
  <2>6. KeysAreOwn'
    BY <1>4, <2>3 DEF ProbeIInv, KeysAreOwn
  <2>7. 0 \in 0..Len(Levels)
    BY ProbeConstants
  <2>8. TestFits'
    BY <1>2, <1>3, <1>5, <2>2, <2>7 DEF TestFits, TestKey
  <2> QED
    BY <1>6, <2>4, <2>5, <2>6, <2>8 DEF ProbeIInv
<1> QED
  BY <1>7, <1>8

\* A step of sweep s in which no waiter is another's and no run another's.
LEMMA SweepMoves ==
    ASSUME ProbeIInv, NEW s \in Sweep, sweep[s].at # "idle", UNCHANGED <<test, probes>>,
           NEW r \in SweepState, sweep' = [sweep EXCEPT ![s] = r],
           r.at # "idle" => r.n = sweep[s].n,
           probe' \in {"none", "running", "over"}, probeTroubles' \in 0..MaxProbeTroubles,
           run' \in [Key -> {"none", "running", "ok", "error"}],
           DOMAIN usageWaiters' \subseteq Key, usageWaiters' \in [DOMAIN usageWaiters' -> Key \cup {NoKey}],
           WaitersFit', row' \in LevelsRow, RowFits', SweepFits(s)', Len(r.samples) <= Len(Levels),
           \A k \in Key : run[k] = "ok" => run'[k] = "ok",
           \A k \in Key : k # KeyOf(s) => run'[k] = run[k] /\ (k \in DOMAIN usageWaiters <=> k \in DOMAIN usageWaiters')
    PROVE  ProbeIInv'
<1>0. probes \in Nat /\ probes \in 0..MaxProbes
  BY ProbeConstants DEF ProbeIInv, ProbeTypeOK
<1>1. sweep'[s] = r /\ \A q \in Sweep \ {s} : sweep'[q] = sweep[q]
  BY DEF ProbeIInv, ProbeTypeOK
<1>2. ProbeTypeOK'
  BY <1>1 DEF ProbeIInv, ProbeTypeOK
<1>3. KeyOf(s)[1] = sweep[s].n /\ sweep[s].n \in 1..probes /\ KeyOf(s)[2] = Len(sweep[s].samples) + 1
  BY DEF ProbeIInv, SweepFits, KeyOf
<1>4. KeyOf(s)[2] # 0
  BY <1>3 DEF ProbeIInv, ProbeTypeOK, SweepState
<1>5. ASSUME NEW q \in Sweep \ {s} PROVE SweepFits(q)'
  <2>1. sweep[q].at # "idle" => sweep[q].n # KeyOf(s)[1]
    BY <1>3 DEF ProbeIInv, KeysAreOwn
  <2>2. sweep[q].at # "idle" => \A k \in Key : k[1] = sweep[q].n => run'[k] = run[k]
    BY <2>1
  <2>3. sweep[q].at = "waiting" => KeyOf(q) \in DOMAIN usageWaiters'
    <3>1. KeyOf(q)[1] = sweep[q].n
      BY DEF KeyOf
    <3> QED
      BY <2>1, <3>1 DEF ProbeIInv, ProbeTypeOK, SweepFits
  <2> QED
    BY <1>0, <1>1, <2>2, <2>3, SweepStays DEF ProbeIInv
<1>6. KeysAreOwn'
  <2>1. \A k \in Key : k[1] > probes => k # KeyOf(s)
    BY <1>0, <1>3
  <2>2. \A k \in Key : k[1] > probes => run'[k] = "none"
    BY <2>1 DEF ProbeIInv, KeysAreOwn
  <2>3. ASSUME NEW p \in Sweep, NEW q \in Sweep, p # q, sweep'[p].at # "idle", sweep'[q].at # "idle"
        PROVE  sweep'[p].n # sweep'[q].n
    BY <1>1, <2>3 DEF ProbeIInv, KeysAreOwn
  <2> QED
    BY <2>2, <2>3 DEF KeysAreOwn
<1>7. TestFits'
  <2>1. TestKey' = TestKey /\ TestKey # KeyOf(s)
    BY <1>4 DEF TestKey
  <2>2. test.at \in {"provisioning", "ready"} \/ test.ok => TestKey \in Key
    <3>1. test.at \in {"provisioning", "ready"} \/ test.ok => test.n \in 1..probes
      BY DEF ProbeIInv, TestFits
    <3>2. 0 \in 0..Len(Levels)
      BY ProbeConstants
    <3> QED
      BY <3>1, <3>2, KeyTypes DEF TestKey, ProbeIInv
  <2> QED
    BY <2>1, <2>2 DEF ProbeIInv, TestFits
<1> QED
  BY <1>1, <1>2, <1>5, <1>6, <1>7 DEF ProbeIInv

LEMMA FindAgentKeeps ==
    ASSUME ProbeIInv, NEW s \in Sweep, FindAgent(s)
    PROVE  ProbeIInv'
<1>1. UNCHANGED <<test, run, usageWaiters, row, probes, probeTroubles>>
  BY DEF FindAgent, probeCounts
<1>2. sweep[s].at = "asked" /\ sweep[s] \in SweepState /\ SweepFits(s) /\ probeTroubles \in 0..MaxProbeTroubles
  BY DEF FindAgent, ProbeIInv, ProbeTypeOK
<1>3. RowFits' /\ WaitersFit'
  BY <1>1, RowStays DEF ProbeIInv, WaitersFit
<1>4. CASE probe' = "running" /\ sweep' = [sweep EXCEPT ![s].at = "next"]
  <2> DEFINE r == [sweep[s] EXCEPT !.at = "next"]
  <2>1. r \in SweepState /\ r.at = "next" /\ r.n = sweep[s].n /\ r.samples = sweep[s].samples
    BY <1>2 DEF SweepState
  <2>2. sweep' = [sweep EXCEPT ![s] = r] /\ sweep'[s] = r
    BY <1>4 DEF ProbeIInv, ProbeTypeOK
  <2>3. SweepFits(s)'
    <3>1. sweep[s].samples \in Seq(Sample)
      BY <1>2 DEF SweepState
    <3> HIDE DEF r
    <3> QED
      BY <1>1, <1>2, <2>1, <2>2, <3>1 DEF SweepFits, SampleFits
  <2> QED
    BY <1>1, <1>2, <1>3, <1>4, <2>1, <2>2, <2>3, SweepMoves DEF ProbeIInv, ProbeTypeOK
<1>5. CASE probe' = "over" /\ sweep' = [sweep EXCEPT ![s] = NoSweep]
  <2>1. sweep'[s] = NoSweep /\ NoSweep.at = "idle" /\ NoSweep \in SweepState /\ Len(NoSweep.samples) = 0
    BY <1>5, RestTypes DEF ProbeIInv, ProbeTypeOK, NoSweep
  <2>2. SweepFits(s)'
    BY <2>1 DEF SweepFits
  <2>3. /\ run' \in [Key -> {"none", "running", "ok", "error"}] /\ row' \in LevelsRow
        /\ DOMAIN usageWaiters' \subseteq Key /\ usageWaiters' \in [DOMAIN usageWaiters' -> Key \cup {NoKey}]
    BY <1>1 DEF ProbeIInv, ProbeTypeOK
  <2>4. Len(NoSweep.samples) <= Len(Levels) /\ probe' = "over" /\ sweep[s].at # "idle"
    BY <1>2, <1>5, <2>1, ProbeConstants
  <2> HIDE DEF ProbeIInv
  <2> QED
    BY <1>1, <1>2, <1>3, <1>5, <2>1, <2>2, <2>3, <2>4, SweepMoves
<1> QED
  BY <1>4, <1>5 DEF FindAgent

\* One more sample that fits, saved or not.
LEMMA SaveLevelKeeps ==
    ASSUME ProbeIInv, NEW s \in Sweep, sweep[s].at \in {"next", "waiting"}, Len(sweep[s].samples) < Len(Levels),
           NEW result \in {"ok", "error", "unknown"}, NEW usage \in {NoKey, KeyOf(s)},
           result = "ok" => run'[KeyOf(s)] = "ok",
           SaveLevel(s, result, usage), run' \in [Key -> {"none", "running", "ok", "error"}],
           \A k \in Key : run[k] = "ok" => run'[k] = "ok",
           \A k \in Key : k # KeyOf(s) => run'[k] = run[k] /\ (k \in DOMAIN usageWaiters <=> k \in DOMAIN usageWaiters'),
           DOMAIN usageWaiters' \subseteq Key, usageWaiters' \in [DOMAIN usageWaiters' -> Key \cup {NoKey}],
           WaitersFit'
    PROVE  ProbeIInv'
<1>1. PICK n \in Nat : n = Len(sweep[s].samples)
  BY DEF ProbeIInv, ProbeTypeOK, SweepState
<1>2. PICK key : key = KeyOf(s)
  OBVIOUS
<1>3. /\ sweep[s] \in SweepState /\ sweep[s].samples \in Seq(Sample)
      /\ sweep[s].n \in 1..probes /\ SweepFits(s)
  BY DEF ProbeIInv, ProbeTypeOK, SweepState, SweepFits
<1>4. n + 1 \in 1..Len(Levels) /\ n + 1 \in 0..Len(Levels) /\ key = <<sweep[s].n, n + 1>>
  BY <1>1, <1>2, ProbeConstants DEF KeyOf
<1>5. key \in Key
  BY <1>3, <1>4, KeyTypes DEF ProbeIInv
<1> DEFINE x == [level |-> n + 1, key |-> key, status |-> result, usage |-> usage]
<1>6. x \in Sample /\ SampleFits(x, run')
  BY <1>2, <1>4, <1>5, ProbeConstants DEF Sample, SampleFits
<1>7. PICK samples : samples = Append(sweep[s].samples, x)
  OBVIOUS
<1>8. /\ samples \in Seq(Sample) /\ Len(samples) = n + 1 /\ samples[n + 1] = x
      /\ \A i \in 1..n : samples[i] = sweep[s].samples[i]
  <2> HIDE DEF x
  <2> QED
    BY <1>1, <1>3, <1>6, <1>7
<1>9. \A i \in 1..Len(samples) : SampleFits(samples[i], run')
  <2>1. \A i \in 1..n : SampleFits(sweep[s].samples[i], run)
    BY <1>1, <1>3 DEF SweepFits
  <2>2. \A i \in 1..n : SampleFits(sweep[s].samples[i], run')
    BY <1>1, <1>3, <2>1, SamplesStay
  <2>3. \A i \in 1..(n + 1) : i = n + 1 \/ i \in 1..n
    OBVIOUS
  <2> HIDE DEF x
  <2> QED
    BY <1>6, <1>8, <2>2, <2>3
<1>10. Entry(samples) \in LevelsRow /\ (row' = Entry(samples) => RowFits')
  <2>1. DOMAIN samples = 1..Len(samples) /\ \A i \in DOMAIN samples : samples[i] \in Sample
    BY <1>8
  <2>2. \A i \in DOMAIN samples : samples[i].level \in DOMAIN Levels
    BY <2>1 DEF Sample
  <2>3. Entry(samples) \in LevelsRow
    BY <1>8, <2>2 DEF Entry, LevelsRow
  <2>4. /\ Entry(samples).samples = samples
        /\ \A l \in Entry(samples).levels : \E i \in DOMAIN samples : samples[i].level = l /\ samples[i].status = "ok"
    BY DEF Entry, Completed
  <2> QED
    BY <1>9, <2>1, <2>3, <2>4 DEF RowFits
<1>11. /\ Save(Entry(samples)) /\ probe' = "running" /\ UNCHANGED <<test, probes>>
       /\ sweep' = [sweep EXCEPT ![s].at = IF Len(samples) = Len(Levels) THEN "finishing" ELSE "next",
                                 ![s].samples = samples]
  BY <1>1, <1>2, <1>7 DEF SaveLevel
<1>12. row' \in LevelsRow /\ RowFits' /\ probeTroubles' \in 0..MaxProbeTroubles
  <2>3. probeTroubles \in 0..MaxProbeTroubles /\ row \in LevelsRow
    BY DEF ProbeIInv, ProbeTypeOK
  <2>4. probeTroubles' \in 0..MaxProbeTroubles /\ (row' = Entry(samples) \/ row' = row)
    BY <1>11, <2>3, ProbeConstants DEF Save
  <2>5. row' = row => RowFits'
    BY RowStays DEF ProbeIInv
  <2> QED
    BY <1>10, <2>3, <2>4, <2>5
<1>13. PICK r \in SweepState : /\ r.samples = samples /\ r.n = sweep[s].n /\ r.at \in {"next", "finishing"}
                              /\ sweep' = [sweep EXCEPT ![s] = r]
  <2> DEFINE q == [sweep[s] EXCEPT !.at = IF Len(samples) = Len(Levels) THEN "finishing" ELSE "next",
                                   !.samples = samples]
  <2>1. q \in SweepState /\ q.samples = samples /\ q.n = sweep[s].n /\ q.at \in {"next", "finishing"}
    BY <1>3, <1>8 DEF SweepState
  <2>2. sweep' = [sweep EXCEPT ![s] = q]
    BY <1>11 DEF ProbeIInv, ProbeTypeOK
  <2> QED
    BY <2>1, <2>2
<1>14. sweep'[s] = r
  BY <1>13 DEF ProbeIInv, ProbeTypeOK
<1>15. ASSUME NEW k \in 1..Len(Levels), k > n + 1 PROVE run'[<<sweep[s].n, k>>] = "none"
  <2>1. k \in 0..Len(Levels) /\ k # n + 1
    BY <1>15, ProbeConstants
  <2>2. <<sweep[s].n, k>> \in Key /\ <<sweep[s].n, k>> # key
    BY <1>3, <1>4, <2>1, KeyTypes DEF ProbeIInv
  <2>3. k > Len(sweep[s].samples) + (IF sweep[s].at = "waiting" THEN 1 ELSE 0)
    <3>1. k > n + 0 /\ k > n + 1
      BY <1>15, ProbeConstants
    <3>2. CASE sweep[s].at = "waiting"
      BY <1>1, <3>1, <3>2
    <3>3. CASE sweep[s].at # "waiting"
      BY <1>1, <3>1, <3>3
    <3> QED
      BY <3>2, <3>3
  <2>4. run[<<sweep[s].n, k>>] = "none"
    BY <1>3, <2>3 DEF SweepFits
  <2> QED
    BY <1>2, <2>2, <2>4
<1>16. SweepFits(s)'
  <2>1. \A i \in 1..Len(sweep'[s].samples) : SampleFits(sweep'[s].samples[i], run')
    BY <1>9, <1>13, <1>14
  <2>2. sweep'[s].n \in 1..probes' /\ sweep'[s].at # "waiting"
    BY <1>3, <1>11, <1>13, <1>14
  <2>3. Len(sweep'[s].samples) = n + 1
    BY <1>8, <1>13, <1>14
  <2>4. \A k \in 1..Len(Levels) : k > Len(sweep'[s].samples) + 0 => run'[<<sweep'[s].n, k>>] = "none"
    BY <1>13, <1>14, <1>15, <2>3
  <2> QED
    BY <2>1, <2>2, <2>4 DEF SweepFits
<1>17. Len(r.samples) <= Len(Levels) /\ sweep[s].at # "idle" /\ probe' \in {"none", "running", "over"}
  BY <1>4, <1>8, <1>11, <1>13, ProbeConstants
<1> HIDE DEF ProbeIInv
<1> QED
  BY <1>11, <1>12, <1>13, <1>16, <1>17, SweepMoves

LEMMA SendLevelKeeps ==
    ASSUME ProbeIInv, NEW s \in Sweep, SendLevel(s)
    PROVE  ProbeIInv'
<1>1. PICK n \in Nat : n = Len(sweep[s].samples)
  BY DEF ProbeIInv, ProbeTypeOK, SweepState
<1>2. PICK key : key = KeyOf(s)
  OBVIOUS
<1>3. /\ sweep[s] \in SweepState /\ sweep[s].samples \in Seq(Sample) /\ sweep[s].at = "next"
      /\ sweep[s].n \in 1..probes /\ SweepFits(s) /\ n < Len(Levels)
  BY <1>1 DEF ProbeIInv, ProbeTypeOK, SweepState, SweepFits, SendLevel
<1>4. n + 1 \in 1..Len(Levels) /\ n + 1 \in 0..Len(Levels) /\ key = <<sweep[s].n, n + 1>>
  BY <1>1, <1>2, <1>3, ProbeConstants DEF KeyOf
<1>5. key \in Key
  BY <1>3, <1>4, KeyTypes DEF ProbeIInv
<1>6. /\ UNCHANGED <<probe, test, row, probes, probeTroubles>> /\ run' = [run EXCEPT ![key] = "running"]
      /\ usageWaiters' = With(key, NoKey) /\ sweep' = [sweep EXCEPT ![s].at = "waiting"]
  BY <1>2 DEF SendLevel, probeCounts
<1>7. run[key] = "none"
  <2>1. n + 1 > n + 0
    OBVIOUS
  <2> QED
    BY <1>1, <1>3, <1>4, <2>1 DEF SweepFits
<1>8. /\ run' \in [Key -> {"none", "running", "ok", "error"}]
      /\ \A k \in Key : k # key => run'[k] = run[k]
      /\ run'[key] = "running"
  BY <1>5, <1>6 DEF ProbeIInv, ProbeTypeOK
<1>9. \A k \in Key : run[k] = "ok" => run'[k] = "ok"
  BY <1>7, <1>8
<1>10. DOMAIN usageWaiters' = DOMAIN usageWaiters \cup {key}
  BY <1>6 DEF With
<1>11. /\ DOMAIN usageWaiters' \subseteq Key /\ WaitersFit'
       /\ usageWaiters' \in [DOMAIN usageWaiters' -> Key \cup {NoKey}]
  BY <1>5, <1>6 DEF With, ProbeIInv, ProbeTypeOK, WaitersFit
<1>12. RowFits' /\ row' \in LevelsRow /\ probe' \in {"none", "running", "over"}
       /\ probeTroubles' \in 0..MaxProbeTroubles
  BY <1>6, <1>9, RowStays DEF ProbeIInv, ProbeTypeOK
<1>13. PICK r \in SweepState : /\ r.samples = sweep[s].samples /\ r.n = sweep[s].n /\ r.at = "waiting"
                              /\ sweep' = [sweep EXCEPT ![s] = r]
  <2> DEFINE q == [sweep[s] EXCEPT !.at = "waiting"]
  <2>1. q \in SweepState /\ q.samples = sweep[s].samples /\ q.n = sweep[s].n /\ q.at = "waiting"
    BY <1>3 DEF SweepState
  <2>2. sweep' = [sweep EXCEPT ![s] = q]
    BY <1>6
  <2> QED
    BY <2>1, <2>2
<1>14. sweep'[s] = r
  BY <1>13 DEF ProbeIInv, ProbeTypeOK
<1>15. ASSUME NEW k \in 1..Len(Levels), k > n + 1 PROVE run'[<<sweep[s].n, k>>] = "none"
  <2>1. k \in 0..Len(Levels) /\ k # n + 1 /\ k > n + 0
    BY <1>15, ProbeConstants
  <2>2. <<sweep[s].n, k>> \in Key /\ <<sweep[s].n, k>> # key
    BY <1>3, <1>4, <2>1, KeyTypes DEF ProbeIInv
  <2>3. run[<<sweep[s].n, k>>] = "none"
    BY <1>1, <1>3, <2>1 DEF SweepFits
  <2> QED
    BY <1>8, <2>2, <2>3
<1>16. SweepFits(s)'
  <2>1. \A i \in 1..n : SampleFits(sweep[s].samples[i], run')
    BY <1>1, <1>3, <1>9, SamplesStay DEF SweepFits
  <2>2. KeyOf(s)' = key /\ Len(sweep'[s].samples) = n
    BY <1>1, <1>4, <1>13, <1>14 DEF KeyOf
  <2>3. \A k \in 1..Len(Levels) :
          k > Len(sweep'[s].samples) + (IF sweep'[s].at = "waiting" THEN 1 ELSE 0)
             => run'[<<sweep'[s].n, k>>] = "none"
    BY <1>13, <1>14, <1>15, <2>2
  <2>4. sweep'[s].n \in 1..probes' /\ sweep'[s].samples = sweep[s].samples
    BY <1>3, <1>6, <1>13, <1>14
  <2> QED
    BY <1>1, <1>3, <1>8, <1>10, <2>1, <2>2, <2>3, <2>4 DEF SweepFits
<1>17. \A k \in Key : k # KeyOf(s) => run'[k] = run[k] /\ (k \in DOMAIN usageWaiters <=> k \in DOMAIN usageWaiters')
  BY <1>2, <1>8, <1>10
<1>18. Len(r.samples) <= Len(Levels) /\ sweep[s].at # "idle"
  BY <1>1, <1>3, <1>13, ProbeConstants
<1> HIDE DEF ProbeIInv
<1> QED
  BY <1>6, <1>8, <1>9, <1>11, <1>12, <1>13, <1>16, <1>17, <1>18, SweepMoves

LEMMA LevelRefusedKeeps ==
    ASSUME ProbeIInv, NEW s \in Sweep, LevelRefused(s)
    PROVE  ProbeIInv'
<1>1. SaveLevel(s, "unknown", NoKey) /\ UNCHANGED <<run, usageWaiters>>
  BY DEF LevelRefused
<1>2. sweep[s].at = "next" /\ Len(sweep[s].samples) < Len(Levels)
  BY DEF LevelRefused
<1>3. /\ run' \in [Key -> {"none", "running", "ok", "error"}] /\ WaitersFit'
      /\ DOMAIN usageWaiters' \subseteq Key /\ usageWaiters' \in [DOMAIN usageWaiters' -> Key \cup {NoKey}]
  BY <1>1 DEF ProbeIInv, ProbeTypeOK, WaitersFit
<1> HIDE DEF ProbeIInv
<1> QED
  BY <1>1, <1>2, <1>3, SaveLevelKeeps

LEMMA LevelMeasuredKeeps ==
    ASSUME ProbeIInv, NEW s \in Sweep, LevelMeasured(s)
    PROVE  ProbeIInv'
<1>1. PICK key : key = KeyOf(s)
  OBVIOUS
<1>2. /\ sweep[s].at = "waiting" /\ Len(sweep[s].samples) < Len(Levels)
      /\ key \in DOMAIN usageWaiters /\ run[key] # "none"
  BY <1>1 DEF LevelMeasured, ProbeIInv, SweepFits
<1>3. key \in Key /\ usageWaiters[key] \in {NoKey, key}
  BY <1>2 DEF ProbeIInv, ProbeTypeOK, WaitersFit
<1>4. usageWaiters' = Without(key) /\ run' = [run EXCEPT ![key] = IF @ = "running" THEN "error" ELSE @]
  BY <1>1 DEF LevelMeasured
<1>5. /\ run' \in [Key -> {"none", "running", "ok", "error"}]
      /\ \A k \in Key : k # key => run'[k] = run[k]
      /\ run'[key] = IF run[key] = "running" THEN "error" ELSE run[key]
  BY <1>3, <1>4 DEF ProbeIInv, ProbeTypeOK
<1>6. \A k \in Key : run[k] = "ok" => run'[k] = "ok"
  BY <1>5
<1>7. DOMAIN usageWaiters' = DOMAIN usageWaiters \ {key}
  BY <1>4 DEF Without
<1>8. /\ WaitersFit' /\ DOMAIN usageWaiters' \subseteq Key
      /\ usageWaiters' \in [DOMAIN usageWaiters' -> Key \cup {NoKey}]
  BY <1>4 DEF Without, ProbeIInv, ProbeTypeOK, WaitersFit
<1>9. PICK result \in {"ok", "error", "unknown"}, usage \in {NoKey, KeyOf(s)} :
         SaveLevel(s, result, usage) /\ (result = "ok" => run[key] = "ok")
  <2>1. CASE SaveLevel(s, "unknown", NoKey)
    BY <2>1
  <2>2. CASE \E result \in {"unknown", run[KeyOf(s)]} \ {"running"} :
                SaveLevel(s, result, usageWaiters[KeyOf(s)])
    <3>1. PICK result \in {"unknown", run[key]} \ {"running"} : SaveLevel(s, result, usageWaiters[KeyOf(s)])
      BY <1>1, <2>2
    <3>2. result \in {"ok", "error", "unknown"} /\ (result = "ok" => run[key] = "ok")
      BY <1>2, <1>3, <3>1 DEF ProbeIInv, ProbeTypeOK
    <3> QED
      BY <1>1, <1>3, <3>1, <3>2
  <2> QED
    BY <2>1, <2>2 DEF LevelMeasured
<1>10. result = "ok" => run'[KeyOf(s)] = "ok"
  BY <1>1, <1>5, <1>9
<1>11. \A k \in Key : k # KeyOf(s) => run'[k] = run[k] /\ (k \in DOMAIN usageWaiters <=> k \in DOMAIN usageWaiters')
  BY <1>1, <1>5, <1>7
<1> HIDE DEF ProbeIInv
<1> QED
  BY <1>2, <1>5, <1>6, <1>8, <1>9, <1>10, <1>11, SaveLevelKeeps

LEMMA FinishSweepKeeps ==
    ASSUME ProbeIInv, NEW s \in Sweep, FinishSweep(s)
    PROVE  ProbeIInv'
<1>1. PICK samples : samples = sweep[s].samples
  OBVIOUS
<1>2. /\ Save(Entry(samples)) /\ probe' = "over" /\ sweep[s].at = "finishing"
      /\ sweep' = [sweep EXCEPT ![s] = NoSweep] /\ UNCHANGED <<test, run, usageWaiters, probes>>
  BY <1>1 DEF FinishSweep
<1>3. samples \in Seq(Sample) /\ \A i \in 1..Len(samples) : SampleFits(samples[i], run)
  BY <1>1 DEF ProbeIInv, ProbeTypeOK, SweepState, SweepFits
<1>4. Entry(samples) \in LevelsRow /\ (row' = Entry(samples) => RowFits')
  <2>1. DOMAIN samples = 1..Len(samples) /\ \A i \in DOMAIN samples : samples[i] \in Sample
    BY <1>3
  <2>2. \A i \in DOMAIN samples : samples[i].level \in DOMAIN Levels
    BY <2>1 DEF Sample
  <2>3. Entry(samples) \in LevelsRow
    BY <1>3, <2>2 DEF Entry, LevelsRow
  <2>4. /\ Entry(samples).samples = samples
        /\ \A l \in Entry(samples).levels : \E i \in DOMAIN samples : samples[i].level = l /\ samples[i].status = "ok"
    BY DEF Entry, Completed
  <2> QED
    BY <1>2, <1>3, <2>1, <2>3, <2>4 DEF RowFits
<1>5. row' \in LevelsRow /\ RowFits' /\ probeTroubles' \in 0..MaxProbeTroubles
  <2>1. probeTroubles \in 0..MaxProbeTroubles /\ row \in LevelsRow
    BY DEF ProbeIInv, ProbeTypeOK
  <2>2. probeTroubles' \in 0..MaxProbeTroubles /\ (row' = Entry(samples) \/ row' = row)
    BY <1>2, <2>1, ProbeConstants DEF Save
  <2>3. row' = row => RowFits'
    BY <1>2, RowStays DEF ProbeIInv
  <2> QED
    BY <1>4, <2>1, <2>2, <2>3
<1>6. sweep'[s] = NoSweep /\ NoSweep.at = "idle" /\ NoSweep \in SweepState /\ Len(NoSweep.samples) = 0
  BY <1>2, RestTypes DEF ProbeIInv, ProbeTypeOK, NoSweep
<1>7. SweepFits(s)'
  BY <1>6 DEF SweepFits
<1>8. /\ run' \in [Key -> {"none", "running", "ok", "error"}] /\ WaitersFit'
      /\ DOMAIN usageWaiters' \subseteq Key /\ usageWaiters' \in [DOMAIN usageWaiters' -> Key \cup {NoKey}]
  BY <1>2 DEF ProbeIInv, ProbeTypeOK, WaitersFit
<1>9. Len(NoSweep.samples) <= Len(Levels) /\ probe' \in {"none", "running", "over"} /\ sweep[s].at # "idle"
  BY <1>2, <1>6, ProbeConstants
<1> HIDE DEF ProbeIInv
<1> QED
  BY <1>2, <1>5, <1>6, <1>7, <1>8, <1>9, SweepMoves

\* What the test does concerns no sweep.
LEMMA TestKeeps ==
    ASSUME ProbeIInv, ProvisionProbeAgent \/ SendTest \/ TestAnswers
    PROVE  ProbeIInv'
<1>1. UNCHANGED <<probe, sweep, usageWaiters, row, probes, probeTroubles>>
  BY DEF ProvisionProbeAgent, SendTest, TestAnswers, probeCounts
<1>2. test \in TestState /\ test.n \in 1..probes /\ probes \in Nat
  BY ProbeConstants DEF ProvisionProbeAgent, SendTest, TestAnswers, ProbeIInv, TestFits, ProbeTypeOK
<1>3. PICK key : key = TestKey
  OBVIOUS
<1>4. key \in Key /\ key = <<test.n, 0>>
  <2>1. 0 \in 0..Len(Levels)
    BY ProbeConstants
  <2> QED
    BY <1>2, <1>3, <2>1, KeyTypes DEF TestKey, ProbeIInv
<1>5. /\ test' \in TestState /\ test'.n = test.n
      /\ test'.at \in {"provisioning", "ready"} => run' = run /\ run[key] = "none"
      /\ test'.ok => test'.at = "over" /\ run[key] = "ok" /\ run' = run
      /\ run' = run \/ (run' = [run EXCEPT ![key] = "running"] /\ run[key] = "none")
  <2>1. CASE ProvisionProbeAgent
    BY <1>2, <1>3, <2>1 DEF ProvisionProbeAgent, TestState, ProbeIInv, TestFits
  <2>2. CASE SendTest
    BY <1>2, <1>3, <2>2 DEF SendTest, TestState, ProbeIInv, TestFits
  <2>3. CASE TestAnswers
    <3>1. run' = run /\ ~test.ok /\ test.at = "waiting"
      BY <2>3 DEF TestAnswers, ProbeIInv, TestFits
    <3>2. CASE test.waits + 1 < MaxWaits /\ test' = [test EXCEPT !.waits = @ + 1]
      <4>1. test.waits + 1 \in 0..MaxWaits
        BY <1>2, <3>2, ProbeConstants DEF TestState
      <4> QED
        BY <1>2, <3>1, <3>2, <4>1 DEF TestState
    <3>3. CASE test' = [test EXCEPT !.at = "over"]
      BY <1>2, <3>1, <3>3 DEF TestState
    <3>4. CASE test' = [test EXCEPT !.at = "over", !.ok = run[TestKey] = "ok"]
      BY <1>2, <1>3, <3>1, <3>4 DEF TestState
    <3> QED
      BY <2>3, <3>2, <3>3, <3>4 DEF TestAnswers
  <2> QED
    BY <2>1, <2>2, <2>3
<1>6. /\ run' \in [Key -> {"none", "running", "ok", "error"}]
      /\ \A k \in Key : k # key => run'[k] = run[k]
      /\ \A k \in Key : run[k] = "ok" => run'[k] = "ok"
  BY <1>4, <1>5 DEF ProbeIInv, ProbeTypeOK
<1>7. ProbeTypeOK'
  BY <1>1, <1>5, <1>6 DEF ProbeIInv, ProbeTypeOK
<1>8. TestKey' = key
  BY <1>4, <1>5 DEF TestKey
<1>9. TestFits'
  BY <1>1, <1>2, <1>5, <1>8 DEF TestFits
<1>10. \A k \in Key : k[2] # 0 => run'[k] = run[k]
  BY <1>4, <1>6
<1>11. \A s \in Sweep : SweepFits(s)'
  BY <1>1, <1>6, <1>10, SweepsStay
<1>12. KeysAreOwn'
  <2>1. \A k \in Key : k[1] > probes => k # key
    BY <1>2, <1>4
  <2> QED
    BY <1>1, <1>6, <2>1 DEF ProbeIInv, KeysAreOwn
<1>13. RowFits' /\ WaitersFit'
  BY <1>1, <1>6, RowStays DEF ProbeIInv, WaitersFit
<1> QED
  BY <1>7, <1>9, <1>11, <1>12, <1>13 DEF ProbeIInv

LEMMA RunEndsKeeps ==
    ASSUME ProbeIInv, NEW key \in Key, ThrowawayRunEnds(key)
    PROVE  ProbeIInv'
<1>1. UNCHANGED <<probe, sweep, test, usageWaiters, row, probes, probeTroubles>> /\ run[key] = "running"
  BY DEF ThrowawayRunEnds, probeCounts
<1>2. /\ run' \in [Key -> {"none", "running", "ok", "error"}]
      /\ \A k \in Key : k # key => run'[k] = run[k]
      /\ run'[key] \in {"ok", "error"}
  BY DEF ThrowawayRunEnds, ProbeIInv, ProbeTypeOK
<1>3. \A k \in Key : (run[k] = "ok" => run'[k] = "ok") /\ (run[k] = "none" <=> run'[k] = "none")
  BY <1>1, <1>2
<1>5. \A s \in Sweep : SweepFits(s)'
  BY <1>1, <1>3, SweepsStay
<1>6. TestFits'
  <2>1. test.at \in {"provisioning", "ready"} \/ test.ok => TestKey \in Key
    <3>1. 0 \in 0..Len(Levels)
      BY ProbeConstants
    <3> QED
      BY <3>1, KeyTypes DEF ProbeIInv, TestFits, TestKey
  <2>2. TestKey' = TestKey
    BY <1>1 DEF TestKey
  <2> QED
    BY <1>1, <1>3, <2>1, <2>2 DEF ProbeIInv, TestFits
<1>7. ProbeTypeOK' /\ RowFits' /\ WaitersFit' /\ KeysAreOwn'
  BY <1>1, <1>2, <1>3, RowStays DEF ProbeIInv, ProbeTypeOK, WaitersFit, KeysAreOwn
<1> QED
  BY <1>5, <1>6, <1>7 DEF ProbeIInv

\* A usage event finds the waiter of its own key, or none.
LEMMA UsageKeeps ==
    ASSUME ProbeIInv, NEW key \in Key, UsageArrives(key)
    PROVE  ProbeIInv'
<1>1. UNCHANGED <<probe, sweep, test, run, row, probes, probeTroubles>>
  BY DEF UsageArrives, probeCounts
<1>2. key \in DOMAIN usageWaiters /\ usageWaiters' = With(key, key)
  BY DEF UsageArrives, WaitersOf
<1>3. DOMAIN usageWaiters' = DOMAIN usageWaiters
  BY <1>2 DEF With
<1>4. ProbeTypeOK' /\ WaitersFit'
  BY <1>1, <1>2 DEF With, ProbeIInv, ProbeTypeOK, WaitersFit
<1>6. \A s \in Sweep : SweepFits(s)'
  BY <1>1, <1>3, SweepsStay
<1> QED
  BY <1>1, <1>4, <1>6 DEF ProbeIInv, KeysAreOwn, RowFits, TestFits, TestKey

LEMMA EditsKeep ==
    ASSUME ProbeIInv, EditRow \/ ProbeRestarts
    PROVE  ProbeIInv'
<1>0. probeTroubles' \in 0..MaxProbeTroubles
  <2>1. probeTroubles \in 0..MaxProbeTroubles /\ probeTroubles < MaxProbeTroubles /\ probeTroubles' = probeTroubles + 1
    BY DEF ProbeIInv, ProbeTypeOK, EditRow, ProbeRestarts
  <2> QED
    BY <2>1, ProbeConstants
<1>1. CASE EditRow
  <2>1. UNCHANGED <<probe, sweep, test, run, usageWaiters, probes>>
    BY <1>1 DEF EditRow
  <2>2. row' \in LevelsRow /\ row'.by # "sweep"
    <3>1. ASSUME NEW levels \in SUBSET DOMAIN Levels, row' = [NoRow EXCEPT !.by = "operator", !.levels = levels]
          PROVE  row' \in LevelsRow /\ row'.by # "sweep"
      BY <3>1, RestTypes DEF LevelsRow
    <3>2. NoRow.by # "sweep"
      BY DEF NoRow
    <3> QED
      BY <1>1, <3>1, <3>2, RestTypes DEF EditRow
  <2>3. \A s \in Sweep : SweepFits(s)'
    BY <2>1, SweepsStay
  <2> QED
    BY <1>0, <2>1, <2>2, <2>3 DEF ProbeIInv, ProbeTypeOK, KeysAreOwn, WaitersFit, RowFits, TestFits, TestKey
<1>2. CASE ProbeRestarts
  <2>1. /\ UNCHANGED <<run, row, probes>> /\ sweep' = [s \in Sweep |-> NoSweep] /\ test' = NoTest
        /\ usageWaiters' = [k \in {} |-> NoKey] /\ probe' \in {probe, "none"}
    BY <1>2 DEF ProbeRestarts
  <2>2. NoSweep.at = "idle" /\ NoTest.at = "idle" /\ ~NoTest.ok
    BY DEF NoSweep, NoTest
  <2>3. DOMAIN usageWaiters' = {} /\ usageWaiters' \in [DOMAIN usageWaiters' -> Key \cup {NoKey}]
    BY <2>1
  <2>4. ProbeTypeOK'
    BY <1>0, <2>1, <2>3, RestTypes, ProbeConstants DEF ProbeIInv, ProbeTypeOK
  <2>5. \A s \in Sweep : SweepFits(s)'
    <3> SUFFICES ASSUME NEW s \in Sweep PROVE SweepFits(s)'
      OBVIOUS
    <3>1. sweep'[s].at = "idle" /\ sweep'[s].samples = <<>>
      BY <2>1, RestTypes DEF NoSweep
    <3>2. 1..Len(sweep'[s].samples) = {}
      BY <3>1
    <3> QED
      BY <3>1, <3>2 DEF SweepFits
  <2>6. RowFits' /\ WaitersFit'
    BY <2>1, <2>3, RowStays DEF ProbeIInv, WaitersFit
  <2> QED
    BY <2>1, <2>2, <2>4, <2>5, <2>6 DEF ProbeIInv, KeysAreOwn, TestFits
<1> QED
  BY <1>1, <1>2

LEMMA ProbeSteps ==
    ASSUME ProbeIInv, [ProbeNext]_probeVars
    PROVE  ProbeIInv'
<1>1. ASSUME NEW s \in Sweep, SweepStep(s) PROVE ProbeIInv'
  BY <1>1, AskingKeeps, FindAgentKeeps, SendLevelKeeps, LevelRefusedKeeps, LevelMeasuredKeeps, FinishSweepKeeps
     DEF SweepStep
<1>2. CASE UNCHANGED probeVars
  <2>1. UNCHANGED <<probe, sweep, test, run, usageWaiters, row, probes, probeTroubles>>
    BY <1>2 DEF probeVars, probeCounts
  <2> QED
    BY <2>1, SweepsStay DEF ProbeIInv, ProbeTypeOK, KeysAreOwn, WaitersFit, RowFits, TestFits, TestKey
<1> QED
  BY <1>1, <1>2, AskingKeeps, TestKeeps, RunEndsKeeps, UsageKeeps, EditsKeep DEF ProbeNext

\* The inductive invariant of the measurements: keys are one request's, a waiter is
\* given what its own run used, and what is on file completed.
THEOREM ProbeInductive == ProbeSpec => []ProbeIInv
BY ProbeStarts, ProbeSteps, PTL DEF ProbeSpec

\* probeLevel, classifySample, testAgent: a level is offered, and a Brain vouched for,
\* on account of a run that completed, with that run's own usage, for any levels and
\* any number of sweeps that overlap, restarts and late events.
THEOREM LevelsAreVouchedFor == ProbeSpec => []VouchesForWhatRan
BY ProbeInductive, VouchingSuffices, PTL

-----------------------------------------------------------------------------
(* Configuration: resolutions, the rollout of the policy, the model's row *)

Resolving == {"free", "members", "default", "pool", "answered"}
Asking == [at : Resolving \cup {"updating", "releasing", "deleting", "validating", "storing", "blockers", "unstocking"},
           brain : BrainId \cup {NobodysBrain}, list : Seq(BrainId), out : Seq(BrainId), live : BOOLEAN]

DesksOK ==
    /\ known \subseteq BrainId /\ cell \in Seq(BrainId)
    /\ desk \in [Desk -> Asking] /\ catalogEdits \in Nat

\* What could serve all along has been found or is still to be asked about.
ResolveFits(d) ==
    /\ desk[d].at = "members" =>
          /\ desk[d].list # <<>> /\ always[d] \subseteq enabled
          /\ always[d] \subseteq MembersOf(desk[d].list) \cup MembersOf(desk[d].out)
          /\ MembersOf(desk[d].out) \subseteq ever[d]
    /\ desk[d].at \in {"default", "pool"} => always[d] = {}
    /\ desk[d].at = "answered" =>
          /\ always[d] \subseteq MembersOf(desk[d].out)
          /\ MembersOf(desk[d].out) \subseteq ever[d]
    /\ desk[d].at = "unstocking" => always[d] = {}

Whole == cell = PolicyCell /\ MembersOf(PolicyCell) \subseteq enabled

\* Nobody is served before the policy is whole, and only edits change it then.
PolicyFits ==
    /\ boot # "serving" => \A d \in Desk : desk[d] = NoInquiry
    /\ catalogEdits = 0 => \A d \in Desk : desk[d].at \in Resolving
    /\ boot = "seeding" => applied = {}
    /\ boot # "serving" => applied \subseteq enabled
    /\ boot = "marking" => Whole
    /\ marker /\ catalogEdits = 0 => Whole
    /\ boot = "serving" => marker

CatalogIInv == DesksOK /\ (\A d \in Desk : ResolveFits(d)) /\ PolicyFits

LEMMA CatalogSuffices == CatalogIInv => ResolvesWhatStands /\ PolicyIsWhole
BY DEF CatalogIInv, ResolveFits, PolicyFits, Whole, ResolvesWhatStands, PolicyIsWhole

LEMMA OrdersAreSequences ==
    /\ Orders(BrainId) \subseteq Seq(BrainId)
    /\ PolicyCell \in Seq(BrainId)
<1>1. ASSUME NEW list \in Orders(BrainId) PROVE list \in Seq(BrainId)
  <2>1. PICK n \in 0..Cardinality(BrainId) : list \in [1..n -> BrainId]
    BY DEF Orders
  <2>2. n \in Nat
    BY <2>1
  <2> QED
    BY <2>1, <2>2
<1> QED
  BY <1>1, PolicyAssumption

LEMMA MembersGrow ==
    ASSUME NEW list \in Seq(BrainId), NEW b \in BrainId
    PROVE  MembersOf(Append(list, b)) = MembersOf(list) \cup {b}
<1>1. /\ DOMAIN list = 1..Len(list) /\ DOMAIN Append(list, b) = 1..(Len(list) + 1) /\ Len(list) \in Nat
      /\ Append(list, b)[Len(list) + 1] = b /\ \A i \in 1..Len(list) : Append(list, b)[i] = list[i]
  OBVIOUS
<1>2. 1..(Len(list) + 1) = 1..Len(list) \cup {Len(list) + 1}
  BY <1>1
<1> QED
  BY <1>1, <1>2 DEF MembersOf

LEMMA MembersShrink ==
    ASSUME NEW list \in Seq(BrainId), list # <<>>
    PROVE  /\ MembersOf(list) \subseteq {Head(list)} \cup MembersOf(Tail(list))
           /\ Head(list) \in BrainId /\ Tail(list) \in Seq(BrainId)
<1>1. /\ DOMAIN list = 1..Len(list) /\ Len(list) \in Nat /\ Len(list) > 0 /\ Head(list) = list[1]
      /\ Tail(list) \in Seq(BrainId) /\ DOMAIN Tail(list) = 1..(Len(list) - 1)
      /\ \A i \in 1..(Len(list) - 1) : Tail(list)[i] = list[i + 1]
  OBVIOUS
<1>2. ASSUME NEW i \in 1..Len(list), i # 1 PROVE list[i] \in MembersOf(Tail(list))
  <2>1. i - 1 \in 1..(Len(list) - 1) /\ i = (i - 1) + 1
    BY <1>1, <1>2
  <2> QED
    BY <1>1, <2>1 DEF MembersOf
<1> QED
  BY <1>1, <1>2 DEF MembersOf

LEMMA MembersOfNone == MembersOf(<<>>) = {}
BY DEF MembersOf

LEMMA CatalogStarts == CatalogInit => CatalogIInv
<1> SUFFICES ASSUME CatalogInit PROVE CatalogIInv
  OBVIOUS
<1>1. NoInquiry \in Asking /\ NoInquiry.at = "free"
  BY DEF NoInquiry, Asking, Resolving
<1>2. DesksOK
  BY <1>1 DEF CatalogInit, DesksOK
<1>3. \A d \in Desk : desk[d] = NoInquiry
  BY DEF CatalogInit
<1> QED
  BY <1>1, <1>2, <1>3 DEF CatalogInit, CatalogIInv, ResolveFits, PolicyFits, Resolving

\* A request that is left as it is.
LEMMA DeskStays ==
    ASSUME NEW d \in Desk, ResolveFits(d), desk'[d] = desk[d], Witness
    PROVE  ResolveFits(d)'
<1>1. CASE desk[d] = NoInquiry
  BY <1>1 DEF ResolveFits, NoInquiry
<1>2. CASE desk[d] # NoInquiry
  <2>1. always'[d] = always[d] \cap CanServe(desk[d])' /\ ever'[d] = ever[d] \cup enabled'
    BY <1>2 DEF Witness
  <2>2. desk[d].at = "members" => CanServe(desk[d])' \subseteq enabled'
    BY DEF CanServe
  <2> QED
    BY <2>1, <2>2 DEF ResolveFits
<1> QED
  BY <1>1, <1>2

\* Nothing is served while the controller starts.
LEMMA StartupKeeps ==
    ASSUME CatalogIInv, Startup \/ RestartAll, Witness
    PROVE  CatalogIInv'
<1>1. CASE Startup
  <2>1. /\ boot # "serving" /\ UNCHANGED <<desk, catalogEdits>> /\ enabled \subseteq enabled'
        /\ cell' \in {cell, PolicyCell} /\ known' \subseteq BrainId
    BY <1>1 DEF CatalogIInv, DesksOK, Startup, SeedBrains, ApplyBrain, MapCells, AppendMarker, OnlyStarts
  <2>2. \A d \in Desk : desk[d] = NoInquiry
    BY <2>1 DEF CatalogIInv, PolicyFits
  <2>3. DesksOK' /\ \A d \in Desk : ResolveFits(d)'
    BY <2>1, DeskStays, OrdersAreSequences DEF CatalogIInv, DesksOK
  <2>4. PolicyFits'
    <3>1. CASE SeedBrains
      BY <2>1, <2>2, <3>1 DEF SeedBrains, RolloutDue, CatalogIInv, PolicyFits, Whole
    <3>2. CASE \E b \in BrainId : ApplyBrain(b)
      BY <2>1, <2>2, <3>2 DEF ApplyBrain, CatalogIInv, PolicyFits, Whole
    <3>3. CASE MapCells \/ AppendMarker
      BY <2>1, <2>2, <3>3 DEF MapCells, AppendMarker, CatalogIInv, PolicyFits, Whole
    <3> QED
      BY <1>1, <3>1, <3>2, <3>3 DEF Startup
  <2> QED
    BY <2>3, <2>4 DEF CatalogIInv
<1>2. CASE RestartAll
  <2>1. NoInquiry \in Asking /\ NoInquiry.at = "free"
    BY DEF NoInquiry, Asking, Resolving
  <2>2. /\ boot' = "seeding" /\ applied' = {} /\ desk' = [d \in Desk |-> NoInquiry]
        /\ UNCHANGED <<known, enabled, cell, stocked, marker, catalogEdits>>
    BY <1>2 DEF RestartAll, tableVars
  <2>3. DesksOK'
    BY <2>1, <2>2 DEF CatalogIInv, DesksOK
  <2>4. \A d \in Desk : ResolveFits(d)'
    BY <2>1, <2>2 DEF ResolveFits
  <2>5. PolicyFits'
    BY <2>1, <2>2 DEF CatalogIInv, PolicyFits, Whole, Resolving
  <2> QED
    BY <2>3, <2>4, <2>5 DEF CatalogIInv
<1> QED
  BY <1>1, <1>2

-----------------------------------------------------------------------------
\* Requests that edit, or ask to delete the model.
Editing == {"free", "updating", "releasing", "deleting", "validating", "blockers", "unstocking"}

EditOf(d, r) ==
    /\ r \in Asking /\ desk' = [desk EXCEPT ![d] = r] /\ r.at \in Editing
    /\ r.at = "unstocking" => desk[d].at = "blockers" /\ known' = {}
    /\ known' \subseteq BrainId /\ cell' \in Seq(BrainId) /\ catalogEdits' \in Nat \ {0}
    /\ boot = "serving" /\ UNCHANGED <<marker, bootVars>>

LEMMA Requests ==
    ASSUME CatalogIInv, NEW d \in Desk
    PROVE  /\ desk[d] \in Asking /\ NoInquiry \in Asking /\ NoInquiry.at = "free" /\ desk = [desk EXCEPT ![d] = desk[d]]
           /\ Inquires => catalogEdits' \in Nat \ {0}
           /\ desk[d].at # "free" => boot = "serving"
           /\ desk[d].at \notin Resolving => catalogEdits # 0
           /\ catalogEdits \in Nat /\ cell \in Seq(BrainId) /\ known \subseteq BrainId
<1>1. NoInquiry \in Asking /\ NoInquiry.at = "free"
  BY DEF NoInquiry, Asking, Resolving
<1> QED
  BY <1>1 DEF CatalogIInv, DesksOK, PolicyFits, Inquires

LEMMA BeginsAnEdit ==
    ASSUME CatalogIInv, NEW d \in Desk, NEW r \in Asking, BeginsWith(d, r), r.at \in Editing, r.at # "unstocking"
    PROVE  EditOf(d, r)
BY Requests DEF BeginsWith, FreeDesk, Lay, tableVars, EditOf

LEMMA GoesOnEditing ==
    ASSUME CatalogIInv, NEW d \in Desk, NEW r \in Asking, Lay(d, r), r.at \in Editing, desk[d].at \notin Resolving,
           r.at = "unstocking" => desk[d].at = "blockers" /\ known' = {},
           known' \subseteq BrainId, cell' \in Seq(BrainId), UNCHANGED marker, OnlyInquires
    PROVE  EditOf(d, r)
BY Requests DEF Lay, OnlyInquires, EditOf, Resolving

LEMMA FreeDeskEdits ==
    ASSUME CatalogIInv, NEW d \in Desk, FreeDesk(d), Inquires, UNCHANGED <<desk, marker, bootVars>>,
           known' \subseteq BrainId, cell' \in Seq(BrainId)
    PROVE  EditOf(d, desk[d])
BY Requests DEF FreeDesk, EditOf, Editing

LEMMA ReleasedIsASequence ==
    ASSUME NEW list \in Seq(BrainId), NEW b
    PROVE  Released(list, b) \in Seq(BrainId)
<1>1. CASE b \in MembersOf(list)
  <2>1. PICK i : i = CHOOSE k \in DOMAIN list : list[k] = b
    OBVIOUS
  <2>2. i \in 1..Len(list) /\ Len(list) \in Nat
    BY <1>1, <2>1 DEF MembersOf
  <2>3. SubSeq(list, 1, i - 1) \in Seq(BrainId) /\ SubSeq(list, i + 1, Len(list)) \in Seq(BrainId)
    BY <2>2
  <2>4. Released(list, b) = SubSeq(list, 1, i - 1) \o SubSeq(list, i + 1, Len(list))
    BY <1>1, <2>1 DEF Released, RemoveAt
  <2> QED
    BY <2>3, <2>4
<1>2. CASE b \notin MembersOf(list)
  BY <1>2 DEF Released
<1> QED
  BY <1>1, <1>2

LEMMA EditsAreEdits ==
    ASSUME CatalogIInv, NEW d \in Desk,
           CreateBrain(d) \/ UpdateBrain(d) \/ DeleteBrain(d) \/ SetCell(d) \/ DeleteModel(d) \/ StockModel(d)
    PROVE  \E r : EditOf(d, r)
<1> USE Requests
<1>1. CASE CreateBrain(d)
  <2>1. known' \subseteq BrainId /\ cell' \in Seq(BrainId) /\ UNCHANGED <<desk, marker, bootVars>> /\ FreeDesk(d) /\ Inquires
    BY <1>1 DEF CreateBrain
  <2> QED
    BY <2>1, FreeDeskEdits
<1>2. CASE StockModel(d)
  <2>1. known' \subseteq BrainId /\ cell' \in Seq(BrainId) /\ UNCHANGED <<desk, marker, bootVars>> /\ FreeDesk(d) /\ Inquires
    BY <1>2 DEF StockModel
  <2> QED
    BY <2>1, FreeDeskEdits
<1>3. CASE UpdateBrain(d)
  <2>1. ASSUME NEW b \in known, BeginsWith(d, [NoInquiry EXCEPT !.at = "updating", !.brain = b])
        PROVE  \E r : EditOf(d, r)
    <3>1. [NoInquiry EXCEPT !.at = "updating", !.brain = b] \in Asking
      BY DEF Asking
    <3>2. [NoInquiry EXCEPT !.at = "updating", !.brain = b].at = "updating"
      BY DEF NoInquiry
    <3> QED
      BY <2>1, <3>1, <3>2, BeginsAnEdit DEF Editing
  <2>2. CASE desk[d].at = "updating" /\ Clear(d) /\ UNCHANGED <<known, cell, marker>> /\ OnlyInquires
    BY <2>2, GoesOnEditing DEF Clear, Editing, Resolving
  <2> QED
    BY <1>3, <2>1, <2>2 DEF UpdateBrain
<1>4. CASE DeleteBrain(d)
  <2>1. ASSUME NEW c \in known, NEW at \in {"releasing", "deleting"},
               BeginsWith(d, [NoInquiry EXCEPT !.at = at, !.brain = c])
        PROVE  \E r : EditOf(d, r)
    <3>1. [NoInquiry EXCEPT !.at = at, !.brain = c] \in Asking
      BY DEF Asking
    <3>2. [NoInquiry EXCEPT !.at = at, !.brain = c].at = at
      BY DEF NoInquiry
    <3> QED
      BY <2>1, <3>1, <3>2, BeginsAnEdit DEF Editing
  <2>2. CASE desk[d].at = "releasing" /\ GoOn(d, "deleting") /\ cell' = Released(cell, desk[d].brain)
             /\ UNCHANGED <<known, marker>> /\ OnlyInquires
    <3>1. cell' \in Seq(BrainId)
      BY <2>2, ReleasedIsASequence
    <3>2. [desk[d] EXCEPT !.at = "deleting"] \in Asking /\ [desk[d] EXCEPT !.at = "deleting"].at = "deleting"
      BY DEF Asking
    <3> QED
      BY <2>2, <3>1, <3>2, GoesOnEditing DEF GoOn, Editing, Resolving
  <2>3. CASE desk[d].at = "deleting" /\ Clear(d) /\ known' = known \ {desk[d].brain} /\ UNCHANGED <<cell, marker>> /\ OnlyInquires
    BY <2>3, GoesOnEditing DEF Clear, Editing, Resolving
  <2> QED
    BY <1>4, <2>1, <2>2, <2>3 DEF DeleteBrain
<1>5. CASE SetCell(d)
  <2>1. CASE FreeDesk(d) /\ Inquires /\ cell' = <<>> /\ UNCHANGED <<known, marker, bootVars, desk>>
    BY <2>1, FreeDeskEdits
  <2>2. ASSUME NEW list \in Orders(BrainId), BeginsWith(d, [NoInquiry EXCEPT !.at = "validating", !.list = list])
        PROVE  \E r : EditOf(d, r)
    <3>1. [NoInquiry EXCEPT !.at = "validating", !.list = list] \in Asking
      BY OrdersAreSequences DEF Asking
    <3>2. [NoInquiry EXCEPT !.at = "validating", !.list = list].at = "validating"
      BY DEF NoInquiry
    <3> QED
      BY <2>2, <3>1, <3>2, BeginsAnEdit DEF Editing
  <2>3. ASSUME desk[d].at = "validating", desk[d].list # <<>>, UNCHANGED tableVars, OnlyInquires,
               NEW r, r = [desk[d] EXCEPT !.list = Tail(@), !.out = Append(@, Head(desk[d].list)),
                                          !.live = @ \/ Head(desk[d].list) \in enabled],
               Lay(d, r)
        PROVE  \E q : EditOf(d, q)
    <3>1. desk[d].list \in Seq(BrainId) /\ desk[d].out \in Seq(BrainId)
      BY DEF Asking
    <3>2. Tail(desk[d].list) \in Seq(BrainId) /\ Append(desk[d].out, Head(desk[d].list)) \in Seq(BrainId)
      BY <2>3, <3>1, MembersShrink
    <3>3. r \in Asking /\ r.at = "validating"
      BY <2>3, <3>2 DEF Asking
    <3> QED
      BY <2>3, <3>3, GoesOnEditing DEF tableVars, Editing, Resolving
  <2>4. CASE desk[d].at = "validating" /\ Clear(d) /\ UNCHANGED <<known, marker>> /\ cell' \in {desk[d].out, cell} /\ OnlyInquires
    <3>1. cell' \in Seq(BrainId)
      BY <2>4 DEF Asking
    <3> QED
      BY <2>4, <3>1, GoesOnEditing DEF Clear, Editing, Resolving
  <2> QED
    BY <1>5, <2>1, <2>2, <2>3, <2>4 DEF SetCell, tableVars
<1>6. CASE DeleteModel(d)
  <2>1. CASE BeginsWith(d, [NoInquiry EXCEPT !.at = "blockers"])
    <3>1. [NoInquiry EXCEPT !.at = "blockers"] \in Asking
      BY DEF Asking
    <3>2. [NoInquiry EXCEPT !.at = "blockers"].at = "blockers"
      BY DEF NoInquiry
    <3> QED
      BY <2>1, <3>1, <3>2, BeginsAnEdit DEF Editing
  <2>2. CASE desk[d].at \in {"blockers", "unstocking"} /\ Clear(d) /\ UNCHANGED <<known, cell, marker>> /\ OnlyInquires
    BY <2>2, GoesOnEditing DEF Clear, Editing, Resolving
  <2>3. CASE desk[d].at = "blockers" /\ ~BrainsBlock /\ GoOn(d, "unstocking") /\ UNCHANGED tableVars /\ OnlyInquires
    <3>1. [desk[d] EXCEPT !.at = "unstocking"] \in Asking /\ [desk[d] EXCEPT !.at = "unstocking"].at = "unstocking"
      BY DEF Asking
    <3>2. known' = {} /\ cell' = cell /\ marker' = marker
      BY <2>3 DEF BrainsBlock, tableVars
    <3> QED
      BY <2>3, <3>1, <3>2, GoesOnEditing DEF GoOn, Editing, Resolving
  <2> QED
    BY <1>6, <2>1, <2>2, <2>3 DEF DeleteModel, tableVars
<1> QED
  BY <1>1, <1>2, <1>3, <1>4, <1>5, <1>6

LEMMA OthersStay ==
    ASSUME CatalogIInv, NEW d \in Desk, NEW r \in Asking, desk' = [desk EXCEPT ![d] = r], Witness, ResolveFits(d)'
    PROVE  /\ desk' \in [Desk -> Asking] /\ desk'[d] = r
           /\ \A e \in Desk : ResolveFits(e)'
           /\ \A e \in Desk : desk'[e] # r => desk'[e] = desk[e]
<1>1. /\ desk' \in [Desk -> Asking] /\ desk'[d] = r /\ \A e \in Desk \ {d} : desk'[e] = desk[e]
      /\ \A e \in Desk : ResolveFits(e)
  BY DEF CatalogIInv, DesksOK
<1>2. \A e \in Desk \ {d} : ResolveFits(e)'
  BY <1>1, DeskStays
<1> QED
  BY <1>1, <1>2

LEMMA EditKeeps ==
    ASSUME CatalogIInv, NEW d \in Desk, NEW r, EditOf(d, r), Witness
    PROVE  CatalogIInv'
<1>1. r \in Asking /\ desk' = [desk EXCEPT ![d] = r] /\ r.at \in Editing
  BY DEF EditOf
<1>2. ResolveFits(d)'
  <2>1. desk'[d] = r
    BY <1>1 DEF CatalogIInv, DesksOK
  <2>2. ASSUME r.at = "unstocking" PROVE always'[d] = {}
    <3>1. desk[d].at = "blockers" /\ known' = {} /\ r # NoInquiry /\ desk[d] # NoInquiry
      BY <2>2 DEF EditOf, NoInquiry
    <3>2. CanServe(desk[d])' = {}
      BY <2>1, <2>2, <3>1 DEF CanServe
    <3> QED
      BY <2>1, <3>1, <3>2 DEF Witness
  <2> QED
    BY <1>1, <2>1, <2>2 DEF ResolveFits, Editing
<1>3. desk' \in [Desk -> Asking] /\ \A e \in Desk : ResolveFits(e)'
  BY <1>1, <1>2, OthersStay
<1>4. DesksOK'
  BY <1>3 DEF EditOf, DesksOK
<1>5. PolicyFits'
  <2>1. boot' = "serving" /\ marker' = marker /\ catalogEdits' # 0
    BY DEF EditOf, bootVars
  <2> QED
    BY <2>1 DEF EditOf, CatalogIInv, PolicyFits
<1> QED
  BY <1>3, <1>4, <1>5 DEF CatalogIInv

\* A resolution moves from place to place, and leaves the tables alone.
LEMMA ResolutionMoves ==
    ASSUME CatalogIInv, NEW d \in Desk, NEW r \in Asking, Lay(d, r), r.at \in Resolving,
           boot = "serving", UNCHANGED tableVars, UNCHANGED <<bootVars, catalogEdits>>,
           Witness, ResolveFits(d)'
    PROVE  CatalogIInv'
<1>1. desk' = [desk EXCEPT ![d] = r]
  BY DEF Lay
<1>2. /\ desk' \in [Desk -> Asking] /\ \A e \in Desk : ResolveFits(e)'
      /\ \A e \in Desk : desk'[e] # r => desk'[e] = desk[e]
  BY <1>1, OthersStay
<1>3. DesksOK'
  BY <1>2 DEF CatalogIInv, DesksOK, tableVars
<1>4. PolicyFits'
  BY <1>2 DEF CatalogIInv, PolicyFits, Whole, tableVars, bootVars
<1> QED
  BY <1>2, <1>3, <1>4 DEF CatalogIInv

\* What has been found of the cell, when the next place is that of Following.
LEMMA FollowingFits ==
    ASSUME NEW d \in Desk, NEW next \in Asking, desk'[d] = [next EXCEPT !.at = Following(next)],
           always'[d] \subseteq enabled', always'[d] \subseteq MembersOf(next.list) \cup MembersOf(next.out),
           MembersOf(next.out) \subseteq ever'[d]
    PROVE  /\ ResolveFits(d)'
           /\ [next EXCEPT !.at = Following(next)] \in Asking
           /\ [next EXCEPT !.at = Following(next)].at \in Resolving \ {"free"}
<1>1. PICK at \in {"members", "answered", "default"} :
         /\ at = Following(next)
         /\ at = "members" => next.list # <<>>
         /\ at # "members" => next.list = <<>>
         /\ at = "default" => next.out = <<>>
  BY DEF Following
<1>2. /\ desk'[d].at = at /\ desk'[d].list = next.list /\ desk'[d].out = next.out
      /\ [next EXCEPT !.at = at] \in Asking /\ [next EXCEPT !.at = at].at = at
  BY <1>1 DEF Asking, Resolving
<1>3. ResolveFits(d)'
  BY <1>1, <1>2, MembersOfNone DEF ResolveFits
<1> QED
  BY <1>1, <1>2, <1>3 DEF Resolving

LEMMA ResolveKeeps ==
    ASSUME CatalogIInv, NEW d \in Desk, ResolveCell(d), Witness
    PROVE  CatalogIInv'
<1> USE Requests
<1>1. /\ UNCHANGED <<known, enabled, cell, stocked, marker, catalogEdits>> /\ UNCHANGED <<tableVars, bootVars>>
      /\ boot = "serving" /\ ResolveFits(d)
  BY DEF ResolveCell, OnlyInquires, tableVars, FreeDesk, CatalogIInv
<1>2. desk[d].list \in Seq(BrainId) /\ desk[d].out \in Seq(BrainId)
  BY DEF Asking
<1>3. ASSUME NEW next \in Asking, Lay(d, [next EXCEPT !.at = Following(next)]),
             FreeDesk(d), next = [NoInquiry EXCEPT !.list = cell]
      PROVE  CatalogIInv'
  <2>1. PICK r : r = [next EXCEPT !.at = Following(next)]
    OBVIOUS
  <2>2. next.list = cell /\ next.out = <<>>
    BY <1>3 DEF NoInquiry
  <2>3. desk'[d] = r /\ desk[d] = NoInquiry
    BY <1>3, <2>1 DEF Lay, FreeDesk, CatalogIInv, DesksOK
  <2>4. r.at \in {"members", "answered", "default"} /\ r # NoInquiry
    BY <2>1 DEF Following, Asking, NoInquiry
  <2>5. always'[d] = enabled' \cap MembersOf(cell') /\ ever'[d] = enabled'
    BY <2>3, <2>4 DEF Witness, CanServe
  <2>6. ResolveFits(d)' /\ r \in Asking /\ r.at \in Resolving
    BY <1>1, <2>1, <2>2, <2>3, <2>5, FollowingFits, MembersOfNone
  <2> QED
    BY <1>1, <1>3, <2>1, <2>6, ResolutionMoves
<1>4. ASSUME desk[d].at # "free", NEW r \in Asking, Lay(d, r), r.at # "free", r.at \notin {"blockers", "unstocking"}
      PROVE  /\ desk'[d] = r /\ always'[d] = always[d] \cap (enabled \cap MembersOf(cell))
             /\ ever'[d] = ever[d] \cup enabled
  BY <1>1, <1>4 DEF Lay, CatalogIInv, DesksOK, Witness, CanServe, NoInquiry
<1>5. ASSUME desk[d].at = "members", NEW b, b = Head(desk[d].list),
             NEW next, next = [desk[d] EXCEPT !.list = Tail(@), !.out = IF b \in enabled THEN Append(@, b) ELSE @],
             Lay(d, [next EXCEPT !.at = Following(next)])
      PROVE  CatalogIInv'
  <2>1. /\ MembersOf(desk[d].list) \subseteq {b} \cup MembersOf(Tail(desk[d].list))
        /\ b \in BrainId /\ Tail(desk[d].list) \in Seq(BrainId)
    BY <1>1, <1>2, <1>5, MembersShrink DEF ResolveFits
  <2>2. PICK out : out = IF b \in enabled THEN Append(desk[d].out, b) ELSE desk[d].out
    OBVIOUS
  <2>3. out \in Seq(BrainId) /\ MembersOf(out) = MembersOf(desk[d].out) \cup ({b} \cap enabled)
    BY <1>2, <2>1, <2>2, MembersGrow
  <2>4. next \in Asking /\ next.list = Tail(desk[d].list) /\ next.out = out
    BY <1>5, <2>1, <2>2, <2>3 DEF Asking
  <2>5. PICK r : r = [next EXCEPT !.at = Following(next)]
    OBVIOUS
  <2>6. r \in Asking /\ r.at \in {"members", "answered", "default"}
    BY <2>4, <2>5 DEF Following, Asking, Resolving
  <2>7. /\ desk'[d] = r /\ always'[d] \subseteq always[d] \cap enabled /\ ever'[d] = ever[d] \cup enabled
    BY <1>4, <1>5, <2>5, <2>6
  <2>8. MembersOf(next.out) \subseteq ever'[d] /\ always'[d] \subseteq MembersOf(next.list) \cup MembersOf(next.out)
    BY <1>1, <1>5, <2>1, <2>3, <2>4, <2>7 DEF ResolveFits
  <2>9. ResolveFits(d)' /\ r.at \in Resolving
    BY <1>1, <2>4, <2>5, <2>7, <2>8, FollowingFits
  <2> QED
    BY <1>1, <1>5, <2>5, <2>6, <2>9, ResolutionMoves
<1>6. ASSUME desk[d].at \in {"default", "pool"}, NEW out \in Seq(BrainId), MembersOf(out) \subseteq enabled,
             Lay(d, [desk[d] EXCEPT !.at = "answered", !.out = out])
      PROVE  CatalogIInv'
  <2>1. PICK r : r = [desk[d] EXCEPT !.at = "answered", !.out = out]
    OBVIOUS
  <2>2. r \in Asking /\ r.at = "answered" /\ r.out = out
    BY <2>1 DEF Asking, Resolving
  <2>3. desk'[d] = r /\ always'[d] \subseteq always[d] /\ ever'[d] = ever[d] \cup enabled
    BY <1>4, <1>6, <2>1, <2>2
  <2>4. ResolveFits(d)'
    BY <1>1, <1>6, <2>2, <2>3 DEF ResolveFits
  <2> QED
    BY <1>1, <1>6, <2>1, <2>2, <2>4, ResolutionMoves DEF Resolving
<1>7. CASE desk[d].at = "default" /\ GoOn(d, "pool")
  <2>1. PICK r : r = [desk[d] EXCEPT !.at = "pool"]
    OBVIOUS
  <2>2. r \in Asking /\ r.at = "pool" /\ Lay(d, r)
    BY <1>7, <2>1 DEF Asking, Resolving, GoOn
  <2>3. desk'[d] = r /\ always'[d] \subseteq always[d]
    BY <1>4, <1>7, <2>2
  <2>4. ResolveFits(d)'
    BY <1>1, <1>7, <2>2, <2>3 DEF ResolveFits
  <2> QED
    BY <1>1, <2>2, <2>4, ResolutionMoves DEF Resolving
<1>8. CASE Clear(d)
  <2>1. desk'[d] = NoInquiry
    BY <1>8 DEF Clear, Lay, CatalogIInv, DesksOK
  <2>2. ResolveFits(d)'
    BY <2>1 DEF ResolveFits
  <2> QED
    BY <1>1, <1>8, <2>2, ResolutionMoves DEF Clear, Resolving
<1>9. CASE FreeDesk(d) /\ Lay(d, [[NoInquiry EXCEPT !.list = cell]
                                     EXCEPT !.at = Following([NoInquiry EXCEPT !.list = cell])])
  <2>1. [NoInquiry EXCEPT !.list = cell] \in Asking
    BY DEF Asking
  <2> QED
    BY <1>3, <1>9, <2>1
<1>10. CASE desk[d].at = "default" /\ GridDefault \in enabled
             /\ Lay(d, [desk[d] EXCEPT !.at = "answered", !.out = <<GridDefault>>])
  <2>1. <<GridDefault>> \in Seq(BrainId) /\ MembersOf(<<GridDefault>>) \subseteq enabled
    BY <1>10, GridAssumption DEF MembersOf
  <2> QED
    BY <1>6, <1>10, <2>1
<1>11. CASE desk[d].at = "pool" /\ \E list \in Orders(BrainId) :
              MembersOf(list) = InPool \cap enabled /\ Lay(d, [desk[d] EXCEPT !.at = "answered", !.out = list])
  BY <1>6, <1>11, OrdersAreSequences
<1> QED
  BY <1>5, <1>7, <1>8, <1>9, <1>10, <1>11 DEF ResolveCell

LEMMA CatalogSteps ==
    ASSUME CatalogIInv, [CatalogNext]_catalogVars
    PROVE  CatalogIInv'
<1>1. CASE UNCHANGED catalogVars
  <2>1. UNCHANGED <<known, enabled, cell, stocked, marker, boot, applied, boots, desk, always, ever, catalogEdits>>
    BY <1>1 DEF catalogVars, tableVars, bootVars
  <2> QED
    BY <2>1 DEF CatalogIInv, DesksOK, ResolveFits, PolicyFits, Whole
<1>2. CASE CatalogNext
  <2>1. Witness
    BY <1>2 DEF CatalogNext
  <2>2. ASSUME NEW d \in Desk, ServeDesk(d) PROVE CatalogIInv'
    BY <2>1, <2>2, EditsAreEdits, EditKeeps, ResolveKeeps DEF ServeDesk
  <2> QED
    BY <1>2, <2>1, <2>2, StartupKeeps DEF CatalogNext
<1> QED
  BY <1>1, <1>2

\* The inductive invariant of the configuration: a resolution has found, or is still to
\* ask about, every member that could serve all along, nobody is served before the
\* policy is whole, and a model is about to go only from under Brains that came late.
THEOREM CatalogInductive == CatalogSpec => []CatalogIInv
BY CatalogStarts, CatalogSteps, PTL DEF CatalogSpec

\* resolve: between the reads of one resolution others edit the cell and its Brains; a
\* member that could serve throughout is a candidate, and none is that could at no time.
THEOREM ResolutionsStand == CatalogSpec => []ResolvesWhatStands
<1>1. CatalogIInv => ResolvesWhatStands
  BY CatalogSuffices
<1> QED
  BY <1>1, CatalogInductive, PTL

\* createController: until the first edit, whoever is served finds the whole policy,
\* after any number of crashes, wherever in the rollout they came.
THEOREM RolloutIsWhole == CatalogSpec => []PolicyIsWhole
<1>1. CatalogIInv => PolicyIsWhole
  BY CatalogSuffices
<1> QED
  BY <1>1, CatalogInductive, PTL

\* modelDeleteBlockers: a model's row never goes from under a Brain that was there
\* when the deletion was asked for and still is.
THEOREM ModelsOutliveTheirBrains == CatalogSpec => NoBrainLosesItsModel
<1>1. ASSUME CatalogIInv
      PROVE  \A d \in Desk : stocked /\ ~stocked' /\ desk[d].at = "unstocking" => always[d] \cap known' = {}
  BY <1>1 DEF CatalogIInv, ResolveFits
<1> QED
  BY <1>1, CatalogInductive, PTL DEF NoBrainLosesItsModel

-----------------------------------------------------------------------------
(* Configuration: types, and orders in which no Brain comes twice *)

\* What is still to be looked up has not been found.
Apart(r) == r.at \in {"validating", "members"} => MembersOf(r.list) \cap MembersOf(r.out) = {}

CatalogTIInv == CatalogIInv /\ CatalogTypeOK /\ \A d \in Desk : Apart(desk[d])

LEMMA OrdersAre ==
    ASSUME NEW list
    PROVE  list \in Orders(BrainId) <=> list \in Seq(BrainId) /\ NoneTwice(list)
<1>1. ASSUME list \in Seq(BrainId), NoneTwice(list) PROVE list \in Orders(BrainId)
  <2>1. Len(list) \in Nat /\ list \in [1..Len(list) -> BrainId] /\ DOMAIN list = 1..Len(list)
    BY <1>1
  <2>2. list \in Injection(1..Len(list), BrainId)
    BY <1>1, <2>1 DEF Injection, IsInjective, NoneTwice
  <2>3. Cardinality(1..Len(list)) <= Cardinality(BrainId)
    BY <2>2, FS_Injection, CatalogBounds
  <2>4. Cardinality(1..Len(list)) = Len(list) /\ Cardinality(BrainId) \in Nat
    <3>1. \A n \in Nat : 1 \in Int /\ n \in Int /\ (IF 1 > n THEN 0 ELSE n - 1 + 1) = n
      OBVIOUS
    <3>2. Cardinality(1..Len(list)) = IF 1 > Len(list) THEN 0 ELSE Len(list) - 1 + 1
      BY <2>1, <3>1, FS_Interval
    <3>3. Cardinality(BrainId) \in Nat
      BY FS_CardinalityType, CatalogBounds
    <3> QED
      BY <2>1, <3>1, <3>2, <3>3
  <2>5. Len(list) \in 0..Cardinality(BrainId)
    BY <2>1, <2>3, <2>4
  <2> QED
    BY <1>1, <2>1, <2>5 DEF Orders
<1> QED
  BY <1>1, OrdersAreSequences DEF Orders

LEMMA SmallOrders == <<>> \in Orders(BrainId) /\ <<GridDefault>> \in Orders(BrainId)
<1>1. <<>> \in Seq(BrainId) /\ NoneTwice(<<>>)
  BY DEF NoneTwice
<1>2. <<GridDefault>> \in Seq(BrainId) /\ NoneTwice(<<GridDefault>>)
  BY GridAssumption DEF NoneTwice
<1> QED
  BY <1>1, <1>2, OrdersAre

LEMMA OrderGrows ==
    ASSUME NEW list \in Orders(BrainId), NEW b \in BrainId, b \notin MembersOf(list)
    PROVE  Append(list, b) \in Orders(BrainId) /\ MembersOf(Append(list, b)) = MembersOf(list) \cup {b}
<1>1. list \in Seq(BrainId) /\ NoneTwice(list)
  BY OrdersAre
<1>2. /\ DOMAIN list = 1..Len(list) /\ DOMAIN Append(list, b) = 1..(Len(list) + 1) /\ Len(list) \in Nat
      /\ Append(list, b)[Len(list) + 1] = b /\ \A i \in 1..Len(list) : Append(list, b)[i] = list[i]
  BY <1>1
<1>3. \A i \in 1..Len(list) : list[i] # b
  BY <1>2 DEF MembersOf
<1>4. NoneTwice(Append(list, b))
  <2> SUFFICES ASSUME NEW i \in 1..(Len(list) + 1), NEW k \in 1..(Len(list) + 1), i # k
               PROVE  Append(list, b)[i] # Append(list, b)[k]
    BY <1>2 DEF NoneTwice
  <2>1. CASE i \in 1..Len(list) /\ k \in 1..Len(list)
    BY <1>1, <1>2, <2>1 DEF NoneTwice
  <2>2. CASE i = Len(list) + 1 \/ k = Len(list) + 1
    BY <1>2, <1>3, <2>2
  <2> QED
    BY <1>2, <2>1, <2>2
<1>5. Append(list, b) \in Seq(BrainId) /\ MembersOf(Append(list, b)) = MembersOf(list) \cup {b}
  BY <1>1, MembersGrow
<1> QED
  BY <1>4, <1>5, OrdersAre

LEMMA OrderShrinks ==
    ASSUME NEW list \in Orders(BrainId), list # <<>>
    PROVE  /\ Tail(list) \in Orders(BrainId) /\ Head(list) \in BrainId
           /\ Head(list) \in MembersOf(list) /\ Head(list) \notin MembersOf(Tail(list))
           /\ MembersOf(Tail(list)) \subseteq MembersOf(list)
<1>1. list \in Seq(BrainId) /\ NoneTwice(list)
  BY OrdersAre
<1>2. /\ DOMAIN list = 1..Len(list) /\ Len(list) \in Nat /\ Len(list) > 0 /\ Head(list) = list[1]
      /\ Tail(list) \in Seq(BrainId) /\ DOMAIN Tail(list) = 1..(Len(list) - 1) /\ list[1] \in BrainId
      /\ \A i \in 1..(Len(list) - 1) : Tail(list)[i] = list[i + 1]
  BY <1>1
<1>3. \A i \in 1..(Len(list) - 1) : i + 1 \in 1..Len(list) /\ i + 1 # 1 /\ 1 \in 1..Len(list)
  BY <1>2
<1>4. NoneTwice(Tail(list))
  BY <1>1, <1>2, <1>3 DEF NoneTwice
<1>5. Head(list) \notin MembersOf(Tail(list)) /\ MembersOf(Tail(list)) \subseteq MembersOf(list)
  BY <1>1, <1>2, <1>3 DEF NoneTwice, MembersOf
<1>6. Head(list) \in MembersOf(list)
  BY <1>2 DEF MembersOf
<1> QED
  BY <1>2, <1>4, <1>5, <1>6, OrdersAre

LEMMA OrderReleases ==
    ASSUME NEW list \in Orders(BrainId), NEW b
    PROVE  Released(list, b) \in Orders(BrainId)
<1>1. list \in Seq(BrainId) /\ NoneTwice(list) /\ Len(list) \in Nat /\ DOMAIN list = 1..Len(list)
  BY OrdersAre
<1>2. CASE b \in MembersOf(list)
  <2>1. PICK i : i = CHOOSE k \in DOMAIN list : list[k] = b
    OBVIOUS
  <2>2. i \in 1..Len(list)
    BY <1>1, <1>2, <2>1 DEF MembersOf
  <2>3. Released(list, b) = SubSeq(list, 1, i - 1) \o SubSeq(list, i + 1, Len(list))
    BY <1>2, <2>1 DEF Released, RemoveAt
  <2>4. PICK front, back : front = SubSeq(list, 1, i - 1) /\ back = SubSeq(list, i + 1, Len(list))
    OBVIOUS
  <2>5. /\ front \in Seq(BrainId) /\ Len(front) = i - 1 /\ \A k \in 1..(i - 1) : front[k] = list[k]
        /\ back \in Seq(BrainId) /\ Len(back) = Len(list) - i
        /\ \A k \in 1..(Len(list) - i) : back[k] = list[i + k]
    <3>1. Len(list) \in Nat /\ i \in Nat /\ 1 <= i /\ i <= Len(list)
      BY <1>1, <2>2
    <3>2. front \in Seq(BrainId) /\ back \in Seq(BrainId)
      BY <1>1, <2>4, <3>1
    <3>3. Len(front) = i - 1 /\ Len(back) = Len(list) - i
      <4>1. Len(front) = IF 1 <= i - 1 THEN i - 1 - 1 + 1 ELSE 0
        BY <1>1, <2>4, <3>1
      <4>2. Len(back) = IF i + 1 <= Len(list) THEN Len(list) - (i + 1) + 1 ELSE 0
        BY <1>1, <2>4, <3>1
      <4> QED
        BY <3>1, <4>1, <4>2
    <3>4. ASSUME NEW k \in 1..(i - 1) PROVE front[k] = list[k]
      BY <1>1, <2>4, <3>1
    <3>5. ASSUME NEW k \in 1..(Len(list) - i) PROVE back[k] = list[i + k]
      BY <1>1, <2>4, <3>1
    <3> QED
      BY <3>2, <3>3, <3>4, <3>5
  <2>6. PICK rest : rest = front \o back
    OBVIOUS
  <2>7. /\ rest \in Seq(BrainId) /\ DOMAIN rest = 1..(Len(list) - 1)
        /\ \A k \in 1..(Len(list) - 1) : rest[k] = IF k < i THEN list[k] ELSE list[k + 1]
    <3>1. rest \in Seq(BrainId) /\ Len(rest) = Len(list) - 1 /\ DOMAIN rest = 1..Len(rest)
      <4>1. front \in Seq(BrainId) /\ back \in Seq(BrainId)
        BY <2>5
      <4>2. front \o back \in Seq(BrainId) /\ Len(front \o back) = Len(front) + Len(back)
        BY <4>1
      <4>3. (i - 1) + (Len(list) - i) = Len(list) - 1
        BY <1>1, <2>2
      <4> QED
        BY <2>5, <2>6, <4>2, <4>3
    <3>2. ASSUME NEW k \in 1..(Len(list) - 1) PROVE rest[k] = IF k < i THEN list[k] ELSE list[k + 1]
      <4>1. CASE k < i
        <5>1. rest[k] = front[k] /\ k \in 1..(i - 1)
          BY <1>1, <2>2, <2>5, <2>6, <4>1
        <5> QED
          BY <2>5, <4>1, <5>1
      <4>2. CASE ~(k < i)
        <5>1. k - (i - 1) \in 1..(Len(list) - i) /\ i + (k - (i - 1)) = k + 1
          BY <1>1, <2>2, <4>2
        <5>2. rest[k] = back[k - (i - 1)]
          BY <1>1, <2>2, <2>5, <2>6, <4>2, <5>1
        <5> QED
          BY <2>5, <4>2, <5>1, <5>2
      <4> QED
        BY <4>1, <4>2
    <3> QED
      BY <3>1, <3>2
  <2>8. NoneTwice(rest)
    <3> SUFFICES ASSUME NEW k \in 1..(Len(list) - 1), NEW m \in 1..(Len(list) - 1), k # m
                 PROVE  rest[k] # rest[m]
      BY <2>7 DEF NoneTwice
    <3>1. PICK p, q \in 1..Len(list) : p # q /\ rest[k] = list[p] /\ rest[m] = list[q]
      <4>1. ASSUME NEW j \in 1..(Len(list) - 1)
            PROVE  /\ (IF j < i THEN j ELSE j + 1) \in 1..Len(list)
                   /\ rest[j] = list[IF j < i THEN j ELSE j + 1]
        BY <1>1, <2>2, <2>7
      <4>2. (IF k < i THEN k ELSE k + 1) # (IF m < i THEN m ELSE m + 1)
        BY <1>1, <2>2
      <4> QED
        BY <4>1, <4>2
    <3> QED
      BY <1>1, <3>1 DEF NoneTwice
  <2> QED
    BY <2>3, <2>4, <2>6, <2>7, <2>8, OrdersAre
<1>3. CASE b \notin MembersOf(list)
  BY <1>3 DEF Released
<1> QED
  BY <1>2, <1>3

TablesOK ==
    /\ known \subseteq BrainId /\ enabled \subseteq known
    /\ cell \in Orders(BrainId) /\ stocked \in BOOLEAN /\ marker \in BOOLEAN
    /\ boot \in {"seeding", "rollout", "mapping", "marking", "serving"}
    /\ applied \subseteq MembersOf(PolicyCell)
    /\ boots \in 0..MaxBoots /\ catalogEdits \in 0..MaxCatalogEdits

Apt(r) == r \in Inquiry /\ Apart(r)

LEMMA AptRequests ==
    ASSUME CatalogTIInv
    PROVE  /\ Apt(NoInquiry) /\ TablesOK /\ (boots < MaxBoots => boots + 1 \in 0..MaxBoots)
           /\ Inquires => catalogEdits' \in 0..MaxCatalogEdits
           /\ \A d \in Desk : /\ Apt(desk[d]) /\ desk = [desk EXCEPT ![d] = desk[d]]
                              /\ desk[d].brain \in BrainId \cup {NobodysBrain}
                              /\ desk[d].list \in Orders(BrainId) /\ desk[d].out \in Orders(BrainId)
<1>1. Apt(NoInquiry)
  BY SmallOrders DEF Apt, NoInquiry, Inquiry, Apart
<1>2. TablesOK /\ desk \in [Desk -> Inquiry] /\ \A d \in Desk : Apart(desk[d])
  BY DEF CatalogTIInv, CatalogTypeOK, TablesOK
<1>3. boots \in 0..MaxBoots /\ catalogEdits \in 0..MaxCatalogEdits /\ MaxBoots \in Nat /\ MaxCatalogEdits \in Nat
  BY <1>2, CatalogBounds DEF TablesOK
<1>4. \A d \in Desk : /\ desk[d] \in Inquiry /\ Apart(desk[d]) /\ desk = [desk EXCEPT ![d] = desk[d]]
                      /\ desk[d].brain \in BrainId \cup {NobodysBrain}
                      /\ desk[d].list \in Orders(BrainId) /\ desk[d].out \in Orders(BrainId)
  BY <1>2 DEF Inquiry
<1> QED
  BY <1>1, <1>2, <1>3, <1>4 DEF Apt, Inquires

LEMMA AptMoves ==
    ASSUME NEW r, Apt(r), NEW at \in {"deleting", "pool", "unstocking", "updating", "releasing", "blockers"}
    PROVE  Apt([r EXCEPT !.at = at])
<1>1. r \in Inquiry
  BY DEF Apt
<1>2. [r EXCEPT !.at = at] \in Inquiry /\ [r EXCEPT !.at = at].at = at
  BY <1>1 DEF Inquiry
<1> QED
  BY <1>2 DEF Apt, Apart

\* Every request is typed, whoever served it, and so is the history kept of it.
LEMMA CatalogIsTyped ==
    ASSUME CatalogTIInv, TablesOK', Witness,
           \/ UNCHANGED desk
           \/ desk' = [e \in Desk |-> NoInquiry]
           \/ \E d \in Desk, r \in Inquiry : Apart(r) /\ desk' = [desk EXCEPT ![d] = r]
    PROVE  CatalogTypeOK' /\ \A d \in Desk : Apart(desk'[d])
<1>1. desk \in [Desk -> Inquiry] /\ (\A d \in Desk : Apart(desk[d])) /\ NoInquiry \in Inquiry /\ Apart(NoInquiry)
  BY AptRequests DEF CatalogTIInv, CatalogTypeOK, Apt
<1>2. desk' \in [Desk -> Inquiry] /\ \A d \in Desk : Apart(desk'[d])
  BY <1>1
<1>3. enabled' \subseteq BrainId /\ known' \subseteq BrainId
  BY DEF TablesOK
<1>4. \A d \in Desk : CanServe(desk[d])' \subseteq BrainId
  BY <1>3 DEF CanServe
<1>5. always' \in [Desk -> SUBSET BrainId] /\ ever' \in [Desk -> SUBSET BrainId]
  BY <1>3, <1>4 DEF Witness, CatalogTIInv, CatalogTypeOK
<1> QED
  BY <1>2, <1>5 DEF CatalogTypeOK, TablesOK

LEMMA StartupIsTyped ==
    ASSUME CatalogTIInv, Startup \/ RestartAll
    PROVE  TablesOK' /\ (UNCHANGED desk \/ desk' = [e \in Desk |-> NoInquiry])
<1>1. TablesOK /\ (boots < MaxBoots => boots + 1 \in 0..MaxBoots)
  BY AptRequests
<1>2. MembersOf(PolicyCell) \subseteq BrainId /\ PolicyCell \in Orders(BrainId)
  BY OrdersAreSequences, PolicyAssumption DEF MembersOf
<1>3. CASE SeedBrains
  BY <1>1, <1>3 DEF SeedBrains, RolloutDue, OnlyStarts, TablesOK
<1>4. CASE \E b \in BrainId : ApplyBrain(b)
  BY <1>1, <1>4 DEF ApplyBrain, OnlyStarts, TablesOK
<1>5. CASE MapCells
  BY <1>1, <1>2, <1>5 DEF MapCells, OnlyStarts, TablesOK
<1>6. CASE AppendMarker
  BY <1>1, <1>6 DEF AppendMarker, OnlyStarts, TablesOK
<1>7. CASE RestartAll
  BY <1>1, <1>7 DEF RestartAll, tableVars, TablesOK
<1> QED
  BY <1>3, <1>4, <1>5, <1>6, <1>7 DEF Startup

\* What is laid on a desk is a request, and the tables keep their types.
Laid(d) == \E r : Apt(r) /\ desk' = [desk EXCEPT ![d] = r]

LEMMA EditsAreTyped ==
    ASSUME CatalogTIInv, NEW d \in Desk, CreateBrain(d) \/ UpdateBrain(d) \/ DeleteBrain(d)
    PROVE  TablesOK' /\ Laid(d)
<1> USE AptRequests
<1> USE DEF Lay, Clear, GoOn, BeginsWith, OnlyInquires, bootVars, tableVars
<1>1. CASE CreateBrain(d)
  <2>1. Laid(d)
    BY <1>1 DEF CreateBrain, Laid
  <2>2. TablesOK'
    BY <1>1 DEF CreateBrain, TablesOK
  <2> QED
    BY <2>1, <2>2
<1>2. ASSUME NEW b \in known, NEW at \in {"updating", "releasing", "deleting"},
             BeginsWith(d, [NoInquiry EXCEPT !.at = at, !.brain = b])
      PROVE  TablesOK' /\ Laid(d)
  <2>1. b \in BrainId /\ Apt(NoInquiry)
    BY DEF TablesOK
  <2>2. PICK r : r = [NoInquiry EXCEPT !.at = at, !.brain = b]
    OBVIOUS
  <2>3. r \in Inquiry /\ r.at = at
    BY <2>1, <2>2 DEF Apt, Inquiry
  <2>4. Laid(d)
    BY <1>2, <2>2, <2>3 DEF Laid, Apt, Apart
  <2>5. TablesOK'
    BY <1>2 DEF TablesOK
  <2> QED
    BY <2>4, <2>5
<1>3. CASE UpdateBrain(d) /\ desk[d].at = "updating" /\ Clear(d)
  <2>1. enabled' \subseteq known
    BY <1>3 DEF UpdateBrain, RowsOf, TablesOK, FreeDesk, NoInquiry
  <2>2. UNCHANGED <<known, cell, stocked, marker, boot, applied, boots, catalogEdits>>
    <3>1. ~FreeDesk(d)
      BY <1>3 DEF FreeDesk, NoInquiry
    <3> QED
      BY <1>3, <3>1 DEF UpdateBrain
  <2>3. TablesOK'
    BY <2>1, <2>2 DEF TablesOK
  <2> QED
    BY <1>3, <2>3 DEF Laid
<1>4. CASE desk[d].at = "releasing" /\ GoOn(d, "deleting") /\ cell' = Released(cell, desk[d].brain)
           /\ UNCHANGED <<known, enabled, stocked, marker>> /\ OnlyInquires
  <2>1. cell' \in Orders(BrainId)
    BY <1>4, OrderReleases DEF TablesOK
  <2>2. TablesOK'
    BY <1>4, <2>1 DEF TablesOK
  <2> QED
    BY <1>4, <2>2, AptMoves DEF Laid
<1>5. CASE desk[d].at = "deleting" /\ Clear(d) /\ known' = known \ {desk[d].brain} /\ enabled' = enabled \ {desk[d].brain}
           /\ UNCHANGED <<cell, stocked, marker>> /\ OnlyInquires
  <2>1. TablesOK'
    BY <1>5 DEF TablesOK
  <2> QED
    BY <1>5, <2>1 DEF Laid
<1>6. CASE UpdateBrain(d)
  <2>1. CASE \E b \in known : BeginsWith(d, [NoInquiry EXCEPT !.at = "updating", !.brain = b])
    BY <1>2, <2>1
  <2> QED
    BY <1>3, <1>6, <2>1 DEF UpdateBrain
<1>7. CASE DeleteBrain(d)
  BY <1>2, <1>4, <1>5, <1>7 DEF DeleteBrain
<1> QED
  BY <1>1, <1>6, <1>7

LEMMA CellIsTyped ==
    ASSUME CatalogTIInv, NEW d \in Desk, SetCell(d)
    PROVE  TablesOK' /\ Laid(d)
<1> USE AptRequests
<1> USE DEF Lay, Clear, BeginsWith, OnlyInquires, bootVars, tableVars
<1>1. CASE FreeDesk(d) /\ Inquires /\ cell' = <<>> /\ UNCHANGED <<known, enabled, stocked, marker, bootVars, desk>>
  <2>1. TablesOK'
    BY <1>1, SmallOrders DEF TablesOK
  <2>2. Laid(d)
    BY <1>1 DEF Laid
  <2> QED
    BY <2>1, <2>2
<1>2. ASSUME NEW list \in Orders(BrainId), BeginsWith(d, [NoInquiry EXCEPT !.at = "validating", !.list = list])
      PROVE  TablesOK' /\ Laid(d)
  <2>1. PICK r : r = [NoInquiry EXCEPT !.at = "validating", !.list = list]
    OBVIOUS
  <2>2. r \in Inquiry /\ r.out = <<>>
    BY <2>1 DEF Apt, Inquiry, NoInquiry
  <2>3. Laid(d)
    BY <1>2, <2>1, <2>2, MembersOfNone DEF Laid, Apt, Apart
  <2>4. TablesOK'
    BY <1>2 DEF TablesOK
  <2> QED
    BY <2>3, <2>4
<1>3. CASE /\ desk[d].at = "validating" /\ desk[d].list # <<>>
           /\ Lay(d, [desk[d] EXCEPT !.list = Tail(@), !.out = Append(@, Head(desk[d].list)),
                                     !.live = @ \/ Head(desk[d].list) \in enabled])
           /\ UNCHANGED tableVars /\ OnlyInquires
  <2>1. PICK list, out : list = Tail(desk[d].list) /\ out = Append(desk[d].out, Head(desk[d].list))
    OBVIOUS
  <2>2. MembersOf(desk[d].list) \cap MembersOf(desk[d].out) = {}
    BY <1>3 DEF Apt, Apart
  <2>3. /\ list \in Orders(BrainId) /\ out \in Orders(BrainId)
        /\ MembersOf(list) \cap MembersOf(out) = {}
    BY <1>3, <2>1, <2>2, OrderShrinks, OrderGrows
  <2>4. PICK r : r = [desk[d] EXCEPT !.list = Tail(@), !.out = Append(@, Head(desk[d].list)),
                                     !.live = @ \/ Head(desk[d].list) \in enabled]
    OBVIOUS
  <2>5. desk[d] \in Inquiry
    BY DEF Apt
  <2>6. r \in Inquiry /\ r.list = list /\ r.out = out
    BY <2>1, <2>3, <2>4, <2>5 DEF Inquiry
  <2>7. TablesOK'
    BY <1>3 DEF TablesOK
  <2>8. desk' = [desk EXCEPT ![d] = r]
    BY <1>3, <2>4
  <2> QED
    BY <2>3, <2>6, <2>7, <2>8 DEF Laid, Apt, Apart
<1>4. CASE desk[d].at = "validating" /\ Clear(d) /\ UNCHANGED <<known, enabled, stocked, marker>>
           /\ cell' \in {desk[d].out, cell} /\ OnlyInquires
  <2>1. TablesOK'
    BY <1>4 DEF TablesOK
  <2> QED
    BY <1>4, <2>1 DEF Laid
<1> QED
  BY <1>1, <1>2, <1>3, <1>4 DEF SetCell

LEMMA ResolutionIsTyped ==
    ASSUME CatalogTIInv, NEW d \in Desk, ResolveCell(d)
    PROVE  TablesOK' /\ Laid(d)
<1> USE AptRequests
<1>1. UNCHANGED <<known, enabled, cell, stocked, marker, catalogEdits, boot, applied, boots>>
  BY DEF ResolveCell, OnlyInquires, tableVars, bootVars
<1>2. SUFFICES Laid(d)
  BY <1>1 DEF TablesOK
<1>3. ASSUME NEW next \in Inquiry, MembersOf(next.list) \cap MembersOf(next.out) = {},
             Lay(d, [next EXCEPT !.at = Following(next)])
      PROVE  Laid(d)
  <2>1. PICK at \in {"members", "answered", "default"} : at = Following(next)
    BY DEF Following
  <2>2. PICK r : r = [next EXCEPT !.at = at]
    OBVIOUS
  <2>3. r \in Inquiry /\ r.list = next.list /\ r.out = next.out
    BY <2>1, <2>2 DEF Inquiry
  <2> QED
    BY <1>3, <2>1, <2>2, <2>3 DEF Laid, Apt, Apart, Lay
<1>4. ASSUME FreeDesk(d), NEW next, next = [NoInquiry EXCEPT !.list = cell],
             Lay(d, [next EXCEPT !.at = Following(next)])
      PROVE  Laid(d)
  <2>1. next \in Inquiry /\ next.out = <<>>
    BY <1>4 DEF TablesOK, Apt, Inquiry, NoInquiry
  <2> QED
    BY <1>3, <1>4, <2>1, MembersOfNone
<1>5. ASSUME desk[d].at = "members", NEW b, b = Head(desk[d].list),
             NEW next, next = [desk[d] EXCEPT !.list = Tail(@), !.out = IF b \in enabled THEN Append(@, b) ELSE @],
             Lay(d, [next EXCEPT !.at = Following(next)])
      PROVE  Laid(d)
  <2>1. desk[d].list # <<>> /\ MembersOf(desk[d].list) \cap MembersOf(desk[d].out) = {}
    BY <1>5 DEF CatalogTIInv, CatalogIInv, ResolveFits, Apt, Apart
  <2>2. PICK out : out = IF b \in enabled THEN Append(desk[d].out, b) ELSE desk[d].out
    OBVIOUS
  <2>3. /\ Tail(desk[d].list) \in Orders(BrainId) /\ out \in Orders(BrainId)
        /\ MembersOf(Tail(desk[d].list)) \cap MembersOf(out) = {}
    BY <1>5, <2>1, <2>2, OrderShrinks, OrderGrows
  <2>4. desk[d] \in Inquiry
    BY DEF Apt
  <2>5. next \in Inquiry /\ next.list = Tail(desk[d].list) /\ next.out = out
    BY <1>5, <2>2, <2>3, <2>4 DEF Inquiry
  <2> QED
    BY <1>3, <1>5, <2>3, <2>5
<1>6. ASSUME NEW out \in Orders(BrainId), Lay(d, [desk[d] EXCEPT !.at = "answered", !.out = out])
      PROVE  Laid(d)
  <2>1. PICK r : r = [desk[d] EXCEPT !.at = "answered", !.out = out]
    OBVIOUS
  <2>2. desk[d] \in Inquiry
    BY DEF Apt
  <2>3. r \in Inquiry /\ r.at = "answered"
    BY <2>1, <2>2 DEF Inquiry
  <2> QED
    BY <1>6, <2>1, <2>3 DEF Laid, Apt, Apart, Lay
<1>7. CASE GoOn(d, "pool") \/ Clear(d)
  <2>1. Apt([desk[d] EXCEPT !.at = "pool"])
    BY AptMoves
  <2> QED
    BY <1>7, <2>1 DEF GoOn, Clear, Lay, Laid
<1>8. CASE FreeDesk(d) /\ Lay(d, [[NoInquiry EXCEPT !.list = cell]
                                     EXCEPT !.at = Following([NoInquiry EXCEPT !.list = cell])])
  BY <1>4, <1>8
<1>9. CASE desk[d].at = "default" /\ Lay(d, [desk[d] EXCEPT !.at = "answered", !.out = <<GridDefault>>])
  BY <1>6, <1>9, SmallOrders
<1> QED
  BY <1>5, <1>6, <1>7, <1>8, <1>9 DEF ResolveCell

LEMMA ModelIsTyped ==
    ASSUME CatalogTIInv, NEW d \in Desk, DeleteModel(d) \/ StockModel(d)
    PROVE  TablesOK' /\ Laid(d)
<1> USE AptRequests
<1> USE DEF Lay, Clear, GoOn, BeginsWith, OnlyInquires, bootVars, tableVars
<1>1. SUFFICES Laid(d)
  BY DEF DeleteModel, StockModel, TablesOK
<1>2. CASE StockModel(d)
  BY <1>2 DEF StockModel, Laid
<1>3. CASE DeleteModel(d)
  <2>1. Apt([NoInquiry EXCEPT !.at = "blockers"]) /\ Apt([desk[d] EXCEPT !.at = "unstocking"])
    BY AptMoves
  <2> QED
    BY <1>3, <2>1 DEF DeleteModel, Laid
<1> QED
  BY <1>2, <1>3

LEMMA CatalogTypesStart == CatalogInit => CatalogTIInv
<1> SUFFICES ASSUME CatalogInit PROVE CatalogTIInv
  OBVIOUS
<1>1. NoInquiry \in Inquiry /\ Apart(NoInquiry)
  BY SmallOrders DEF NoInquiry, Inquiry, Apart
<1>2. CatalogTypeOK
  <2>1. 0 \in 0..MaxBoots /\ 0 \in 0..MaxCatalogEdits
    BY CatalogBounds
  <2>2. desk \in [Desk -> Inquiry] /\ always \in [Desk -> SUBSET BrainId] /\ ever \in [Desk -> SUBSET BrainId]
    BY <1>1 DEF CatalogInit
  <2> QED
    BY <2>1, <2>2, SmallOrders DEF CatalogInit, CatalogTypeOK
<1>3. \A d \in Desk : Apart(desk[d])
  BY <1>1 DEF CatalogInit
<1> QED
  BY <1>2, <1>3, CatalogStarts DEF CatalogTIInv

LEMMA CatalogTypeSteps ==
    ASSUME CatalogTIInv, [CatalogNext]_catalogVars
    PROVE  CatalogTIInv'
<1>1. CatalogIInv'
  BY CatalogSteps DEF CatalogTIInv
<1>2. CASE UNCHANGED catalogVars
  <2>1. UNCHANGED <<known, enabled, cell, stocked, marker, boot, applied, boots, desk, always, ever, catalogEdits>>
    BY <1>2 DEF catalogVars, tableVars, bootVars
  <2> QED
    BY <1>1, <2>1 DEF CatalogTIInv, CatalogTypeOK
<1>3. CASE CatalogNext
  <2>1. Witness /\ (Startup \/ RestartAll \/ \E d \in Desk : ServeDesk(d))
    BY <1>3 DEF CatalogNext
  <2>2. ASSUME NEW d \in Desk, ServeDesk(d) PROVE TablesOK' /\ Laid(d)
    BY <2>2, EditsAreTyped, CellIsTyped, ResolutionIsTyped, ModelIsTyped DEF ServeDesk
  <2>3. TablesOK'
    BY <2>1, <2>2, StartupIsTyped
  <2>4. \/ UNCHANGED desk
        \/ desk' = [e \in Desk |-> NoInquiry]
        \/ \E d \in Desk, r \in Inquiry : Apart(r) /\ desk' = [desk EXCEPT ![d] = r]
    BY <2>1, <2>2, StartupIsTyped DEF Laid, Apt
  <2>5. CatalogTypeOK' /\ \A d \in Desk : Apart(desk'[d])
    BY <2>1, <2>3, <2>4, CatalogIsTyped
  <2> QED
    BY <1>1, <2>5 DEF CatalogTIInv, Apart
<1> QED
  BY <1>2, <1>3

\* The configuration keeps its types: no list of members, asked for, found or stored,
\* ever names a Brain twice, and only Brains that have a row are enabled.
THEOREM CatalogTyped == CatalogSpec => []CatalogTypeOK
<1>1. CatalogTIInv => CatalogTypeOK
  BY DEF CatalogTIInv
<1> QED
  BY <1>1, CatalogTypesStart, CatalogTypeSteps, PTL DEF CatalogSpec

-----------------------------------------------------------------------------
(* Plans: the order of phases, and the marks in the checklist *)

\* A task that need no longer be waited for.
Over(d) == d \in finished \/ rows[d].row # "listed"

RowInOrder(t) ==
    /\ rows[t].status = "COMPLETE" => t \in finished
    /\ rows[t].row = "listed" => \A d \in rows[t].follows \ rows[t].deps : rows[d].row # "listed"
    /\ rows[t].ran => \A d \in rows[t].follows : Over(d)

Registered(p, table) == \E t \in 1..Len(table) : table[t].piece = p /\ table[t].kind = "doc"

\* What a request has read of the document and has created is there.
Grounded(x, table) ==
    /\ x \in Errand
    /\ \A p \in Piece : x.made[p] <= Len(table)
    /\ x.due \subseteq 1..Len(table)
    /\ x.kind = "doc" => \A p \in Piece : x.made[p] # 0 => table[x.made[p]].piece = p /\ table[x.made[p]].kind = "doc"
    /\ \A p \in Piece : x.read[p] = "registered" => Registered(p, table)

ErrandFits(x, table) ==
    /\ Grounded(x, table)
    /\ x.at = "creating" => x.todo # {}
    /\ x.at = "queueing" => x.due # {}
    /\ x.at = "marking" => x.kind = "doc"

LookFits == look.on # 0 /\ look.met => \A d \in rows[look.on].follows : Over(d)
MarksFit == \A p \in Piece : doc[p] = "registered" => Registered(p, rows)

PlanIInv ==
    /\ PlanTypeOK /\ (\A t \in Known : RowInOrder(t))
    /\ (\A h \in Planner : ErrandFits(planner[h], rows)) /\ LookFits /\ MarksFit

LEMMA PlanConstants ==
    /\ Cardinality(Piece) \in Nat /\ Piece = 1..Cardinality(Piece) /\ Piece \cup {0} \subseteq Nat /\ 0 \notin Piece
    /\ MaxTasks \in Nat /\ MaxRequests \in Nat /\ MaxPlanOps \in Nat /\ MaxDocEdits \in Nat /\ MaxPlanTroubles \in Nat
    /\ Piece # {} /\ \A phases \in Phases : phases \subseteq Piece /\ phases # {}
<1>1. Cardinality(Piece) \in Nat
  BY PlanAssumption, FS_CardinalityType
<1>2. Piece = 1..Cardinality(Piece) /\ Piece # {} /\ Lightweight \in Piece
  BY PlanAssumption
<1>3. Piece \cup {0} \subseteq Nat /\ 0 \notin Piece
  BY <1>1, <1>2
<1>4. ASSUME NEW n \in {Lightweight, Cardinality(Piece)} PROVE 1..n \subseteq Piece /\ 1..n # {}
  <2>1. PICK c \in Nat : c = Cardinality(Piece) /\ Piece = 1..c
    BY <1>1, <1>2
  <2>2. n \in 1..c
    <3>1. PICK light : light = Lightweight /\ light \in Piece
      BY <1>2
    <3>2. light \in 1..c
      BY <2>1, <3>1
    <3>3. c \in 1..c
      BY <3>2
    <3>4. n = light \/ n = c
      BY <2>1, <3>1
    <3> QED
      BY <3>2, <3>3, <3>4
  <2>3. n \in Nat /\ 1 \in 1..n /\ 1..n \subseteq 1..c
    BY <2>1, <2>2
  <2> QED
    BY <2>1, <2>3
<1>5. \A phases \in Phases : phases \subseteq Piece /\ phases # {}
  BY <1>4 DEF Phases
<1> QED
  BY <1>1, <1>2, <1>3, <1>5, PlanBounds

LEMMA MinIsIn ==
    ASSUME NEW S \in SUBSET Nat, S # {}
    PROVE  Min(S) \in S
<1> DEFINE R == OpToRel(<, Nat)
<1>1. \A x, y \in Nat : <<x, y>> \in R <=> x < y
  BY DEF OpToRel
<1>2. IsWellFoundedOn(R, Nat)
  BY NatLessThanWellFounded
<1> HIDE DEF R
<1>3. PICK n \in S : \A y \in S : ~ (<<y, n>> \in R)
  BY <1>2, WFMin
<1>4. \A k \in S : <<k, n>> \in R <=> k < n
  BY <1>1
<1>5. \A k \in S : ~(k < n)
  BY <1>3, <1>4
<1>6. \A k \in S : n <= k
  BY <1>5
<1> QED
  BY <1>6 DEF Min

\* What any step but the creation of a task leaves a reader of the rows to rely on,
\* and so does that.
RowsLast(table, later) ==
    /\ Len(table) <= Len(later)
    /\ \A t \in 1..Len(table) : /\ later[t].piece = table[t].piece /\ later[t].kind = table[t].kind
                                /\ later[t].follows = table[t].follows
                                /\ table[t].row # "listed" => later[t].row # "listed"

LEMMA RegisteredLasts ==
    ASSUME NEW table \in Seq(TaskRow), NEW later \in Seq(TaskRow), RowsLast(table, later),
           NEW p, Registered(p, table)
    PROVE  Registered(p, later)
BY DEF Registered, RowsLast

LEMMA GroundedLasts ==
    ASSUME NEW table \in Seq(TaskRow), NEW later \in Seq(TaskRow), RowsLast(table, later), NEW x, Grounded(x, table)
    PROVE  Grounded(x, later)
<1>1. /\ x \in Errand /\ \A p \in Piece : x.made[p] \in Nat /\ x.made[p] <= Len(table)
      /\ Len(table) \in Nat /\ Len(later) \in Nat /\ Len(table) <= Len(later)
  BY PlanConstants DEF Grounded, Errand, RowsLast, Task
<1>2. \A p \in Piece : x.made[p] <= Len(later)
  BY <1>1
<1>3. x.due \subseteq 1..Len(later)
  BY <1>1 DEF Grounded
<1>4. ASSUME x.kind = "doc", NEW p \in Piece, x.made[p] # 0
      PROVE  later[x.made[p]].piece = p /\ later[x.made[p]].kind = "doc"
  <2>1. x.made[p] \in 1..Len(table)
    BY <1>1, <1>4
  <2> QED
    BY <1>4, <2>1 DEF Grounded, RowsLast
<1>5. \A p \in Piece : x.read[p] = "registered" => Registered(p, later)
  BY RegisteredLasts DEF Grounded
<1> QED
  BY <1>1, <1>2, <1>3, <1>4, <1>5 DEF Grounded

LEMMA IdleIsGrounded ==
    ASSUME NEW table \in Seq(TaskRow)
    PROVE  Idle \in Errand /\ Grounded(Idle, table) /\ ErrandFits(Idle, table) /\ Idle.at = "free"
<1>1. Len(table) \in Nat /\ Idle \in Errand
  BY DEF Idle, Errand, Documents
<1> QED
  BY <1>1 DEF Grounded, ErrandFits, Idle

LEMMA OnwardFits ==
    ASSUME NEW table \in Seq(TaskRow), NEW x, Grounded(x, table)
    PROVE  ErrandFits(Onward(x), table)
<1>0. x \in Errand
  BY DEF Grounded
<1>1. PICK at \in {"queueing", "creating", "marking", "free"} :
         /\ at = "free" => Onward(x) = Idle
         /\ at # "free" => Onward(x) = [x EXCEPT !.at = at]
         /\ at = "queueing" => x.due # {}
         /\ at = "creating" => x.todo # {}
         /\ at = "marking" => x.kind = "doc"
  <2>1. CASE x.due # {}
    BY <2>1 DEF Onward
  <2>2. CASE x.due = {} /\ x.todo # {}
    BY <2>2 DEF Onward
  <2>3. CASE x.due = {} /\ x.todo = {} /\ x.kind = "doc"
    BY <2>3 DEF Onward
  <2>4. CASE x.due = {} /\ x.todo = {} /\ x.kind # "doc"
    BY <2>4 DEF Onward
  <2> QED
    BY <2>1, <2>2, <2>3, <2>4
<1>2. CASE at = "free"
  BY <1>1, <1>2, IdleIsGrounded
<1>3. CASE at # "free"
  <2>1. PICK y : y = [x EXCEPT !.at = at]
    OBVIOUS
  <2>2. /\ y \in Errand /\ y.at = at /\ y.kind = x.kind /\ y.read = x.read /\ y.todo = x.todo
        /\ y.made = x.made /\ y.due = x.due
    BY <1>0, <2>1 DEF Errand
  <2>3. Grounded(y, table)
    BY <2>2 DEF Grounded
  <2>4. ErrandFits(y, table)
    BY <1>1, <2>2, <2>3 DEF ErrandFits
  <2> QED
    BY <1>1, <1>3, <2>1, <2>4
<1> QED
  BY <1>2, <1>3

LEMMA PlanStarts == PlanInit => PlanIInv
<1> SUFFICES ASSUME PlanInit PROVE PlanIInv
  OBVIOUS
<1>1. rows = <<>> /\ rows \in Seq(TaskRow) /\ Len(rows) = 0 /\ Known = {}
  BY DEF PlanInit, Known
<1>2. \A h \in Planner : planner[h] = Idle /\ ErrandFits(planner[h], rows) /\ Idle \in Errand
  BY <1>1, IdleIsGrounded DEF PlanInit
<1>3. NoLook \in Glance /\ NoLook.on = 0
  BY DEF NoLook, Glance, AdmissibleStatus
<1>4. doc \in Documents /\ \A p \in Piece : doc[p] # "registered"
  BY DEF PlanInit, Documents
<1>5. PlanTypeOK
  <2>1. planner \in [Planner -> Errand]
    BY <1>2 DEF PlanInit
  <2>2. \A h \in Planner : (\A p \in Piece : planner[h].made[p] <= Len(rows)) /\ planner[h].due \subseteq Known
    BY <1>1, <1>2 DEF Idle
  <2>3. Len(rows) <= MaxTasks /\ look \in Glance /\ look.on <= Len(rows) /\ finished \subseteq Known
    BY <1>1, <1>3, PlanConstants DEF PlanInit
  <2> QED
    BY <1>1, <1>4, <2>1, <2>2, <2>3, PlanConstants DEF PlanInit, PlanTypeOK
<1> QED
  BY <1>1, <1>2, <1>3, <1>4, <1>5 DEF PlanInit, PlanIInv, LookFits, MarksFit

\* A task's row is written in a step that leaves its edges alone and gives it an
\* attempt only if it is in order.
RowMoves(t, x) ==
    /\ x \in TaskRow /\ rows' = [rows EXCEPT ![t] = x]
    /\ x.piece = rows[t].piece /\ x.kind = rows[t].kind /\ x.row = rows[t].row
    /\ x.deps = rows[t].deps /\ x.follows = rows[t].follows
    /\ x.ran /\ ~rows[t].ran => \A d \in rows[t].follows : Over(d)
    /\ x.status = "COMPLETE" => t \in finished'
    /\ finished \subseteq finished' /\ finished' \subseteq Known

\* What the rows owe to the invariant after a step.
RowsKept ==
    /\ rows' \in Seq(TaskRow) /\ Len(rows') <= MaxTasks /\ RowsLast(rows, rows')
    /\ \A c \in Known' : rows'[c].deps \subseteq rows'[c].follows /\ \A d \in rows'[c].follows : d < c
    /\ finished' \subseteq Known'
    /\ \A c \in Known' : RowInOrder(c)'
    /\ UNCHANGED look => LookFits'

LEMMA RowsMove ==
    ASSUME PlanIInv, NEW t \in Known, NEW x, RowMoves(t, x)
    PROVE  RowsKept
<1>1. /\ rows \in Seq(TaskRow) /\ Len(rows) \in Nat /\ Known = 1..Len(rows)
      /\ \A c \in Known : rows[c].deps \subseteq rows[c].follows /\ \A d \in rows[c].follows : d < c
      /\ look.on \in Nat /\ look.on <= Len(rows)
  BY PlanConstants DEF PlanIInv, PlanTypeOK, Known, Glance, Task
<1>2. /\ rows' \in Seq(TaskRow) /\ Len(rows') = Len(rows) /\ rows'[t] = x
      /\ \A c \in Known : c # t => rows'[c] = rows[c]
  BY <1>1 DEF RowMoves
<1>3. Known' = Known
  BY <1>1, <1>2 DEF Known
<1>4. /\ \A c \in Known : /\ rows'[c].piece = rows[c].piece /\ rows'[c].kind = rows[c].kind
                          /\ rows'[c].row = rows[c].row
                          /\ rows'[c].deps = rows[c].deps /\ rows'[c].follows = rows[c].follows
      /\ \A c \in Known : \A d \in rows[c].follows : d \in Known
  <2>1. ASSUME NEW c \in Known, NEW d \in rows[c].follows PROVE d \in Known
    <3>1. rows[c] \in TaskRow /\ c \in 1..Len(rows) /\ d < c
      BY <1>1, <2>1
    <3>2. d \in 1..MaxTasks
      BY <2>1, <3>1 DEF TaskRow, Task
    <3> QED
      BY <1>1, <3>1, <3>2, PlanConstants
  <2>2. ASSUME NEW c \in Known
        PROVE  /\ rows'[c].piece = rows[c].piece /\ rows'[c].kind = rows[c].kind
               /\ rows'[c].row = rows[c].row
               /\ rows'[c].deps = rows[c].deps /\ rows'[c].follows = rows[c].follows
    BY <1>2 DEF RowMoves
  <2> QED
    BY <2>1, <2>2
<1>5. RowsLast(rows, rows')
  BY <1>1, <1>2, <1>4 DEF RowsLast
<1>6. \A d \in Known : Over(d) => Over(d)'
  BY <1>4 DEF Over, RowMoves
<1>7. \A c \in Known : RowInOrder(c)'
  <2> SUFFICES ASSUME NEW c \in Known PROVE RowInOrder(c)'
    OBVIOUS
  <2>1. RowInOrder(c) /\ \A d \in rows[c].follows : Over(d) => Over(d)'
    BY <1>4, <1>6 DEF PlanIInv
  <2>2. rows'[c].status = "COMPLETE" => c \in finished'
    BY <1>2, <2>1 DEF RowMoves, RowInOrder
  <2>3. rows'[c].row = "listed" => \A d \in rows'[c].follows \ rows'[c].deps : rows'[d].row # "listed"
    BY <1>4, <2>1 DEF RowInOrder
  <2>4. rows'[c].ran => \A d \in rows'[c].follows : Over(d)'
    <3>1. rows'[c].ran => \A d \in rows[c].follows : Over(d)
      BY <1>2, <2>1 DEF RowMoves, RowInOrder
    <3> QED
      BY <1>4, <2>1, <3>1
  <2> QED
    BY <2>2, <2>3, <2>4 DEF RowInOrder
<1>8. UNCHANGED look => LookFits'
  <2>1. look.on # 0 => look.on \in Known
    BY <1>1
  <2> QED
    BY <1>4, <1>6, <2>1 DEF PlanIInv, LookFits
<1>9. Len(rows') <= MaxTasks
  BY <1>2 DEF PlanIInv, PlanTypeOK
<1> QED
  BY <1>1, <1>2, <1>3, <1>4, <1>5, <1>7, <1>8, <1>9 DEF RowMoves, RowsKept

\* The requests and the marks, when the rows they read have lasted.
LEMMA ReadersStay ==
    ASSUME PlanIInv, rows' \in Seq(TaskRow), RowsLast(rows, rows')
    PROVE  /\ \A h \in Planner : planner'[h] = planner[h] => ErrandFits(planner'[h], rows')
           /\ doc' = doc => MarksFit'
<1>1. rows \in Seq(TaskRow)
  BY DEF PlanIInv, PlanTypeOK
<1>2. \A h \in Planner : planner'[h] = planner[h] => ErrandFits(planner'[h], rows')
  BY <1>1, GroundedLasts DEF PlanIInv, ErrandFits
<1>3. doc' = doc => MarksFit'
  BY <1>1, RegisteredLasts DEF PlanIInv, MarksFit
<1> QED
  BY <1>2, <1>3

LEMMA RowsRest ==
    ASSUME PlanIInv, UNCHANGED <<rows, finished>>
    PROVE  RowsKept
<1>1. rows \in Seq(TaskRow) /\ Len(rows) <= MaxTasks /\ Len(rows) \in Nat /\ Known' = Known
  BY DEF PlanIInv, PlanTypeOK, Known
<1>2. RowsLast(rows, rows')
  BY <1>1 DEF RowsLast
<1>3. (\A c \in Known' : RowInOrder(c)') /\ (UNCHANGED look => LookFits')
  BY <1>1 DEF PlanIInv, RowInOrder, LookFits, Over
<1> QED
  BY <1>1, <1>2, <1>3 DEF PlanIInv, PlanTypeOK, RowsKept

LEMMA RowsAppend ==
    ASSUME PlanIInv, NEW x \in TaskRow, rows' = Append(rows, x), Len(rows) + 1 <= MaxTasks, UNCHANGED finished,
           x.deps = x.follows, \A d \in x.follows : d <= Len(rows), x.status # "COMPLETE", ~x.ran
    PROVE  RowsKept /\ Len(rows') = Len(rows) + 1 /\ rows'[Len(rows) + 1] = x
<1>1. PICK n \in Nat : n = Len(rows)
  BY DEF PlanIInv, PlanTypeOK
<1>2. /\ rows \in Seq(TaskRow) /\ Known = 1..n /\ Known' = 1..(n + 1) /\ rows' \in Seq(TaskRow)
      /\ Len(rows') = n + 1 /\ rows'[n + 1] = x /\ \A c \in 1..n : rows'[c] = rows[c] /\ rows[c] \in TaskRow
  BY <1>1 DEF PlanIInv, PlanTypeOK, Known
<1>3. 1..(n + 1) = 1..n \cup {n + 1}
  BY <1>1
<1>4. RowsLast(rows, rows')
  BY <1>1, <1>2 DEF RowsLast
<1>5. /\ \A c \in 1..n : rows[c].deps \subseteq rows[c].follows /\ \A d \in rows[c].follows : d < c
      /\ finished \subseteq 1..n /\ look.on \in Nat /\ look.on <= n
  BY <1>1, <1>2, PlanConstants DEF PlanIInv, PlanTypeOK, Glance, Task
<1>6. \A c \in 1..n : \A d \in rows[c].follows : d \in 1..n
  <2> SUFFICES ASSUME NEW c \in 1..n, NEW d \in rows[c].follows PROVE d \in 1..n
    OBVIOUS
  <2>1. d < c /\ d \in 1..MaxTasks
    BY <1>2, <1>5 DEF TaskRow, Task
  <2> QED
    BY <1>1, <2>1, PlanConstants
<1>7. \A d \in x.follows : d \in 1..n
  BY <1>1, PlanConstants DEF TaskRow, Task
<1>8. \A c \in 1..(n + 1) : rows'[c].deps \subseteq rows'[c].follows /\ \A d \in rows'[c].follows : d < c
  BY <1>1, <1>2, <1>3, <1>5, <1>7
<1>9. \A c \in 1..(n + 1) : RowInOrder(c)'
  <2>1. ASSUME NEW c \in 1..n PROVE RowInOrder(c)'
    <3>1. RowInOrder(c)
      BY <1>2 DEF PlanIInv
    <3> QED
      BY <1>2, <1>6, <3>1 DEF RowInOrder, Over
  <2>2. RowInOrder(n + 1)'
    BY <1>2 DEF RowInOrder
  <2> QED
    BY <1>3, <2>1, <2>2
<1>10. UNCHANGED look => LookFits'
  <2>1. look.on # 0 => look.on \in 1..n
    BY <1>1, <1>5
  <2> QED
    BY <1>2, <1>6, <2>1 DEF PlanIInv, LookFits, Over
<1>11. finished' \subseteq Known'
  BY <1>2, <1>3, <1>5
<1> QED
  BY <1>1, <1>2, <1>4, <1>8, <1>9, <1>10, <1>11 DEF RowsKept

\* A deletion drops the edges of the row, and of nobody else's but those to it.
LEMMA RowsDeleted ==
    ASSUME PlanIInv, NEW t \in Known, DeleteTask(t)
    PROVE  RowsKept
<1>1. PICK n \in Nat : n = Len(rows)
  BY DEF PlanIInv, PlanTypeOK
<1>2. /\ rows \in Seq(TaskRow) /\ Known = 1..n /\ UNCHANGED <<finished, look>>
      /\ \A c \in 1..n : rows[c] \in TaskRow
  <2>1. rows \in Seq(TaskRow) /\ Known = 1..n
    BY <1>1 DEF PlanIInv, PlanTypeOK, Known
  <2>2. UNCHANGED finished /\ UNCHANGED look
    BY DEF DeleteTask
  <2> QED
    BY <1>1, <2>1, <2>2
<1>3. /\ \A c \in 1..n : rows[c].deps \subseteq rows[c].follows /\ \A d \in rows[c].follows : d < c
      /\ look.on \in Nat /\ look.on <= n
  BY <1>1, <1>2, PlanConstants DEF PlanIInv, PlanTypeOK, Glance, Task
<1>4. \A c \in 1..n : \A d \in rows[c].follows : d \in 1..n
  <2> SUFFICES ASSUME NEW c \in 1..n, NEW d \in rows[c].follows PROVE d \in 1..n
    OBVIOUS
  <2>1. d < c /\ d \in 1..MaxTasks
    BY <1>2, <1>3 DEF TaskRow, Task
  <2> QED
    BY <1>1, <2>1, PlanConstants
<1>5. rows' = [c \in 1..n |->
                  IF c = t THEN [rows[c] EXCEPT !.deps = {}, !.row = IF rows[t].ran THEN "hidden" ELSE "gone"]
                  ELSE [rows[c] EXCEPT !.deps = @ \ {t}]]
  BY <1>2 DEF DeleteTask
<1>6. \A c \in 1..n :
         /\ rows'[c] \in TaskRow /\ rows'[c].piece = rows[c].piece /\ rows'[c].kind = rows[c].kind
         /\ rows'[c].status = rows[c].status /\ rows'[c].ran = rows[c].ran /\ rows'[c].follows = rows[c].follows
         /\ c # t => rows'[c].row = rows[c].row /\ rows'[c].deps = rows[c].deps \ {t}
         /\ c = t => rows'[c].row # "listed" /\ rows'[c].deps = {}
  <2> SUFFICES ASSUME NEW c \in 1..n
               PROVE  /\ rows'[c] \in TaskRow /\ rows'[c].piece = rows[c].piece /\ rows'[c].kind = rows[c].kind
                      /\ rows'[c].status = rows[c].status /\ rows'[c].ran = rows[c].ran
                      /\ rows'[c].follows = rows[c].follows
                      /\ c # t => rows'[c].row = rows[c].row /\ rows'[c].deps = rows[c].deps \ {t}
                      /\ c = t => rows'[c].row # "listed" /\ rows'[c].deps = {}
    OBVIOUS
  <2>1. rows[c] \in TaskRow
    BY <1>2
  <2>2. CASE c = t
    <3>1. PICK gone \in {"hidden", "gone"} : rows'[c] = [rows[c] EXCEPT !.deps = {}, !.row = gone]
      BY <1>5, <2>2
    <3> QED
      BY <2>1, <2>2, <3>1 DEF TaskRow
  <2>3. CASE c # t
    <3>1. rows'[c] = [rows[c] EXCEPT !.deps = @ \ {t}]
      BY <1>5, <2>3
    <3> QED
      BY <2>1, <2>3, <3>1 DEF TaskRow
  <2> QED
    BY <2>2, <2>3
<1>7. rows' \in Seq(TaskRow) /\ Len(rows') = n /\ Known' = 1..n
  <2>1. rows' \in [1..n -> TaskRow]
    BY <1>5, <1>6
  <2> QED
    BY <1>1, <2>1 DEF Known
<1>8. RowsLast(rows, rows')
  BY <1>1, <1>6, <1>7 DEF RowsLast
<1>9. \A c \in 1..n : rows'[c].deps \subseteq rows'[c].follows /\ \A d \in rows'[c].follows : d < c
  BY <1>3, <1>6
<1>10. \A d \in 1..n : (rows[d].row # "listed" => rows'[d].row # "listed") /\ (Over(d) => Over(d)')
  BY <1>2, <1>6 DEF Over
<1>11. \A c \in 1..n : RowInOrder(c)'
  <2> SUFFICES ASSUME NEW c \in 1..n PROVE RowInOrder(c)'
    OBVIOUS
  <2>1. RowInOrder(c)
    BY <1>2 DEF PlanIInv
  <2>2. rows'[c].status = "COMPLETE" => c \in finished'
    BY <1>2, <1>6, <2>1 DEF RowInOrder
  <2>3. rows'[c].row = "listed" => \A d \in rows'[c].follows \ rows'[c].deps : rows'[d].row # "listed"
    BY <1>4, <1>6, <1>10, <2>1 DEF RowInOrder
  <2>4. rows'[c].ran => \A d \in rows'[c].follows : Over(d)'
    BY <1>4, <1>6, <1>10, <2>1 DEF RowInOrder
  <2> QED
    BY <2>2, <2>3, <2>4 DEF RowInOrder
<1>12. UNCHANGED look => LookFits'
  <2>1. look.on # 0 => look.on \in 1..n
    BY <1>1, <1>3
  <2> QED
    BY <1>4, <1>6, <1>10, <2>1 DEF PlanIInv, LookFits
<1> QED
  BY <1>1, <1>2, <1>7, <1>8, <1>9, <1>11, <1>12 DEF PlanIInv, PlanTypeOK, RowsKept

CountsFit ==
    /\ requests \in 0..MaxRequests /\ planOps \in 0..MaxPlanOps
    /\ docEdits \in 0..MaxDocEdits /\ planTroubles \in 0..MaxPlanTroubles

\* The invariant from what the parts say.
LEMMA Assembled ==
    ASSUME PlanIInv, RowsKept, CountsFit', doc' \in Documents, MarksFit',
           look' \in Glance, look'.on <= Len(rows'), LookFits',
           planner' = [h \in Planner |-> planner'[h]],
           \A h \in Planner : planner'[h] # planner[h] => ErrandFits(planner'[h], rows')
    PROVE  PlanIInv'
<1>1. \A h \in Planner : ErrandFits(planner'[h], rows')
  BY ReadersStay DEF RowsKept
<1>2. /\ planner' \in [Planner -> Errand]
      /\ \A h \in Planner : (\A p \in Piece : planner'[h].made[p] <= Len(rows')) /\ planner'[h].due \subseteq Known'
  BY <1>1 DEF ErrandFits, Grounded, Known, RowsKept
<1>3. PlanTypeOK'
  BY <1>2 DEF PlanTypeOK, RowsKept, CountsFit
<1> QED
  BY <1>1, <1>3 DEF PlanIInv, RowsKept

LEMMA HandlerSteps ==
    ASSUME PlanIInv, RowsKept, CountsFit', UNCHANGED <<doc, look>>,
           NEW h \in Planner, NEW y, ErrandFits(y, rows'), planner' = [planner EXCEPT ![h] = y]
    PROVE  PlanIInv'
<1>1. /\ rows \in Seq(TaskRow) /\ planner \in [Planner -> Errand] /\ doc \in Documents
      /\ look \in Glance /\ look.on <= Len(rows) /\ look.on \in Nat
  BY PlanConstants DEF PlanIInv, PlanTypeOK, Glance, Task
<1>2. planner' = [k \in Planner |-> planner'[k]] /\ \A k \in Planner : planner'[k] # planner[k] => planner'[k] = y
  BY <1>1
<1>3. MarksFit' /\ LookFits'
  BY ReadersStay DEF RowsKept
<1>4. look'.on <= Len(rows')
  BY <1>1 DEF RowsKept, RowsLast
<1> QED
  BY <1>1, <1>2, <1>3, <1>4, Assembled

LEMMA RowSteps ==
    ASSUME PlanIInv, RowsKept, CountsFit', UNCHANGED <<doc, planner>>, look' \in {look, NoLook}
    PROVE  PlanIInv'
<1>1. /\ rows \in Seq(TaskRow) /\ planner \in [Planner -> Errand] /\ doc \in Documents
      /\ look \in Glance /\ look.on <= Len(rows) /\ look.on \in Nat /\ Len(rows') \in Nat
  BY PlanConstants DEF PlanIInv, PlanTypeOK, Glance, Task, RowsKept
<1>2. NoLook \in Glance /\ NoLook.on = 0
  BY DEF NoLook, Glance, AdmissibleStatus
<1>3. MarksFit' /\ LookFits'
  <2>1. MarksFit'
    BY ReadersStay DEF RowsKept
  <2>2. CASE look' = look
    BY <2>1, <2>2 DEF RowsKept
  <2>3. CASE look' = NoLook
    BY <1>2, <2>1, <2>3 DEF LookFits
  <2> QED
    BY <2>1, <2>2, <2>3
<1>4. look'.on <= Len(rows') /\ look' \in Glance
  BY <1>1, <1>2 DEF RowsKept, RowsLast
<1>5. planner' = [k \in Planner |-> planner'[k]]
  BY <1>1
<1> QED
  BY <1>1, <1>3, <1>4, <1>5, Assembled

LEMMA CountsStay == PlanIInv /\ UNCHANGED planCounts => CountsFit'
BY DEF planCounts, PlanIInv, PlanTypeOK, CountsFit

\* What each request starts with.
LEMMA BeginningKeeps ==
    ASSUME PlanIInv, NEW h \in Planner, Arrives(h), NEW y \in Errand, y.at = "creating", y.todo # {},
           y.read \in {doc, Idle.read}, y.made = Idle.made, y.due = {},
           planner' = [planner EXCEPT ![h] = y]
    PROVE  PlanIInv'
<1>1. UNCHANGED <<rows, finished, doc, look>> /\ CountsFit'
  BY PlanConstants DEF Arrives, PlanIInv, PlanTypeOK, CountsFit
<1>2. Len(rows) \in Nat /\ rows \in Seq(TaskRow)
  BY DEF PlanIInv, PlanTypeOK
<1>3. \A p \in Piece : y.made[p] = 0 /\ (y.read[p] = "registered" => Registered(p, rows))
  BY DEF Idle, PlanIInv, MarksFit
<1>4. ErrandFits(y, rows)
  BY <1>2, <1>3 DEF ErrandFits, Grounded
<1>5. RowsKept
  BY <1>1, RowsRest
<1>6. ErrandFits(y, rows')
  BY <1>1, <1>4
<1> QED
  BY <1>1, <1>5, <1>6, HandlerSteps

LEMMA BeginningsKeep ==
    ASSUME PlanIInv, NEW h \in Planner,
           \/ \E immediate \in BOOLEAN : BeginRegister(h, immediate)
           \/ BeginTask(h) \/ BeginDoc(h) \/ BeginWork(h)
           \/ \E t \in Known : BeginDecompose(h, t)
    PROVE  PlanIInv'
<1>0. Idle \in Errand /\ Idle.due = {} /\ doc \in Documents
  BY IdleIsGrounded, <<>> \in Seq(TaskRow) DEF Idle, PlanIInv, PlanTypeOK
<1>1. ASSUME NEW immediate \in BOOLEAN, BeginRegister(h, immediate) PROVE PlanIInv'
  <2>1. PICK y : y = [Idle EXCEPT !.at = "creating", !.kind = "doc", !.read = doc,
                                   !.todo = OpenItems(doc), !.immediate = immediate]
    OBVIOUS
  <2>2. y \in Errand /\ y.at = "creating" /\ y.todo = OpenItems(doc) /\ y.read = doc /\ y.made = Idle.made /\ y.due = {}
    BY <1>0, <2>1 DEF Errand, OpenItems
  <2> QED
    BY <1>1, <2>1, <2>2, BeginningKeeps DEF BeginRegister
<1>2. CASE BeginTask(h) \/ BeginDoc(h)
  <2>1. PICK y :
           /\ \/ y = [Idle EXCEPT !.at = "creating", !.todo = {0}]
              \/ y = [Idle EXCEPT !.at = "creating", !.todo = {0}, !.immediate = TRUE]
           /\ planner' = [planner EXCEPT ![h] = y]
    BY <1>2 DEF BeginTask, BeginDoc
  <2>2. y \in Errand /\ y.at = "creating" /\ y.todo = {0} /\ y.read = Idle.read /\ y.made = Idle.made /\ y.due = {}
    BY <1>0, <2>1 DEF Errand
  <2> QED
    BY <1>2, <2>1, <2>2, BeginningKeeps DEF BeginTask, BeginDoc
<1>3. CASE BeginWork(h)
  <2>1. PICK y : y = [Idle EXCEPT !.at = "creating", !.kind = "work", !.todo = Piece]
    OBVIOUS
  <2>2. y \in Errand /\ y.at = "creating" /\ y.todo = Piece /\ y.read = Idle.read /\ y.made = Idle.made /\ y.due = {}
    BY <1>0, <2>1 DEF Errand
  <2> QED
    BY <1>3, <2>1, <2>2, BeginningKeeps, PlanConstants DEF BeginWork
<1>4. ASSUME NEW t \in Known, BeginDecompose(h, t) PROVE PlanIInv'
  <2>1. PICK phases, y :
           /\ phases \in Phases
           /\ y = [Idle EXCEPT !.at = "creating", !.kind = "plan", !.todo = phases, !.parent = t]
           /\ planner' = [planner EXCEPT ![h] = y]
    BY <1>4 DEF BeginDecompose
  <2>2. phases \subseteq Piece /\ phases # {} /\ t \in Task
    <3>1. PICK n \in Nat : n = Len(rows)
      BY DEF PlanIInv, PlanTypeOK
    <3>2. t \in 1..n /\ n <= MaxTasks
      BY <3>1 DEF PlanIInv, PlanTypeOK, Known
    <3> QED
      BY <2>1, <3>2, PlanConstants DEF Task
  <2>3. y \in Errand /\ y.at = "creating" /\ y.todo = phases /\ y.read = Idle.read /\ y.made = Idle.made /\ y.due = {}
    BY <1>0, <2>1, <2>2 DEF Errand
  <2> QED
    BY <1>4, <2>1, <2>2, <2>3, BeginningKeeps DEF BeginDecompose
<1> QED
  BY <1>1, <1>2, <1>3, <1>4

LEMMA PlanRows ==
    ASSUME PlanIInv
    PROVE  /\ rows \in Seq(TaskRow) /\ Len(rows) \in Nat /\ Known = 1..Len(rows) /\ finished \subseteq Known
           /\ \A t \in Known : /\ rows[t] \in TaskRow /\ rows = [rows EXCEPT ![t] = rows[t]]
                               /\ t \in Nat /\ t \in Task
<1>1. PICK n \in Nat : n = Len(rows)
  BY DEF PlanIInv, PlanTypeOK
<1>2. rows \in Seq(TaskRow) /\ Known = 1..n /\ n <= MaxTasks /\ finished \subseteq Known
  BY <1>1 DEF PlanIInv, PlanTypeOK, Known
<1>3. \A t \in 1..n : t \in Task /\ t \in Nat
  BY <1>2, PlanConstants DEF Task
<1>4. \A t \in 1..n : rows[t] \in TaskRow /\ rows = [rows EXCEPT ![t] = rows[t]]
  BY <1>1, <1>2
<1> QED
  BY <1>1, <1>2, <1>3, <1>4

LEMMA RowStaysInPlace ==
    ASSUME PlanIInv, NEW t \in Known, rows' = rows, finished' = finished
    PROVE  RowMoves(t, rows[t])
BY PlanRows DEF RowMoves, PlanIInv, RowInOrder

LEMMA StatusMoves ==
    ASSUME PlanIInv, NEW t \in Known, NEW to \in TaskStatus, NEW reason, rows' = Moved(t, to, reason),
           finished \subseteq finished', finished' \subseteq Known, to = "COMPLETE" => t \in finished'
    PROVE  RowsKept
<1>1. rows[t] \in TaskRow /\ (rows[t].status = "COMPLETE" => t \in finished)
  BY PlanRows DEF PlanIInv, RowInOrder
<1>2. CASE MayTransition(rows[t].status, to, reason)
  <2>1. PICK x : x = [rows[t] EXCEPT !.status = to]
    OBVIOUS
  <2>2. /\ x \in TaskRow /\ x.status = to /\ x.piece = rows[t].piece /\ x.kind = rows[t].kind /\ x.row = rows[t].row
        /\ x.deps = rows[t].deps /\ x.follows = rows[t].follows /\ x.ran = rows[t].ran
    BY <1>1, <2>1 DEF TaskRow
  <2>3. rows' = [rows EXCEPT ![t] = x]
    BY <1>2, <2>1 DEF Moved
  <2>4. RowMoves(t, x)
    BY <2>2, <2>3 DEF RowMoves
  <2> QED
    BY <2>4, RowsMove
<1>3. CASE ~MayTransition(rows[t].status, to, reason)
  <2>1. rows' = [rows EXCEPT ![t] = rows[t]]
    BY <1>3, PlanRows DEF Moved
  <2>2. RowMoves(t, rows[t])
    BY <1>1, <2>1 DEF RowMoves
  <2> QED
    BY <2>2, RowsMove
<1> QED
  BY <1>2, <1>3

LEMMA OperatorsKeep ==
    ASSUME PlanIInv, NEW t \in Known,
           \/ \E to \in {"COMPLETE", "BLOCKED"} : RunEnds(t, to)
           \/ StartHeld(t) \/ CancelPiece(t) \/ RevisePiece(t) \/ DeleteTask(t)
    PROVE  PlanIInv'
<1>1. UNCHANGED <<doc, planner, look>> /\ CountsFit'
  <2>1. /\ requests \in 0..MaxRequests /\ planOps \in 0..MaxPlanOps
        /\ docEdits \in 0..MaxDocEdits /\ planTroubles \in 0..MaxPlanTroubles
    BY DEF PlanIInv, PlanTypeOK
  <2>2. CASE \E to \in {"COMPLETE", "BLOCKED"} : RunEnds(t, to)
    <3>1. UNCHANGED <<doc, planner, look>> /\ UNCHANGED <<requests, planOps, docEdits>>
      BY <2>2 DEF RunEnds
    <3>2. planTroubles' \in 0..MaxPlanTroubles
      BY <2>1, <2>2, PlanConstants DEF RunEnds
    <3> QED
      BY <2>1, <3>1, <3>2 DEF CountsFit
  <2>3. CASE StartHeld(t) \/ CancelPiece(t) \/ RevisePiece(t) \/ DeleteTask(t)
    <3>1. /\ UNCHANGED <<doc, planner, look>> /\ UNCHANGED <<requests, docEdits, planTroubles>> /\ Operates
      BY <2>3 DEF StartHeld, CancelPiece, RevisePiece, DeleteTask
    <3>2. planOps' \in 0..MaxPlanOps
      BY <2>1, <3>1, PlanConstants DEF Operates
    <3> QED
      BY <2>1, <3>1, <3>2 DEF CountsFit
  <2> QED
    BY <2>2, <2>3
<1>2. RowsKept
  <2>1. ASSUME NEW to \in {"COMPLETE", "BLOCKED"}, RunEnds(t, to) PROVE RowsKept
    <3>1. rows' = Moved(t, to, "none") /\ finished' \in {finished, finished \cup {t}} /\ (to = "COMPLETE" => t \in finished')
      BY <2>1 DEF RunEnds
    <3>2. finished' \subseteq Known /\ finished \subseteq finished' /\ to \in TaskStatus
      BY <3>1, PlanRows DEF TaskStatus
    <3> QED
      BY <3>1, <3>2, StatusMoves
  <2>2. CASE StartHeld(t) \/ CancelPiece(t)
    <3>1. PICK to \in {"QUEUED", "CANCELLED"} : rows' = Moved(t, to, "none") /\ finished' = finished
      BY <2>2 DEF StartHeld, CancelPiece
    <3>2. to \in TaskStatus /\ to # "COMPLETE"
      BY DEF TaskStatus
    <3> QED
      BY <3>1, <3>2, StatusMoves, PlanRows
  <2>3. CASE RevisePiece(t)
    <3>1. PICK x : x = [rows[t] EXCEPT !.status = "QUEUED"]
      OBVIOUS
    <3>2. rows' = [rows EXCEPT ![t] = x] /\ finished' = finished
      BY <2>3, <3>1 DEF RevisePiece
    <3>3. /\ x \in TaskRow /\ x.status = "QUEUED" /\ x.piece = rows[t].piece /\ x.kind = rows[t].kind
          /\ x.row = rows[t].row /\ x.deps = rows[t].deps /\ x.follows = rows[t].follows /\ x.ran = rows[t].ran
      <4>1. rows[t] \in TaskRow /\ "QUEUED" \in TaskStatus
        BY PlanRows DEF TaskStatus
      <4> QED
        BY <3>1, <4>1 DEF TaskRow
    <3>4. RowMoves(t, x)
      BY <3>2, <3>3, PlanRows DEF RowMoves
    <3> QED
      BY <3>4, RowsMove
  <2>4. CASE DeleteTask(t)
    BY <2>4, RowsDeleted
  <2> QED
    BY <2>1, <2>2, <2>3, <2>4
<1> QED
  BY <1>1, <1>2, RowSteps

\* The first gate sees its predecessors over, or the edges to them dropped.
LEMMA GateKeeps ==
    ASSUME PlanIInv, NEW t \in Known, CheckDependencies(t)
    PROVE  PlanIInv'
<1>1. /\ UNCHANGED <<doc, rows, planner, finished>> /\ UNCHANGED planCounts /\ rows[t].row = "listed"
      /\ rows[t].status \in AdmissibleStatus
      /\ look' = [at |-> "seen", on |-> t, seen |-> rows[t].status, met |-> Unmet(t) = {}]
  BY DEF CheckDependencies, planCounts
<1>2. RowsKept /\ CountsFit'
  BY <1>1, RowsRest, CountsStay
<1>3. look' \in Glance /\ look'.on = t /\ look'.on <= Len(rows') /\ (look'.met <=> Unmet(t) = {})
  <2>1. PICK met \in BOOLEAN : met = (Unmet(t) = {})
    OBVIOUS
  <2>2. PICK seen \in AdmissibleStatus : look' = [at |-> "seen", on |-> t, seen |-> seen, met |-> met]
    BY <1>1, <2>1
  <2>3. t \in Task /\ t <= Len(rows)
    BY PlanRows
  <2>4. look' \in Glance /\ look'.on = t /\ look'.met = met
    BY <2>2, <2>3 DEF Glance
  <2> QED
    BY <1>1, <2>1, <2>3, <2>4
<1>4. LookFits'
  <2>1. ASSUME Unmet(t) = {}, NEW d \in rows[t].follows PROVE Over(d)
    <3>1. RowInOrder(t) /\ rows[t].deps \subseteq rows[t].follows /\ \A c \in rows[t].follows : c < t
      BY DEF PlanIInv, PlanTypeOK
    <3>2. d \in Known
      <4>1. d \in 1..MaxTasks /\ d < t /\ t \in 1..Len(rows) /\ Len(rows) \in Nat
        BY <2>1, <3>1, PlanRows DEF TaskRow, Task
      <4> QED
        BY <4>1, PlanRows, PlanConstants
    <3>3. CASE d \in rows[t].deps
      <4>1. rows[d].status = "COMPLETE"
        BY <2>1, <3>3 DEF Unmet
      <4> QED
        BY <3>2, <4>1 DEF PlanIInv, RowInOrder, Over
    <3>4. CASE d \notin rows[t].deps
      BY <1>1, <2>1, <3>1, <3>4 DEF RowInOrder, Over
    <3> QED
      BY <3>3, <3>4
  <2> QED
    BY <1>1, <1>3, <2>1 DEF LookFits, Over
<1>5. doc' \in Documents /\ MarksFit' /\ planner' = [h \in Planner |-> planner'[h]]
  <2>1. MarksFit'
    BY <1>1, <1>2, ReadersStay DEF RowsKept
  <2> QED
    BY <1>1, <2>1 DEF PlanIInv, PlanTypeOK
<1> QED
  BY <1>1, <1>2, <1>3, <1>4, <1>5, Assembled

LEMMA AdmitKeeps ==
    ASSUME PlanIInv, Admit
    PROVE  PlanIInv'
<1>1. /\ UNCHANGED <<doc, planner, finished>> /\ UNCHANGED planCounts /\ look' = NoLook /\ look.on # 0
      /\ CountsFit'
  BY CountsStay DEF Admit, planCounts
<1>2. PICK t \in Known : t = look.on
  <2>1. look.on \in Nat /\ look.on <= Len(rows) /\ look.on # 0
    BY <1>1, PlanConstants DEF PlanIInv, PlanTypeOK, Glance, Task
  <2> QED
    BY <2>1, PlanRows
<1>3. RowsKept
  <2>1. CASE UNCHANGED rows
    BY <1>1, <2>1, RowsRest
  <2>2. CASE rows' = Moved(t, "WAIT_DEP", "none")
    <3>1. "WAIT_DEP" \in TaskStatus
      BY DEF TaskStatus, WaitingStatus
    <3> QED
      BY <1>1, <2>2, <3>1, StatusMoves, PlanRows
  <2>3. ASSUME look.met, NEW again, again \in {rows, Moved(t, "QUEUED", "none")},
               rows' = [again EXCEPT ![t].ran = TRUE,
                                     ![t].status = IF MayTransition(@, "DISPATCHED", "none") THEN "DISPATCHED" ELSE @]
        PROVE  RowsKept
    <3>1. PICK s : s = IF MayTransition(again[t].status, "DISPATCHED", "none") THEN "DISPATCHED" ELSE again[t].status
      OBVIOUS
    <3>2. rows[t] \in TaskRow /\ rows \in Seq(TaskRow) /\ t \in DOMAIN rows
      BY PlanRows DEF Known
    <3>10. PICK q : q = [rows[t] EXCEPT !.status = "QUEUED"]
      OBVIOUS
    <3>11. again = rows \/ again = [rows EXCEPT ![t] = q]
      BY <2>3, <3>10 DEF Moved
    <3>12. q \in TaskRow /\ q.status = "QUEUED" /\ rows[t].status \in TaskStatus
      <4>1. "QUEUED" \in TaskStatus
        BY DEF TaskStatus
      <4> QED
        BY <3>2, <3>10, <4>1 DEF TaskRow
    <3>3. again[t] \in {rows[t], q} /\ again[t].status \in {rows[t].status, "QUEUED"}
      BY <3>2, <3>11, <3>12
    <3>4. PICK x : x = [rows[t] EXCEPT !.status = s, !.ran = TRUE]
      OBVIOUS
    <3>5. s \in {"DISPATCHED", "QUEUED", rows[t].status} /\ s \in TaskStatus
      <4>1. {"DISPATCHED", "QUEUED"} \subseteq TaskStatus /\ rows[t].status \in TaskStatus
        BY <3>2 DEF TaskStatus, TaskRow
      <4> QED
        BY <3>1, <3>3, <4>1
    <3>6. /\ x \in TaskRow /\ x.status = s /\ x.piece = rows[t].piece /\ x.kind = rows[t].kind
          /\ x.row = rows[t].row /\ x.deps = rows[t].deps /\ x.follows = rows[t].follows
      BY <3>2, <3>4, <3>5 DEF TaskRow
    <3>7. rows' = [rows EXCEPT ![t] = x]
      <4>1. rows' = [again EXCEPT ![t] = [again[t] EXCEPT !.ran = TRUE, !.status = s]]
        BY <2>3, <3>1
      <4>2. [again[t] EXCEPT !.ran = TRUE, !.status = s] = x
        BY <3>2, <3>3, <3>4, <3>10 DEF TaskRow
      <4> QED
        BY <3>11, <4>1, <4>2
    <3>8. \A d \in rows[t].follows : Over(d)
      BY <1>1, <1>2, <2>3 DEF PlanIInv, LookFits
    <3>9. RowMoves(t, x)
      BY <1>1, <3>5, <3>6, <3>7, <3>8, PlanRows DEF RowMoves, PlanIInv, RowInOrder
    <3> QED
      BY <3>9, RowsMove
  <2> QED
    BY <1>2, <2>1, <2>2, <2>3 DEF Admit
<1> QED
  BY <1>1, <1>3, RowSteps

LEMMA RequestRests ==
    ASSUME PlanIInv, NEW h \in Planner, UNCHANGED <<rows, finished, doc, look>>, CountsFit',
           planner' = [planner EXCEPT ![h] = Idle]
    PROVE  PlanIInv'
<1>1. RowsKept
  BY RowsRest
<1>2. ErrandFits(Idle, rows')
  BY <1>1, IdleIsGrounded DEF RowsKept
<1> QED
  BY <1>1, <1>2, HandlerSteps

\* A request queues the first of what is due, and goes on.
LEMMA QueueKeeps ==
    ASSUME PlanIInv, NEW h \in Planner, QueueNext(h)
    PROVE  PlanIInv'
<1>1. /\ UNCHANGED <<doc, look, finished>> /\ UNCHANGED planCounts /\ CountsFit'
  BY CountsStay DEF QueueNext, planCounts
<1>2. PICK r : r = planner[h]
  OBVIOUS
<1>3. r \in Errand /\ Grounded(r, rows) /\ r.due # {} /\ r.due \in SUBSET Nat
  BY <1>2, PlanRows DEF QueueNext, PlanIInv, ErrandFits, Grounded
<1>4. PICK t \in Known : t = Min(r.due) /\ t \in r.due
  BY <1>3, MinIsIn, PlanRows DEF Grounded
<1>5. CASE rows' = Moved(t, "QUEUED", "none") /\ planner' = [planner EXCEPT ![h] = Onward([r EXCEPT !.due = @ \ {t}])]
  <2>1. RowsKept
    <3>1. "QUEUED" \in TaskStatus
      BY DEF TaskStatus
    <3> QED
      BY <1>1, <1>5, <3>1, StatusMoves, PlanRows
  <2>2. Grounded(r, rows')
    BY <1>3, <2>1, GroundedLasts, PlanRows DEF RowsKept
  <2>3. PICK y : y = [r EXCEPT !.due = @ \ {t}]
    OBVIOUS
  <2>4. y \in Errand /\ y.kind = r.kind /\ y.made = r.made /\ y.read = r.read /\ y.due = r.due \ {t}
    BY <1>3, <2>3 DEF Errand
  <2>5. Grounded(y, rows')
    BY <2>2, <2>4 DEF Grounded
  <2>6. ErrandFits(Onward(y), rows')
    BY <2>1, <2>5, OnwardFits DEF RowsKept
  <2> QED
    BY <1>1, <1>5, <2>1, <2>3, <2>6, HandlerSteps
<1>6. CASE rows' = rows /\ planner' = [planner EXCEPT ![h] = Idle]
  BY <1>1, <1>6, RequestRests
<1> QED
  BY <1>2, <1>4, <1>5, <1>6 DEF QueueNext

\* What a request that creates the task of p goes on with.
Created(r, p, t) == [r EXCEPT !.todo = @ \ {p}, !.made = IF p = 0 THEN @ ELSE [@ EXCEPT ![p] = t]]

LEMMA CreatedIsGrounded ==
    ASSUME PlanIInv, NEW r \in Errand, Grounded(r, rows), NEW p \in Piece \cup {0}, NEW t, t = Len(rows) + 1, t \in Task,
           NEW table, table \in Seq(TaskRow), RowsLast(rows, table), Len(table) = t, table[t] = NewRow(r, p),
           NEW then, then = Created(r, p, t)
    PROVE  /\ Grounded(then, table)
           /\ then \in Errand /\ then.kind = r.kind /\ then.immediate = r.immediate
           /\ \A due \in SUBSET (1..t) : Grounded([then EXCEPT !.due = due], table)
           /\ \A phases \in Phases : Grounded([then EXCEPT !.kind = "plan", !.todo = phases, !.parent = t], table)
           /\ DueAfter(then, t, table) \subseteq 1..t
<1>1. PICK made : made = IF p = 0 THEN r.made ELSE [r.made EXCEPT ![p] = t]
  OBVIOUS
<1>2. /\ made \in [Piece -> Task \cup {0}] /\ r.made \in [Piece -> Task \cup {0}]
      /\ \A q \in Piece : made[q] = r.made[q] \/ (q = p /\ p # 0 /\ made[q] = t)
  BY <1>1 DEF Errand
<1>3. /\ then \in Errand /\ then.made = made /\ then.kind = r.kind /\ then.immediate = r.immediate
      /\ then.read = r.read /\ then.due = r.due /\ then.todo = r.todo \ {p}
  BY <1>1, <1>2 DEF Created, Errand
<1>4. Grounded(r, table)
  BY PlanRows, GroundedLasts
<1>5. t \in Nat /\ t \in 1..t
  BY PlanConstants DEF Task
<1>6. /\ \A q \in Piece : made[q] <= t
      /\ r.kind = "doc" => \A q \in Piece : made[q] # 0 => table[made[q]].piece = q /\ table[made[q]].kind = "doc"
  <2> SUFFICES ASSUME NEW q \in Piece
               PROVE  /\ made[q] <= t
                      /\ r.kind = "doc" /\ made[q] # 0 => table[made[q]].piece = q /\ table[made[q]].kind = "doc"
    OBVIOUS
  <2>1. CASE made[q] = r.made[q]
    BY <1>4, <2>1 DEF Grounded
  <2>2. CASE q = p /\ made[q] = t
    <3>1. NewRow(r, p).piece = p /\ NewRow(r, p).kind = r.kind
      BY DEF NewRow
    <3> QED
      BY <1>5, <2>2, <3>1
  <2> QED
    BY <1>2, <2>1, <2>2
<1>7. Grounded(then, table)
  BY <1>3, <1>4, <1>6 DEF Grounded
<1>8. ASSUME NEW due \in SUBSET (1..t) PROVE Grounded([then EXCEPT !.due = due], table)
  <2>1. PICK y : y = [then EXCEPT !.due = due]
    OBVIOUS
  <2>2. due \subseteq Task
    BY <1>5, PlanConstants DEF Task
  <2>3. y \in Errand /\ y.kind = then.kind /\ y.made = then.made /\ y.read = then.read /\ y.due = due
    BY <1>3, <2>1, <2>2 DEF Errand
  <2>4. Grounded(y, table)
    BY <1>7, <2>3 DEF Grounded
  <2> QED
    BY <2>1, <2>4
<1>9. ASSUME NEW phases \in Phases
      PROVE  Grounded([then EXCEPT !.kind = "plan", !.todo = phases, !.parent = t], table)
  <2>1. PICK y : y = [then EXCEPT !.kind = "plan", !.todo = phases, !.parent = t]
    OBVIOUS
  <2>2. phases \subseteq Piece
    BY PlanConstants
  <2>3. y \in Errand /\ y.kind = "plan" /\ y.made = then.made /\ y.read = then.read /\ y.due = then.due
    BY <1>3, <2>1, <2>2 DEF Errand
  <2>4. Grounded(y, table)
    BY <1>7, <2>3 DEF Grounded
  <2> QED
    BY <2>1, <2>4
<1>10. DueAfter(then, t, table) \subseteq 1..t
  <2>1. \A q \in Piece : made[q] # 0 => made[q] \in 1..t
    BY <1>2, <1>5, <1>6, PlanConstants DEF Task
  <2>2. {then.made[q] : q \in Piece} \ {0} \subseteq 1..t
    BY <1>3, <2>1
  <2> HIDE <1>1, <1>2
  <2> QED
    BY <1>5, <2>2 DEF DueAfter
<1> QED
  BY <1>3, <1>7, <1>8, <1>9, <1>10

LEMMA CreateKeeps ==
    ASSUME PlanIInv, NEW h \in Planner, CreateNext(h)
    PROVE  PlanIInv'
<1>1. UNCHANGED <<doc, look, finished>> /\ UNCHANGED planCounts /\ CountsFit'
  BY CountsStay DEF CreateNext, planCounts
<1>2. PICK r : r = planner[h]
  OBVIOUS
<1>3. r \in Errand /\ Grounded(r, rows) /\ r.todo # {} /\ r.todo \subseteq Piece \cup {0}
  BY <1>2 DEF CreateNext, PlanIInv, ErrandFits, Grounded, Errand
<1>4. PICK p \in Piece \cup {0} : p = Min(r.todo)
  BY <1>3, MinIsIn, PlanConstants
<1>5. PICK n \in Nat : n = Len(rows)
  BY PlanRows
<1>6. PICK t \in Task : t = n + 1 /\ t <= MaxTasks
  BY <1>5, PlanConstants DEF CreateNext, Task
<1>7. PICK x : x = NewRow(r, p)
  OBVIOUS
<1>8. PICK then : then = Created(r, p, t)
  OBVIOUS
<1>9. /\ x \in TaskRow /\ x.deps = x.follows /\ (\A d \in x.follows : d <= n)
      /\ x.status # "COMPLETE" /\ ~x.ran
  <2>1. Depends(r, p) \subseteq 1..n /\ Depends(r, p) \subseteq Task
    <3>1. \A q \in Piece : r.made[q] \in Task \cup {0} /\ r.made[q] <= n
      BY <1>3, <1>5 DEF Grounded, Errand
    <3>2. p # 0 => After[p] \subseteq Piece
      BY PlanAssumption
    <3>3. \A q \in Piece : r.made[q] # 0 => r.made[q] \in 1..n /\ r.made[q] \in Task
      BY <3>1, <1>5, PlanConstants DEF Task
    <3> QED
      BY <3>2, <3>3 DEF Depends
  <2>2. "CREATED" \in TaskStatus /\ r.kind \in {"task", "doc", "plan", "work"} /\ r.parent \in Task \cup {0}
    BY <1>3 DEF TaskStatus, Errand
  <2> QED
    BY <1>5, <1>7, <2>1, <2>2 DEF NewRow, TaskRow
<1>10. CASE rows' = rows /\ planner' = [planner EXCEPT ![h] = Idle]
  BY <1>1, <1>10, RequestRests
<1>11. ASSUME rows' = Append(rows, x), NEW y, planner' = [planner EXCEPT ![h] = y],
              \/ p # 0 /\ y = Onward([then EXCEPT !.due = DueAfter(then, t, rows')])
              \/ p = 0 /\ y \in Intake(then, t)
       PROVE  PlanIInv'
  <2>1. RowsKept /\ Len(rows') = t /\ rows'[t] = x
    BY <1>1, <1>5, <1>6, <1>9, <1>11, RowsAppend
  <2>2. rows' \in Seq(TaskRow) /\ RowsLast(rows, rows')
    BY <2>1 DEF RowsKept
  <2>3. /\ Grounded(then, rows') /\ then \in Errand
        /\ \A due \in SUBSET (1..t) : Grounded([then EXCEPT !.due = due], rows')
        /\ \A phases \in Phases : Grounded([then EXCEPT !.kind = "plan", !.todo = phases, !.parent = t], rows')
        /\ DueAfter(then, t, rows') \subseteq 1..t
    <3>1. t = Len(rows) + 1 /\ rows'[t] = NewRow(r, p)
      BY <1>5, <1>6, <1>7, <2>1
    <3> QED
      BY <1>3, <1>8, <2>1, <2>2, <3>1, CreatedIsGrounded
  <2>4. then.at = "creating"
    BY <1>2, <1>3, <1>8 DEF CreateNext, Created, Errand
  <2>5. t \in 1..t
    BY <1>5, <1>6
  <2>6. ErrandFits(y, rows')
    <3>1. CASE y = Onward([then EXCEPT !.due = DueAfter(then, t, rows')])
      BY <2>2, <2>3, <3>1, OnwardFits
    <3>2. CASE y = Onward([then EXCEPT !.due = {t}])
      BY <2>2, <2>3, <2>5, <3>2, OnwardFits
    <3>3. CASE y = Idle
      BY <2>2, <3>3, IdleIsGrounded
    <3>4. ASSUME NEW phases \in Phases, y = [then EXCEPT !.kind = "plan", !.todo = phases, !.parent = t]
          PROVE  ErrandFits(y, rows')
      <4>1. y.at = "creating" /\ y.todo = phases
        BY <2>3, <2>4, <3>4 DEF Errand
      <4> QED
        BY <2>3, <3>4, <4>1, PlanConstants DEF ErrandFits
    <3> QED
      BY <1>11, <3>1, <3>2, <3>3, <3>4 DEF Intake
  <2> QED
    BY <1>1, <1>11, <2>1, <2>6, HandlerSteps
<1>12. \/ rows' = rows /\ planner' = [planner EXCEPT ![h] = Idle]
       \/ /\ rows' = Append(rows, x)
          /\ \/ /\ p # 0
                /\ planner' = [planner EXCEPT ![h] = Onward([then EXCEPT !.due = DueAfter(then, t, Append(rows, x))])]
             \/ p = 0 /\ \E next \in Intake(then, t) : planner' = [planner EXCEPT ![h] = next]
  BY <1>2, <1>4, <1>5, <1>6, <1>7, <1>8 DEF CreateNext, Created
<1> QED
  BY <1>10, <1>11, <1>12

\* A document is written back as it was read, with what was created marked.
LEMMA MarkingKeeps ==
    ASSUME PlanIInv, NEW h \in Planner, MarkDocument(h)
    PROVE  PlanIInv'
<1>1. /\ UNCHANGED <<rows, look, finished>> /\ UNCHANGED planCounts /\ CountsFit' /\ RowsKept
      /\ planner[h].at = "marking" /\ doc' \in {doc, Marked(planner[h])}
      /\ planner' = [planner EXCEPT ![h] = Idle]
  BY CountsStay, RowsRest DEF MarkDocument, planCounts
<1>2. PICK r : r = planner[h]
  OBVIOUS
<1>3. r \in Errand /\ Grounded(r, rows) /\ r.kind = "doc"
  BY <1>1, <1>2 DEF PlanIInv, ErrandFits, Grounded
<1>4. \A p \in Piece : Marked(r)[p] = "registered" => Registered(p, rows)
  <2>1. ASSUME NEW p \in Piece, r.made[p] # 0 PROVE Registered(p, rows)
    <3>1. r.made[p] \in 1..Len(rows)
      BY <1>3, <2>1, PlanRows, PlanConstants DEF Grounded, Errand, Task
    <3> QED
      BY <1>3, <2>1, <3>1 DEF Grounded, Registered
  <2> QED
    BY <1>3, <2>1 DEF Marked, Grounded
<1>5. Marked(r) \in Documents
  BY <1>3 DEF Marked, Documents, Errand
<1>6. MarksFit' /\ doc' \in Documents
  BY <1>1, <1>2, <1>4, <1>5 DEF PlanIInv, PlanTypeOK, MarksFit
<1>7. planner' = [k \in Planner |-> planner'[k]] /\ \A k \in Planner : planner'[k] # planner[k] => planner'[k] = Idle
  BY <1>1 DEF PlanIInv, PlanTypeOK
<1>8. ErrandFits(Idle, rows') /\ LookFits' /\ look' \in Glance /\ look'.on <= Len(rows')
  BY <1>1, IdleIsGrounded DEF RowsKept, PlanIInv, PlanTypeOK
<1> QED
  BY <1>1, <1>6, <1>7, <1>8, Assembled

LEMMA FailuresKeep ==
    ASSUME PlanIInv, ControllerStops \/ \E h \in Planner : RequestFails(h)
    PROVE  PlanIInv'
<1>1. UNCHANGED <<doc, rows, finished>> /\ CountsFit'
  BY PlanConstants DEF ControllerStops, RequestFails, PlanIInv, PlanTypeOK, CountsFit
<1>2. CASE ControllerStops
  <2>1. planner' = [h \in Planner |-> Idle] /\ look' = NoLook
    BY <1>2 DEF ControllerStops
  <2>2. NoLook \in Glance /\ NoLook.on = 0
    BY DEF NoLook, Glance, AdmissibleStatus
  <2>3. RowsKept /\ MarksFit' /\ doc' \in Documents
    BY <1>1, RowsRest, ReadersStay DEF RowsKept, PlanIInv, PlanTypeOK
  <2>4. LookFits' /\ look' \in Glance /\ look'.on <= Len(rows')
    BY <1>1, <2>1, <2>2, PlanRows DEF LookFits
  <2>5. ErrandFits(Idle, rows')
    BY <2>3, IdleIsGrounded DEF RowsKept
  <2> QED
    BY <1>1, <2>1, <2>3, <2>4, <2>5, Assembled
<1>3. ASSUME NEW h \in Planner, RequestFails(h) PROVE PlanIInv'
  BY <1>1, <1>3, RequestRests DEF RequestFails
<1> QED
  BY <1>2, <1>3

LEMMA DocumentKeeps ==
    ASSUME PlanIInv, NEW p \in Piece, EditDocument(p)
    PROVE  PlanIInv'
<1>1. UNCHANGED <<rows, planner, look, finished>> /\ CountsFit'
  BY PlanConstants DEF EditDocument, PlanIInv, PlanTypeOK, CountsFit
<1>2. RowsKept /\ LookFits'
  BY <1>1, RowsRest DEF RowsKept
<1>3. doc' \in Documents /\ \A q \in Piece : doc'[q] = "registered" => doc[q] = "registered"
  BY DEF EditDocument, PlanIInv, PlanTypeOK, Documents
<1>4. MarksFit'
  BY <1>1, <1>3 DEF PlanIInv, MarksFit
<1>5. planner' = [h \in Planner |-> planner'[h]] /\ look' \in Glance /\ look'.on <= Len(rows')
  BY <1>1 DEF PlanIInv, PlanTypeOK
<1> QED
  BY <1>1, <1>2, <1>3, <1>4, <1>5, Assembled

LEMMA PlanSteps ==
    ASSUME PlanIInv, [PlanNext]_planVars
    PROVE  PlanIInv'
<1>1. ASSUME NEW h \in Planner, Request(h) PROVE PlanIInv'
  BY <1>1, BeginningsKeep, CreateKeeps, FailuresKeep, QueueKeeps, MarkingKeeps DEF Request
<1>2. CASE UNCHANGED planVars
  <2>1. UNCHANGED <<doc, rows, planner, look, finished, requests, planOps, docEdits, planTroubles>>
    BY <1>2 DEF planVars
  <2>2. RowsKept /\ CountsFit'
    BY <2>1, RowsRest DEF PlanIInv, PlanTypeOK, CountsFit
  <2> QED
    BY <2>1, <2>2, RowSteps
<1> QED
  BY <1>1, <1>2, FailuresKeep, AdmitKeeps, GateKeeps, OperatorsKeep, DocumentKeeps DEF PlanNext

\* The inductive invariant of the plans: a task's edges were dropped only to rows that
\* are not listed, an attempt was begun over predecessors that are over, and what a
\* request holds of the document and the tasks is there.
THEOREM PlanInductive == PlanSpec => []PlanIInv
BY PlanStarts, PlanSteps, PTL DEF PlanSpec

\* checkDependencies, tasks.create, tasks.delete: an attempt follows the completion, or
\* the deletion, of every task its own was created to follow, for any number of requests
\* that overlap and whatever is cancelled, revised or deleted.
THEOREM PhasesRunInOrder == PlanSpec => []PhasesInOrder
<1>1. PlanIInv => PhasesInOrder
  BY DEF PlanIInv, RowInOrder, Over, PhasesInOrder
<1> QED
  BY <1>1, PlanInductive, PTL

\* registerTasksFromDoc: what the document shows as registered has been made a task,
\* though requests that overlap write the whole of it over each other's marks.
THEOREM MarksStandForTasks == PlanSpec => []MarksAreHonest
<1>1. PlanIInv => MarksAreHonest
  BY PlanRows DEF PlanIInv, MarksFit, Registered, MarksAreHonest
<1> QED
  BY <1>1, PlanInductive, PTL

-----------------------------------------------------------------------------
(* The parts side by side *)

DeskIInv ==
    /\ CatalogTIInv /\ PlanIInv /\ ProbeIInv /\ GraceIInv
    /\ ApprovalsTypeOK /\ GateIInv
    /\ CommandIInv /\ BoundsOK /\ PeopleOK

LEMMA DeskStart == DeskInit => DeskIInv
<1> SUFFICES ASSUME DeskInit PROVE DeskIInv
  OBVIOUS
<1>1. CatalogInit /\ ApprovalsInit /\ PlanInit /\ CommandsInit /\ ProbeInit /\ GraceInit
  BY DEF DeskInit
<1> QED
  BY <1>1, CatalogTypesStart, PlanStarts, ProbeStarts, GraceInitInv, ApprovalsStarts, GateInit, CommandInit, TypesStart
     DEF DeskIInv

\* One part moves, and for each of the others that is a step that changes nothing.
LEMMA DeskSteps ==
    ASSUME DeskIInv, [DeskNext]_<<room, catalogVars, apVars, planVars, deskVars, probeVars, graceVars>>
    PROVE  DeskIInv'
<1>1. /\ [CatalogNext]_catalogVars /\ [ApprovalsNext]_apVars /\ [PlanNext]_planVars
      /\ [CommandsNext]_deskVars /\ [ProbeNext]_probeVars /\ [GraceNext]_graceVars
  BY DEF DeskNext
<1>2. CatalogTIInv' /\ PlanIInv' /\ ProbeIInv' /\ GraceIInv'
  BY <1>1, CatalogTypeSteps, PlanSteps, ProbeSteps, GraceStep DEF DeskIInv
<1>3. ApprovalsTypeOK' /\ GateIInv'
  BY <1>1, ApprovalsTypesKept, GateStep DEF DeskIInv
<1>4. CommandIInv' /\ BoundsOK' /\ PeopleOK'
  BY <1>1, CommandsKept DEF DeskIInv
<1> QED
  BY <1>2, <1>3, <1>4 DEF DeskIInv

\* The inductive invariants of the parts hold side by side.
THEOREM DeskInductive == DeskSpec => []DeskIInv
<1>1. DeskIInv /\ [DeskNext]_<<room, catalogVars, apVars, planVars, deskVars, probeVars, graceVars>> => DeskIInv'
  BY DeskSteps
<1> QED
  BY <1>1, DeskStart, PTL DEF DeskSpec

\* The state of the configuration, the approvals, the plans, the commands, the
\* measurements and the end grace is of its type, whichever of them moves.
THEOREM DeskTyped == DeskSpec => []DeskTypeOK
<1>1. DeskIInv => CommandsTypeOK
  BY TypesSuffice DEF DeskIInv
<1>2. DeskIInv => CatalogTypeOK /\ ApprovalsTypeOK /\ PlanTypeOK /\ ProbeTypeOK /\ GraceTypeOK
  BY DEF DeskIInv, CatalogTIInv, PlanIInv, ProbeIInv, GraceIInv
<1>3. DeskIInv => DeskTypeOK
  BY <1>1, <1>2 DEF DeskTypeOK
<1> QED
  BY <1>3, DeskInductive, PTL
=============================================================================
