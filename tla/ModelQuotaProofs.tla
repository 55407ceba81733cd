-------------------------- MODULE ModelQuotaProofs --------------------------
(* The limits of admission, for any tasks, models, candidates and limits.    *)
EXTENDS ModelQuota, NaturalsInduction, WellFoundedInduction, FiniteSetTheorems, TLAPS

On(m) == {j \in Job : Counted(j) /\ runsOn[j] = m}
OutNow == {j \in Job : stage[j] \in Out}

\* A task's status and its execution's, apart only by a cancel or a torn record.
TasksOK ==
    /\ stage \in [Job -> Waiting \cup Out \cup Ended]
    /\ attempt \in [Job -> {"none", "PENDING", "DISPATCHED"}]
    /\ runsOn \in [Job -> Model \cup {NoModel}]
    /\ \A j \in Job : runsOn[j] # NoModel <=> attempt[j] # "none"
    /\ \A j \in Job : attempt[j] = "DISPATCHED" => stage[j] \in Out \cup {"CANCELLED"} \/ j \in torn

\* What the pass holds: tasks that are not out, one hand-off at a time.
PassOK ==
    /\ handing \subseteq Job
    /\ \A j \in handing : attempt[j] = "PENDING" /\ stage[j] \notin Out
    /\ \A i, j \in handing : i = j
    /\ ready \subseteq Job
    /\ \A j \in ready : stage[j] \notin Out /\ j \notin handing
    /\ \E S : seen \in Seq(S)
    /\ \A i \in DOMAIN seen : seen[i].model \in Model

\* A hand-off is under way in a pass that has room for it; and while tasks are
\* evaluated, what is on record as running and what is left of the room fit together.
RoomOK ==
    /\ handing # {} => tickAt = "gating" /\ room # 0
    /\ tickAt = "gating" => room \in Nat /\ Cardinality(OutNow) + room <= MaxRunning
    /\ Cardinality(OutNow) <= MaxRunning

ModelsOK == \A m \in Model : Cardinality(On(m)) <= ModelLimit

QuotaIInv == TasksOK /\ PassOK /\ RoomOK /\ ModelsOK

LEMMA Limits == ModelLimit \in Nat /\ MaxRunning \in Nat /\ MaxRunning # 0 /\ ModelLimit # 0
  BY LimitsAssumption

LEMMA Fewer ==
  ASSUME NEW a \in Nat, NEW b \in Nat, NEW n \in Nat, b <= a, a <= n
  PROVE  b <= n /\ \A r \in Nat : a + r <= n => b + r <= n
  OBVIOUS

LEMMA OneMore ==
  ASSUME NEW a \in Nat, NEW b \in Nat, NEW r \in Nat, NEW n \in Nat,
         r # 0, b <= a + 1, a + r <= n
  PROVE  r - 1 \in Nat /\ b + (r - 1) <= n /\ b <= n
  OBVIOUS

LEMMA WhatIsLeft ==
  ASSUME NEW a \in Nat, NEW n \in Nat, a <= n
  PROVE  n - a \in Nat /\ a + (n - a) <= n
  OBVIOUS

LEMMA CardMonotone ==
  ASSUME NEW S, NEW T, S \subseteq T, T \subseteq Job
  PROVE  /\ Cardinality(S) \in Nat /\ Cardinality(T) \in Nat
         /\ Cardinality(S) <= Cardinality(T)
<1>1. IsFiniteSet(T)
  BY LimitsAssumption, FS_Subset
<1>2. IsFiniteSet(S) /\ Cardinality(S) <= Cardinality(T)
  BY <1>1, FS_Subset
<1> QED BY <1>1, <1>2, FS_CardinalityType

LEMMA CardAdd ==
  ASSUME NEW S, S \subseteq Job, NEW j \in Job
  PROVE  /\ Cardinality(S) \in Nat
         /\ Cardinality(S \cup {j}) <= Cardinality(S) + 1
<1>1. IsFiniteSet(S)
  BY LimitsAssumption, FS_Subset
<1>2. Cardinality(S) \in Nat
  BY <1>1, FS_CardinalityType
<1>3. Cardinality(S \cup {j}) = IF j \in S THEN Cardinality(S) ELSE Cardinality(S) + 1
  BY <1>1, FS_AddElement
<1> QED BY <1>2, <1>3

LEMMA QuotaInitInv == QuotaInit => QuotaIInv
<1> SUFFICES ASSUME QuotaInit PROVE QuotaIInv
  OBVIOUS
<1>1. TasksOK /\ PassOK
  BY DEF QuotaInit, TasksOK, PassOK, Waiting
<1>2. OutNow = {} /\ \A m \in Model : On(m) = {}
  BY DEF QuotaInit, OutNow, On, Counted, Out
<1>3. handing = {} /\ tickAt = "idle"
  BY DEF QuotaInit
<1>4. Cardinality({}) = 0
  BY FS_EmptySet
<1>5. RoomOK
  BY <1>2, <1>3, <1>4, LimitsAssumption DEF RoomOK
<1>6. ModelsOK
  BY <1>2, <1>4, LimitsAssumption DEF ModelsOK
<1> QED BY <1>1, <1>5, <1>6 DEF QuotaIInv

\* A step that puts no task on record as running, begins no hand-off and keeps the
\* room of a pass that goes on.
LEMMA NoneAdded ==
  ASSUME QuotaIInv, TasksOK', PassOK', OutNow' \subseteq OutNow,
         \A m \in Model : On(m)' \subseteq On(m),
         handing' \subseteq handing,
         tickAt' = "gating" => tickAt = "gating" /\ room' = room,
         handing' # {} => tickAt' = "gating"
  PROVE  QuotaIInv'
<1>1. /\ Cardinality(OutNow') <= Cardinality(OutNow)
      /\ Cardinality(OutNow') \in Nat /\ Cardinality(OutNow) \in Nat
  BY CardMonotone DEF OutNow
<1>2. RoomOK'
  <2>1. handing' # {} => tickAt' = "gating" /\ room' # 0
    BY DEF QuotaIInv, RoomOK
  <2>2. /\ tickAt = "gating" => room \in Nat /\ Cardinality(OutNow) + room <= MaxRunning
        /\ Cardinality(OutNow) <= MaxRunning
    BY DEF QuotaIInv, RoomOK
  <2>3. /\ Cardinality(OutNow') <= MaxRunning
        /\ \A r \in Nat : Cardinality(OutNow) + r <= MaxRunning => Cardinality(OutNow') + r <= MaxRunning
    BY <1>1, <2>2, Limits, Fewer
  <2>4. tickAt' = "gating" => room' \in Nat /\ Cardinality(OutNow') + room' <= MaxRunning
    BY <2>2, <2>3
  <2> QED BY <2>1, <2>3, <2>4 DEF RoomOK
<1>3. ASSUME NEW m \in Model PROVE Cardinality(On(m)') <= ModelLimit
  <2>1. /\ Cardinality(On(m)') <= Cardinality(On(m))
        /\ Cardinality(On(m)') \in Nat /\ Cardinality(On(m)) \in Nat
    BY CardMonotone DEF On
  <2>2. Cardinality(On(m)) <= ModelLimit
    BY DEF QuotaIInv, ModelsOK
  <2> QED BY <2>1, <2>2, Limits, Fewer
<1> QED BY <1>2, <1>3 DEF QuotaIInv, ModelsOK

\* A step that leaves the tasks and what the pass holds of them alone.
LEMMA Elsewhere ==
  ASSUME QuotaIInv, UNCHANGED <<stage, attempt, runsOn, torn, handing, ready, room>>, PassOK',
         handing # {} => tickAt' = "gating", tickAt' = "gating" => tickAt = "gating"
  PROVE  QuotaIInv'
<1>1. TasksOK'
  BY DEF QuotaIInv, TasksOK
<1>2. OutNow' = OutNow /\ \A m \in Model : On(m)' = On(m)
  BY DEF OutNow, On, Counted
<1> QED BY <1>1, <1>2, NoneAdded

\* An attempt is over, and its task has moved on or stays as it is.
LEMMA OverKeeps ==
  ASSUME QuotaIInv, NEW j \in Job, Over(j),
         \/ stage' = stage
         \/ \E next \in Waits \cup Ended : stage' = [stage EXCEPT ![j] = next]
  PROVE  /\ TasksOK'
         /\ OutNow' \subseteq OutNow
         /\ attempt'[j] = "none"
         /\ \A k \in Job : k # j => attempt'[k] = attempt[k] /\ runsOn'[k] = runsOn[k]
         /\ \A k \in Job : stage'[k] \in Out => stage[k] \in Out
<1>1. \A next \in Waits \cup Ended : next \in Waiting \cup Out \cup Ended /\ next \notin Out
  BY DEF Waits, Ended, Out, Waiting
<1>2. /\ stage' \in [Job -> Waiting \cup Out \cup Ended]
      /\ \A k \in Job : k # j => stage'[k] = stage[k]
      /\ \A k \in Job : stage'[k] \in Out => stage[k] \in Out
  BY <1>1 DEF QuotaIInv, TasksOK
<1>3. /\ attempt' \in [Job -> {"none", "PENDING", "DISPATCHED"}] /\ attempt'[j] = "none"
      /\ runsOn' \in [Job -> Model \cup {NoModel}] /\ runsOn'[j] = NoModel
      /\ \A k \in Job : k # j => attempt'[k] = attempt[k] /\ runsOn'[k] = runsOn[k]
      /\ torn' = torn \ {j}
  BY DEF Over, QuotaIInv, TasksOK
<1>4. \A k \in Job : runsOn'[k] # NoModel <=> attempt'[k] # "none"
  BY <1>3 DEF QuotaIInv, TasksOK
<1>5. \A k \in Job : attempt'[k] = "DISPATCHED" => stage'[k] \in Out \cup {"CANCELLED"} \/ k \in torn'
  BY <1>2, <1>3 DEF QuotaIInv, TasksOK
<1>6. TasksOK'
  BY <1>2, <1>3, <1>4, <1>5 DEF TasksOK
<1> QED BY <1>2, <1>3, <1>6 DEF OutNow

\* A task whose attempt runs goes somewhere else than out.
LEMMA MovesKeep ==
  ASSUME QuotaIInv, NEW j \in Job, NEW next \in Waiting \cup Ended,
         stage' = [stage EXCEPT ![j] = next], UNCHANGED <<attempt, runsOn, torn>>,
         stage[j] \notin Out \/ next = "CANCELLED", stage[j] # "CANCELLED" \/ next = "CANCELLED"
  PROVE  TasksOK' /\ OutNow' \subseteq OutNow /\ \A k \in Job : stage'[k] \in Out => stage[k] \in Out
<1>1. next \in Waiting \cup Out \cup Ended /\ next \notin Out
  BY DEF Waits, Waiting, Ended, Out
<1>2. /\ stage' \in [Job -> Waiting \cup Out \cup Ended]
      /\ \A k \in Job : k # j => stage'[k] = stage[k]
      /\ stage'[j] = next
  BY <1>1 DEF QuotaIInv, TasksOK
<1>3. \A k \in Job : attempt'[k] = "DISPATCHED" => stage'[k] \in Out \cup {"CANCELLED"} \/ k \in torn'
  BY <1>2 DEF QuotaIInv, TasksOK
<1>4. TasksOK'
  BY <1>2, <1>3 DEF QuotaIInv, TasksOK
<1> QED BY <1>1, <1>2, <1>4 DEF OutNow

\* The table of transitions lets nothing leave CANCELLED.
LEMMA CancelledStays ==
  ASSUME NEW j, NEW next, stage[j] = "CANCELLED", next # "CANCELLED"
  PROVE  ~MayFollow(j, next)
  BY DEF MayFollow, Life!MayTransition, Life!AssertTransition, Life!CanTransition,
         Life!Successors, Life!WaitingStatus

LEMMA EmptySeen == (\E S : <<>> \in Seq(S)) /\ DOMAIN <<>> = {}
  OBVIOUS

\* A pass that parks a task or throws.
LEMMA ParkKeeps ==
  ASSUME QuotaIInv, NEW j \in Job, NEW next \in Waits \cup Ended, NEW at, NEW else,
         Park(j, next, at, else),
         \A k \in Job : stage'[k] \in Out => stage[k] \in Out
  PROVE  /\ PassOK' /\ handing' = {}
         /\ tickAt' = "gating" => tickAt = "gating" /\ room' = room
<1>1. /\ seen' = <<>> /\ handing' = {} /\ ready' \subseteq ready
      /\ tickAt' = "gating" => tickAt' = tickAt /\ room' = room
  BY DEF Park, PassThrows
<1>2. PassOK'
  BY <1>1, EmptySeen DEF QuotaIInv, PassOK
<1> QED BY <1>1, <1>2

\* The pass's own steps.
LEMMA ChooseKeeps == QuotaIInv /\ ChooseReady => QuotaIInv'
<1> SUFFICES ASSUME QuotaIInv, ChooseReady PROVE QuotaIInv'
  OBVIOUS
<1>1. /\ UNCHANGED <<stage, attempt, runsOn, torn, seen, handing>>
      /\ ready' \subseteq {j \in Job : stage[j] \in Waiting}
      /\ room' = MaxRunning - RunningNow /\ tickAt = "choosing"
  BY DEF ChooseReady, jobVars
<1>2. OutNow' = OutNow /\ \A m \in Model : On(m)' = On(m)
  BY <1>1 DEF OutNow, On, Counted
<1>3. handing = {}
  BY <1>1 DEF QuotaIInv, RoomOK
<1>4. RunningNow = Cardinality(OutNow) /\ Cardinality(OutNow) \in Nat
  BY CardMonotone DEF RunningNow, OutNow
<1>5. room' \in Nat /\ Cardinality(OutNow) + room' <= MaxRunning
  <2>1. Cardinality(OutNow) <= MaxRunning
    BY DEF QuotaIInv, RoomOK
  <2>2. MaxRunning - Cardinality(OutNow) \in Nat
        /\ Cardinality(OutNow) + (MaxRunning - Cardinality(OutNow)) <= MaxRunning
    BY <1>4, <2>1, Limits, WhatIsLeft
  <2> QED BY <1>1, <1>4, <2>2
<1>6. RoomOK'
  BY <1>1, <1>2, <1>3, <1>5 DEF QuotaIInv, RoomOK
<1>7. TasksOK'
  BY <1>1 DEF QuotaIInv, TasksOK
<1>8. PassOK'
  BY <1>1, <1>3 DEF QuotaIInv, PassOK, Waiting, Waits, Out
<1> QED BY <1>1, <1>2, <1>6, <1>7, <1>8 DEF QuotaIInv, ModelsOK

LEMMA ReadKeeps ==
  ASSUME QuotaIInv, NEW j \in Job, ReadRow(j)
  PROVE  QuotaIInv'
<1> DEFINE m == Prefers[j][Len(seen) + 1]
           r == Row(m)
<1>1. PICK S : seen \in Seq(S)
  BY DEF QuotaIInv, PassOK
<1>2. m \in Model
  <2>1. Prefers[j] \in Seq(Model) /\ Len(seen) \in Nat /\ Len(seen) < Len(Prefers[j])
    BY <1>1, PrefersAssumption DEF ReadRow
  <2> QED BY <2>1
<1>3. r.model \in Model
  BY <1>2 DEF Row
<1>4. seen' = Append(seen, r)
  BY DEF ReadRow
<1> HIDE DEF m, r
<1>5. seen \in Seq(S \cup {r}) /\ r \in S \cup {r}
  BY <1>1
<1>6. /\ seen' \in Seq(S \cup {r})
      /\ DOMAIN seen' = 1..(Len(seen) + 1) /\ DOMAIN seen = 1..Len(seen) /\ Len(seen) \in Nat
      /\ seen'[Len(seen) + 1] = r /\ \A i \in DOMAIN seen : seen'[i] = seen[i]
  BY <1>4, <1>5
<1>7. \A i \in DOMAIN seen' : seen'[i].model \in Model
  <2>1. \A i \in DOMAIN seen : seen[i].model \in Model
    BY DEF QuotaIInv, PassOK
  <2>2. SUFFICES ASSUME NEW i \in DOMAIN seen' PROVE seen'[i].model \in Model
    OBVIOUS
  <2>3. i = Len(seen) + 1 \/ i \in DOMAIN seen
    BY <1>6
  <2> QED BY <1>3, <1>6, <2>1, <2>3
<1>8. UNCHANGED <<stage, attempt, runsOn, torn, handing, ready, room, tickAt>>
  BY DEF ReadRow, jobVars
<1>9. PassOK'
  BY <1>6, <1>7, <1>8 DEF QuotaIInv, PassOK
<1>10. handing # {} => tickAt' = "gating"
  BY <1>8 DEF QuotaIInv, RoomOK
<1> QED BY <1>8, <1>9, <1>10, Elsewhere

LEMMA StayKeeps ==
  ASSUME QuotaIInv, NEW j \in Job, StaysParked(j) \/ CannotRequeue(j)
  PROVE  QuotaIInv'
<1>1. /\ stage[j] \notin Out /\ handing = {}
      /\ UNCHANGED <<attempt, runsOn, torn>>
  BY DEF StaysParked, CannotRequeue, AllRead, NextJob, QuotaIInv, PassOK, jobVars
<1>2. CASE StaysParked(j)
  <2> PICK next \in Waits : next = Verdict(j)
    BY <1>2 DEF StaysParked, Verdict, Waits
  <2>1. PICK at, else : Park(j, next, at, else)
    BY <1>2 DEF StaysParked
  <2>2. TasksOK' /\ OutNow' \subseteq OutNow /\ \A k \in Job : stage'[k] \in Out => stage[k] \in Out
    <3>1. CASE stage' = stage
      BY <1>1, <3>1 DEF QuotaIInv, TasksOK, OutNow
    <3>2. CASE MayFollow(j, next) /\ stage' = [stage EXCEPT ![j] = next]
      <4>1. next \in Waiting \cup Ended /\ next # "CANCELLED"
        BY DEF Waiting, Waits
      <4>2. stage[j] # "CANCELLED"
        BY <3>2, <4>1, CancelledStays
      <4> QED BY <1>1, <3>2, <4>1, <4>2, MovesKeep
    <3> QED BY <2>1, <3>1, <3>2 DEF Park
  <2>3. PassOK' /\ handing' = {} /\ (tickAt' = "gating" => tickAt = "gating" /\ room' = room)
    BY <2>1, <2>2, ParkKeeps
  <2>4. \A m \in Model : On(m)' \subseteq On(m)
    BY <1>1, <2>3 DEF On, Counted
  <2> QED BY <2>2, <2>3, <2>4, NoneAdded
<1>3. CASE CannotRequeue(j)
  <2>1. /\ stage' = stage /\ tickAt' = "idle" /\ ready' = {} /\ seen' = <<>> /\ handing' = {}
    BY <1>3 DEF CannotRequeue, PassThrows, jobVars
  <2>2. TasksOK' /\ OutNow' = OutNow
    BY <1>1, <2>1 DEF QuotaIInv, TasksOK, OutNow
  <2>3. PassOK'
    BY <2>1, EmptySeen DEF PassOK
  <2>4. \A m \in Model : On(m)' \subseteq On(m)
    BY <1>1, <2>1 DEF On, Counted
  <2> QED BY <2>1, <2>2, <2>3, <2>4, NoneAdded
<1> QED BY <1>2, <1>3

LEMMA HandsOffKeeps ==
  ASSUME QuotaIInv, NEW j \in Job, HandsOff(j)
  PROVE  QuotaIInv'
<1>1. /\ tickAt = "gating" /\ handing = {} /\ j \in ready /\ Verdict(j) = "open"
      /\ attempt' = [attempt EXCEPT ![j] = "PENDING"]
      /\ handing' = {j} /\ ready' = ready \ {j} /\ seen' = <<>> /\ UNCHANGED <<torn, tickAt, room>>
      /\ stage' = stage \/ (MayFollow(j, "QUEUED") /\ stage' = [stage EXCEPT ![j] = "QUEUED"])
  BY DEF HandsOff, AllRead, NextJob
<1>2. room # 0 /\ attempt[j] = "none" /\ stage[j] \notin Out
  BY <1>1 DEF Verdict, QuotaIInv, PassOK
<1>3. PICK i \in Free : runsOn' = [runsOn EXCEPT ![j] = seen[i].model]
  BY DEF HandsOff
<1> DEFINE m == seen[i].model
<1>4. m \in Model /\ Cardinality(Active(m)) < ModelLimit
  BY DEF Free, WithQuota, QuotaIInv, PassOK
<1>5. m # NoModel
  BY <1>4, RetryableAssumption
<1> HIDE DEF m
<1>6. /\ runsOn' \in [Job -> Model \cup {NoModel}] /\ runsOn'[j] = m
      /\ \A k \in Job : k # j => runsOn'[k] = runsOn[k]
  BY <1>3, <1>4 DEF QuotaIInv, TasksOK, m
<1>7. /\ attempt' \in [Job -> {"none", "PENDING", "DISPATCHED"}] /\ attempt'[j] = "PENDING"
      /\ \A k \in Job : k # j => attempt'[k] = attempt[k]
  BY <1>1 DEF QuotaIInv, TasksOK
<1>8. /\ stage' \in [Job -> Waiting \cup Out \cup Ended] /\ stage'[j] \notin Out
      /\ \A k \in Job : k # j => stage'[k] = stage[k]
  BY <1>1, <1>2 DEF QuotaIInv, TasksOK, Waiting, Out
<1>9. TasksOK'
  <2>1. \A k \in Job : runsOn'[k] # NoModel <=> attempt'[k] # "none"
    BY <1>5, <1>6, <1>7 DEF QuotaIInv, TasksOK
  <2>2. \A k \in Job : attempt'[k] = "DISPATCHED" => stage'[k] \in Out \cup {"CANCELLED"} \/ k \in torn'
    BY <1>1, <1>7, <1>8 DEF QuotaIInv, TasksOK
  <2> QED BY <1>6, <1>7, <1>8, <2>1, <2>2 DEF TasksOK
<1>10. PassOK'
  BY <1>1, <1>7, <1>8, EmptySeen DEF QuotaIInv, PassOK
<1>11. OutNow' = OutNow
  BY <1>2, <1>8 DEF OutNow
<1>12. RoomOK'
  BY <1>1, <1>2, <1>11 DEF QuotaIInv, RoomOK
<1>13. ASSUME NEW n \in Model PROVE Cardinality(On(n)') <= ModelLimit
  <2>1. CASE n # m
    <3>1. On(n)' = On(n)
      BY <1>1, <1>2, <1>6, <1>7, <2>1 DEF On, Counted
    <3> QED BY <3>1 DEF QuotaIInv, ModelsOK
  <2>2. CASE n = m
    <3>1. On(n)' = Active(m) \cup {j}
      BY <1>1, <1>2, <1>6, <1>7, <2>2 DEF On, Counted, Active
    <3>2. Cardinality(Active(m) \cup {j}) <= Cardinality(Active(m)) + 1 /\ Cardinality(Active(m)) \in Nat
      BY CardAdd DEF Active
    <3>3. Cardinality(Active(m) \cup {j}) \in Nat
      BY CardMonotone DEF Active
    <3> QED BY <1>4, <3>1, <3>2, <3>3, Limits
  <2> QED BY <2>1, <2>2
<1> QED BY <1>9, <1>10, <1>12, <1>13 DEF QuotaIInv, ModelsOK

\* The catch of dispatch: the attempt is over and the task parked, if it can be.
LEMMA CatchKeeps ==
  ASSUME QuotaIInv, NEW j \in handing, NEW next \in Waits \cup Ended, NEW at, NEW else,
         Over(j), Park(j, next, at, else)
  PROVE  QuotaIInv'
<1>1. j \in Job
  BY DEF QuotaIInv, PassOK
<1>2. stage' = stage \/ stage' = [stage EXCEPT ![j] = next]
  BY DEF Park
<1>3. /\ TasksOK' /\ OutNow' \subseteq OutNow /\ attempt'[j] = "none"
      /\ \A k \in Job : k # j => attempt'[k] = attempt[k] /\ runsOn'[k] = runsOn[k]
      /\ \A k \in Job : stage'[k] \in Out => stage[k] \in Out
  BY <1>1, <1>2, OverKeeps
<1>4. PassOK' /\ handing' = {} /\ (tickAt' = "gating" => tickAt = "gating" /\ room' = room)
  BY <1>1, <1>3, ParkKeeps
<1>5. \A m \in Model : On(m)' \subseteq On(m)
  BY <1>3, <1>4 DEF On, Counted
<1> QED BY <1>3, <1>4, <1>5, NoneAdded

LEMMA AcceptKeeps ==
  ASSUME QuotaIInv, NEW j \in Job, HandoffAccepted(j)
  PROVE  QuotaIInv'
<1>1. j \in handing /\ attempt[j] = "PENDING" /\ stage[j] \notin Out /\ handing = {j}
  BY DEF HandoffAccepted, QuotaIInv, PassOK
<1>2. CASE MayFollow(j, "DISPATCHED")
  <2>1. /\ stage' = [stage EXCEPT ![j] = "DISPATCHED"]
        /\ attempt' = [attempt EXCEPT ![j] = "DISPATCHED"]
        /\ room' = room - 1 /\ handing' = {}
        /\ UNCHANGED <<runsOn, torn, tickAt, ready, seen>>
    BY <1>2 DEF HandoffAccepted
  <2>2. tickAt = "gating" /\ room # 0 /\ room \in Nat /\ Cardinality(OutNow) + room <= MaxRunning
    BY <1>1 DEF QuotaIInv, RoomOK
  <2>3. TasksOK'
    BY <1>1, <2>1 DEF QuotaIInv, TasksOK, Out
  <2>4. j \notin ready
    BY <1>1 DEF QuotaIInv, PassOK
  <2>5. PassOK'
    BY <2>1, <2>4 DEF QuotaIInv, TasksOK, PassOK
  <2>6. OutNow' = OutNow \cup {j}
    BY <2>1 DEF QuotaIInv, TasksOK, OutNow, Out
  <2>7. Cardinality(OutNow') <= Cardinality(OutNow) + 1 /\ Cardinality(OutNow) \in Nat
    BY <2>6, CardAdd DEF OutNow
  <2>8. Cardinality(OutNow') \in Nat
    BY <2>6, CardMonotone DEF OutNow
  <2>9. /\ room - 1 \in Nat /\ Cardinality(OutNow') + (room - 1) <= MaxRunning
        /\ Cardinality(OutNow') <= MaxRunning
    BY <2>2, <2>7, <2>8, Limits, OneMore
  <2>10. RoomOK'
    BY <2>1, <2>9 DEF RoomOK
  <2>11. \A m \in Model : On(m)' = On(m)
    BY <1>1, <2>1 DEF QuotaIInv, TasksOK, On, Counted
  <2> QED BY <2>3, <2>5, <2>10, <2>11 DEF QuotaIInv, ModelsOK
<1>3. CASE ~MayFollow(j, "DISPATCHED")
  <2>1. PICK at, else : Park(j, "WAIT_RUNTIME", at, else) /\ Over(j)
    BY <1>3 DEF HandoffAccepted
  <2> QED BY <1>1, <2>1, CatchKeeps DEF Waits
<1> QED BY <1>2, <1>3

\* An execution that ends while no pass holds it.
LEMMA EndsKeep ==
  ASSUME QuotaIInv, NEW j \in Job, j \notin handing, NEW next \in Waits \cup Ended, NEW at, NEW counts,
         Ends(j, next, at, counts)
  PROVE  QuotaIInv'
<1>1. stage' = stage \/ stage' = [stage EXCEPT ![j] = next]
  BY DEF Ends
<1>2. /\ TasksOK' /\ OutNow' \subseteq OutNow /\ attempt'[j] = "none"
      /\ \A k \in Job : k # j => attempt'[k] = attempt[k] /\ runsOn'[k] = runsOn[k]
      /\ \A k \in Job : stage'[k] \in Out => stage[k] \in Out
  BY <1>1, OverKeeps DEF Ends
<1>3. UNCHANGED <<tickAt, ready, seen, room, handing>>
  BY DEF Ends, tickVars
<1>4. PassOK'
  BY <1>2, <1>3 DEF QuotaIInv, PassOK
<1>5. \A m \in Model : On(m)' \subseteq On(m)
  BY <1>2, <1>3 DEF On, Counted
<1>6. handing' # {} => tickAt' = "gating"
  BY <1>3 DEF QuotaIInv, RoomOK
<1> QED BY <1>2, <1>3, <1>4, <1>5, <1>6, NoneAdded

LEMMA RunEndsKeeps ==
  ASSUME QuotaIInv, NEW j \in Job, RunEnds(j)
  PROVE  QuotaIInv'
<1>1. {"COMPLETE", "WAIT_QUOTA", "BLOCKED", "WAIT_RESOURCE"} \subseteq Waits \cup Ended
  BY DEF Waits, Ended
<1>2. CASE RunCompletesOn(j)
  BY <1>1, <1>2, EndsKeep DEF RunCompletesOn
<1>3. CASE HandoffRefused429(j)
  <2>1. j \in handing /\ Over(j)
    BY <1>3 DEF HandoffRefused429
  <2>2. \E at, else : Park(j, "WAIT_QUOTA", at, else) \/ Park(j, "BLOCKED", at, else)
    BY <1>3 DEF HandoffRefused429
  <2> QED BY <1>1, <2>1, <2>2, CatchKeeps
<1>4. CASE LateRefused429(j)
  <2>1. j \notin handing
    BY <1>4 DEF LateRefused429, QuotaIInv, PassOK
  <2>2. \E at, counts : \/ Ends(j, "WAIT_QUOTA", at, counts)
                        \/ Ends(j, "WAIT_RESOURCE", at, counts)
                        \/ Ends(j, "BLOCKED", at, counts)
    BY <1>4 DEF LateRefused429
  <2> QED BY <1>1, <2>1, <2>2, EndsKeep
<1> QED BY <1>2, <1>3, <1>4 DEF RunEnds

\* A cancel frees the task's room and leaves its attempt to the model.
LEMMA CancelKeeps ==
  ASSUME QuotaIInv, NEW j \in Job, CancelJob(j)
  PROVE  QuotaIInv'
<1>1. /\ stage' = [stage EXCEPT ![j] = "CANCELLED"]
      /\ UNCHANGED <<attempt, runsOn, torn, tickAt, ready, seen, room, handing>>
  BY DEF CancelJob, tickVars
<1>2. /\ TasksOK' /\ OutNow' \subseteq OutNow
      /\ \A k \in Job : stage'[k] \in Out => stage[k] \in Out
  BY <1>1, MovesKeep DEF Ended
<1>3. PassOK'
  BY <1>1, <1>2 DEF QuotaIInv, PassOK
<1>4. \A m \in Model : On(m)' = On(m)
  BY <1>1 DEF On, Counted
<1>5. handing' # {} => tickAt' = "gating"
  BY <1>1 DEF QuotaIInv, RoomOK
<1> QED BY <1>1, <1>2, <1>3, <1>4, <1>5, NoneAdded

LEMMA CrashKeeps ==
  ASSUME QuotaIInv, CrashQ
  PROVE  QuotaIInv'
<1>1. stage' = stage /\ tickAt' = "idle" /\ ready' = {} /\ seen' = <<>> /\ handing' = {}
  BY DEF CrashQ, PassThrows
<1>2. PassOK'
  BY <1>1, EmptySeen DEF PassOK
<1>3. OutNow' = OutNow
  BY <1>1 DEF OutNow
<1>4. CASE UNCHANGED <<attempt, runsOn, torn>>
  <2>1. TasksOK'
    BY <1>1, <1>4 DEF QuotaIInv, TasksOK
  <2>2. \A m \in Model : On(m)' \subseteq On(m)
    BY <1>1, <1>4 DEF On, Counted
  <2> QED BY <1>1, <1>2, <1>3, <2>1, <2>2, NoneAdded
<1>5. ASSUME NEW j \in handing, attempt' = [attempt EXCEPT ![j] = "DISPATCHED"],
             torn' = torn \cup {j}, UNCHANGED runsOn
      PROVE  QuotaIInv'
  <2>1. j \in Job /\ attempt[j] = "PENDING"
    BY <1>5 DEF QuotaIInv, PassOK
  <2>2. TasksOK'
    BY <1>1, <1>5, <2>1 DEF QuotaIInv, TasksOK
  <2>3. \A m \in Model : On(m)' \subseteq On(m)
    BY <1>1, <1>5, <2>1 DEF QuotaIInv, TasksOK, On, Counted
  <2> QED BY <1>1, <1>2, <1>3, <2>2, <2>3, NoneAdded
<1>6. ASSUME NEW j \in Job, Over(j) PROVE QuotaIInv'
  <2>1. /\ TasksOK' /\ attempt'[j] = "none"
        /\ \A k \in Job : k # j => attempt'[k] = attempt[k] /\ runsOn'[k] = runsOn[k]
    BY <1>1, <1>6, OverKeeps
  <2>2. \A m \in Model : On(m)' \subseteq On(m)
    BY <1>1, <2>1 DEF On, Counted
  <2> QED BY <1>1, <1>2, <1>3, <2>1, <2>2, NoneAdded
<1> QED BY <1>4, <1>5, <1>6 DEF CrashQ

LEMMA QuotaStep == QuotaIInv /\ [QuotaNext]_quotaVars => QuotaIInv'
<1> SUFFICES ASSUME QuotaIInv, [QuotaNext]_quotaVars PROVE QuotaIInv'
  OBVIOUS
<1>0. PassOK /\ (handing # {} => tickAt = "gating")
  BY DEF QuotaIInv, RoomOK
<1>1. ASSUME UNCHANGED <<jobVars, tickVars>> PROVE QuotaIInv'
  <2>1. PassOK'
    BY <1>0, <1>1 DEF PassOK, jobVars, tickVars
  <2> QED BY <1>0, <1>1, <2>1, Elsewhere DEF jobVars, tickVars
<1>2. CASE ClockTicks
  BY <1>1, <1>2 DEF ClockTicks
<1>3. ASSUME NEW m \in Model, QuotaRunsOut(m) \/ ProbeLists(m) \/ ClearQuota(m) \/ PatchReads(m)
      PROVE  QuotaIInv'
  BY <1>1, <1>3 DEF QuotaRunsOut, ProbeLists, ClearQuota, PatchReads, OnlyProbes, OnlyOperates
<1>4. CASE ProbeDispatches \/ ProbeReturns \/ PatchWrites
  BY <1>1, <1>4 DEF ProbeDispatches, ProbeReturns, PatchWrites, OnlyProbes, OnlyOperates
<1>5. CASE UNCHANGED quotaVars
  BY <1>1, <1>5 DEF quotaVars
<1>6. ASSUME BeginPassQ \/ ReleasesAll \/ EndPassQ \/ \E m \in Model : ReleaseRow(m)
      PROVE  QuotaIInv'
  <2>1. UNCHANGED <<stage, attempt, runsOn, torn, seen, ready, handing>>
    BY <1>6 DEF BeginPassQ, ReleasesAll, EndPassQ, ReleaseRow, jobVars
  <2>2. PassOK'
    BY <1>0, <2>1 DEF PassOK
  <2>3. CASE BeginPassQ \/ ReleasesAll \/ \E m \in Model : ReleaseRow(m)
    BY <1>0, <2>1, <2>2, <2>3, Elsewhere DEF BeginPassQ, ReleasesAll, ReleaseRow
  <2>4. CASE EndPassQ
    <3>1. handing = {} /\ tickAt' = "idle"
      BY <2>4 DEF EndPassQ
    <3>2. TasksOK' /\ OutNow' = OutNow /\ \A m \in Model : On(m)' = On(m)
      BY <2>1 DEF QuotaIInv, TasksOK, OutNow, On, Counted
    <3> QED BY <2>1, <2>2, <3>1, <3>2, NoneAdded
  <2> QED BY <1>6, <2>3, <2>4
<1>7. ASSUME NEW j \in Job, RunEnds(j) \/ CancelJob(j) PROVE QuotaIInv'
  BY <1>7, RunEndsKeeps, CancelKeeps
<1>8. ASSUME NEW j \in Job,
             ReadRow(j) \/ StaysParked(j) \/ HandsOff(j) \/ CannotRequeue(j) \/ HandoffAccepted(j)
      PROVE QuotaIInv'
  BY <1>8, ReadKeeps, StayKeeps, HandsOffKeeps, AcceptKeeps
<1>9. CASE ChooseReady
  BY <1>9, ChooseKeeps
<1>10. CASE CrashQ
  BY <1>10, CrashKeeps
<1> QED
  BY <1>2, <1>3, <1>4, <1>5, <1>6, <1>7, <1>8, <1>9, <1>10 DEF QuotaNext, PassStep

LEMMA RoomSuffices == QuotaIInv => WithinLimits
<1> SUFFICES ASSUME QuotaIInv PROVE WithinLimits
  OBVIOUS
<1>1. \A m \in Model : Cardinality({j \in Job : Counted(j) /\ runsOn[j] = m}) <= ModelLimit
  BY DEF QuotaIInv, ModelsOK, On
<1> DEFINE Load == {j \in Job : \/ stage[j] \in Out \/ j \in handing
                                \/ Counted(j) /\ stage[j] # "CANCELLED" /\ j \notin torn}
<1>2. Load = OutNow \cup handing
  BY DEF QuotaIInv, TasksOK, PassOK, OutNow, Counted
<1>3. Cardinality(Load) <= MaxRunning
  <2>1. CASE handing = {}
    BY <1>2, <2>1 DEF QuotaIInv, RoomOK
  <2>2. CASE handing # {}
    <3>1. PICK j \in Job : handing = {j}
      BY <2>2 DEF QuotaIInv, PassOK
    <3>2. room \in Nat /\ room # 0 /\ Cardinality(OutNow) + room <= MaxRunning
      BY <2>2 DEF QuotaIInv, RoomOK
    <3>3. Cardinality(Load) <= Cardinality(OutNow) + 1 /\ Cardinality(OutNow) \in Nat
      BY <1>2, <3>1, CardAdd DEF OutNow
    <3>4. Cardinality(Load) \in Nat
      BY CardMonotone
    <3> QED BY <3>2, <3>3, <3>4, Limits, OneMore
  <2> QED BY <2>1, <2>2
<1> QED BY <1>1, <1>3 DEF WithinLimits

\* How the pass's room and the attempts in flight fit together, as one invariant.
THEOREM QuotaInductive == QuotaSpec => []QuotaIInv
  BY QuotaInitInv, QuotaStep, PTL DEF QuotaSpec

\* However refusals, releases, probes, edits, cancels and crashes fall between a
\* pass's reads, no model has more attempts than its limit, and the runtime no more
\* tasks than its own, nor attempts but those of tasks cancelled or torn from theirs.
\* (checkModelAndQuota, checkRuntimeCapacity, tick)
THEOREM LimitsHold == QuotaSpec => []WithinLimits
  BY QuotaInductive, RoomSuffices, PTL

-----------------------------------------------------------------------------
(* Types *)

LEMMA Whiles ==
    /\ LastTime \in Nat /\ LongWindow \in Nat /\ MaxWalls \in Nat /\ MaxOthers \in Nat
    /\ MaxCrashes \in Nat
    /\ QuotaRetryLimit \in Nat /\ ResourceRetryLimit \in Nat /\ MaxRunning \in Nat
    /\ NoModel \notin Model
  BY LimitsAssumption, RetryableAssumption

LEMMA CappedIsTime == ASSUME NEW n \in Nat PROVE Capped(n) \in Times
  BY Whiles DEF Capped, Times

LEMMA ClockIsNat == QuotaTypeOK => clock \in Nat /\ clock + 1 \in Nat /\ clock + LongWindow \in Nat
<1>1. QuotaTypeOK => clock \in Times
  BY DEF QuotaTypeOK
<1>2. Times \subseteq Nat
  BY Whiles DEF Times
<1>3. \A n \in Nat : n + 1 \in Nat /\ n + LongWindow \in Nat
  BY Whiles
<1> QED BY <1>1, <1>2, <1>3

LEMMA FallbackIsTime == ASSUME QuotaTypeOK, NEW m PROVE Fallback(m) \in Times
  BY ClockIsNat, CappedIsTime DEF Fallback

\* The earliest of some clocks is one of them.
LEMMA EarliestIsTime ==
  ASSUME QuotaTypeOK, NEW times \in SUBSET Times
  PROVE  Earliest(times) \in Times
<1>1. CASE times = {}
  BY <1>1, ClockIsNat, CappedIsTime DEF Earliest
<1>2. CASE times # {}
  <2> DEFINE R == OpToRel(<, Nat)
  <2>1. \A x, y \in Nat : <<x, y>> \in R <=> x < y
    BY DEF OpToRel
  <2>2. IsWellFoundedOn(R, Nat)
    BY NatLessThanWellFounded
  <2> HIDE DEF R
  <2>3. times \subseteq Nat
    BY Whiles DEF Times
  <2>4. PICK t \in times : \A u \in times : ~ (<<u, t>> \in R)
    BY <1>2, <2>2, <2>3, WFMin
  <2>5. \A u \in times : <<u, t>> \in R <=> u < t
    BY <2>1, <2>3
  <2>6. \A u \in times : ~(u < t)
    BY <2>4, <2>5
  <2>7. \A u \in times : t <= u
    BY <2>3, <2>6
  <2> QED BY <1>2, <2>7 DEF Earliest
<1> QED BY <1>1, <1>2

LEMMA SetAvailabilityTypes ==
  ASSUME QuotaTypeOK, NEW m, NEW value \in {"AVAILABLE", "QUOTA_EXHAUSTED"}, NEW at \in Times \cup {Never},
         NEW who \in {"provider", "quota-window", "quota-no-clock", "recovery-probe", "operator"},
         SetAvailability(m, value, at, who)
  PROVE  /\ avail' \in [Model -> {"AVAILABLE", "QUOTA_EXHAUSTED"}]
         /\ anchor' \in [Model -> Times \cup {Never}]
         /\ source' \in [Model -> {"seed", "provider", "quota-window", "quota-no-clock",
                                   "recovery-probe", "operator"}]
  BY DEF QuotaTypeOK, SetAvailability

LEMMA RowTypes == ASSUME QuotaTypeOK, NEW m \in Model PROVE Row(m) \in Rows
  BY DEF QuotaTypeOK, Row, Rows

LEMMA CountTypes ==
  ASSUME QuotaTypeOK, NEW field \in {"walls", "others", "crashes"}, NEW most,
         most = CASE field = "walls" -> MaxWalls [] field = "others" -> MaxOthers [] OTHER -> MaxCrashes,
         Counts(field, most)
  PROVE  bounds' \in [walls : 0..MaxWalls, others : 0..MaxOthers, crashes : 0..MaxCrashes]
<1>1. PICK n \in 0..MaxWalls, o \in 0..MaxOthers, c \in 0..MaxCrashes :
         bounds = [walls |-> n, others |-> o, crashes |-> c]
  BY DEF QuotaTypeOK
<1>2. CASE field = "walls"
  <2>1. bounds' = [walls |-> n + 1, others |-> o, crashes |-> c] /\ n < MaxWalls
    BY <1>1, <1>2 DEF Counts
  <2>2. n + 1 \in 0..MaxWalls
    BY <2>1, Whiles
  <2> QED BY <2>1, <2>2
<1>3. CASE field = "others"
  <2>1. bounds' = [walls |-> n, others |-> o + 1, crashes |-> c] /\ o < MaxOthers
    BY <1>1, <1>3 DEF Counts
  <2>2. o + 1 \in 0..MaxOthers
    BY <2>1, Whiles
  <2> QED BY <2>1, <2>2
<1>4. CASE field = "crashes"
  <2>1. bounds' = [walls |-> n, others |-> o, crashes |-> c + 1] /\ c < MaxCrashes
    BY <1>1, <1>4 DEF Counts
  <2>2. c + 1 \in 0..MaxCrashes
    BY <2>1, Whiles
  <2> QED BY <2>1, <2>2
<1> QED BY <1>2, <1>3, <1>4

\* A task with another clock, and one more retry counted, none any more or as before.
AlarmAt(j) == \E at \in Times \cup {Never} : alarm' = [alarm EXCEPT ![j] = at]

LEMMA RetryTypes ==
  ASSUME QuotaTypeOK, NEW j \in Job,
         \/ tries' = tries
         \/ tries' = [tries EXCEPT ![j] = tries[j]]
         \/ tries' = [tries EXCEPT ![j] = [quota |-> 0, resource |-> 0]]
         \/ tries[j].quota < QuotaRetryLimit /\ tries' = [tries EXCEPT ![j] = Bumped(j, "quota")]
         \/ tries[j].resource < ResourceRetryLimit /\ tries' = [tries EXCEPT ![j] = Bumped(j, "resource")]
  PROVE  tries' \in [Job -> [quota : 0..QuotaRetryLimit, resource : 0..ResourceRetryLimit]]
<1> DEFINE Tries == [quota : 0..QuotaRetryLimit, resource : 0..ResourceRetryLimit]
<1>1. tries \in [Job -> Tries]
  BY DEF QuotaTypeOK
<1>2. PICK q \in 0..QuotaRetryLimit, r \in 0..ResourceRetryLimit : tries[j] = [quota |-> q, resource |-> r]
  BY <1>1
<1>3. ASSUME NEW x \in Tries, tries' = [tries EXCEPT ![j] = x] PROVE tries' \in [Job -> Tries]
  BY <1>1, <1>3
<1>4. [quota |-> 0, resource |-> 0] \in Tries /\ tries[j] \in Tries
  BY <1>1, Whiles
<1>5. CASE tries[j].quota < QuotaRetryLimit /\ tries' = [tries EXCEPT ![j] = Bumped(j, "quota")]
  <2>1. q + 1 \in 0..QuotaRetryLimit
    BY <1>2, <1>5, Whiles
  <2>2. Bumped(j, "quota") = [quota |-> q + 1, resource |-> r]
    BY <1>2 DEF Bumped
  <2>3. Bumped(j, "quota") \in Tries
    BY <2>1, <2>2
  <2> QED BY <1>3, <1>5, <2>3
<1>6. CASE tries[j].resource < ResourceRetryLimit /\ tries' = [tries EXCEPT ![j] = Bumped(j, "resource")]
  <2>1. r + 1 \in 0..ResourceRetryLimit
    BY <1>2, <1>6, Whiles
  <2>2. Bumped(j, "resource") = [quota |-> q, resource |-> r + 1]
    BY <1>2 DEF Bumped
  <2>3. Bumped(j, "resource") \in Tries
    BY <2>1, <2>2
  <2> QED BY <1>3, <1>6, <2>3
<1>7. CASE tries' = tries
  BY <1>1, <1>7
<1>8. CASE tries' = [tries EXCEPT ![j] = tries[j]]
  BY <1>3, <1>4, <1>8
<1>9. CASE tries' = [tries EXCEPT ![j] = [quota |-> 0, resource |-> 0]]
  BY <1>3, <1>4, <1>9
<1> QED BY <1>5, <1>6, <1>7, <1>8, <1>9

LEMMA QuotaStarts == QuotaInit => QuotaTypeOK
<1> SUFFICES ASSUME QuotaInit PROVE QuotaTypeOK
  OBVIOUS
<1>1. 0 \in Times /\ NoRow \in Rows
  BY Whiles DEF Times, NoRow, Rows
<1>2. clock \in Times /\ wall \in [Model -> Times] /\ anchor \in [Model -> Times \cup {Never}]
  BY <1>1 DEF QuotaInit
<1>3. tries \in [Job -> [quota : 0..QuotaRetryLimit, resource : 0..ResourceRetryLimit]]
  BY Whiles DEF QuotaInit
<1>4. /\ room \in 0..MaxRunning
      /\ bounds \in [walls : 0..MaxWalls, others : 0..MaxOthers, crashes : 0..MaxCrashes]
  BY Whiles DEF QuotaInit
<1>5. probing \in [at : {"rest", "listed", "testing"}, row : Rows] /\ patching \in Rows /\ seen \in Seq(Rows)
  BY <1>1 DEF QuotaInit
<1>6. /\ avail \in [Model -> {"AVAILABLE", "QUOTA_EXHAUSTED"}]
      /\ source \in [Model -> {"seed", "provider", "quota-window", "quota-no-clock",
                               "recovery-probe", "operator"}]
      /\ alarm \in [Job -> Times \cup {Never}]
  BY DEF QuotaInit
<1>8. /\ stage \in [Job -> Waiting \cup Out \cup Ended] /\ attempt \in [Job -> {"none", "PENDING", "DISPATCHED"}]
      /\ runsOn \in [Job -> Model \cup {NoModel}] /\ torn \subseteq Job /\ handing \subseteq Job
      /\ \A j \in Job : runsOn[j] # NoModel <=> attempt[j] # "none"
  BY DEF QuotaInit, Waiting
<1>7. tickAt \in {"idle", "releasing", "choosing", "gating"} /\ lapsed \subseteq Model /\ ready \subseteq Job
  BY DEF QuotaInit
<1> QED BY <1>2, <1>3, <1>4, <1>5, <1>6, <1>7, <1>8 DEF QuotaTypeOK

\* The tables, the tasks, and what the pass and the requests hold.
TablesTyped ==
    /\ clock \in Times /\ wall \in [Model -> Times]
    /\ avail \in [Model -> {"AVAILABLE", "QUOTA_EXHAUSTED"}]
    /\ anchor \in [Model -> Times \cup {Never}]
    /\ source \in [Model -> {"seed", "provider", "quota-window", "quota-no-clock",
                             "recovery-probe", "operator"}]
TasksTyped ==
    /\ torn \subseteq Job
    /\ alarm \in [Job -> Times \cup {Never}]
    /\ tries \in [Job -> [quota : 0..QuotaRetryLimit, resource : 0..ResourceRetryLimit]]
PassTyped ==
    /\ tickAt \in {"idle", "releasing", "choosing", "gating"}
    /\ lapsed \subseteq Model /\ seen \in Seq(Rows) /\ room \in 0..MaxRunning
HandsTyped ==
    /\ probing \in [at : {"rest", "listed", "testing"}, row : Rows]
    /\ patching \in Rows
    /\ bounds \in [walls : 0..MaxWalls, others : 0..MaxOthers, crashes : 0..MaxCrashes]

LEMMA TypesMakeUp ==
    /\ QuotaTypeOK => TablesTyped /\ TasksTyped /\ PassTyped /\ HandsTyped
    /\ QuotaIInv /\ TablesTyped /\ TasksTyped /\ PassTyped /\ HandsTyped => QuotaTypeOK
  BY DEF QuotaTypeOK, TablesTyped, TasksTyped, PassTyped, HandsTyped, QuotaIInv, TasksOK, PassOK

LEMMA TablesKept ==
  ASSUME QuotaTypeOK, QuotaIInv, [QuotaNext]_quotaVars PROVE TablesTyped'
<1> USE DEF TablesTyped
<1>0. TablesTyped
  BY TypesMakeUp
<1>1. CASE ClockTicks
  <2>1. clock + 1 \in Times
    BY <1>1, ClockIsNat, Whiles DEF ClockTicks, Times
  <2> QED BY <1>0, <1>1, <2>1 DEF ClockTicks, rowVarsQ
<1>2. ASSUME NEW m \in Model, QuotaRunsOut(m) PROVE TablesTyped'
  <2>1. PICK window \in {1, LongWindow} : wall' = [wall EXCEPT ![m] = Capped(clock + window)]
    BY <1>2 DEF QuotaRunsOut
  <2>2. Capped(clock + window) \in Times
    BY ClockIsNat, CappedIsTime
  <2> QED BY <1>0, <1>2, <2>1, <2>2 DEF QuotaRunsOut, rowVarsQ
<1>3. ASSUME NEW m \in Model, ReleaseRow(m) PROVE TablesTyped'
  <2>1. PICK who \in {"quota-window", "quota-no-clock"} : SetAvailability(m, "AVAILABLE", Never, who)
    BY <1>3 DEF ReleaseRow
  <2>2. /\ avail' \in [Model -> {"AVAILABLE", "QUOTA_EXHAUSTED"}]
        /\ anchor' \in [Model -> Times \cup {Never}]
        /\ source' \in [Model -> {"seed", "provider", "quota-window", "quota-no-clock",
                                  "recovery-probe", "operator"}]
    BY <2>1, SetAvailabilityTypes
  <2>3. UNCHANGED <<clock, wall>>
    BY <1>3 DEF ReleaseRow
  <2> QED BY <1>0, <2>2, <2>3
<1>4. ASSUME NEW j \in Job, HandoffRefused429(j) \/ LateRefused429(j) PROVE TablesTyped'
  <2>1. runsOn[j] \in Model
    BY <1>4 DEF HandoffRefused429, LateRefused429, QuotaTypeOK, QuotaIInv, PassOK
  <2>2. PICK at \in SignalClocks(runsOn[j]) : ApplyQuotaSignal(runsOn[j], at)
    BY <1>4 DEF HandoffRefused429, LateRefused429
  <2>3. at \in Times
    BY <1>0, <2>1, <2>2, FallbackIsTime DEF SignalClocks
  <2>4. /\ avail' \in [Model -> {"AVAILABLE", "QUOTA_EXHAUSTED"}]
        /\ anchor' \in [Model -> Times \cup {Never}]
        /\ source' \in [Model -> {"seed", "provider", "quota-window", "quota-no-clock",
                                  "recovery-probe", "operator"}]
    BY <2>2, <2>3, SetAvailabilityTypes DEF ApplyQuotaSignal
  <2>5. UNCHANGED <<clock, wall>>
    BY <1>4 DEF HandoffRefused429, LateRefused429, Ends
  <2> QED BY <1>0, <2>4, <2>5
<1>5. CASE ProbeReturns
  <2> DEFINE m == probing.row.model
  <2>1. UNCHANGED <<clock, wall>>
    BY <1>5 DEF ProbeReturns, OnlyProbes
  <2>2. CASE SetAvailability(m, "AVAILABLE", Never, "recovery-probe")
    BY <1>0, <2>1, <2>2, SetAvailabilityTypes
  <2>3. CASE ApplyQuotaSignal(m, Fallback(m))
    BY <1>0, <2>1, <2>3, SetAvailabilityTypes, FallbackIsTime DEF ApplyQuotaSignal
  <2>4. CASE UNCHANGED rowVarsQ
    BY <1>0, <2>1, <2>4 DEF rowVarsQ
  <2> QED BY <1>5, <2>2, <2>3, <2>4 DEF ProbeReturns
<1>6. ASSUME NEW m \in Model, ClearQuota(m) PROVE TablesTyped'
  BY <1>0, <1>6, SetAvailabilityTypes DEF ClearQuota, OnlyOperates
<1>7. CASE PatchWrites
  <2>1. patching \in Rows
    BY DEF QuotaTypeOK
  <2>2. patching.avail \in {"AVAILABLE", "QUOTA_EXHAUSTED"} /\ patching.anchor \in Times \cup {Never}
    BY <2>1 DEF Rows
  <2> QED BY <1>0, <1>7, <2>2 DEF PatchWrites, OnlyOperates
<1>8. ASSUME UNCHANGED <<clock, wall, rowVarsQ>> PROVE TablesTyped'
  BY <1>0, <1>8 DEF rowVarsQ
<1>9. CASE PassStep
  <2>1. CASE BeginPassQ \/ ReleasesAll \/ ChooseReady \/ EndPassQ
    BY <1>8, <2>1 DEF BeginPassQ, ReleasesAll, ChooseReady, EndPassQ
  <2>2. ASSUME NEW j \in Job,
               ReadRow(j) \/ StaysParked(j) \/ HandsOff(j) \/ CannotRequeue(j) \/ HandoffAccepted(j)
        PROVE  TablesTyped'
    BY <1>8, <2>2 DEF ReadRow, StaysParked, HandsOff, CannotRequeue, HandoffAccepted
  <2> QED BY <1>3, <1>9, <2>1, <2>2 DEF PassStep
<1>10. ASSUME NEW j \in Job, RunCompletesOn(j) \/ CancelJob(j) PROVE TablesTyped'
  BY <1>8, <1>10 DEF RunCompletesOn, Ends, CancelJob
<1>13. CASE CrashQ
  BY <1>8, <1>13 DEF CrashQ
<1>11. ASSUME NEW m \in Model, ProbeLists(m) \/ PatchReads(m) PROVE TablesTyped'
  BY <1>8, <1>11 DEF ProbeLists, PatchReads, OnlyProbes, OnlyOperates
<1>12. CASE ProbeDispatches \/ UNCHANGED quotaVars
  BY <1>8, <1>12 DEF ProbeDispatches, OnlyProbes, quotaVars, rowVarsQ
<1> QED
  BY <1>1, <1>2, <1>4, <1>5, <1>6, <1>7, <1>9, <1>10, <1>11, <1>12, <1>13 DEF QuotaNext, RunEnds

LEMMA TasksKept ==
  ASSUME QuotaTypeOK, QuotaIInv, [QuotaNext]_quotaVars PROVE TasksTyped'
<1> USE DEF TasksTyped
<1>0. TasksTyped
  BY TypesMakeUp
<1>1. ASSUME UNCHANGED <<alarm, tries, torn>> PROVE TasksTyped'
  BY <1>0, <1>1
<1>2. ASSUME NEW j \in Job, AlarmAt(j) \/ alarm' = alarm,
             tries' \in [Job -> [quota : 0..QuotaRetryLimit, resource : 0..ResourceRetryLimit]],
             torn' \subseteq Job
      PROVE TasksTyped'
  BY <1>0, <1>2 DEF AlarmAt
<1>3. \A j \in Job : alarm[j] \in Times \cup {Never}
  BY <1>0
<1>4. ASSUME NEW j \in Job, StaysParked(j) \/ HandoffAccepted(j) PROVE TasksTyped'
  <2>1. Clocks \in SUBSET Times
    <3>1. ASSUME NEW i \in DOMAIN seen PROVE seen[i].anchor \in Times \cup {Never}
      <4>1. seen \in Seq(Rows)
        BY DEF QuotaTypeOK
      <4>2. seen[i] \in Rows
        BY <3>1, <4>1
      <4> QED BY <4>2 DEF Rows
    <3> QED BY <3>1 DEF Clocks
  <2>2. /\ Earliest(IF Verdict(j) = "WAIT_QUOTA" THEN Clocks ELSE {}) \in Times
        /\ Earliest({}) \in Times
    BY <2>1, EarliestIsTime, {} \in SUBSET Times
  <2>3. AlarmAt(j) \/ alarm' = alarm
    BY <1>3, <1>4, <2>2 DEF StaysParked, HandoffAccepted, Park, AlarmAt
  <2>4. torn' \subseteq Job /\ tries' = tries
    BY <1>0, <1>4 DEF StaysParked, HandoffAccepted, Over
  <2> QED BY <1>0, <1>2, <2>3, <2>4
<1>5. ASSUME NEW j \in Job, RunEnds(j) PROVE TasksTyped'
  <2>1. Capped(clock + 1) \in Times /\ Earliest({}) \in Times
    BY ClockIsNat, CappedIsTime, EarliestIsTime, {} \in SUBSET Times
  <2>2. j \in handing \/ attempt[j] = "DISPATCHED" => \A at \in SignalClocks(runsOn[j]) : at \in Times
    <3>1. j \in handing \/ attempt[j] = "DISPATCHED" => runsOn[j] \in Model
      BY DEF QuotaTypeOK, QuotaIInv, PassOK
    <3>2. \A m \in Model : wall[m] \in Times
      BY DEF QuotaTypeOK
    <3> QED BY <3>1, <3>2, FallbackIsTime DEF SignalClocks
  <2>3. AlarmAt(j) \/ alarm' = alarm
    <3>1. CASE RunCompletesOn(j)
      BY <1>3, <3>1 DEF RunCompletesOn, Ends, AlarmAt
    <3>2. CASE HandoffRefused429(j)
      BY <1>3, <2>1, <2>2, <3>2 DEF HandoffRefused429, Park, AlarmAt
    <3>3. CASE LateRefused429(j)
      BY <1>3, <2>1, <2>2, <3>3 DEF LateRefused429, Ends, AlarmAt
    <3> QED BY <1>5, <3>1, <3>2, <3>3 DEF RunEnds
  <2>4. \/ tries' = tries
        \/ tries' = [tries EXCEPT ![j] = tries[j]]
        \/ tries' = [tries EXCEPT ![j] = [quota |-> 0, resource |-> 0]]
        \/ tries[j].quota < QuotaRetryLimit /\ tries' = [tries EXCEPT ![j] = Bumped(j, "quota")]
        \/ tries[j].resource < ResourceRetryLimit /\ tries' = [tries EXCEPT ![j] = Bumped(j, "resource")]
    BY <1>5, Zenon DEF RunEnds, RunCompletesOn, HandoffRefused429, LateRefused429, Ends
  <2>5. torn' \subseteq Job
    BY <1>0, <1>5 DEF RunEnds, RunCompletesOn, HandoffRefused429, LateRefused429, Ends, Over
  <2> QED BY <1>2, <2>3, <2>4, <2>5, RetryTypes
<1>6. CASE CrashQ
  <2>1. torn' \subseteq Job
    BY <1>0, <1>6 DEF CrashQ, Over, QuotaIInv, PassOK
  <2> QED BY <1>0, <1>6, <2>1 DEF CrashQ
<1>7. CASE PassStep
  <2>1. CASE BeginPassQ \/ ReleasesAll \/ ChooseReady \/ EndPassQ
    BY <1>1, <2>1 DEF BeginPassQ, ReleasesAll, ChooseReady, EndPassQ, jobVars
  <2>2. ASSUME NEW j \in Job, ReadRow(j) \/ HandsOff(j) \/ CannotRequeue(j) PROVE TasksTyped'
    BY <1>1, <2>2 DEF ReadRow, HandsOff, CannotRequeue, jobVars
  <2>3. ASSUME NEW m \in Model, ReleaseRow(m) PROVE TasksTyped'
    BY <1>1, <2>3 DEF ReleaseRow, jobVars
  <2> QED BY <1>4, <1>7, <2>1, <2>2, <2>3 DEF PassStep
<1>8. ASSUME NEW m \in Model, QuotaRunsOut(m) \/ ProbeLists(m) \/ ClearQuota(m) \/ PatchReads(m) PROVE TasksTyped'
  BY <1>1, <1>8 DEF QuotaRunsOut, ProbeLists, ClearQuota, PatchReads, OnlyProbes, OnlyOperates, jobVars
<1>9. CASE ClockTicks \/ ProbeDispatches \/ ProbeReturns \/ PatchWrites \/ UNCHANGED quotaVars
  BY <1>1, <1>9 DEF ClockTicks, ProbeDispatches, ProbeReturns, PatchWrites, OnlyProbes, OnlyOperates,
     quotaVars, jobVars
<1>10. ASSUME NEW j \in Job, CancelJob(j) PROVE TasksTyped'
  BY <1>1, <1>10 DEF CancelJob
<1> QED BY <1>5, <1>6, <1>7, <1>8, <1>9, <1>10 DEF QuotaNext

LEMMA EmptyRows == <<>> \in Seq(Rows)
  OBVIOUS

LEMMA PassKept ==
  ASSUME QuotaTypeOK, QuotaIInv, QuotaIInv', [QuotaNext]_quotaVars PROVE PassTyped'
<1> USE DEF PassTyped
<1>0. PassTyped
  BY TypesMakeUp
<1>1. ASSUME UNCHANGED tickVars PROVE PassTyped'
  BY <1>0, <1>1 DEF tickVars
<1>2. tickAt' = "gating" => room' \in 0..MaxRunning
  <2>1. tickAt' = "gating" => room' \in Nat /\ Cardinality(OutNow') + room' <= MaxRunning
    BY DEF QuotaIInv, RoomOK
  <2>2. Cardinality(OutNow') \in Nat
    BY CardMonotone DEF OutNow
  <2>3. \A c, r \in Nat : c + r <= MaxRunning => r \in 0..MaxRunning
    BY Whiles
  <2> QED BY <2>1, <2>2, <2>3
<1>3. CASE BeginPassQ \/ ReleasesAll
  BY <1>0, <1>3 DEF BeginPassQ, ReleasesAll
<1>4. ASSUME NEW m \in Model, ReleaseRow(m) PROVE PassTyped'
  BY <1>0, <1>4 DEF ReleaseRow
<1>5. CASE ChooseReady
  BY <1>0, <1>2, <1>5 DEF ChooseReady
<1>6. CASE EndPassQ
  <2>1. room' \in 0..MaxRunning
    BY <1>6, Whiles DEF EndPassQ
  <2> QED BY <1>0, <1>6, <2>1 DEF EndPassQ
<1>7. ASSUME NEW j \in Job, ReadRow(j) PROVE PassTyped'
  <2>1. Prefers[j] \in Seq(Model) /\ Len(seen) < Len(Prefers[j]) /\ Len(seen) \in Nat
    BY <1>0, <1>7, PrefersAssumption DEF ReadRow
  <2>2. Prefers[j][Len(seen) + 1] \in Model
    BY <2>1
  <2>3. seen' \in Seq(Rows)
    BY <1>0, <1>7, <2>2, RowTypes DEF ReadRow
  <2> QED BY <1>0, <1>7, <2>3 DEF ReadRow
<1>8. ASSUME NEW j \in Job, StaysParked(j) \/ HandsOff(j) \/ CannotRequeue(j) \/ HandoffAccepted(j)
      PROVE  PassTyped'
  <2>1. /\ seen' \in Seq(Rows) /\ lapsed' = lapsed
        /\ (tickAt' = "gating" /\ tickAt = "gating") \/ (tickAt' = "idle" /\ room' = 0)
    <3>1. handing # {} \/ StaysParked(j) \/ HandsOff(j) \/ CannotRequeue(j) => tickAt = "gating"
      BY DEF StaysParked, HandsOff, CannotRequeue, AllRead, NextJob, QuotaIInv, RoomOK
    <3> QED BY <1>0, <1>8, <3>1, EmptyRows
            DEF StaysParked, HandsOff, CannotRequeue, HandoffAccepted, Park, PassThrows
  <2>2. room' \in 0..MaxRunning
    BY <1>2, <2>1, Whiles
  <2> QED BY <2>1, <2>2, <1>0
<1>10. ASSUME NEW m \in Model, QuotaRunsOut(m) \/ ProbeLists(m) \/ ClearQuota(m) \/ PatchReads(m) PROVE PassTyped'
  BY <1>1, <1>10 DEF QuotaRunsOut, ProbeLists, ClearQuota, PatchReads, OnlyProbes, OnlyOperates
<1>11. ASSUME NEW j \in Job, RunEnds(j) PROVE PassTyped'
  <2>1. CASE RunCompletesOn(j) \/ LateRefused429(j)
    BY <1>1, <2>1 DEF RunCompletesOn, LateRefused429, Ends
  <2>2. CASE HandoffRefused429(j)
    <3>1. tickAt = "gating"
      BY <2>2 DEF HandoffRefused429, QuotaIInv, RoomOK
    <3>2. /\ seen' \in Seq(Rows) /\ lapsed' = lapsed
          /\ tickAt' = "gating" \/ (tickAt' = "idle" /\ room' = 0)
      BY <2>2, <3>1, EmptyRows DEF HandoffRefused429, Park, PassThrows
    <3>3. room' \in 0..MaxRunning
      BY <1>2, <3>2, Whiles
    <3> QED BY <1>0, <3>2, <3>3
  <2> QED BY <1>11, <2>1, <2>2 DEF RunEnds
<1>13. CASE CrashQ
  BY <1>0, <1>13, EmptyRows, Whiles DEF CrashQ, PassThrows
<1>14. ASSUME NEW j \in Job, CancelJob(j) PROVE PassTyped'
  BY <1>1, <1>14 DEF CancelJob
<1>12. CASE ClockTicks \/ ProbeDispatches \/ ProbeReturns \/ PatchWrites \/ UNCHANGED quotaVars
  BY <1>1, <1>12 DEF ClockTicks, ProbeDispatches, ProbeReturns, PatchWrites, OnlyProbes, OnlyOperates, quotaVars
<1> QED
  BY <1>3, <1>4, <1>5, <1>6, <1>7, <1>8, <1>10, <1>11, <1>12, <1>13, <1>14 DEF QuotaNext, PassStep

LEMMA HandsKept ==
  ASSUME QuotaTypeOK, [QuotaNext]_quotaVars PROVE HandsTyped'
<1> USE DEF HandsTyped
<1>0. HandsTyped
  BY TypesMakeUp
<1>1. ASSUME UNCHANGED <<probing, patching, bounds>> PROVE HandsTyped'
  BY <1>0, <1>1
<1>2. ASSUME NEW m \in Model, QuotaRunsOut(m) PROVE HandsTyped'
  <2>1. bounds' \in [walls : 0..MaxWalls, others : 0..MaxOthers, crashes : 0..MaxCrashes]
    BY <1>2, CountTypes DEF QuotaRunsOut
  <2> QED BY <1>0, <1>2, <2>1 DEF QuotaRunsOut
<1>3. ASSUME NEW m \in Model, ProbeLists(m) \/ ClearQuota(m) \/ PatchReads(m) PROVE HandsTyped'
  <2>1. bounds' \in [walls : 0..MaxWalls, others : 0..MaxOthers, crashes : 0..MaxCrashes]
    BY <1>3, CountTypes DEF ProbeLists, ClearQuota, PatchReads
  <2>2. Row(m) \in Rows
    BY RowTypes
  <2>3. [at |-> "listed", row |-> Row(m)] \in [at : {"rest", "listed", "testing"}, row : Rows]
    BY <2>2
  <2>4. CASE ProbeLists(m)
    BY <1>0, <2>1, <2>3, <2>4 DEF ProbeLists, ProbeAt, OnlyProbes
  <2>5. CASE ClearQuota(m)
    BY <1>0, <2>1, <2>5 DEF ClearQuota, OnlyOperates
  <2>6. CASE PatchReads(m)
    BY <1>0, <2>1, <2>2, <2>6 DEF PatchReads, OnlyOperates
  <2> QED BY <1>3, <2>4, <2>5, <2>6
<1>4. NoRow \in Rows
  BY DEF NoRow, Rows
<1>5. CASE ProbeDispatches \/ ProbeReturns
  <2>1. probing.row \in Rows
    BY <1>0
  <2>2. probing' \in [at : {"rest", "listed", "testing"}, row : Rows]
    BY <1>4, <1>5, <2>1 DEF ProbeDispatches, ProbeReturns, ProbeAt
  <2> QED BY <1>0, <1>5, <2>2 DEF ProbeDispatches, ProbeReturns, OnlyProbes
<1>6. CASE PatchWrites
  BY <1>0, <1>4, <1>6 DEF PatchWrites, OnlyOperates
<1>7. CASE PassStep
  BY <1>1, <1>7 DEF PassStep, BeginPassQ, ReleasesAll, ChooseReady, EndPassQ, ReleaseRow, ReadRow,
     StaysParked, HandsOff, CannotRequeue, HandoffAccepted
<1>8. ASSUME NEW j \in Job, RunEnds(j) PROVE HandsTyped'
  BY <1>1, <1>8 DEF RunEnds, RunCompletesOn, HandoffRefused429, LateRefused429, Ends
<1>10. ASSUME NEW j \in Job, CancelJob(j) PROVE HandsTyped'
  BY <1>1, <1>10 DEF CancelJob
<1>11. CASE CrashQ
  <2>1. bounds' \in [walls : 0..MaxWalls, others : 0..MaxOthers, crashes : 0..MaxCrashes]
    BY <1>11, CountTypes DEF CrashQ
  <2>2. [at |-> "rest", row |-> NoRow] \in [at : {"rest", "listed", "testing"}, row : Rows]
    BY <1>4
  <2> QED BY <1>4, <1>11, <2>1, <2>2 DEF CrashQ
<1>9. CASE ClockTicks \/ UNCHANGED quotaVars
  BY <1>1, <1>9 DEF ClockTicks, quotaVars
<1> QED
  BY <1>2, <1>3, <1>5, <1>6, <1>7, <1>8, <1>9, <1>10, <1>11 DEF QuotaNext

LEMMA QuotaTypesKept ==
  ASSUME QuotaTypeOK, QuotaIInv, [QuotaNext]_quotaVars PROVE QuotaTypeOK'
<1>1. QuotaIInv'
  BY QuotaStep
<1>2. TablesTyped' /\ TasksTyped' /\ PassTyped' /\ HandsTyped'
  BY <1>1, TablesKept, TasksKept, PassKept, HandsKept
<1>3. TasksOK' /\ PassOK'
  BY <1>1 DEF QuotaIInv
<1> QED
  BY <1>2, <1>3 DEF QuotaTypeOK, TablesTyped, TasksTyped, PassTyped, HandsTyped, TasksOK, PassOK

\* What the rows, the tasks, the pass and the requests hold is of its type, and no
\* more is left of the runtime's room than there is.
THEOREM QuotaTyped == QuotaSpec => []QuotaTypeOK
<1>1. QuotaInit => QuotaTypeOK /\ QuotaIInv
  BY QuotaStarts, QuotaInitInv
<1>2. QuotaTypeOK /\ QuotaIInv /\ [QuotaNext]_quotaVars => QuotaTypeOK' /\ QuotaIInv'
  BY QuotaTypesKept, QuotaStep
<1> QED BY <1>1, <1>2, PTL DEF QuotaSpec
=============================================================================
