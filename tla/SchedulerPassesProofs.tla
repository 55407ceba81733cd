----------------------- MODULE SchedulerPassesProofs -----------------------
(***************************************************************************)
(* For any number of replicas, tasks and faults, and under any of the      *)
(* deployments: one logical dispatcher, and no wake lost but to another    *)
(* holder or to a failure.                                                 *)
(***************************************************************************)
EXTENDS SchedulerPasses, TLAPS

\* A pass whose statements still reach the store.
Live(r) == InPass(r) /\ ~severed[r]

\* Where the store is a file there is one replica.
PrimaryIsAlone ==
    store = "sqlite" => \A r \in Replica : r # Primary => pc[r] = "absent"

\* With PostgreSQL a live pass holds the advisory lock.
LiveHoldsGuard ==
    store = "postgres" => \A r \in Replica : Live(r) => guard = r

\* Only a live transaction has uncommitted rows.
DraftIsLive ==
    \A r \in Replica : draft[r] # {} => store = "postgres" /\ Live(r)

\* What is being handed off has its row.
SendingIsOpen ==
    \A r \in Replica : pc[r] = "sending" =>
        /\ cur[r] \in Task
        /\ ~severed[r] => cur[r] \in Visible(r)

BeingSent(t) == \E r \in Replica : Live(r) /\ pc[r] = "sending" /\ cur[r] = t
\* The row of a run that the gateway has accepted.
Recorded(t) == OnFile(t) /\ ~BeingSent(t)

\* Every handoff is accounted for: on record, or undone.
HandoffsAreCounted ==
    \A t \in Task :
        /\ handoffs[t] <= undone[t] + 1
        /\ ~Recorded(t) => handoffs[t] <= undone[t]

\* What a drain owes, unless a reason pending will make it look again.
WakesAreCarried ==
    \A r \in Replica :
        /\ owed[r] \subseteq filed
        /\ pc[r] \in {"absent", "down"} => owed[r] = {}
        /\ pc[r] = "idle" => owed[r] \subseteq weighed
        /\ ~pending[r] =>
            /\ pc[r] \in {"ticking", "sending"} => owed[r] \subseteq batch[r]
            /\ pc[r] = "unlocking" => owed[r] \subseteq weighed

PassInv == PrimaryIsAlone /\ LiveHoldsGuard /\ DraftIsLive /\ SendingIsOpen
IInv == TypeOK /\ PassInv /\ HandoffsAreCounted /\ WakesAreCarried

------------------------------------------------------------------------------
(* Types *)

LEMMA TypeStep ==
    ASSUME TypeOK, [Next]_vars
    PROVE  TypeOK'
<1> USE DEF TypeOK, Holder, Running
<1>1. ASSUME NEW t \in Task, File(t)
      PROVE TypeOK'
  BY <1>1, PrimaryAssumption, FaultAssumption
  DEF File, Up, deployment, taskVars, drainVars, tickVars, lockVars
<1>2. ASSUME NEW r \in Replica, Notify(r)
      PROVE TypeOK'
  BY <1>2, PrimaryAssumption, FaultAssumption
  DEF Notify, Up, Goto, deployment, taskVars, drainVars, tickVars, lockVars
<1>3. ASSUME NEW r \in Replica, TakeLock(r)
      PROVE TypeOK'
  BY <1>3, PrimaryAssumption, FaultAssumption
  DEF TakeLock, Goto, deployment, taskVars, drainVars, tickVars, lockVars
<1>4. ASSUME NEW r \in Replica, LockRefused(r)
      PROVE TypeOK'
  BY <1>4, PrimaryAssumption, FaultAssumption
  DEF LockRefused, NextTurn, Dropped, Goto, deployment, taskVars, drainVars,
      tickVars, lockVars
<1>5. ASSUME NEW r \in Replica, LockAnswerLost(r)
      PROVE TypeOK'
  BY <1>5, PrimaryAssumption, FaultAssumption
  DEF LockAnswerLost, Fault, NextTurn, Dropped, Goto, deployment, taskVars,
      drainVars, tickVars, lockVars
<1>6. ASSUME NEW r \in Replica, LockFails(r)
      PROVE TypeOK'
  BY <1>6, PrimaryAssumption, FaultAssumption
  DEF LockFails, Fault, Goto, deployment, taskVars, drainVars, tickVars, lockVars
<1>7. ASSUME NEW r \in Replica, Release(r)
      PROVE TypeOK'
  BY <1>7, PrimaryAssumption, FaultAssumption
  DEF Release, Return, NextTurn, Goto, Unlock, deployment, taskVars, drainVars,
      tickVars, lockVars
<1>8. ASSUME NEW r \in Replica, ReleaseLost(r)
      PROVE TypeOK'
  <2>1. /\ pc' \in [Replica -> Running \cup {"absent", "down", "idle"}]
        /\ pending' \in [Replica -> BOOLEAN]
        /\ owed' \in [Replica -> SUBSET Task]
    BY <1>8 DEF ReleaseLost, Return, NextTurn, Goto
  <2> QED
    BY <1>8, <2>1, FaultAssumption
    DEF ReleaseLost, Fault, deployment, taskVars, tickVars, lockVars
<1>9. CASE LockExpires
  BY <1>9, PrimaryAssumption, FaultAssumption
  DEF LockExpires, deployment, taskVars, drainVars, tickVars, lockVars
<1>10. CASE LockLapses
  BY <1>10, PrimaryAssumption, FaultAssumption
  DEF LockLapses, Fault, deployment, taskVars, drainVars, tickVars, lockVars
<1>11. ASSUME NEW r \in Replica, TakeGuard(r)
      PROVE TypeOK'
  BY <1>11, PrimaryAssumption, FaultAssumption
  DEF TakeGuard, Goto, deployment, taskVars, drainVars, tickVars, lockVars
<1>12. ASSUME NEW r \in Replica, GuardRefused(r)
      PROVE TypeOK'
  BY <1>12, PrimaryAssumption, FaultAssumption
  DEF GuardRefused, Goto, Dropped, deployment, taskVars, drainVars, tickVars,
      lockVars
<1>13. ASSUME NEW r \in Replica, Read(r)
      PROVE TypeOK'
  BY <1>13, PrimaryAssumption, FaultAssumption
  DEF Read, Goto, Visible, deployment, taskVars, drainVars, tickVars, lockVars
<1>14. ASSUME NEW r \in Replica, NEW t \in Task, Parks(r, t)
      PROVE TypeOK'
  BY <1>14, PrimaryAssumption, FaultAssumption
  DEF Parks, deployment, taskVars, drainVars, tickVars, lockVars
<1>15. ASSUME NEW r \in Replica, NEW t \in Task, Opens(r, t)
      PROVE TypeOK'
  BY <1>15, PrimaryAssumption, FaultAssumption
  DEF Opens, Goto, Visible, Writes, deployment, taskVars, drainVars, tickVars,
      lockVars
<1>16. ASSUME NEW r \in Replica, Accepted(r)
      PROVE TypeOK'
  <2>1. /\ handoffs' \in [Task -> Nat]
        /\ undone' \in [Task -> Nat]
    <3>1. CASE cur[r] \in Task
      BY <1>16, <3>1 DEF Accepted
    <3>2. CASE cur[r] \notin Task
      BY <1>16, <3>2 DEF Accepted
    <3> QED
      BY <3>1, <3>2
  <2> QED
    BY <1>16, <2>1 DEF Accepted, Goto, deployment, drainVars, lockVars
<1>17. ASSUME NEW r \in Replica, Refused(r)
      PROVE TypeOK'
  BY <1>17, PrimaryAssumption, FaultAssumption
  DEF Refused, Goto, deployment, taskVars, drainVars, tickVars, lockVars
<1>18. ASSUME NEW r \in Replica, Completes(r)
      PROVE TypeOK'
  BY <1>18, PrimaryAssumption, FaultAssumption
  DEF Completes, Goto, LetGo, deployment, taskVars, drainVars, tickVars, lockVars
<1>19. ASSUME NEW r \in Replica, PassThrows(r)
      PROVE TypeOK'
  BY <1>19, PrimaryAssumption, FaultAssumption
  DEF PassThrows, Fault, Goto, Rollback, HandedOff, ForgetTick, LetGo, deployment,
      taskVars, drainVars, tickVars, lockVars
<1>20. ASSUME NEW r \in Replica, ConnectionLost(r)
      PROVE TypeOK'
  BY <1>20, PrimaryAssumption, FaultAssumption
  DEF ConnectionLost, Fault, Rollback, HandedOff, InPass, deployment, taskVars,
      drainVars, tickVars, lockVars
<1>21. CASE SessionEnds
  BY <1>21, PrimaryAssumption, FaultAssumption
  DEF SessionEnds, deployment, taskVars, drainVars, tickVars, lockVars
<1>22. ASSUME NEW r \in Replica, Crash(r)
      PROVE TypeOK'
  BY <1>22, PrimaryAssumption, FaultAssumption
  DEF Crash, Up, Fault, Goto, Rollback, HandedOff, ForgetTick, deployment, taskVars,
      drainVars, tickVars, lockVars
<1>23. ASSUME NEW r \in Replica, Restart(r)
      PROVE TypeOK'
  BY <1>23, PrimaryAssumption, FaultAssumption
  DEF Restart, Goto, deployment, taskVars, drainVars, tickVars, lockVars
<1>24. CASE UNCHANGED vars
  BY <1>24, PrimaryAssumption, FaultAssumption
  DEF vars, deployment, taskVars, drainVars, tickVars, lockVars
<1> QED
  BY <1>1, <1>2, <1>3, <1>4, <1>5, <1>6, <1>7, <1>8, <1>9, <1>10, <1>11, <1>12, <1>13, <1>14, <1>15, <1>16, <1>17, <1>18, <1>19, <1>20, <1>21, <1>22, <1>23, <1>24
  DEF Next, Drain, Failure

\* Every variable keeps to its type.
THEOREM PassTypeCorrect == Spec => []TypeOK
<1>1. Init => TypeOK
  BY PrimaryAssumption DEF Init, TypeOK, Holder, Running, Fleet
<1>2. TypeOK /\ [Next]_vars => TypeOK'
  BY TypeStep
<1> QED
  BY <1>1, <1>2, PTL DEF Spec

------------------------------------------------------------------------------
(* The locks keep live passes apart *)

\* No two passes are live at once.
LEMMA OnePassAtATime ==
    ASSUME TypeOK, PassInv, NEW r \in Replica, NEW q \in Replica, Live(r), Live(q)
    PROVE  r = q
  BY PrimaryAssumption
  DEF TypeOK, PassInv, PrimaryIsAlone, LiveHoldsGuard, Live, InPass

\* Outside a pass nothing happens to it.
Outside ==
    /\ \A q \in Replica : pc'[q] # pc[q] =>
           pc[q] # "absent" /\ ~InPass(q) /\ pc'[q] \notin {"reading", "ticking", "sending"}
    /\ guard' = guard \/ guard \notin Replica
    /\ UNCHANGED <<deployment, inFlight, draft, severed, cur>>

LEMMA OutsideKeepsPass ==
    ASSUME TypeOK, PassInv, Outside
    PROVE  PassInv'
<1>1. \A q \in Replica : InPass(q)' <=> InPass(q)
  BY DEF Outside, InPass
<1>2. \A q \in Replica : Live(q)' <=> Live(q)
  BY <1>1 DEF Outside, Live
<1>3. PrimaryIsAlone'
  BY PrimaryAssumption DEF Outside, PassInv, PrimaryIsAlone, deployment
<1>4. LiveHoldsGuard'
  BY <1>2 DEF Outside, PassInv, LiveHoldsGuard, Live, deployment
<1>5. DraftIsLive'
  BY <1>2 DEF Outside, PassInv, DraftIsLive, deployment
<1>6. SendingIsOpen'
  BY DEF Outside, PassInv, SendingIsOpen, Visible, InPass
<1> QED
  BY <1>3, <1>4, <1>5, <1>6 DEF PassInv

LEMMA PassStep ==
    ASSUME TypeOK, PassInv, [Next]_vars
    PROVE  PassInv'
<1>1. ASSUME NEW t \in Task, File(t)
      PROVE PassInv'
  <2> Outside
    BY <1>1, StaleAssumption
    DEF File, Up, Outside, TypeOK, InPass, deployment, taskVars, drainVars,
        tickVars, lockVars
  <2> QED
    BY OutsideKeepsPass
<1>2. ASSUME NEW r \in Replica, Notify(r)
      PROVE PassInv'
  <2> Outside
    BY <1>2, StaleAssumption
    DEF Notify, Up, Goto, Outside, TypeOK, InPass, deployment, taskVars, drainVars,
        tickVars, lockVars
  <2> QED
    BY OutsideKeepsPass
<1>3. ASSUME NEW r \in Replica, TakeLock(r)
      PROVE PassInv'
  <2> Outside
    BY <1>3, StaleAssumption
    DEF TakeLock, Goto, Outside, TypeOK, InPass, deployment, taskVars, drainVars,
        tickVars, lockVars
  <2> QED
    BY OutsideKeepsPass
<1>4. ASSUME NEW r \in Replica, LockRefused(r)
      PROVE PassInv'
  <2> Outside
    BY <1>4, StaleAssumption
    DEF LockRefused, NextTurn, Dropped, Goto, Outside, TypeOK, InPass, deployment,
        taskVars, drainVars, tickVars, lockVars
  <2> QED
    BY OutsideKeepsPass
<1>5. ASSUME NEW r \in Replica, LockAnswerLost(r)
      PROVE PassInv'
  <2> Outside
    BY <1>5, StaleAssumption
    DEF LockAnswerLost, Fault, NextTurn, Dropped, Goto, Outside, TypeOK, InPass,
        deployment, taskVars, drainVars, tickVars, lockVars
  <2> QED
    BY OutsideKeepsPass
<1>6. ASSUME NEW r \in Replica, LockFails(r)
      PROVE PassInv'
  <2> Outside
    BY <1>6, StaleAssumption
    DEF LockFails, Fault, Goto, Outside, TypeOK, InPass, deployment, taskVars,
        drainVars, tickVars, lockVars
  <2> QED
    BY OutsideKeepsPass
<1>7. ASSUME NEW r \in Replica, Release(r)
      PROVE PassInv'
  <2> Outside
    BY <1>7, StaleAssumption
    DEF Release, Return, NextTurn, Goto, Unlock, Outside, TypeOK, InPass,
        deployment, taskVars, drainVars, tickVars, lockVars
  <2> QED
    BY OutsideKeepsPass
<1>8. ASSUME NEW r \in Replica, ReleaseLost(r)
      PROVE PassInv'
  <2> Outside
    BY <1>8, StaleAssumption
    DEF ReleaseLost, Return, NextTurn, Goto, Fault, Outside, TypeOK, InPass,
        deployment, taskVars, drainVars, tickVars, lockVars
  <2> QED
    BY OutsideKeepsPass
<1>9. CASE LockExpires
  <2> Outside
    BY <1>9, StaleAssumption
    DEF LockExpires, Outside, TypeOK, InPass, deployment, taskVars, drainVars,
        tickVars, lockVars
  <2> QED
    BY OutsideKeepsPass
<1>10. CASE LockLapses
  <2> Outside
    BY <1>10, StaleAssumption
    DEF LockLapses, Fault, Outside, TypeOK, InPass, deployment, taskVars, drainVars,
        tickVars, lockVars
  <2> QED
    BY OutsideKeepsPass
<1>11. ASSUME NEW r \in Replica, TakeGuard(r)
      PROVE PassInv'
  <2>1. PrimaryIsAlone'
    BY <1>11, PrimaryAssumption, NobodyAssumption, StaleAssumption
    DEF TakeGuard, Goto, PrimaryIsAlone, PassInv, TypeOK, Holder, Running, Live,
        InPass, Visible, deployment, taskVars, drainVars, tickVars, lockVars
  <2>2. LiveHoldsGuard'
    BY <1>11, PrimaryAssumption, NobodyAssumption, StaleAssumption
    DEF TakeGuard, Goto, LiveHoldsGuard, PassInv, TypeOK, Holder, Running, Live,
        InPass, Visible, deployment, taskVars, drainVars, tickVars, lockVars
  <2>3. DraftIsLive'
    BY <1>11, PrimaryAssumption, NobodyAssumption, StaleAssumption
    DEF TakeGuard, Goto, DraftIsLive, PassInv, TypeOK, Holder, Running, Live,
        InPass, Visible, deployment, taskVars, drainVars, tickVars, lockVars
  <2>4. SendingIsOpen'
    BY <1>11, PrimaryAssumption, NobodyAssumption, StaleAssumption
    DEF TakeGuard, Goto, SendingIsOpen, PassInv, TypeOK, Holder, Running, Live,
        InPass, Visible, deployment, taskVars, drainVars, tickVars, lockVars
  <2> QED
    BY <2>1, <2>2, <2>3, <2>4 DEF PassInv
<1>12. ASSUME NEW r \in Replica, GuardRefused(r)
      PROVE PassInv'
  <2> Outside
    BY <1>12, StaleAssumption
    DEF GuardRefused, Goto, Dropped, Outside, TypeOK, InPass, deployment, taskVars,
        drainVars, tickVars, lockVars
  <2> QED
    BY OutsideKeepsPass
<1>13. ASSUME NEW r \in Replica, Read(r)
      PROVE PassInv'
  <2>1. PrimaryIsAlone'
    BY <1>13, PrimaryAssumption, NobodyAssumption, StaleAssumption
    DEF Read, Goto, Visible, PrimaryIsAlone, PassInv, TypeOK, Holder, Running, Live,
        InPass, deployment, taskVars, drainVars, tickVars, lockVars
  <2>2. LiveHoldsGuard'
    BY <1>13, PrimaryAssumption, NobodyAssumption, StaleAssumption
    DEF Read, Goto, Visible, LiveHoldsGuard, PassInv, TypeOK, Holder, Running, Live,
        InPass, deployment, taskVars, drainVars, tickVars, lockVars
  <2>3. DraftIsLive'
    BY <1>13, PrimaryAssumption, NobodyAssumption, StaleAssumption
    DEF Read, Goto, Visible, DraftIsLive, PassInv, TypeOK, Holder, Running, Live,
        InPass, deployment, taskVars, drainVars, tickVars, lockVars
  <2>4. SendingIsOpen'
    BY <1>13, PrimaryAssumption, NobodyAssumption, StaleAssumption
    DEF Read, Goto, Visible, SendingIsOpen, PassInv, TypeOK, Holder, Running, Live,
        InPass, deployment, taskVars, drainVars, tickVars, lockVars
  <2> QED
    BY <2>1, <2>2, <2>3, <2>4 DEF PassInv
<1>14. ASSUME NEW r \in Replica, NEW t \in Task, Parks(r, t)
      PROVE PassInv'
  <2>1. PrimaryIsAlone'
    BY <1>14, PrimaryAssumption, NobodyAssumption, StaleAssumption
    DEF Parks, Goto, PrimaryIsAlone, PassInv, TypeOK, Holder, Running, Live, InPass,
        Visible, deployment, taskVars, drainVars, tickVars, lockVars
  <2>2. LiveHoldsGuard'
    BY <1>14, PrimaryAssumption, NobodyAssumption, StaleAssumption
    DEF Parks, Goto, LiveHoldsGuard, PassInv, TypeOK, Holder, Running, Live, InPass,
        Visible, deployment, taskVars, drainVars, tickVars, lockVars
  <2>3. DraftIsLive'
    BY <1>14, PrimaryAssumption, NobodyAssumption, StaleAssumption
    DEF Parks, Goto, DraftIsLive, PassInv, TypeOK, Holder, Running, Live, InPass,
        Visible, deployment, taskVars, drainVars, tickVars, lockVars
  <2>4. SendingIsOpen'
    BY <1>14, PrimaryAssumption, NobodyAssumption, StaleAssumption
    DEF Parks, Goto, SendingIsOpen, PassInv, TypeOK, Holder, Running, Live, InPass,
        Visible, deployment, taskVars, drainVars, tickVars, lockVars
  <2> QED
    BY <2>1, <2>2, <2>3, <2>4 DEF PassInv
<1>15. ASSUME NEW r \in Replica, NEW t \in Task, Opens(r, t)
      PROVE PassInv'
  <2>1. PrimaryIsAlone'
    BY <1>15, PrimaryAssumption, NobodyAssumption, StaleAssumption
    DEF Opens, Goto, Visible, Writes, PrimaryIsAlone, PassInv, TypeOK, Holder,
        Running, Live, InPass, deployment, taskVars, drainVars, tickVars, lockVars
  <2>2. LiveHoldsGuard'
    BY <1>15, PrimaryAssumption, NobodyAssumption, StaleAssumption
    DEF Opens, Goto, Visible, Writes, LiveHoldsGuard, PassInv, TypeOK, Holder,
        Running, Live, InPass, deployment, taskVars, drainVars, tickVars, lockVars
  <2>3. DraftIsLive'
    BY <1>15, PrimaryAssumption, NobodyAssumption, StaleAssumption
    DEF Opens, Goto, Visible, Writes, DraftIsLive, PassInv, TypeOK, Holder, Running,
        Live, InPass, deployment, taskVars, drainVars, tickVars, lockVars
  <2>4. SendingIsOpen'
    BY <1>15, PrimaryAssumption, NobodyAssumption, StaleAssumption
    DEF Opens, Goto, Visible, Writes, SendingIsOpen, PassInv, TypeOK, Holder,
        Running, Live, InPass, deployment, taskVars, drainVars, tickVars, lockVars
  <2> QED
    BY <2>1, <2>2, <2>3, <2>4 DEF PassInv
<1>16. ASSUME NEW r \in Replica, Accepted(r)
      PROVE PassInv'
  <2>1. PrimaryIsAlone'
    BY <1>16, PrimaryAssumption, NobodyAssumption, StaleAssumption
    DEF Accepted, Goto, PrimaryIsAlone, PassInv, TypeOK, Holder, Running, Live,
        InPass, Visible, deployment, taskVars, drainVars, tickVars, lockVars
  <2>2. LiveHoldsGuard'
    BY <1>16, PrimaryAssumption, NobodyAssumption, StaleAssumption
    DEF Accepted, Goto, LiveHoldsGuard, PassInv, TypeOK, Holder, Running, Live,
        InPass, Visible, deployment, taskVars, drainVars, tickVars, lockVars
  <2>3. DraftIsLive'
    BY <1>16, PrimaryAssumption, NobodyAssumption, StaleAssumption
    DEF Accepted, Goto, DraftIsLive, PassInv, TypeOK, Holder, Running, Live, InPass,
        Visible, deployment, taskVars, drainVars, tickVars, lockVars
  <2>4. SendingIsOpen'
    BY <1>16, PrimaryAssumption, NobodyAssumption, StaleAssumption
    DEF Accepted, Goto, SendingIsOpen, PassInv, TypeOK, Holder, Running, Live,
        InPass, Visible, deployment, taskVars, drainVars, tickVars, lockVars
  <2> QED
    BY <2>1, <2>2, <2>3, <2>4 DEF PassInv
<1>17. ASSUME NEW r \in Replica, Refused(r)
      PROVE PassInv'
  <2>1. PrimaryIsAlone'
    BY <1>17, PrimaryAssumption, NobodyAssumption, StaleAssumption
    DEF Refused, Goto, PrimaryIsAlone, PassInv, TypeOK, Holder, Running, Live,
        InPass, Visible, deployment, taskVars, drainVars, tickVars, lockVars
  <2>2. LiveHoldsGuard'
    BY <1>17, PrimaryAssumption, NobodyAssumption, StaleAssumption
    DEF Refused, Goto, LiveHoldsGuard, PassInv, TypeOK, Holder, Running, Live,
        InPass, Visible, deployment, taskVars, drainVars, tickVars, lockVars
  <2>3. DraftIsLive'
    BY <1>17, PrimaryAssumption, NobodyAssumption, StaleAssumption
    DEF Refused, Goto, DraftIsLive, PassInv, TypeOK, Holder, Running, Live, InPass,
        Visible, deployment, taskVars, drainVars, tickVars, lockVars
  <2>4. SendingIsOpen'
    <3>1. \A q \in Replica : q # r /\ pc[q] = "sending" => severed[q]
      BY <1>17, OnePassAtATime DEF Refused, Live, InPass
    <3> QED
      BY <1>17, <3>1 DEF Refused, Goto, PassInv, SendingIsOpen, TypeOK, Running
  <2> QED
    BY <2>1, <2>2, <2>3, <2>4 DEF PassInv
<1>18. ASSUME NEW r \in Replica, Completes(r)
      PROVE PassInv'
  <2>1. PrimaryIsAlone'
    BY <1>18, PrimaryAssumption, NobodyAssumption, StaleAssumption
    DEF Completes, Goto, LetGo, PrimaryIsAlone, PassInv, TypeOK, Holder, Running,
        Live, InPass, Visible, deployment, taskVars, drainVars, tickVars, lockVars
  <2>2. LiveHoldsGuard'
    BY <1>18, PrimaryAssumption, NobodyAssumption, StaleAssumption
    DEF Completes, Goto, LetGo, LiveHoldsGuard, PassInv, TypeOK, Holder, Running,
        Live, InPass, Visible, deployment, taskVars, drainVars, tickVars, lockVars
  <2>3. DraftIsLive'
    BY <1>18, PrimaryAssumption, NobodyAssumption, StaleAssumption
    DEF Completes, Goto, LetGo, DraftIsLive, PassInv, TypeOK, Holder, Running, Live,
        InPass, Visible, deployment, taskVars, drainVars, tickVars, lockVars
  <2>4. SendingIsOpen'
    BY <1>18, PrimaryAssumption, NobodyAssumption, StaleAssumption
    DEF Completes, Goto, LetGo, SendingIsOpen, PassInv, TypeOK, Holder, Running,
        Live, InPass, Visible, deployment, taskVars, drainVars, tickVars, lockVars
  <2> QED
    BY <2>1, <2>2, <2>3, <2>4 DEF PassInv
<1>19. ASSUME NEW r \in Replica, PassThrows(r)
      PROVE PassInv'
  <2>1. PrimaryIsAlone'
    BY <1>19, PrimaryAssumption, NobodyAssumption, StaleAssumption
    DEF PassThrows, Fault, Goto, Rollback, HandedOff, ForgetTick, LetGo,
        PrimaryIsAlone, PassInv, TypeOK, Holder, Running, Live, InPass, Visible,
        deployment, taskVars, drainVars, tickVars, lockVars
  <2>2. LiveHoldsGuard'
    BY <1>19, PrimaryAssumption, NobodyAssumption, StaleAssumption
    DEF PassThrows, Fault, Goto, Rollback, HandedOff, ForgetTick, LetGo,
        LiveHoldsGuard, PassInv, TypeOK, Holder, Running, Live, InPass, Visible,
        deployment, taskVars, drainVars, tickVars, lockVars
  <2>3. DraftIsLive'
    BY <1>19, PrimaryAssumption, NobodyAssumption, StaleAssumption
    DEF PassThrows, Fault, Goto, Rollback, HandedOff, ForgetTick, LetGo,
        DraftIsLive, PassInv, TypeOK, Holder, Running, Live, InPass, Visible,
        deployment, taskVars, drainVars, tickVars, lockVars
  <2>4. SendingIsOpen'
    BY <1>19, PrimaryAssumption, NobodyAssumption, StaleAssumption
    DEF PassThrows, Fault, Goto, Rollback, HandedOff, ForgetTick, LetGo,
        SendingIsOpen, PassInv, TypeOK, Holder, Running, Live, InPass, Visible,
        deployment, taskVars, drainVars, tickVars, lockVars
  <2> QED
    BY <2>1, <2>2, <2>3, <2>4 DEF PassInv
<1>20. ASSUME NEW r \in Replica, ConnectionLost(r)
      PROVE PassInv'
  <2>1. PrimaryIsAlone'
    BY <1>20, PrimaryAssumption, NobodyAssumption, StaleAssumption
    DEF ConnectionLost, Fault, Rollback, HandedOff, InPass, PrimaryIsAlone, PassInv,
        TypeOK, Holder, Running, Live, Visible, deployment, taskVars, drainVars,
        tickVars, lockVars
  <2>2. LiveHoldsGuard'
    BY <1>20, PrimaryAssumption, NobodyAssumption, StaleAssumption
    DEF ConnectionLost, Fault, Rollback, HandedOff, InPass, LiveHoldsGuard, PassInv,
        TypeOK, Holder, Running, Live, Visible, deployment, taskVars, drainVars,
        tickVars, lockVars
  <2>3. DraftIsLive'
    BY <1>20, PrimaryAssumption, NobodyAssumption, StaleAssumption
    DEF ConnectionLost, Fault, Rollback, HandedOff, InPass, DraftIsLive, PassInv,
        TypeOK, Holder, Running, Live, Visible, deployment, taskVars, drainVars,
        tickVars, lockVars
  <2>4. SendingIsOpen'
    BY <1>20, PrimaryAssumption, NobodyAssumption, StaleAssumption
    DEF ConnectionLost, Fault, Rollback, HandedOff, InPass, SendingIsOpen, PassInv,
        TypeOK, Holder, Running, Live, Visible, deployment, taskVars, drainVars,
        tickVars, lockVars
  <2> QED
    BY <2>1, <2>2, <2>3, <2>4 DEF PassInv
<1>21. CASE SessionEnds
  <2> Outside
    BY <1>21, StaleAssumption
    DEF SessionEnds, Outside, TypeOK, InPass, deployment, taskVars, drainVars,
        tickVars, lockVars
  <2> QED
    BY OutsideKeepsPass
<1>22. ASSUME NEW r \in Replica, Crash(r)
      PROVE PassInv'
  <2>1. PrimaryIsAlone'
    BY <1>22, PrimaryAssumption, NobodyAssumption, StaleAssumption
    DEF Crash, Up, Fault, Goto, Rollback, HandedOff, ForgetTick, PrimaryIsAlone,
        PassInv, TypeOK, Holder, Running, Live, InPass, Visible, deployment,
        taskVars, drainVars, tickVars, lockVars
  <2>2. LiveHoldsGuard'
    BY <1>22, PrimaryAssumption, NobodyAssumption, StaleAssumption
    DEF Crash, Up, Fault, Goto, Rollback, HandedOff, ForgetTick, LiveHoldsGuard,
        PassInv, TypeOK, Holder, Running, Live, InPass, Visible, deployment,
        taskVars, drainVars, tickVars, lockVars
  <2>3. DraftIsLive'
    BY <1>22, PrimaryAssumption, NobodyAssumption, StaleAssumption
    DEF Crash, Up, Fault, Goto, Rollback, HandedOff, ForgetTick, DraftIsLive,
        PassInv, TypeOK, Holder, Running, Live, InPass, Visible, deployment,
        taskVars, drainVars, tickVars, lockVars
  <2>4. SendingIsOpen'
    BY <1>22, PrimaryAssumption, NobodyAssumption, StaleAssumption
    DEF Crash, Up, Fault, Goto, Rollback, HandedOff, ForgetTick, SendingIsOpen,
        PassInv, TypeOK, Holder, Running, Live, InPass, Visible, deployment,
        taskVars, drainVars, tickVars, lockVars
  <2> QED
    BY <2>1, <2>2, <2>3, <2>4 DEF PassInv
<1>23. ASSUME NEW r \in Replica, Restart(r)
      PROVE PassInv'
  <2> Outside
    BY <1>23, StaleAssumption
    DEF Restart, Goto, Outside, TypeOK, InPass, deployment, taskVars, drainVars,
        tickVars, lockVars
  <2> QED
    BY OutsideKeepsPass
<1>24. CASE UNCHANGED vars
  <2> Outside
    BY <1>24, StaleAssumption
    DEF vars, Outside, TypeOK, InPass, deployment, taskVars, drainVars, tickVars,
        lockVars
  <2> QED
    BY OutsideKeepsPass
<1> QED
  BY <1>1, <1>2, <1>3, <1>4, <1>5, <1>6, <1>7, <1>8, <1>9, <1>10, <1>11, <1>12, <1>13, <1>14, <1>15, <1>16, <1>17, <1>18, <1>19, <1>20, <1>21, <1>22, <1>23, <1>24
  DEF Next, Drain, Failure

------------------------------------------------------------------------------
(* Every handoff is accounted for *)

\* A step that no transaction and no gateway takes part in.
Quiet ==
    /\ \A q \in Replica : pc'[q] = "sending" <=> pc[q] = "sending"
    /\ UNCHANGED <<handoffs, undone, inFlight, draft, severed, cur>>

LEMMA QuietKeepsCount ==
    ASSUME HandoffsAreCounted, Quiet
    PROVE  HandoffsAreCounted'
<1>1. \A t \in Task : Recorded(t)' <=> Recorded(t)
  BY DEF Quiet, Recorded, OnFile, BeingSent, Live, InPass
<1> QED
  BY <1>1 DEF Quiet, HandoffsAreCounted

\* A rollback turns what the gateway has accepted from "on record" to "undone".
LEMMA RollbackKeepsCount ==
    ASSUME TypeOK, PassInv, HandoffsAreCounted, NEW r \in Replica, Rollback(r),
           UNCHANGED <<handoffs, inFlight>>,
           \A t \in Task : BeingSent(t)' => BeingSent(t)
    PROVE  HandoffsAreCounted'
<1> SUFFICES ASSUME NEW t \in Task
             PROVE  /\ handoffs'[t] <= undone'[t] + 1
                    /\ ~Recorded(t)' => handoffs'[t] <= undone'[t]
  BY DEF HandoffsAreCounted
<1>1. undone'[t] = undone[t] + (IF t \in HandedOff(r) THEN 1 ELSE 0)
  BY DEF Rollback
<1>2. CASE t \in HandedOff(r)
  BY <1>1, <1>2 DEF HandoffsAreCounted, TypeOK
<1>3. CASE t \notin HandedOff(r)
  <2>1. ASSUME Recorded(t) PROVE Recorded(t)'
    <3>1. t \notin draft[r]
      BY <1>3, <2>1 DEF Recorded, BeingSent, HandedOff, PassInv, DraftIsLive
    <3>2. OnFile(t)'
      BY <2>1, <3>1 DEF Recorded, OnFile, Rollback, TypeOK
    <3> QED
      BY <2>1, <3>2 DEF Recorded
  <2> QED
    BY <1>1, <1>3, <2>1 DEF HandoffsAreCounted, TypeOK
<1> QED
  BY <1>2, <1>3

\* A new row is not yet a handoff.
LEMMA OpensKeepsCount ==
    ASSUME TypeOK, PassInv, HandoffsAreCounted, NEW r \in Replica, NEW u \in Task, Opens(r, u)
    PROVE  HandoffsAreCounted'
<1>1. Live(r) /\ UNCHANGED <<handoffs, undone, severed>>
  BY DEF Opens, Live, InPass
<1>2. ~OnFile(u)
  BY <1>1, OnePassAtATime DEF Opens, OnFile, Visible, PassInv, DraftIsLive
<1>3. \A t \in Task : t # u => (OnFile(t)' <=> OnFile(t))
  BY DEF Opens, Writes, OnFile, TypeOK
<1>4. \A t \in Task : t # u => (BeingSent(t)' <=> BeingSent(t))
  BY <1>1 DEF Opens, Goto, BeingSent, Live, InPass, TypeOK
<1>5. \A t \in Task : t # u => (Recorded(t)' <=> Recorded(t))
  BY <1>3, <1>4 DEF Recorded
<1> QED
  BY <1>1, <1>2, <1>5 DEF HandoffsAreCounted, Recorded

\* The gateway's accept counts one more, and its row is now a record -- or, if
\* the transaction is gone, never will be.
LEMMA AcceptedKeepsCount ==
    ASSUME TypeOK, PassInv, HandoffsAreCounted, NEW r \in Replica, Accepted(r)
    PROVE  HandoffsAreCounted'
<1> PICK u \in Task : u = cur[r]
  BY DEF Accepted, PassInv, SendingIsOpen
<1>1. UNCHANGED <<inFlight, draft, severed>>
  BY DEF Accepted
<1>2. handoffs'[u] = handoffs[u] + 1 /\ undone'[u] = undone[u] + (IF severed[r] THEN 1 ELSE 0)
  BY <1>1 DEF Accepted, TypeOK
<1>3. \A t \in Task : t # u => handoffs'[t] = handoffs[t] /\ undone'[t] = undone[t]
  BY DEF Accepted, TypeOK
<1>4. \A t \in Task : OnFile(t)' <=> OnFile(t)
  BY <1>1 DEF OnFile
<1>5. CASE severed[r]
  <2>1. \A t \in Task : BeingSent(t)' <=> BeingSent(t)
    BY <1>1, <1>5 DEF Accepted, Goto, BeingSent, Live, InPass, TypeOK
  <2>2. \A t \in Task : Recorded(t)' <=> Recorded(t)
    BY <1>4, <2>1 DEF Recorded
  <2> QED
    BY <1>1, <1>2, <1>3, <1>5, <2>2 DEF HandoffsAreCounted, TypeOK
<1>6. CASE ~severed[r]
  <2>1. Live(r)
    BY <1>6 DEF Accepted, Live, InPass
  <2>2. ~Recorded(u)
    BY <1>1, <2>1 DEF Accepted, Recorded, BeingSent
  <2>3. \A q \in Replica : q # r => ~Live(q)
    BY <2>1, OnePassAtATime
  <2>4. \A q \in Replica : ~(Live(q) /\ pc[q] = "sending")'
    BY <1>1, <2>3 DEF Accepted, Goto, Live, InPass, TypeOK
  <2>5. \A t \in Task : ~BeingSent(t)'
    BY <2>4 DEF BeingSent
  <2>6. Recorded(u)'
    BY <1>1, <1>6, <2>5
    DEF Accepted, PassInv, SendingIsOpen, Visible, Recorded, OnFile
  <2>7. \A t \in Task : t # u => ~BeingSent(t)
    BY <2>3 DEF BeingSent
  <2>8. \A t \in Task : t # u => (Recorded(t)' <=> Recorded(t))
    BY <1>4, <2>5, <2>7 DEF Recorded
  <2> QED
    BY <1>1, <1>2, <1>3, <1>6, <2>2, <2>6, <2>8 DEF HandoffsAreCounted, TypeOK
<1> QED
  BY <1>5, <1>6

\* What the gateway refused was not a handoff, so its row may go.
LEMMA RefusedKeepsCount ==
    ASSUME TypeOK, PassInv, HandoffsAreCounted, NEW r \in Replica, Refused(r)
    PROVE  HandoffsAreCounted'
<1> DEFINE u == cur[r]
<1>1. u \in Task /\ UNCHANGED <<handoffs, undone, severed>>
  BY DEF Refused, PassInv, SendingIsOpen
<1>2. ~Recorded(u)
  BY <1>1 DEF Refused, Recorded, BeingSent, Live, InPass
<1>3. \A t \in Task : t # u => (OnFile(t)' <=> OnFile(t))
  BY DEF Refused, OnFile, TypeOK
<1>4. \A t \in Task : t # u => (BeingSent(t)' <=> BeingSent(t))
  BY <1>1 DEF Refused, Goto, BeingSent, Live, InPass, TypeOK
<1>5. \A t \in Task : t # u => (Recorded(t)' <=> Recorded(t))
  BY <1>3, <1>4 DEF Recorded
<1> QED
  BY <1>1, <1>2, <1>5 DEF HandoffsAreCounted

\* A commit only moves rows.
LEMMA CompletesKeepsCount ==
    ASSUME TypeOK, PassInv, HandoffsAreCounted, NEW r \in Replica, Completes(r)
    PROVE  HandoffsAreCounted'
<1>1. UNCHANGED <<handoffs, undone, severed, cur>>
  BY DEF Completes
<1>2. \A t \in Task : OnFile(t)' <=> OnFile(t)
  BY DEF Completes, OnFile, TypeOK
<1>3. \A t \in Task : BeingSent(t)' <=> BeingSent(t)
  BY <1>1 DEF Completes, Goto, BeingSent, Live, InPass, TypeOK
<1> QED
  BY <1>1, <1>2, <1>3 DEF HandoffsAreCounted, Recorded

LEMMA CountStep ==
    ASSUME TypeOK, PassInv, HandoffsAreCounted, [Next]_vars
    PROVE  HandoffsAreCounted'
<1>1. ASSUME NEW t \in Task, File(t)
      PROVE HandoffsAreCounted'
  <2> Quiet
    BY <1>1
    DEF File, Up, Quiet, TypeOK, deployment, taskVars, drainVars, tickVars, lockVars
  <2> QED
    BY QuietKeepsCount
<1>2. ASSUME NEW r \in Replica, Notify(r)
      PROVE HandoffsAreCounted'
  <2> Quiet
    BY <1>2
    DEF Notify, Up, Goto, Quiet, TypeOK, deployment, taskVars, drainVars, tickVars,
        lockVars
  <2> QED
    BY QuietKeepsCount
<1>3. ASSUME NEW r \in Replica, TakeLock(r)
      PROVE HandoffsAreCounted'
  <2> Quiet
    BY <1>3
    DEF TakeLock, Goto, Quiet, TypeOK, deployment, taskVars, drainVars, tickVars,
        lockVars
  <2> QED
    BY QuietKeepsCount
<1>4. ASSUME NEW r \in Replica, LockRefused(r)
      PROVE HandoffsAreCounted'
  <2> Quiet
    BY <1>4
    DEF LockRefused, NextTurn, Dropped, Goto, Quiet, TypeOK, deployment, taskVars,
        drainVars, tickVars, lockVars
  <2> QED
    BY QuietKeepsCount
<1>5. ASSUME NEW r \in Replica, LockAnswerLost(r)
      PROVE HandoffsAreCounted'
  <2> Quiet
    BY <1>5
    DEF LockAnswerLost, Fault, NextTurn, Dropped, Goto, Quiet, TypeOK, deployment,
        taskVars, drainVars, tickVars, lockVars
  <2> QED
    BY QuietKeepsCount
<1>6. ASSUME NEW r \in Replica, LockFails(r)
      PROVE HandoffsAreCounted'
  <2> Quiet
    BY <1>6
    DEF LockFails, Fault, Goto, Quiet, TypeOK, deployment, taskVars, drainVars,
        tickVars, lockVars
  <2> QED
    BY QuietKeepsCount
<1>7. ASSUME NEW r \in Replica, Release(r)
      PROVE HandoffsAreCounted'
  <2> Quiet
    BY <1>7
    DEF Release, Return, NextTurn, Goto, Unlock, Quiet, TypeOK, deployment,
        taskVars, drainVars, tickVars, lockVars
  <2> QED
    BY QuietKeepsCount
<1>8. ASSUME NEW r \in Replica, ReleaseLost(r)
      PROVE HandoffsAreCounted'
  <2> Quiet
    BY <1>8
    DEF ReleaseLost, Return, NextTurn, Goto, Fault, Quiet, TypeOK, deployment,
        taskVars, drainVars, tickVars, lockVars
  <2> QED
    BY QuietKeepsCount
<1>9. CASE LockExpires
  <2> Quiet
    BY <1>9
    DEF LockExpires, Quiet, TypeOK, deployment, taskVars, drainVars, tickVars,
        lockVars
  <2> QED
    BY QuietKeepsCount
<1>10. CASE LockLapses
  <2> Quiet
    BY <1>10
    DEF LockLapses, Fault, Quiet, TypeOK, deployment, taskVars, drainVars, tickVars,
        lockVars
  <2> QED
    BY QuietKeepsCount
<1>11. ASSUME NEW r \in Replica, TakeGuard(r)
      PROVE HandoffsAreCounted'
  <2> Quiet
    BY <1>11
    DEF TakeGuard, Goto, Quiet, TypeOK, deployment, taskVars, drainVars, tickVars,
        lockVars
  <2> QED
    BY QuietKeepsCount
<1>12. ASSUME NEW r \in Replica, GuardRefused(r)
      PROVE HandoffsAreCounted'
  <2> Quiet
    BY <1>12
    DEF GuardRefused, Goto, Dropped, Quiet, TypeOK, deployment, taskVars, drainVars,
        tickVars, lockVars
  <2> QED
    BY QuietKeepsCount
<1>13. ASSUME NEW r \in Replica, Read(r)
      PROVE HandoffsAreCounted'
  <2> Quiet
    BY <1>13
    DEF Read, Goto, Visible, Quiet, TypeOK, deployment, taskVars, drainVars,
        tickVars, lockVars
  <2> QED
    BY QuietKeepsCount
<1>14. ASSUME NEW r \in Replica, NEW t \in Task, Parks(r, t)
      PROVE HandoffsAreCounted'
  <2> Quiet
    BY <1>14
    DEF Parks, Quiet, TypeOK, deployment, taskVars, drainVars, tickVars, lockVars
  <2> QED
    BY QuietKeepsCount
<1>15. ASSUME NEW r \in Replica, NEW t \in Task, Opens(r, t)
      PROVE HandoffsAreCounted'
  BY <1>15, OpensKeepsCount
<1>16. ASSUME NEW r \in Replica, Accepted(r)
      PROVE HandoffsAreCounted'
  BY <1>16, AcceptedKeepsCount
<1>17. ASSUME NEW r \in Replica, Refused(r)
      PROVE HandoffsAreCounted'
  BY <1>17, RefusedKeepsCount
<1>18. ASSUME NEW r \in Replica, Completes(r)
      PROVE HandoffsAreCounted'
  BY <1>18, CompletesKeepsCount
<1>19. ASSUME NEW r \in Replica, PassThrows(r)
      PROVE HandoffsAreCounted'
  <2> \A t \in Task : BeingSent(t)' => BeingSent(t)
    BY <1>19 DEF PassThrows, Goto, ForgetTick, BeingSent, Live, InPass, TypeOK
  <2> QED
    BY <1>19, RollbackKeepsCount DEF PassThrows
<1>20. ASSUME NEW r \in Replica, ConnectionLost(r)
      PROVE HandoffsAreCounted'
  <2> \A t \in Task : BeingSent(t)' => BeingSent(t)
    BY <1>20 DEF ConnectionLost, BeingSent, Live, InPass, TypeOK
  <2> QED
    BY <1>20, RollbackKeepsCount DEF ConnectionLost
<1>21. CASE SessionEnds
  <2> Quiet
    BY <1>21
    DEF SessionEnds, Quiet, TypeOK, deployment, taskVars, drainVars, tickVars,
        lockVars
  <2> QED
    BY QuietKeepsCount
<1>22. ASSUME NEW r \in Replica, Crash(r)
      PROVE HandoffsAreCounted'
  <2> \A t \in Task : BeingSent(t)' => BeingSent(t)
    BY <1>22 DEF Crash, Up, Goto, ForgetTick, BeingSent, Live, InPass, TypeOK
  <2> QED
    BY <1>22, RollbackKeepsCount DEF Crash
<1>23. ASSUME NEW r \in Replica, Restart(r)
      PROVE HandoffsAreCounted'
  <2> Quiet
    BY <1>23
    DEF Restart, Goto, Quiet, TypeOK, deployment, taskVars, drainVars, tickVars,
        lockVars
  <2> QED
    BY QuietKeepsCount
<1>24. CASE UNCHANGED vars
  <2> Quiet
    BY <1>24
    DEF vars, Quiet, TypeOK, deployment, taskVars, drainVars, tickVars, lockVars
  <2> QED
    BY QuietKeepsCount
<1> QED
  BY <1>1, <1>2, <1>3, <1>4, <1>5, <1>6, <1>7, <1>8, <1>9, <1>10, <1>11, <1>12, <1>13, <1>14, <1>15, <1>16, <1>17, <1>18, <1>19, <1>20, <1>21, <1>22, <1>23, <1>24
  DEF Next, Drain, Failure

------------------------------------------------------------------------------
(* No wake is lost but for a reason *)

LEMMA WakesStep ==
    ASSUME TypeOK, WakesAreCarried, [Next]_vars
    PROVE  WakesAreCarried'
<1> USE DEF TypeOK, WakesAreCarried
<1>1. ASSUME NEW t \in Task, File(t)
      PROVE WakesAreCarried'
  BY <1>1
  DEF File, Up, deployment, taskVars, drainVars, tickVars, lockVars
<1>2. ASSUME NEW r \in Replica, Notify(r)
      PROVE WakesAreCarried'
  BY <1>2
  DEF Notify, Up, Goto, deployment, taskVars, drainVars, tickVars, lockVars
<1>3. ASSUME NEW r \in Replica, TakeLock(r)
      PROVE WakesAreCarried'
  BY <1>3
  DEF TakeLock, Goto, deployment, taskVars, drainVars, tickVars, lockVars
<1>4. ASSUME NEW r \in Replica, LockRefused(r)
      PROVE WakesAreCarried'
  BY <1>4
  DEF LockRefused, NextTurn, Dropped, Goto, deployment, taskVars, drainVars,
      tickVars, lockVars
<1>5. ASSUME NEW r \in Replica, LockAnswerLost(r)
      PROVE WakesAreCarried'
  BY <1>5
  DEF LockAnswerLost, Fault, NextTurn, Dropped, Goto, deployment, taskVars,
      drainVars, tickVars, lockVars
<1>6. ASSUME NEW r \in Replica, LockFails(r)
      PROVE WakesAreCarried'
  BY <1>6
  DEF LockFails, Fault, Goto, deployment, taskVars, drainVars, tickVars, lockVars
<1>7. ASSUME NEW r \in Replica, Release(r)
      PROVE WakesAreCarried'
  BY <1>7
  DEF Release, Return, NextTurn, Goto, Unlock, deployment, taskVars, drainVars,
      tickVars, lockVars
<1>8. ASSUME NEW r \in Replica, ReleaseLost(r)
      PROVE WakesAreCarried'
  BY <1>8
  DEF ReleaseLost, Return, NextTurn, Goto, Fault, deployment, taskVars, drainVars,
      tickVars, lockVars
<1>9. CASE LockExpires
  BY <1>9
  DEF LockExpires, deployment, taskVars, drainVars, tickVars, lockVars
<1>10. CASE LockLapses
  BY <1>10
  DEF LockLapses, Fault, deployment, taskVars, drainVars, tickVars, lockVars
<1>11. ASSUME NEW r \in Replica, TakeGuard(r)
      PROVE WakesAreCarried'
  BY <1>11
  DEF TakeGuard, Goto, deployment, taskVars, drainVars, tickVars, lockVars
<1>12. ASSUME NEW r \in Replica, GuardRefused(r)
      PROVE WakesAreCarried'
  BY <1>12
  DEF GuardRefused, Goto, Dropped, deployment, taskVars, drainVars, tickVars,
      lockVars
<1>13. ASSUME NEW r \in Replica, Read(r)
      PROVE WakesAreCarried'
  BY <1>13
  DEF Read, Goto, Visible, deployment, taskVars, drainVars, tickVars, lockVars
<1>14. ASSUME NEW r \in Replica, NEW t \in Task, Parks(r, t)
      PROVE WakesAreCarried'
  BY <1>14
  DEF Parks, deployment, taskVars, drainVars, tickVars, lockVars
<1>15. ASSUME NEW r \in Replica, NEW t \in Task, Opens(r, t)
      PROVE WakesAreCarried'
  BY <1>15
  DEF Opens, Goto, Visible, Writes, deployment, taskVars, drainVars, tickVars,
      lockVars
<1>16. ASSUME NEW r \in Replica, Accepted(r)
      PROVE WakesAreCarried'
  BY <1>16
  DEF Accepted, Goto, deployment, taskVars, drainVars, tickVars, lockVars
<1>17. ASSUME NEW r \in Replica, Refused(r)
      PROVE WakesAreCarried'
  BY <1>17
  DEF Refused, Goto, deployment, taskVars, drainVars, tickVars, lockVars
<1>18. ASSUME NEW r \in Replica, Completes(r)
      PROVE WakesAreCarried'
  BY <1>18
  DEF Completes, Goto, LetGo, deployment, taskVars, drainVars, tickVars, lockVars
<1>19. ASSUME NEW r \in Replica, PassThrows(r)
      PROVE WakesAreCarried'
  BY <1>19
  DEF PassThrows, Fault, Goto, Rollback, HandedOff, ForgetTick, LetGo, deployment,
      taskVars, drainVars, tickVars, lockVars
<1>20. ASSUME NEW r \in Replica, ConnectionLost(r)
      PROVE WakesAreCarried'
  BY <1>20
  DEF ConnectionLost, Fault, Rollback, HandedOff, InPass, deployment, taskVars,
      drainVars, tickVars, lockVars
<1>21. CASE SessionEnds
  BY <1>21
  DEF SessionEnds, deployment, taskVars, drainVars, tickVars, lockVars
<1>22. ASSUME NEW r \in Replica, Crash(r)
      PROVE WakesAreCarried'
  BY <1>22
  DEF Crash, Up, Fault, Goto, Rollback, HandedOff, ForgetTick, deployment, taskVars,
      drainVars, tickVars, lockVars
<1>23. ASSUME NEW r \in Replica, Restart(r)
      PROVE WakesAreCarried'
  BY <1>23
  DEF Restart, Goto, deployment, taskVars, drainVars, tickVars, lockVars
<1>24. CASE UNCHANGED vars
  BY <1>24
  DEF vars, deployment, taskVars, drainVars, tickVars, lockVars
<1> QED
  BY <1>1, <1>2, <1>3, <1>4, <1>5, <1>6, <1>7, <1>8, <1>9, <1>10, <1>11, <1>12, <1>13, <1>14, <1>15, <1>16, <1>17, <1>18, <1>19, <1>20, <1>21, <1>22, <1>23, <1>24
  DEF Next, Drain, Failure

------------------------------------------------------------------------------
(* The passes implement HandoffLedger *)

\* The books of the open transactions: what was undone was handed off, a row that
\* is being written is not committed, and every row of a transaction but the one
\* it is asking about has a run.
BooksAreKept ==
    /\ \A t \in Task : undone[t] <= handoffs[t]
    /\ \A r \in Replica : draft[r] \cap inFlight = {}
    /\ \A r \in Replica : \A t \in HandedOff(r) : handoffs[t] = undone[t] + 1

\* Away from the transactions and the gateway nothing is booked.
LEMMA QuietKeepsBooks ==
    ASSUME BooksAreKept, Quiet
    PROVE  BooksAreKept' /\ UNCHANGED Ledger!vars
<1>1. \A r \in Replica : HandedOff(r)' = HandedOff(r)
  BY DEF Quiet, HandedOff
<1>2. \A t \in Task : OnFile(t)' <=> OnFile(t)
  BY DEF Quiet, OnFile
<1> QED
  BY <1>1, <1>2 DEF Quiet, BooksAreKept, RowOf, Ledger!vars

\* Only the transaction of a live pass has rows, and there is one live pass.
LEMMA OneDraft ==
    ASSUME TypeOK, PassInv, NEW r \in Replica, Live(r)
    PROVE  \A q \in Replica \ {r} : draft[q] = {} /\ HandedOff(q) = {}
BY OnePassAtATime DEF PassInv, DraftIsLive, HandedOff

\* A rollback erases the rows of its transaction, and counts those with a run.
LEMMA RollbackErases ==
    ASSUME TypeOK, PassInv, HandoffsAreCounted, BooksAreKept,
           NEW r \in Replica, Rollback(r), UNCHANGED <<handoffs, inFlight>>,
           \A q \in Replica \ {r} : HandedOff(q)' = HandedOff(q)
    PROVE  BooksAreKept' /\ Ledger!Next
<1>1. \A t \in Task : undone'[t] = undone[t] + (IF t \in HandedOff(r) THEN 1 ELSE 0)
  BY DEF Rollback
<1>2. draft'[r] = {} /\ \A q \in Replica \ {r} : draft'[q] = draft[q]
  BY DEF Rollback, TypeOK
<1>3. HandedOff(r) \subseteq draft[r]
  BY DEF HandedOff
<1>4. \A q \in Replica \ {r} : draft[q] \cap draft[r] = {}
  BY OneDraft DEF PassInv, DraftIsLive
<1>5. \A t \in draft[r] : t \in Task /\ OnFile(t) /\ ~OnFile(t)'
  <2> TAKE t \in draft[r]
  <2>1. t \in Task /\ OnFile(t)
    BY DEF OnFile, TypeOK
  <2>2. t \notin inFlight'
    BY DEF BooksAreKept
  <2>3. \A q \in Replica : t \notin draft'[q]
    BY <1>2, <1>4
  <2> QED
    BY <2>1, <2>2, <2>3 DEF OnFile
<1>6. \A t \in Task \ draft[r] : OnFile(t)' <=> OnFile(t)
  BY <1>2 DEF OnFile
<1>7. \A t \in draft[r] : handoffs[t] > undone[t] <=> t \in HandedOff(r)
  <2> TAKE t \in draft[r]
  <2>1. CASE t \in HandedOff(r)
    BY <2>1 DEF BooksAreKept, TypeOK
  <2>2. CASE t \notin HandedOff(r)
    <3>1. BeingSent(t)
      BY <2>2 DEF HandedOff, BeingSent, PassInv, DraftIsLive
    <3> QED
      BY <2>2, <3>1 DEF HandoffsAreCounted, Recorded, TypeOK
  <2> QED
    BY <2>1, <2>2
<1>8. BooksAreKept'
  <2>1. \A t \in Task : undone'[t] <= handoffs'[t]
    BY <1>1, <1>3 DEF BooksAreKept, TypeOK
  <2>2. \A q \in Replica : draft'[q] \cap inFlight' = {}
    BY <1>2 DEF BooksAreKept
  <2>3. HandedOff(r)' = {}
    BY <1>2 DEF HandedOff
  <2>4. ASSUME NEW q \in Replica \ {r}, NEW t \in HandedOff(q)
        PROVE  handoffs'[t] = undone'[t] + 1
    <3>1. t \in draft[q] /\ t \in Task
      BY DEF HandedOff, TypeOK
    <3>2. t \notin HandedOff(r)
      BY <1>3, <1>4, <3>1
    <3> QED
      BY <1>1, <3>1, <3>2 DEF BooksAreKept, TypeOK
  <2> QED
    BY <2>1, <2>2, <2>3, <2>4 DEF BooksAreKept
<1>9. Ledger!Erase(draft[r])
  <2>1. ASSUME NEW t \in Task
        PROVE  undone'[t] = undone[t] + (IF t \in draft[r] /\ RowOf(t) = "run" THEN 1 ELSE 0)
    BY <1>1, <1>3, <1>5, <1>7 DEF RowOf
  <2>2. ASSUME NEW t \in Task
        PROVE  RowOf(t)' = IF t \in draft[r] THEN "none" ELSE RowOf(t)
    <3>1. CASE t \in draft[r]
      BY <1>5, <3>1 DEF RowOf
    <3>2. CASE t \notin draft[r]
      BY <1>1, <1>3, <1>6, <3>2 DEF RowOf, TypeOK
    <3> QED
      BY <3>1, <3>2
  <2>3. undone' = [t \in Task |-> undone'[t]]
    BY DEF Rollback
  <2> QED
    BY <1>5, <1>6, <1>7, <2>1, <2>2, <2>3 DEF Ledger!Erase
<1>10. draft[r] \in SUBSET Task
  BY DEF TypeOK
<1> QED
  BY <1>8, <1>9, <1>10 DEF Ledger!Next

\* A new row: nobody has one for the task.
LEMMA OpensEntry ==
    ASSUME TypeOK, PassInv, HandoffsAreCounted, BooksAreKept,
           NEW r \in Replica, NEW u \in Task, Opens(r, u)
    PROVE  BooksAreKept' /\ Ledger!Next
<1>1. Live(r) /\ UNCHANGED <<handoffs, undone, severed>>
  BY DEF Opens, Live, InPass
<1>2. ~OnFile(u) /\ handoffs[u] <= undone[u]
  <2>1. ~OnFile(u)
    BY <1>1, OnePassAtATime DEF Opens, OnFile, Visible, PassInv, DraftIsLive
  <2> QED
    BY <2>1 DEF HandoffsAreCounted, Recorded
<1>3. \A q \in Replica \ {r} : draft'[q] = draft[q] /\ draft[q] = {}
  BY <1>1, OneDraft DEF Opens, Writes, TypeOK
<1>4. OnFile(u)'
  BY DEF Opens, Writes, OnFile, TypeOK
<1>5. \A t \in Task \ {u} : OnFile(t)' <=> OnFile(t)
  BY DEF Opens, Writes, OnFile, TypeOK
<1>6. HandedOff(r)' \subseteq HandedOff(r)
  BY DEF Opens, Writes, Goto, HandedOff, TypeOK
<1>7. \A q \in Replica : draft'[q] \cap inFlight' = {}
  <2>1. draft'[r] \cap inFlight' = {}
    BY <1>1 DEF Opens, Visible, Writes, BooksAreKept, PassInv, DraftIsLive, TypeOK
  <2> QED
    BY <1>3, <2>1
<1>8. \A q \in Replica \ {r} : HandedOff(q)' = {}
  BY <1>3 DEF HandedOff
<1>9. BooksAreKept'
  BY <1>1, <1>6, <1>7, <1>8 DEF BooksAreKept
<1>10. Ledger!Open(u)
  <2>1. RowOf(u) = "none" /\ RowOf(u)' = "open"
    BY <1>1, <1>2, <1>4 DEF RowOf, TypeOK
  <2>2. \A t \in Task \ {u} : RowOf(t)' = RowOf(t)
    BY <1>1, <1>5 DEF RowOf
  <2> QED
    BY <1>1, <2>1, <2>2 DEF Ledger!Open
<1> QED
  BY <1>9, <1>10 DEF Ledger!Next

\* The gateway's accept is booked under the row, or beside it when that is gone.
LEMMA AcceptedEntry ==
    ASSUME TypeOK, PassInv, HandoffsAreCounted, BooksAreKept, NEW r \in Replica, Accepted(r)
    PROVE  BooksAreKept' /\ Ledger!Next
<1> PICK u \in Task : u = cur[r]
  BY DEF Accepted, PassInv, SendingIsOpen
<1>1. UNCHANGED <<inFlight, draft, severed>>
  BY DEF Accepted
<1>2. handoffs' = [handoffs EXCEPT ![u] = handoffs[u] + 1]
  BY DEF Accepted
<1>3. undone' = [undone EXCEPT ![u] = undone[u] + (IF severed[r] THEN 1 ELSE 0)]
  BY DEF Accepted
<1>4. \A t \in Task : OnFile(t)' <=> OnFile(t)
  BY <1>1 DEF OnFile
<1>5. \A q \in Replica \ {r} : HandedOff(q)' = HandedOff(q)
  BY <1>1 DEF Accepted, Goto, HandedOff, TypeOK
<1>6. CASE severed[r]
  <2>1. undone' = [undone EXCEPT ![u] = undone[u] + 1]
    BY <1>3, <1>6
  <2>2. \A t \in Task : handoffs'[t] > undone'[t] <=> handoffs[t] > undone[t]
    BY <1>2, <2>1 DEF TypeOK
  <2>3. Ledger!AcceptUndone(u)
    <3>1. \A t \in Task : RowOf(t)' = RowOf(t)
      BY <1>4, <2>2 DEF RowOf
    <3> QED
      BY <1>2, <2>1, <3>1 DEF Ledger!AcceptUndone
  <2>4. draft[r] = {}
    BY <1>6 DEF PassInv, DraftIsLive, Live
  <2>5. HandedOff(r)' = {}
    BY <1>1, <2>4 DEF HandedOff
  <2>6. \A q \in Replica : HandedOff(q)' \subseteq HandedOff(q)
    BY <1>5, <2>5
  <2>7. \A q \in Replica : HandedOff(q) \subseteq Task
    BY DEF HandedOff, TypeOK
  <2>8. \A t \in Task : /\ undone'[t] <= handoffs'[t]
                        /\ handoffs[t] = undone[t] + 1 => handoffs'[t] = undone'[t] + 1
    BY <1>2, <2>1 DEF BooksAreKept, TypeOK
  <2>9. BooksAreKept'
    BY <1>1, <2>6, <2>7, <2>8 DEF BooksAreKept
  <2> QED
    BY <2>3, <2>9 DEF Ledger!Next
<1>7. CASE ~severed[r]
  <2>1. Live(r)
    BY <1>7 DEF Accepted, Live, InPass
  <2>2. OnFile(u) /\ handoffs[u] = undone[u]
    <3>1. OnFile(u)
      BY <1>7 DEF Accepted, PassInv, SendingIsOpen, Visible, OnFile
    <3>2. BeingSent(u)
      BY <2>1 DEF Accepted, BeingSent
    <3>3. handoffs[u] <= undone[u]
      BY <3>2 DEF HandoffsAreCounted, Recorded
    <3> QED
      BY <3>1, <3>3 DEF BooksAreKept, TypeOK
  <2>3. undone' = undone
    BY <1>3, <1>7 DEF TypeOK
  <2>4. handoffs'[u] = undone'[u] + 1 /\ \A t \in Task \ {u} : handoffs'[t] = handoffs[t]
    BY <1>2, <2>2, <2>3 DEF TypeOK
  <2>5. Ledger!Accept(u)
    <3>1. RowOf(u) = "open" /\ RowOf(u)' = "run"
      BY <1>4, <2>2, <2>3, <2>4 DEF RowOf, TypeOK
    <3>2. \A t \in Task \ {u} : RowOf(t)' = RowOf(t)
      BY <1>4, <2>3, <2>4 DEF RowOf
    <3> QED
      BY <1>2, <2>3, <3>1, <3>2 DEF Ledger!Accept
  <2>6. HandedOff(r)' \subseteq HandedOff(r) \cup {u}
    BY <1>1 DEF Accepted, HandedOff
  <2>7. \A q \in Replica \ {r} : HandedOff(q)' = {}
    BY <1>5, <2>1, OneDraft
  <2>8. \A t \in HandedOff(r) \cup {u} : handoffs'[t] = undone'[t] + 1
    BY <2>3, <2>4 DEF BooksAreKept, HandedOff, TypeOK
  <2>9. BooksAreKept'
    BY <1>1, <2>3, <2>4, <2>6, <2>7, <2>8 DEF BooksAreKept, TypeOK
  <2> QED
    BY <2>5, <2>9 DEF Ledger!Next
<1> QED
  BY <1>6, <1>7

\* A refusal erases the row it was asked under.
LEMMA RefusedEntry ==
    ASSUME TypeOK, PassInv, HandoffsAreCounted, BooksAreKept, NEW r \in Replica, Refused(r)
    PROVE  BooksAreKept' /\ [Ledger!Next]_Ledger!vars
<1> PICK u \in Task : u = cur[r]
  BY DEF Refused, PassInv, SendingIsOpen
<1>1. UNCHANGED <<handoffs, undone, severed>> /\ Live(r)
  BY DEF Refused, Live, InPass
<1>2. \A q \in Replica \ {r} : HandedOff(q)' = HandedOff(q)
  BY DEF Refused, Goto, HandedOff, TypeOK
<1>3. HandedOff(r)' = HandedOff(r)
  BY DEF Refused, Goto, HandedOff, TypeOK
<1>4. \A q \in Replica : draft'[q] \cap inFlight' = {}
  BY DEF Refused, BooksAreKept, TypeOK
<1>5. BooksAreKept'
  BY <1>1, <1>2, <1>3, <1>4 DEF BooksAreKept
<1>6. \A t \in Task \ {u} : OnFile(t)' <=> OnFile(t)
  BY DEF Refused, OnFile, TypeOK
<1>7. handoffs[u] <= undone[u]
  BY <1>1 DEF Refused, BeingSent, HandoffsAreCounted, Recorded
<1>8. CASE OnFile(u)' <=> OnFile(u)
  <2>1. \A t \in Task : OnFile(t)' <=> OnFile(t)
    BY <1>6, <1>8
  <2>2. UNCHANGED Ledger!vars
    BY <1>1, <2>1 DEF RowOf, Ledger!vars
  <2> QED
    BY <1>5, <2>2
<1>9. CASE ~(OnFile(u)' <=> OnFile(u))
  <2>1. ~OnFile(u)'
    BY <1>9 DEF Refused, OnFile, TypeOK
  <2>2. Ledger!Erase({u})
    <3>1. RowOf(u) # "run" /\ RowOf(u)' = "none"
      BY <1>7, <2>1 DEF RowOf, TypeOK
    <3>2. \A t \in Task \ {u} : RowOf(t)' = RowOf(t)
      BY <1>1, <1>6 DEF RowOf
    <3> QED
      BY <1>1, <3>1, <3>2 DEF Ledger!Erase, TypeOK
  <2> QED
    BY <1>5, <2>2 DEF Ledger!Next
<1> QED
  BY <1>8, <1>9

\* A commit changes nothing in the books.
LEMMA CompletesEntry ==
    ASSUME TypeOK, PassInv, BooksAreKept, NEW r \in Replica, Completes(r)
    PROVE  BooksAreKept' /\ UNCHANGED Ledger!vars
<1>1. UNCHANGED <<handoffs, undone>> /\ Live(r)
  BY DEF Completes, Live, InPass
<1>2. \A t \in Task : OnFile(t)' <=> OnFile(t)
  BY DEF Completes, OnFile, TypeOK
<1>3. \A q \in Replica : draft'[q] = {}
  BY <1>1, OneDraft DEF Completes, TypeOK
<1>4. \A q \in Replica : HandedOff(q)' = {}
  BY <1>3 DEF HandedOff
<1> QED
  BY <1>1, <1>2, <1>3, <1>4 DEF BooksAreKept, RowOf, Ledger!vars

LEMMA LedgerStep ==
    ASSUME TypeOK, PassInv, HandoffsAreCounted, BooksAreKept, [Next]_vars
    PROVE  BooksAreKept' /\ [Ledger!Next]_Ledger!vars
<1> DEFINE Booked == BooksAreKept' /\ [Ledger!Next]_Ledger!vars
<1>1. ASSUME NEW t \in Task, File(t)
      PROVE Booked
  <2> Quiet
    BY <1>1
    DEF File, Up, Quiet, TypeOK, deployment, taskVars, drainVars, tickVars, lockVars
  <2> QED
    BY QuietKeepsBooks
<1>2. ASSUME NEW r \in Replica, Notify(r)
      PROVE Booked
  <2> Quiet
    BY <1>2
    DEF Notify, Up, Goto, Quiet, TypeOK, deployment, taskVars, drainVars, tickVars,
        lockVars
  <2> QED
    BY QuietKeepsBooks
<1>3. ASSUME NEW r \in Replica, TakeLock(r)
      PROVE Booked
  <2> Quiet
    BY <1>3
    DEF TakeLock, Goto, Quiet, TypeOK, deployment, taskVars, drainVars, tickVars,
        lockVars
  <2> QED
    BY QuietKeepsBooks
<1>4. ASSUME NEW r \in Replica, LockRefused(r)
      PROVE Booked
  <2> Quiet
    BY <1>4
    DEF LockRefused, NextTurn, Dropped, Goto, Quiet, TypeOK, deployment, taskVars,
        drainVars, tickVars, lockVars
  <2> QED
    BY QuietKeepsBooks
<1>5. ASSUME NEW r \in Replica, LockAnswerLost(r)
      PROVE Booked
  <2> Quiet
    BY <1>5
    DEF LockAnswerLost, Fault, NextTurn, Dropped, Goto, Quiet, TypeOK, deployment,
        taskVars, drainVars, tickVars, lockVars
  <2> QED
    BY QuietKeepsBooks
<1>6. ASSUME NEW r \in Replica, LockFails(r)
      PROVE Booked
  <2> Quiet
    BY <1>6
    DEF LockFails, Fault, Goto, Quiet, TypeOK, deployment, taskVars, drainVars,
        tickVars, lockVars
  <2> QED
    BY QuietKeepsBooks
<1>7. ASSUME NEW r \in Replica, Release(r)
      PROVE Booked
  <2> Quiet
    BY <1>7
    DEF Release, Return, NextTurn, Goto, Unlock, Quiet, TypeOK, deployment,
        taskVars, drainVars, tickVars, lockVars
  <2> QED
    BY QuietKeepsBooks
<1>8. ASSUME NEW r \in Replica, ReleaseLost(r)
      PROVE Booked
  <2> Quiet
    BY <1>8
    DEF ReleaseLost, Return, NextTurn, Goto, Fault, Quiet, TypeOK, deployment,
        taskVars, drainVars, tickVars, lockVars
  <2> QED
    BY QuietKeepsBooks
<1>9. CASE LockExpires
  <2> Quiet
    BY <1>9
    DEF LockExpires, Quiet, TypeOK, deployment, taskVars, drainVars, tickVars,
        lockVars
  <2> QED
    BY QuietKeepsBooks
<1>10. CASE LockLapses
  <2> Quiet
    BY <1>10
    DEF LockLapses, Fault, Quiet, TypeOK, deployment, taskVars, drainVars, tickVars,
        lockVars
  <2> QED
    BY QuietKeepsBooks
<1>11. ASSUME NEW r \in Replica, TakeGuard(r)
      PROVE Booked
  <2> Quiet
    BY <1>11
    DEF TakeGuard, Goto, Quiet, TypeOK, deployment, taskVars, drainVars, tickVars,
        lockVars
  <2> QED
    BY QuietKeepsBooks
<1>12. ASSUME NEW r \in Replica, GuardRefused(r)
      PROVE Booked
  <2> Quiet
    BY <1>12
    DEF GuardRefused, Goto, Dropped, Quiet, TypeOK, deployment, taskVars, drainVars,
        tickVars, lockVars
  <2> QED
    BY QuietKeepsBooks
<1>13. ASSUME NEW r \in Replica, Read(r)
      PROVE Booked
  <2> Quiet
    BY <1>13
    DEF Read, Goto, Visible, Quiet, TypeOK, deployment, taskVars, drainVars,
        tickVars, lockVars
  <2> QED
    BY QuietKeepsBooks
<1>14. ASSUME NEW r \in Replica, NEW t \in Task, Parks(r, t)
      PROVE Booked
  <2> Quiet
    BY <1>14
    DEF Parks, Quiet, TypeOK, deployment, taskVars, drainVars, tickVars, lockVars
  <2> QED
    BY QuietKeepsBooks
<1>15. ASSUME NEW r \in Replica, NEW t \in Task, Opens(r, t)
      PROVE Booked
  BY <1>15, OpensEntry
<1>16. ASSUME NEW r \in Replica, Accepted(r)
      PROVE Booked
  BY <1>16, AcceptedEntry
<1>17. ASSUME NEW r \in Replica, Refused(r)
      PROVE Booked
  BY <1>17, RefusedEntry
<1>18. ASSUME NEW r \in Replica, Completes(r)
      PROVE Booked
  BY <1>18, CompletesEntry
<1>19. ASSUME NEW r \in Replica, PassThrows(r)
      PROVE Booked
  <2>1. \A q \in Replica \ {r} : HandedOff(q)' = HandedOff(q)
    BY <1>19 DEF PassThrows, Goto, ForgetTick, HandedOff, Rollback, TypeOK
  <2>2. Rollback(r) /\ UNCHANGED <<handoffs, inFlight>>
    BY <1>19 DEF PassThrows
  <2> QED
    BY <2>1, <2>2, RollbackErases
<1>20. ASSUME NEW r \in Replica, ConnectionLost(r)
      PROVE Booked
  <2>1. \A q \in Replica \ {r} : HandedOff(q)' = HandedOff(q)
    BY <1>20 DEF ConnectionLost, HandedOff, Rollback, TypeOK
  <2>2. Rollback(r) /\ UNCHANGED <<handoffs, inFlight>>
    BY <1>20 DEF ConnectionLost
  <2> QED
    BY <2>1, <2>2, RollbackErases
<1>21. CASE SessionEnds
  <2> Quiet
    BY <1>21
    DEF SessionEnds, Quiet, TypeOK, deployment, taskVars, drainVars, tickVars,
        lockVars
  <2> QED
    BY QuietKeepsBooks
<1>22. ASSUME NEW r \in Replica, Crash(r)
      PROVE Booked
  <2>1. \A q \in Replica \ {r} : HandedOff(q)' = HandedOff(q)
    BY <1>22 DEF Crash, Goto, ForgetTick, HandedOff, Rollback, TypeOK
  <2>2. Rollback(r) /\ UNCHANGED <<handoffs, inFlight>>
    BY <1>22 DEF Crash
  <2> QED
    BY <2>1, <2>2, RollbackErases
<1>23. ASSUME NEW r \in Replica, Restart(r)
      PROVE Booked
  <2> Quiet
    BY <1>23
    DEF Restart, Goto, Quiet, TypeOK, deployment, taskVars, drainVars, tickVars,
        lockVars
  <2> QED
    BY QuietKeepsBooks
<1>24. CASE UNCHANGED vars
  <2> Quiet
    BY <1>24
    DEF vars, Quiet, TypeOK, deployment, taskVars, drainVars, tickVars, lockVars
  <2> QED
    BY QuietKeepsBooks
<1> QED
  BY <1>1, <1>2, <1>3, <1>4, <1>5, <1>6, <1>7, <1>8, <1>9, <1>10, <1>11, <1>12, <1>13, <1>14, <1>15, <1>16, <1>17, <1>18, <1>19, <1>20, <1>21, <1>22, <1>23, <1>24
  DEF Next, Drain, Failure

------------------------------------------------------------------------------
(* Theorems *)

\* The inductive invariant, in every deployment.
THEOREM PassInductive == Spec => []IInv
<1>1. Init => IInv
  <2> SUFFICES ASSUME Init PROVE IInv
    OBVIOUS
  <2>1. TypeOK
    BY PrimaryAssumption DEF Init, TypeOK, Holder, Running, Fleet
  <2>2. PassInv
    BY
    DEF Init, Fleet, PassInv, PrimaryIsAlone, LiveHoldsGuard, DraftIsLive,
        SendingIsOpen, Live, InPass
  <2>3. HandoffsAreCounted
    BY DEF Init, HandoffsAreCounted
  <2>4. WakesAreCarried
    BY DEF Init, WakesAreCarried
  <2> QED
    BY <2>1, <2>2, <2>3, <2>4 DEF IInv
<1>2. IInv /\ [Next]_vars => IInv'
  BY TypeStep, PassStep, CountStep, WakesStep DEF IInv
<1> QED
  BY <1>1, <1>2, PTL DEF Spec

\* One logical dispatcher: the shared lock may lapse, the connections break and
\* the processes die, a second handoff of a task needs a rollback of the first.
THEOREM OneLogicalDispatcher == Spec => []HandedOffOnce
<1>1. IInv => HandedOffOnce
  BY DEF IInv, HandoffsAreCounted, HandedOffOnce, TypeOK
<1> QED
  BY <1>1, PassInductive, PTL

\* The passes of all replicas implement the ledger of handoffs: a row before the
\* gateway is asked, one run to a row, no row of an accepted run lost uncounted.
THEOREM PassesImplementLedger == Spec => ImplementsLedger
<1>1. Init => Ledger!Init /\ BooksAreKept
  BY DEF Init, BooksAreKept, Ledger!Init, RowOf, OnFile, HandedOff
<1>2. IInv /\ BooksAreKept /\ [Next]_vars => BooksAreKept' /\ [Ledger!Next]_Ledger!vars
  BY LedgerStep DEF IInv
<1> QED
  BY <1>1, <1>2, PassInductive, PTL DEF Spec, ImplementsLedger, Ledger!Spec

\* The books balance at all times: what the gateway accepted of a task is what was
\* undone, and one more exactly while a row on file has a run under it.
THEOREM HandoffsBalance == Spec => []Ledger!Balanced
<1>1. Init => BooksAreKept
  BY DEF Init, BooksAreKept, HandedOff
<1>2. IInv /\ BooksAreKept /\ [Next]_vars => BooksAreKept'
  BY LedgerStep DEF IInv
<1>3. IInv /\ BooksAreKept => Ledger!Balanced
  BY DEF IInv, TypeOK, HandoffsAreCounted, BooksAreKept, Recorded, RowOf, Ledger!Balanced
<1> QED
  BY <1>1, <1>2, <1>3, PassInductive, PTL DEF Spec

\* A drain that ends has honoured every wake it did not lose to another holder of
\* a lock or to a failure, those that came while a pass was in flight included.
THEOREM DrainsHonourWakes == Spec => []WakesAreHonoured
<1>1. IInv => WakesAreHonoured
  BY DEF IInv, WakesAreCarried, WakesAreHonoured
<1> QED
  BY <1>1, PassInductive, PTL

==============================================================================
