------------------------------- MODULE MCParts -------------------------------
(* The parts that do not meet, each in a world of its own: one part moves, *)
(* under its own fairness, and the others rest in their first state.       *)
EXTENDS ChatTurn, GatewayLink, Fleet, ModelQuota, TLC

CONSTANTS Worlds, m1, m2, j1, j2

\* One task may use both models, the other only the first.
QPrefers == [j \in Job |-> IF j = j1 THEN <<m1, m2>> ELSE <<m1>>]

VARIABLE world

Here(w) == world = w /\ UNCHANGED world

PartsInit ==
    /\ world \in Worlds
    /\ ChatInit /\ LinkInit /\ FleetInit /\ QuotaInit
    /\ world # "quota" => avail = [m \in Model |-> "AVAILABLE"]

PartsNext ==
    \/ Here("chat") /\ ChatNext /\ UNCHANGED <<linkVars, fleetVars, quotaVars>>
    \/ Here("link") /\ LinkNext /\ UNCHANGED <<chatVars, fleetVars, quotaVars>>
    \/ Here("fleet") /\ FleetNext /\ UNCHANGED <<chatVars, linkVars, quotaVars>>
    \/ Here("quota") /\ QuotaNext /\ UNCHANGED <<chatVars, linkVars, fleetVars>>

PartsSpec == PartsInit /\ [][PartsNext]_<<world, chatVars, linkVars, fleetVars, quotaVars>>

\* Types, whichever part moves.
PartsTypeOK == ChatTypeOK /\ LinkTypeOK /\ FleetTypeOK /\ QuotaTypeOK

\* EveryTurnSettles, EveryCallReturns, EventsFlowAgain, FleetSettles and
\* NobodyWaitsForever, each where its part moves and under its fairness.
TurnsSettle == world = "chat" /\ ChatFairness => EveryTurnSettles
CallsReturn == world = "link" /\ LinkFairness => EveryCallReturns
EventsFlow == world = "link" /\ LinkFairness => EventsFlowAgain
AgentsSettle == world = "fleet" /\ FleetFairness => FleetSettles
TasksLeave == world = "quota" /\ QuotaFairness => NobodyWaitsForever
=============================================================================
