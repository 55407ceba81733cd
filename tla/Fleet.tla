-------------------------------- MODULE Fleet --------------------------------
(***************************************************************************)
(* The gateway's agents for one (provider, model) and the two parts of the *)
(* controller that meet there: the keeper, which grows the fleet to the    *)
(* floor of the model's Brains and trims what is above it                  *)
(* (sandbox-provision.mjs), and the dispatch of a task, which picks the    *)
(* agent that carries the routed model (agent-registry.mjs and dispatch()  *)
(* of gateway-ws.mjs) and grows one when there is none.                    *)
(*                                                                         *)
(* The gateway lists an agent some time after it was created or deleted,   *)
(* and the registry may serve a list of up to 30 seconds ago.              *)
(***************************************************************************)
EXTENDS Integers, FiniteSets

CONSTANTS
    Work,         \* tasks routed to the model, each on its project's workspace
    Harnessed,    \* those whose Brain is an ACP harness
    Floors,       \* values an operator gives minSandboxes
    Cap,          \* resources.concurrency_limit
    NobodyId,
    Paired,       \* the tasks' worker is paired with the keeper's first slot
    MaxSbx,       \* bound: sandboxes created on demand
    MaxVariants,  \* bound: renamed slots
    MaxFleetFaults,
    MaxFleetEdits \* bounds: refused or lost calls, and changes by the operator

Least(S) == CHOOSE n \in S : \A k \in S : n <= k
Most(S) == CHOOSE n \in S : \A k \in S : k <= n
Smaller(i, j) == Least({i, j})

\* minSandboxesOrThrow takes nothing above 99.
ASSUME FloorsAssumption == Floors \subseteq 0..99 /\ Floors # {} /\ Cap \in Nat
ASSUME HarnessedAssumption == Harnessed \subseteq Work
ASSUME FleetBounds == {MaxSbx, MaxVariants, MaxFleetFaults, MaxFleetEdits} \subseteq Nat

\* Agents by the name they were given: keeper slots and their renamed variants,
\* sandboxes made on demand, and two agents of the operator's in the project's
\* workspace, one with the model and one with another.
Slot(n, v) == <<"slot", n, v>>
Sbx(k) == <<"sbx", k, 0>>
Fitting == <<"own", 1, 0>>
Foreign == <<"own", 2, 0>>
AutoAgent == {Slot(n, v) : n \in 1..Most(Floors), v \in 0..MaxVariants} \cup {Sbx(k) : k \in 1..MaxSbx}
FleetAgent == AutoAgent \cup {Fitting, Foreign}

\* agentsForModel
OfModel(agents) == agents \ {Foreign}

\* Provisioned agents get a workspace of their own under the probe root.
InProject(a) == a \notin AutoAgent

\* worker.agent_ref
Worker == IF Paired THEN Slot(1, 0) ELSE Foreign

ASSUME NobodyAssumption == NobodyId \notin FleetAgent /\ Paired \in BOOLEAN

VARIABLES
    alive,        \* agents the gateway has
    shown,        \* agents.list
    locked,       \* names of deleted agents it still cleans up
    cache,        \* the registry's list
    cached,       \* and whether it is younger than ttlMs
    admin,        \* the handshake granted operator.admin
    spot,         \* where the dispatch of each task is
    pick,         \* the agent it was resolved to
    forced,       \* with a model override
    ran,          \* what the gateway made of it: which agent runs which model
    sbxs,         \* sandboxes created on demand so far
    floor,        \* the largest minSandboxes of the enabled Brains
    pass,         \* the passes of reconcileModel
    fleetFaults, fleetEdits

gatewayFleet == <<alive, shown, locked>>
registryVars == <<cache, cached>>
dispatchVars == <<spot, pick, forced, ran>>
boundVars == <<fleetFaults, fleetEdits>>
fleetVars == <<gatewayFleet, registryVars, admin, dispatchVars, sbxs, floor, pass, boundVars>>

------------------------------------------------------------------------------
Passes == {"keeper", "request"}
\* names: the slots that are taken while a pass grows the fleet, the agents it may
\* still delete while it trims it.
Resting == [at |-> "rest", want |-> 0, count |-> 0, names |-> {}, busy |-> {}]
PassState ==
    [at : {"rest", "asked", "listing", "growing", "attributing", "trimming"},
     want : Floors \cup {0}, count : 0..Cardinality(FleetAgent),
     names : SUBSET AutoAgent, busy : SUBSET {Worker}]
NoRun == [agent |-> NobodyId, model |-> "none"]

FleetTypeOK ==
    /\ alive \subseteq FleetAgent /\ shown \subseteq FleetAgent /\ locked \subseteq FleetAgent
    /\ cache \subseteq {Fitting, Foreign} /\ cached \in BOOLEAN /\ admin \in BOOLEAN
    /\ spot \in [Work -> {"parked", "resolving", "refreshing", "forcing", "sending",
                          "running", "growing", "done"}]
    /\ pick \in [Work -> FleetAgent \cup {NobodyId}] /\ forced \in [Work -> BOOLEAN]
    /\ ran \in [Work -> [agent : FleetAgent \cup {NobodyId}, model : {"none", "routed", "other"}]]
    /\ sbxs \in 0..MaxSbx /\ floor \in Floors
    /\ pass \in [Passes -> PassState]
    /\ fleetFaults \in 0..MaxFleetFaults /\ fleetEdits \in 0..MaxFleetEdits

FleetInit ==
    /\ alive = {Fitting, Foreign} /\ shown = alive /\ locked = {}
    /\ cache = {} /\ cached = FALSE /\ admin = TRUE
    /\ spot = [t \in Work |-> "parked"] /\ pick = [t \in Work |-> NobodyId]
    /\ forced = [t \in Work |-> FALSE] /\ ran = [t \in Work |-> NoRun]
    /\ sbxs = 0 /\ floor = Least(Floors)
    /\ pass = [p \in Passes |-> Resting]
    /\ fleetFaults = 0 /\ fleetEdits = 0

Lapse == fleetFaults < MaxFleetFaults /\ fleetFaults' = fleetFaults + 1 /\ UNCHANGED fleetEdits
Change == fleetEdits < MaxFleetEdits /\ fleetEdits' = fleetEdits + 1 /\ UNCHANGED fleetFaults

Go(t, place) == spot' = [spot EXCEPT ![t] = place]

------------------------------------------------------------------------------
(* The registry *)

Matches(a, anyModel) == InProject(a) /\ (anyModel \/ a \in OfModel({a}))

\* Defect for the checks: the worker's agent is taken without a look at its model.
TrustsTheWorker(agents, anyModel) ==
    IF Worker \in agents THEN {Worker} ELSE {a \in agents : Matches(a, anyModel)}

\* resolve(): any agent that matches, the worker's before the others.
Resolutions(agents, anyModel) ==
    LET fits == {a \in agents : Matches(a, anyModel)}
    IN IF Worker \in fits THEN {Worker} ELSE fits

\* list(): the cache while it is fresh, agents.list else.  An agent elsewhere is of
\* no use to these tasks and is left out of the cache.
Listing(refresh) == IF cached /\ ~refresh THEN cache ELSE {a \in shown : InProject(a)}
Remember(refresh) == cache' = Listing(refresh) /\ cached' = TRUE

CacheAges ==
    /\ cached
    /\ cached' = FALSE /\ cache' = {}
    /\ UNCHANGED <<gatewayFleet, admin, dispatchVars, sbxs, floor, pass, boundVars>>

------------------------------------------------------------------------------
(* dispatch(), for a task the scheduler has admitted *)

OnlyDispatches == UNCHANGED <<gatewayFleet, admin, ran, sbxs, floor, pass, boundVars>>

\* A harness goes by acp.spawn, which picks no agent.
ByHarness(t) == t \in Harnessed

BeginDispatch(t) ==
    /\ spot[t] = "parked"
    /\ Go(t, IF ByHarness(t) THEN "sending" ELSE "resolving")
    /\ UNCHANGED <<pick, forced, registryVars>> /\ OnlyDispatches

Take(t, agents, anyModel, otherwise) ==
    IF Resolutions(agents, anyModel) = {}
    THEN Go(t, otherwise) /\ UNCHANGED <<pick, forced>>
    ELSE /\ \E a \in Resolutions(agents, anyModel) : pick' = [pick EXCEPT ![t] = a]
         /\ forced' = [forced EXCEPT ![t] = anyModel]
         /\ Go(t, "sending")

\* The exact agent, from the cache first.
ResolveExact(t) ==
    /\ spot[t] = "resolving"
    /\ Take(t, Listing(FALSE), FALSE, "refreshing") /\ Remember(FALSE)
    /\ OnlyDispatches

\* And from a fresh list.  Without a match the override is next, or nothing.
ResolveRefreshed(t) ==
    /\ spot[t] = "refreshing"
    /\ Take(t, Listing(TRUE), FALSE, IF admin THEN "forcing" ELSE "growing") /\ Remember(TRUE)
    /\ OnlyDispatches

ResolveForced(t) ==
    /\ spot[t] = "forcing"
    /\ Take(t, Listing(FALSE), TRUE, "growing") /\ Remember(FALSE)
    /\ OnlyDispatches

\* The gateway runs an agent it has, on its own model unless the frame names one,
\* which takes the scope.
GatewayRuns(t) ==
    [agent |-> pick[t], model |-> IF forced[t] \/ pick[t] # Foreign THEN "routed" ELSE "other"]

\* acp.spawn starts the Brain's harness on no agent of the fleet, or is refused: the
\* method is missing, the Brain names no acpAgent, the quota is out.
SpawnHarness(t) ==
    /\ spot[t] = "sending" /\ ByHarness(t)
    /\ \/ /\ Go(t, "running") /\ UNCHANGED boundVars
          /\ ran' = [ran EXCEPT ![t] = [agent |-> NobodyId, model |-> "routed"]]
       \/ Lapse /\ Go(t, "parked") /\ UNCHANGED ran
    /\ UNCHANGED <<gatewayFleet, registryVars, admin, pick, forced, sbxs, floor, pass>>

SendRun(t) ==
    /\ spot[t] = "sending" /\ ~ByHarness(t)
    /\ IF pick[t] \in alive /\ (forced[t] => admin)
       THEN Go(t, "running") /\ ran' = [ran EXCEPT ![t] = GatewayRuns(t)]
       ELSE Go(t, "parked") /\ UNCHANGED ran
    /\ pick' = [pick EXCEPT ![t] = NobodyId] /\ forced' = [forced EXCEPT ![t] = FALSE]
    /\ UNCHANGED <<gatewayFleet, registryVars, admin, sbxs, floor, pass, boundVars>>

RunIsOver(t) ==
    /\ spot[t] = "running"
    /\ Go(t, "done") /\ ran' = [ran EXCEPT ![t] = NoRun]
    /\ UNCHANGED <<gatewayFleet, registryVars, admin, pick, forced, sbxs, floor, pass, boundVars>>

\* AgentUnavailableError: maybeProvisionForBrain counts what is listed, and the
\* task parks either way.
GrowForTask(t) ==
    /\ spot[t] = "growing"
    /\ Go(t, "parked")
    /\ \/ /\ Cardinality(OfModel(shown)) < Cap /\ sbxs < MaxSbx
          /\ sbxs' = sbxs + 1 /\ alive' = alive \cup {Sbx(sbxs + 1)}
          /\ UNCHANGED boundVars
       \/ /\ Cardinality(OfModel(shown)) >= Cap \/ sbxs = MaxSbx
          /\ UNCHANGED <<alive, sbxs, boundVars>>
       \/ Lapse /\ UNCHANGED <<alive, sbxs>>
    /\ UNCHANGED <<shown, locked, registryVars, admin, pick, forced, ran, floor, pass>>

Dispatch(t) ==
    \/ BeginDispatch(t) \/ ResolveExact(t) \/ ResolveRefreshed(t) \/ ResolveForced(t)
    \/ SendRun(t) \/ SpawnHarness(t) \/ GrowForTask(t)

------------------------------------------------------------------------------
(* reconcileModel *)

OnlyKeeps == UNCHANGED <<registryVars, admin, dispatchVars, sbxs, floor>>
OnlyLooks == OnlyKeeps /\ UNCHANGED <<gatewayFleet, boundVars>>
Becomes(p, next) == pass' = [pass EXCEPT ![p] = next]

\* The floor is read from the Brains, the fleet from agents.list: nothing, when
\* that call fails.  A minute passes between two passes of the keeper, more than
\* the gateway's list lags behind.
PassReadsFloor(p) ==
    /\ pass[p].at = "asked" \/ (p = "keeper" /\ pass[p].at = "rest" /\ shown = alive)
    /\ Becomes(p, [Resting EXCEPT !.at = "listing", !.want = floor])
    /\ OnlyLooks

PassLists(p) ==
    /\ pass[p].at = "listing"
    /\ \E seen \in {shown, {}} :
          LET size == Cardinality(OfModel(seen))
              read == [pass[p] EXCEPT !.count = size]
          IN /\ IF seen = shown THEN UNCHANGED boundVars ELSE Lapse
             /\ Becomes(p, IF size < pass[p].want
                           THEN [read EXCEPT !.at = "growing", !.names = seen \cap AutoAgent]
                           ELSE IF size > pass[p].want
                           THEN [read EXCEPT !.at = "attributing", !.names = seen \cap AutoAgent]
                           ELSE Resting)
    /\ UNCHANGED gatewayFleet /\ OnlyKeeps

\* Defect for the checks: slots are numbered on from the size of the fleet.
NumberedOn(p) == {pass[p].count + 1}

FreeSlots(p) == {n \in 1..pass[p].want : Slot(n, 0) \notin pass[p].names}
GrowsNext(p) == pass[p].count < Smaller(pass[p].want, Cap) /\ FreeSlots(p) # {}

\* createOne: a name the gateway has is that agent, one it is still cleaning up is
\* varied once.
Named(n) ==
    IF Slot(n, 0) \notin locked THEN {Slot(n, 0)}
    ELSE {a \in {Slot(n, v) : v \in 1..MaxVariants} : a \notin alive \cup locked}

PassGrows(p) ==
    /\ pass[p].at = "growing" /\ GrowsNext(p)
    /\ LET n == Least(FreeSlots(p)) IN
       \/ \E a \in Named(n) :
             /\ alive' = alive \cup {a}
             /\ Becomes(p, [pass[p] EXCEPT !.count = @ + 1, !.names = @ \cup {Slot(n, 0)}])
             /\ UNCHANGED boundVars
       \/ /\ IF Named(n) = {} THEN UNCHANGED boundVars ELSE Lapse
          /\ Becomes(p, Resting)
          /\ UNCHANGED alive
    /\ UNCHANGED <<shown, locked>> /\ OnlyKeeps

\* Defect for the checks: the agents of all runs, of none where there is no run.
EveryRunsAgent == {ran[t].agent : t \in Work}

\* busyAgentsByRef counts tasks whose hand-off has returned, and goes by the worker's
\* agent, whichever agent runs the task.
Busy == IF \E t \in Work : spot[t] = "running" THEN {Worker} ELSE {}

PassAttributes(p) ==
    /\ pass[p].at = "attributing"
    /\ Becomes(p, [pass[p] EXCEPT !.at = "trimming", !.busy = Busy])
    /\ OnlyLooks

\* Sandboxes made on demand go first, then the slots with the largest numbers.
Rank(a) == IF a[1] = "sbx" THEN 100 ELSE a[2]

Running(a) == \E t \in Work : spot[t] = "running" /\ ran[t].agent = a

\* The gateway refuses to delete an agent that runs something or that it no longer
\* has; the pass ends there.
PassTrims(p) ==
    /\ pass[p].at = "trimming" /\ pass[p].count > pass[p].want /\ pass[p].names # {}
    /\ \E a \in pass[p].names :
          /\ \A b \in pass[p].names : Rank(b) <= Rank(a)
          /\ \/ /\ a \in pass[p].busy
                /\ Becomes(p, [pass[p] EXCEPT !.names = @ \ {a}])
                /\ UNCHANGED <<alive, locked, boundVars>>
             \/ /\ a \notin pass[p].busy /\ a \in alive /\ ~Running(a)
                /\ alive' = alive \ {a} /\ locked' = locked \cup {a}
                /\ Becomes(p, [pass[p] EXCEPT !.names = @ \ {a}, !.count = @ - 1])
                /\ UNCHANGED boundVars
             \/ /\ a \notin pass[p].busy
                /\ IF a \in alive /\ ~Running(a) THEN Lapse ELSE UNCHANGED boundVars
                /\ Becomes(p, Resting)
                /\ UNCHANGED <<alive, locked>>
    /\ UNCHANGED shown /\ OnlyKeeps

PassEnds(p) ==
    /\ \/ pass[p].at = "growing" /\ ~GrowsNext(p)
       \/ pass[p].at = "trimming" /\ (pass[p].count <= pass[p].want \/ pass[p].names = {})
    /\ Becomes(p, Resting)
    /\ OnlyLooks

Reconcile(p) ==
    \/ PassReadsFloor(p) \/ PassLists(p) \/ PassGrows(p) \/ PassAttributes(p)
    \/ PassTrims(p) \/ PassEnds(p)

------------------------------------------------------------------------------
(* The gateway and the operator *)

ListCatchesUp ==
    /\ shown # alive
    /\ shown' = alive
    /\ UNCHANGED <<alive, locked, boundVars>> /\ OnlyKeeps /\ UNCHANGED pass

NameCleanedUp ==
    /\ locked # {}
    /\ \E a \in locked : locked' = locked \ {a}
    /\ UNCHANGED <<alive, shown, boundVars>> /\ OnlyKeeps /\ UNCHANGED pass

\* PATCH minSandboxes or enabled, and the pass that follows at once.
SetFloor(f) ==
    /\ f # floor /\ Change /\ pass["request"].at = "rest"
    /\ floor' = f
    /\ Becomes("request", [Resting EXCEPT !.at = "asked"])
    /\ UNCHANGED <<gatewayFleet, registryVars, admin, dispatchVars, sbxs>>

\* The kill button: a listed agent that no task's worker is paired with.
OperatorKills(a) ==
    /\ a \in OfModel(shown) \ Busy /\ a \in alive /\ ~Running(a) /\ Change
    /\ alive' = alive \ {a} /\ locked' = locked \cup {a}
    /\ UNCHANGED shown /\ OnlyKeeps /\ UNCHANGED pass

OperatorCreates ==
    /\ Fitting \notin alive \cup locked /\ Change
    /\ alive' = alive \cup {Fitting}
    /\ UNCHANGED <<shown, locked>> /\ OnlyKeeps /\ UNCHANGED pass

\* A reconnect after the device was demoted, or promoted again.
ScopeChanges ==
    /\ Change /\ admin' = ~admin
    /\ UNCHANGED <<gatewayFleet, registryVars, dispatchVars, sbxs, floor, pass>>

FleetNext ==
    \/ \E t \in Work : Dispatch(t) \/ RunIsOver(t)
    \/ \E p \in Passes : Reconcile(p)
    \/ ListCatchesUp \/ NameCleanedUp \/ CacheAges
    \/ \E f \in Floors : SetFloor(f)
    \/ \E a \in FleetAgent : OperatorKills(a)
    \/ OperatorCreates \/ ScopeChanges

\* The keeper's timer fires every minute, its calls return, and the gateway's list
\* and clean-up catch up.  Runs end.
FleetFairness ==
    /\ \A p \in Passes : WF_fleetVars(Reconcile(p))
    /\ WF_fleetVars(ListCatchesUp) /\ WF_fleetVars(NameCleanedUp)
    /\ \A t \in Work : WF_fleetVars(RunIsOver(t))

FleetSpec == FleetInit /\ [][FleetNext]_fleetVars /\ FleetFairness

------------------------------------------------------------------------------
(* Properties *)

\* No silent downgrade: whatever list the agent was found on and whatever scope
\* the connection had then and has now, the model that runs is the routed one, and
\* a harness runs on no agent of the fleet. (resolve, resolveOrThrow, dispatch)
RunsAsRouted ==
    \A t \in Work : spot[t] = "running" =>
        ran[t].model = "routed" /\ (t \in Harnessed => ran[t].agent = NobodyId)

FleetSize == Cardinality(OfModel(alive))
StillWorking == IF \A t \in Work : spot[t] = "done" THEN {} ELSE {Worker}
Settled ==
    /\ FleetSize >= Smaller(floor, Cap)
    /\ FleetSize > floor => alive \cap AutoAgent \subseteq StillWorking

\* Once operator and gateway are quiet the fleet settles at its floor, or at the
\* cap below it: every agent the keeper may take is gone above the floor, and
\* however passes overlapped, lists lagged and names were locked, nothing is
\* missing below it. (reconcileModel, reconcileAll)
FleetSettles == <>[]Settled

\* A sandbox grown for a parked task takes it: a task never fails to find an agent
\* while the list shows one that was grown on demand. (maybeProvisionForBrain)
\* Does not hold: see README.
GrownAgentServes ==
    \A t \in Work : spot[t] = "growing" => \A k \in 1..sbxs : Sbx(k) \notin shown
==============================================================================
