------------------------------ MODULE ChatPool ------------------------------
(***************************************************************************)
(* The pool of chat sandboxes of one project (chat-sandbox.mjs): for each  *)
(* Brain a row that names the gateway agent its conversations run on, and  *)
(* resolveChatSandbox, which several deliveries may be inside at once.     *)
(*                                                                         *)
(* The gateway lists an agent some time after it was created or killed,    *)
(* and keeps the name of a killed agent locked until its clean-up is done. *)
(* All the Brains use one model, so they share one chat_concurrency_limit. *)
(***************************************************************************)
EXTENDS Integers, Sequences, FiniteSets

CONSTANTS
    Brain,        \* the Brains a session of the project may talk to
    Harness,      \* those that run on an ACP harness
    Turn,         \* brain rows of chat_messages, one delivery each
    Limit,        \* chat_concurrency_limit, or NoLimit
    NoLimit,      \* the model has no row in resources
    NoAgent,
    MaxNames,     \* bound: renamed agents per Brain
    MaxFaults     \* bound: faults per behaviour

ASSUME HarnessAssumption == Harness \subseteq Brain
ASSUME LimitAssumption == Limit \in Nat \cup {NoLimit} /\ NoLimit \notin Nat
ASSUME BoundAssumption == MaxNames \in Nat /\ MaxFaults \in Nat

VARIABLES
    exists,       \* agents the gateway has
    listed,       \* agents agents.list shows
    cleaning,     \* names of killed agents the gateway still holds on to
    row,          \* chat_sandboxes: the agent of each Brain
    step,         \* where the delivery of each turn is in resolveChatSandbox
    held,         \* the agent it found, created or was given
    faults        \* faults so far

gatewayAgents == <<exists, listed, cleaning>>
poolVars == <<exists, listed, cleaning, row, step, held, faults>>

------------------------------------------------------------------------------
\* <<b, 0>> is the name made of the project and the Brain, <<b, n>> one with a
\* random suffix; the gateway's id is the name.
Agent == Brain \X (0..MaxNames)
NameOf(b) == <<b, 0>>

ASSUME NoAgentAssumption == NoAgent \notin Agent

Step == {"idle", "lookup", "capping", "creating", "waiting", "resolved", "refused"}

PoolTypeOK ==
    /\ exists \subseteq Agent /\ listed \subseteq Agent /\ cleaning \subseteq Agent
    /\ row \in [Brain -> Agent \cup {NoAgent}]
    /\ step \in [Turn -> Step]
    /\ held \in [Turn -> Agent \cup {NoAgent}]
    /\ faults \in 0..MaxFaults

PoolInit ==
    /\ exists = {} /\ listed = {} /\ cleaning = {}
    /\ row = [b \in Brain |-> NoAgent]
    /\ step = [t \in Turn |-> "idle"]
    /\ held = [t \in Turn |-> NoAgent]
    /\ faults = 0

Fault == faults < MaxFaults /\ faults' = faults + 1
Goto(t, s) == step' = [step EXCEPT ![t] = s]

\* liveAgents: what agents.list shows, or nothing when the call fails.
Lists(answer) ==
    \/ answer = listed /\ UNCHANGED faults
    \/ answer = {} /\ listed # {} /\ Fault

------------------------------------------------------------------------------
(* resolveChatSandbox, for the delivery of turn t to Brain b *)

\* The row's agent is listed.
Reuse(t, b) ==
    /\ step[t] = "lookup" /\ row[b] \in listed
    /\ held' = [held EXCEPT ![t] = row[b]]
    /\ Goto(t, "resolved")
    /\ UNCHANGED <<gatewayAgents, row, faults>>

\* There is no row, or agents.list does not show its agent and the row goes.
DropStaleRow(t, b) ==
    /\ step[t] = "lookup"
    /\ \/ row[b] = NoAgent /\ UNCHANGED faults
       \/ row[b] # NoAgent /\ \E answer \in {listed, {}} : Lists(answer) /\ row[b] \notin answer
    /\ row' = [row EXCEPT ![b] = NoAgent]
    /\ Goto(t, "capping")
    /\ UNCHANGED <<gatewayAgents, held>>

MayProvision(b, live) ==
    b \notin Harness /\ Limit # NoLimit /\ Cardinality(live) < Limit

CheckCap(t, b) ==
    /\ step[t] = "capping"
    /\ \E answer \in {listed, {}} :
          /\ Lists(answer)
          /\ Goto(t, IF MayProvision(b, answer) THEN "creating" ELSE "refused")
    /\ UNCHANGED <<gatewayAgents, row, held>>

\* The first name if it is free, else one renamed attempt.
FreeName(b, a) ==
    LET taken == exists \cup cleaning IN
    IF NameOf(b) \notin taken THEN a = NameOf(b) ELSE a[1] = b /\ a[2] > 0 /\ a \notin taken

CreateAgent(t, b) ==
    /\ step[t] = "creating"
    /\ \E a \in Agent :
          /\ FreeName(b, a)
          /\ exists' = exists \cup {a}
          /\ held' = [held EXCEPT ![t] = a]
          /\ row' = [row EXCEPT ![b] = a]
    /\ Goto(t, "waiting")
    /\ UNCHANGED <<listed, cleaning, faults>>

CreateFails(t, b) ==
    /\ step[t] = "creating"
    /\ \/ Fault
       \/ (\A a \in Agent : ~FreeName(b, a)) /\ UNCHANGED faults
    /\ Goto(t, "refused")
    /\ UNCHANGED <<gatewayAgents, row, held>>

BecomesVisible(t) ==
    /\ step[t] = "waiting" /\ held[t] \in listed
    /\ Goto(t, "resolved")
    /\ UNCHANGED <<gatewayAgents, row, held, faults>>

\* visibleWaitMs is over: agent-not-yet-visible.
NotVisibleInTime(t) ==
    /\ step[t] = "waiting" /\ held[t] \notin listed
    /\ Goto(t, "refused")
    /\ UNCHANGED <<gatewayAgents, row, held, faults>>

Resolve(t, b) ==
    \/ Reuse(t, b) \/ DropStaleRow(t, b) \/ CheckCap(t, b)
    \/ CreateAgent(t, b) \/ CreateFails(t, b)
    \/ BecomesVisible(t) \/ NotVisibleInTime(t)

------------------------------------------------------------------------------
(* The gateway's agents *)

ListingCatchesUp ==
    /\ listed # exists
    /\ listed' = exists
    /\ UNCHANGED <<exists, cleaning, row, step, held, faults>>

\* An operator kills the agent in the process manager.
Kill(a) ==
    /\ a \in exists /\ Fault
    /\ exists' = exists \ {a}
    /\ cleaning' = cleaning \cup {a}
    /\ UNCHANGED <<listed, row, step, held>>

CleanedUp(a) ==
    /\ a \in cleaning
    /\ cleaning' = cleaning \ {a}
    /\ UNCHANGED <<exists, listed, row, step, held, faults>>

------------------------------------------------------------------------------
\* The pool never holds more agents than chat_concurrency_limit allows. (provision)
\* Does not hold: see README.
CapHolds == Limit # NoLimit => Cardinality(exists) <= Limit
==============================================================================
