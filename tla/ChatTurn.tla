------------------------------ MODULE ChatTurn ------------------------------
(***************************************************************************)
(* A chat session and the delivery of its turns: sendMessage's background  *)
(* delivery, the poller that closes turns from the gateway's transcript,   *)
(* the refusal that arrives after the run was accepted, and the operator   *)
(* who archives the session, deletes it or gives it another Brain.         *)
(*                                                                         *)
(* All of them write the status of the same chat_messages row.  A delivery *)
(* works with the session row its request read.  A conversation of the     *)
(* gateway is named by the turn that opened it and the agent it runs on.   *)
(***************************************************************************)
EXTENDS ChatPool

CONSTANTS
    FirstBrain,   \* the Brain of the session when it is created
    NoConv,       \* gateway_session_ref IS NULL
    NoTurn,
    MaxEdits,     \* bound: changes of the session's Brain or status
    MaxRestarts   \* bound: gateway runs that die without a word

ASSUME FirstBrainAssumption == FirstBrain \in Brain
\* A session numbers its messages.
ASSUME TurnAssumption == Turn \subseteq Nat
ASSUME NullsAssumption == NoTurn \notin Turn /\ MaxEdits \in Nat /\ MaxRestarts \in Nat

VARIABLES
    mode,         \* the session's status, or DELETED
    brain,        \* its brain_id
    ref,          \* its gateway_session_ref
    status,       \* delivery status of each brain row
    content,      \* whose answer a DONE row shows
    asked,        \* brain_id in the session row the request read
    askedRef,     \* gateway_session_ref in that row
    at,           \* where its delivery is
    conv,         \* the conversation it was dispatched to
    run,          \* its run at the gateway
    transcript,   \* messages of each conversation
    looked,       \* the row the poller has read the transcript for
    old,     \* its status in the poller's list
    found,        \* and what the transcript said
    edits, restarts

sessionVars == <<mode, brain, ref, edits>>
rowVars == <<status, content>>
deliveryVars == <<asked, askedRef, at, conv>>
runVars == <<run, transcript, restarts>>
pollVars == <<looked, old, found>>
chatVars == <<sessionVars, rowVars, deliveryVars, runVars, pollVars, poolVars>>

------------------------------------------------------------------------------
Conv == Turn \X Agent
AgentOf(c) == c[2]
Said == {"prompt", "answer", "failure"}
Message == [turn : Turn, said : Said]
NoMessage == [turn |-> NoTurn, said |-> "nothing"]

Location == {"idle", "resolving", "marking", "sending", "sent", "storing", "storing first", "replying", "done"}
RunState == {"none", "queued", "running", "answered", "failed", "refused", "dead"}

ChatTypeOK ==
    /\ PoolTypeOK
    /\ mode \in {"ACTIVE", "ARCHIVED", "DELETED"} /\ brain \in Brain /\ ref \in Conv \cup {NoConv}
    /\ status \in [Turn -> {"none", "PENDING", "RUNNING", "DONE", "FAILED"}]
    /\ content \in [Turn -> Turn \cup {NoTurn}]
    /\ asked \in [Turn -> Brain] /\ askedRef \in [Turn -> Conv \cup {NoConv}]
    /\ at \in [Turn -> Location]
    /\ conv \in [Turn -> Conv \cup {NoConv}]
    /\ run \in [Turn -> RunState]
    /\ transcript \in [Conv -> Seq(Message)]
    /\ looked \in Turn \cup {NoTurn} /\ old \in BOOLEAN
    /\ found \in Message \cup {NoMessage}
    /\ edits \in 0..MaxEdits /\ restarts \in 0..MaxRestarts

ChatInit ==
    /\ PoolInit
    /\ mode = "ACTIVE" /\ brain = FirstBrain /\ ref = NoConv
    /\ status = [t \in Turn |-> "none"] /\ content = [t \in Turn |-> NoTurn]
    /\ asked = [t \in Turn |-> FirstBrain] /\ askedRef = [t \in Turn |-> NoConv]
    /\ at = [t \in Turn |-> "idle"]
    /\ conv = [t \in Turn |-> NoConv]
    /\ run = [t \in Turn |-> "none"] /\ transcript = [c \in Conv |-> <<>>]
    /\ looked = NoTurn /\ old = FALSE /\ found = NoMessage
    /\ edits = 0 /\ restarts = 0

InFlight(t) == status[t] \in {"PENDING", "RUNNING"}

\* updateDelivery, which looks at nothing; the row may be gone with its session.
UpdateDelivery(t, s) ==
    status' = IF mode = "DELETED" THEN status ELSE [status EXCEPT ![t] = s]

MoveTo(t, place) == at' = [at EXCEPT ![t] = place] /\ UNCHANGED <<askedRef, held>>

\* The delivery returns, and what it held in its hands is forgotten.
Return(t) ==
    /\ at' = [at EXCEPT ![t] = "done"]
    /\ askedRef' = [askedRef EXCEPT ![t] = NoConv]
    /\ held' = [held EXCEPT ![t] = NoAgent]

\* What most steps of a delivery leave alone.
OnlyDelivers == UNCHANGED <<sessionVars, asked, pollVars>>
poolButHeld == <<gatewayAgents, row, step, faults>>

------------------------------------------------------------------------------
(* Requests of the operator *)

\* append numbers the session's messages.
NextInLine(t) == status[t] = "none" /\ \A u \in Turn : u < t => status[u] # "none"

SendMessage(t) ==
    /\ mode = "ACTIVE" /\ NextInLine(t)
    /\ status' = [status EXCEPT ![t] = "PENDING"]
    /\ asked' = [asked EXCEPT ![t] = brain]
    /\ askedRef' = [askedRef EXCEPT ![t] = ref]
    /\ at' = [at EXCEPT ![t] = "resolving"] /\ Goto(t, "lookup")
    /\ UNCHANGED <<sessionVars, content, conv, runVars, pollVars,
                   gatewayAgents, row, held, faults>>

Edit == edits < MaxEdits /\ edits' = edits + 1

\* Another Brain, and with it another conversation.
Rebind(b) == brain' = b /\ ref' = NoConv

SwitchBrain(b) ==
    /\ mode # "DELETED" /\ b # brain /\ Edit
    /\ Rebind(b)
    /\ UNCHANGED <<mode, rowVars, deliveryVars, runVars, pollVars, poolVars>>

\* PATCH status, either way.
SetMode(m) ==
    /\ mode # "DELETED" /\ m # mode /\ Edit
    /\ mode' = m
    /\ UNCHANGED <<brain, ref, rowVars, deliveryVars, runVars, pollVars, poolVars>>

\* The messages go with their session.
DeleteSession ==
    /\ mode # "DELETED" /\ Edit
    /\ mode' = "DELETED" /\ status' = [t \in Turn |-> "none"]
    /\ UNCHANGED <<brain, ref, content, deliveryVars, runVars, pollVars, poolVars>>

------------------------------------------------------------------------------
(* deliver *)

\* Defect for the checks: the reference is used whatever agent was resolved.
IgnoresTheAgent(t) == FALSE /\ held[t] = NoAgent

\* The gateway binds a session key to one agent, which it names in its answer: a
\* reference to another agent's conversation is stale.
StaleRef(t) == askedRef[t] # NoConv /\ AgentOf(askedRef[t]) # held[t]

\* Defect for the checks: the row is read again, after other deliveries had it.
KeyOfTheRow(t) == <<t, row[asked[t]]>>

\* A key of its own for the first turn of a conversation, the session's else.
SessionKey(t) == IF StaleRef(t) \/ askedRef[t] = NoConv THEN <<t, held[t]>> ELSE askedRef[t]

ResolveStep(t) ==
    /\ at[t] = "resolving" /\ Resolve(t, asked[t])
    /\ UNCHANGED <<sessionVars, rowVars, deliveryVars, runVars, pollVars>>

\* sandbox:<why>
SandboxRefused(t) ==
    /\ at[t] = "resolving" /\ step[t] = "refused"
    /\ UpdateDelivery(t, "FAILED") /\ Return(t) /\ Goto(t, "idle")
    /\ OnlyDelivers
    /\ UNCHANGED <<content, conv, runVars, gatewayAgents, row, faults>>

\* The row becomes RUNNING, without a look at what it is now.
MarkRunning(t) ==
    /\ at[t] = "resolving" /\ step[t] = "resolved"
    /\ UpdateDelivery(t, "RUNNING") /\ MoveTo(t, "sending") /\ Goto(t, "idle")
    /\ conv' = [conv EXCEPT ![t] = SessionKey(t)]
    /\ OnlyDelivers
    /\ UNCHANGED <<content, runVars, gatewayAgents, row, faults>>

\* dispatchChat; the frame may never arrive.
Send(t) ==
    /\ at[t] = "sending" /\ MoveTo(t, "sent")
    /\ \/ run' = [run EXCEPT ![t] = IF held[t] \in exists THEN "queued" ELSE "refused"] /\ UNCHANGED faults
       \/ Fault /\ UNCHANGED run
    /\ OnlyDelivers
    /\ UNCHANGED <<rowVars, conv, transcript, restarts, gatewayAgents, row, step>>

\* The first answer to the request, with the reply where the run has one.
DispatchAnswered(t) ==
    /\ at[t] = "sent" /\ run[t] \notin {"none", "refused"}
    /\ \/ MoveTo(t, "storing")
       \/ run[t] = "answered" /\ MoveTo(t, "storing first")
    /\ OnlyDelivers
    /\ UNCHANGED <<rowVars, conv, runVars, poolButHeld>>

\* It answers with an error, or not within requestTimeoutMs, or the socket goes.
DispatchThrows(t) ==
    /\ at[t] = "sent"
    /\ UpdateDelivery(t, "FAILED") /\ Return(t)
    /\ OnlyDelivers
    /\ UNCHANGED <<content, conv, runVars, poolButHeld>>

\* setGatewayRef for a conversation of one's own, touch for the session's.
StoreRef(t) ==
    /\ at[t] \in {"storing", "storing first"}
    /\ ref' = IF mode # "DELETED" /\ (StaleRef(t) \/ askedRef[t] = NoConv) THEN conv[t] ELSE ref
    /\ IF at[t] = "storing" THEN Return(t) ELSE MoveTo(t, "replying")
    /\ UNCHANGED <<mode, brain, edits, rowVars, asked, conv,
                   runVars, pollVars, poolButHeld>>

MarkReplied(t) ==
    /\ at[t] = "replying"
    /\ UpdateDelivery(t, "DONE") /\ Return(t)
    /\ content' = [content EXCEPT ![t] = t]
    /\ OnlyDelivers
    /\ UNCHANGED <<conv, runVars, poolButHeld>>

\* Any repository or gateway call of a delivery may throw.
DeliveryThrows(t) ==
    /\ at[t] \in {"resolving", "sending", "storing", "storing first"} /\ Fault
    /\ UpdateDelivery(t, "FAILED") /\ Return(t) /\ Goto(t, "idle")
    /\ OnlyDelivers
    /\ UNCHANGED <<content, conv, runVars, gatewayAgents, row>>

\* The controller dies and comes back: its deliveries are gone, and so is a poll.
Crash ==
    /\ Fault
    /\ \E t \in Turn : at[t] \notin {"idle", "done"}
    /\ at' = [t \in Turn |-> IF at[t] = "idle" THEN "idle" ELSE "done"]
    /\ step' = [t \in Turn |-> "idle"] /\ held' = [t \in Turn |-> NoAgent]
    /\ askedRef' = [t \in Turn |-> NoConv]
    /\ looked' = NoTurn /\ old' = FALSE /\ found' = NoMessage
    /\ UNCHANGED <<sessionVars, rowVars, asked, conv, runVars,
                   gatewayAgents, row>>

Deliver(t) ==
    \/ ResolveStep(t) \/ SandboxRefused(t) \/ MarkRunning(t) \/ Send(t)
    \/ DispatchAnswered(t) \/ DispatchThrows(t) \/ StoreRef(t) \/ MarkReplied(t)

------------------------------------------------------------------------------
(* The gateway *)

OnlyRuns == UNCHANGED <<sessionVars, deliveryVars, pollVars>>

Says(t, what) ==
    transcript' = [transcript EXCEPT ![conv[t]] = Append(@, [turn |-> t, said |-> what])]

\* One run of a conversation at a time.
RunStarts(t) ==
    /\ run[t] = "queued"
    /\ \A u \in Turn : run[u] = "running" => conv[u] # conv[t]
    /\ run' = [run EXCEPT ![t] = "running"] /\ Says(t, "prompt")
    /\ OnlyRuns /\ UNCHANGED <<rowVars, restarts, poolVars>>

RunAnswers(t) ==
    /\ run[t] = "running"
    /\ run' = [run EXCEPT ![t] = "answered"] /\ Says(t, "answer")
    /\ OnlyRuns /\ UNCHANGED <<rowVars, restarts, poolVars>>

\* It failed before producing a reply, and the transcript says so.
RunFails(t) ==
    /\ run[t] = "running"
    /\ run' = [run EXCEPT ![t] = "failed"] /\ Says(t, "failure")
    /\ OnlyRuns /\ UNCHANGED <<rowVars, restarts, poolVars>>

\* The gateway dies in the middle of it, and the transcript stays as it is.
RunDies(t) ==
    /\ run[t] = "running" /\ restarts < MaxRestarts
    /\ restarts' = restarts + 1
    /\ run' = [run EXCEPT ![t] = "dead"]
    /\ OnlyRuns /\ UNCHANGED <<rowVars, transcript, poolVars>>

KillAgent(a) ==
    /\ Kill(a)
    /\ run' = [t \in Turn |-> IF run[t] \in {"queued", "running"} /\ AgentOf(conv[t]) = a
                              THEN "dead" ELSE run[t]]
    /\ OnlyRuns /\ UNCHANGED <<rowVars, transcript, restarts>>

\* With the agent's state its conversations go.
AgentCleanedUp(a) ==
    /\ CleanedUp(a)
    /\ transcript' = [c \in Conv |-> IF AgentOf(c) = a THEN <<>> ELSE transcript[c]]
    /\ OnlyRuns /\ UNCHANGED <<rowVars, run, restarts>>

AgentsListed == ListingCatchesUp /\ OnlyRuns /\ UNCHANGED <<rowVars, runVars>>

\* applyLateError: a run accepted first and refused later.  The frame may or may
\* not carry the run's id, and a row that has its verdict keeps it.
LateRefusal(t) ==
    /\ run[t] = "queued" /\ at[t] \notin {"sending", "sent"}
    /\ run' = [run EXCEPT ![t] = "refused"]
    /\ \/ InFlight(t) /\ UpdateDelivery(t, "FAILED")
       \/ UNCHANGED status
    /\ OnlyRuns /\ UNCHANGED <<content, transcript, restarts, poolVars>>

Gateway ==
    \/ \E t \in Turn : \/ RunStarts(t) \/ RunAnswers(t) \/ RunFails(t)
                       \/ RunDies(t) \/ LateRefusal(t)
    \/ \E a \in Agent : KillAgent(a) \/ AgentCleanedUp(a)
    \/ AgentsListed

------------------------------------------------------------------------------
(* The poller: completeOnce *)

OnlyPolls == UNCHANGED <<sessionVars, deliveryVars, runVars>>

\* Defect for the checks: any answer of the conversation will do.
AnyReply(t, said) ==
    LET answers == {i \in DOMAIN said : said[i].said # "prompt"} IN
    IF answers = {} THEN NoMessage ELSE said[CHOOSE i \in answers : \A j \in answers : i <= j]

\* findTurnReply: the first thing the assistant said after this turn's prompt.
FindTurnReply(t, said) ==
    LET prompts == {i \in DOMAIN said : said[i].turn = t /\ said[i].said = "prompt"}
        after == {i \in DOMAIN said : said[i].said # "prompt" /\ \E p \in prompts : p < i}
    IN IF after = {} THEN NoMessage ELSE said[CHOOSE i \in after : \A j \in after : i <= j]

\* Defect for the checks: orphans of a crash are left to their delivery.
RunningTooLong(t) == status[t] = "RUNNING" /\ at[t] \notin {"idle", "resolving", "sending"}

\* turnTimeoutMs is as long as the dispatch request may take to time out, so a
\* row can be too old from the moment its frame is out.
MayBeOld(t) == at[t] \notin {"idle", "resolving", "sending"}

\* A row of listInFlight and, if it was RUNNING and its session had a reference,
\* chat.history of that conversation.  Conversations only grow, so the two reads
\* are one step; how old the row is by then is part of what they tell.
PollReads(t, isOld) ==
    /\ looked = NoTurn /\ InFlight(t)
    /\ isOld => MayBeOld(t)
    /\ looked' = t /\ old' = isOld
    /\ IF status[t] = "RUNNING" /\ ref # NoConv
       THEN \/ found' = FindTurnReply(t, transcript[ref]) /\ UNCHANGED faults
            \/ Fault /\ found' = NoMessage
       ELSE found' = NoMessage /\ UNCHANGED faults
    /\ OnlyPolls /\ UNCHANGED <<rowVars, gatewayAgents, row, step, held>>

PollWrites(t) ==
    /\ looked = t
    /\ looked' = NoTurn /\ old' = FALSE /\ found' = NoMessage
    /\ \/ /\ found.said = "answer"
          /\ UpdateDelivery(t, "DONE") /\ content' = [content EXCEPT ![t] = found.turn]
       \/ found.said = "failure" /\ UpdateDelivery(t, "FAILED") /\ UNCHANGED content
       \/ found = NoMessage /\ old /\ UpdateDelivery(t, "FAILED") /\ UNCHANGED content
       \/ found = NoMessage /\ ~old /\ UNCHANGED rowVars
    /\ OnlyPolls /\ UNCHANGED poolVars

Poller == \E t \in Turn : PollReads(t, TRUE) \/ PollReads(t, FALSE) \/ PollWrites(t)

------------------------------------------------------------------------------
Operator ==
    \/ \E t \in Turn : SendMessage(t)
    \/ \E b \in Brain : SwitchBrain(b)
    \/ \E m \in {"ACTIVE", "ARCHIVED"} : SetMode(m)
    \/ DeleteSession

ChatNext ==
    \/ Operator
    \/ \E t \in Turn : Deliver(t) \/ DeliveryThrows(t)
    \/ Crash
    \/ Gateway
    \/ Poller

\* Every call of a delivery returns or times out, the poller's timer fires every
\* two seconds, and time passes between its rounds.  Of the gateway nothing is assumed.
ChatFairness ==
    /\ \A t \in Turn : WF_chatVars(Deliver(t)) /\ SF_chatVars(PollReads(t, TRUE))
    /\ WF_chatVars(Poller)

ChatSpec == ChatInit /\ [][ChatNext]_chatVars /\ ChatFairness

------------------------------------------------------------------------------
(* Properties *)

\* A finished turn shows the answer the gateway gave to that very turn, although
\* turns share conversations and the poller goes by position in a transcript.
\* (findTurnReply, completeOne, deliver)
\* Holds where no run is lost without a word (MaxRestarts = 0), not otherwise: see README.
AnswerIsOwn == \A t \in Turn : status[t] = "DONE" => content[t] = t

\* Whatever dies: a finished turn shows its own answer, unless its run was lost
\* without a word while its agent lived on.  Then it may be closed with the next
\* answer, but of the same conversation and so of the same Brain.
\* (findTurnReply, completeOne, deliver)
AnswerIsOwnOrNext ==
    \A t \in Turn : status[t] = "DONE" =>
        \/ content[t] = t
        \/ run[t] = "dead" /\ restarts > 0 /\ conv[content[t]] = conv[t]

\* All the turns of one conversation were addressed to one Brain: whatever
\* deliveries were under way when the session changed Brain, and whichever of
\* them stored its reference last, the new Brain does not read the old one's
\* context. (switchBrain, deliver, setGatewayRef)
OneBrainPerConversation ==
    \A t, u \in Turn : conv[t] # NoConv /\ conv[t] = conv[u] => asked[t] = asked[u]

\* Every turn comes to rest: also the one a dead controller left PENDING, the one
\* whose run died without a word and the one whose session lost its reference.
\* (completeOne, deliver, updateDelivery)
EveryTurnSettles == <>[](\A t \in Turn : ~InFlight(t))

\* An answer, once shown, stands: DONE is one of the two ends of
\* PENDING -> RUNNING -> DONE/FAILED. (updateDelivery)
\* Does not hold: see README.
AnswerStands ==
    [][\A t \in Turn : status[t] = "DONE" /\ mode' # "DELETED" => status'[t] = "DONE"]_chatVars
==============================================================================
