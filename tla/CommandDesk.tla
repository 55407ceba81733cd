----------------------------- MODULE CommandDesk ------------------------------
(***************************************************************************)
(* Commands people type in Slack, and the Control page's: who may give     *)
(* them, the question a destructive one is answered with, and what running *)
(* it does to tasks and their runs.                                        *)
(*                                                                         *)
(* A command is served in segments: parsing it, reading one task, writing  *)
(* it once the gateway has answered.  Others, the tasks themselves, and a  *)
(* restart, which forgets the questions, come in between.                  *)
(***************************************************************************)
EXTENDS Integers, Sequences, SequencesExt
LOCAL INSTANCE TaskLifecycle

CONSTANTS
    Target,         \* tasks
    IdList,         \* the lists of them a command may name
    Person,         \* Slack users
    Line,           \* commands that are served at once
    NoPerson,
    TtlTicks,       \* CONFIRM_TTL_MS
    LastTick, MaxQuestions, MaxStirs, MaxLines     \* bounds

ASSUME DeskAssumption ==
    /\ IdList \subseteq Seq(Target) \ {<<>>}
    /\ NoPerson \notin Person
    /\ {TtlTicks, LastTick, MaxQuestions, MaxStirs, MaxLines} \subseteq Nat

VARIABLES
    state,          \* status of each task
    alive,          \* tasks whose latest execution is live
    role,           \* operators rows by Slack user
    asked,          \* the questions put so far
    pendingConfirm, \* the one each person may answer
    line,           \* the command each handler is serving
    minute, stirs, lines    \* the clock, and counts for the bounds

deskTasks == <<state, alive>>
deskCounts == <<minute, stirs, lines>>
deskVars == <<deskTasks, role, asked, pendingConfirm, line, deskCounts>>

------------------------------------------------------------------------------
Destructive == {"cancel", "stop"}
Verb == Destructive \cup {"run"}

\* stands: it has not been dropped, replaced or forgotten.
Question == [by : Person, verb : Destructive, ids : IdList, at : 0..LastTick,
             stands : BOOLEAN, runs : 0..MaxLines]

\* by: NoPerson on the Control page.  rest: ids still to see to.  found: whether one
\* of those seen is not over.  seen: what the row of the first of rest read.
Serving == [at : {"idle", "known", "asking", "reading", "striking"},
            by : Person \cup {NoPerson}, readOnly : BOOLEAN,
            says : {"yes", "ok", "no"} \cup Verb, ids : Seq(Target),
            rest : Seq(Target), found : BOOLEAN, seen : TaskStatus]
NotServing == [at |-> "idle", by |-> NoPerson, readOnly |-> FALSE, says |-> "no", ids |-> <<>>,
               rest |-> <<>>, found |-> FALSE, seen |-> "CREATED"]

CommandsTypeOK ==
    /\ state \in [Target -> TaskStatus] /\ alive \subseteq Target
    /\ role \in [Person -> {"none", "operator", "readonly"}]
    /\ asked \in Seq(Question) /\ Len(asked) <= MaxQuestions
    /\ pendingConfirm \in [Person -> 0..Len(asked)]
    /\ line \in [Line -> Serving]
    /\ \A p \in Person : pendingConfirm[p] # 0 => asked[pendingConfirm[p]].by = p
    /\ minute <= LastTick /\ stirs <= MaxStirs /\ lines <= MaxLines

CommandsInit ==
    /\ state \in [Target -> {"CREATED", "QUEUED", "DISPATCHED", "COMPLETE"}]
    /\ alive = {t \in Target : state[t] = "DISPATCHED"}
    /\ role \in [Person -> {"none", "operator", "readonly"}]
    /\ asked = <<>> /\ pendingConfirm = [p \in Person |-> 0]
    /\ line = [c \in Line |-> NotServing]
    /\ minute = 0 /\ stirs = 0 /\ lines = 0

Serve(c, r) == line' = [line EXCEPT ![c] = r]
Put(t, to, reason) ==
    state' = IF MayTransition(state[t], to, reason) THEN [state EXCEPT ![t] = to] ELSE state

\* createRevision, through RESUMABLE from BLOCKED.
Revise(t) ==
    IF state[t] = "BLOCKED" THEN state' = [state EXCEPT ![t] = "QUEUED"] ELSE Put(t, "QUEUED", "revision")

------------------------------------------------------------------------------
(* A command comes in *)

Heard(c) ==
    /\ line[c].at = "idle" /\ lines < MaxLines /\ lines' = lines + 1
    /\ UNCHANGED <<deskTasks, role, asked, pendingConfirm, minute, stirs>>

\* actorFor: a Slack user nobody has registered is told so.
Answer(c, p, word) ==
    /\ role[p] # "none" /\ Heard(c)
    /\ Serve(c, [NotServing EXCEPT !.at = "known", !.by = p, !.readOnly = role[p] = "readonly",
                                   !.says = word])

Command(c, p, verb, ids) ==
    /\ role[p] # "none" /\ Heard(c)
    /\ Serve(c, [NotServing EXCEPT !.at = "known", !.by = p, !.readOnly = role[p] = "readonly",
                                   !.says = verb, !.ids = ids])

\* stopTask is given the first id only.
Ids(verb, ids) == IF verb = "stop" THEN <<Head(ids)>> ELSE ids

Acting(r, verb, ids) ==
    [r EXCEPT !.at = "reading", !.says = verb, !.ids = ids, !.rest = Ids(verb, ids)]

\* runCommand: the Control page has a button of its own, and says so.
ControlPage(c, verb, ids) ==
    /\ Heard(c) /\ Serve(c, Acting(NotServing, verb, ids))

------------------------------------------------------------------------------
(* Yes and no *)

\* Defect for the checks: whatever was asked may be answered.
Whenever(p) == pendingConfirm[p] # 0

Fresh(p) == pendingConfirm[p] # 0 /\ minute <= asked[pendingConfirm[p]].at + TtlTicks

\* What an answer leaves of the person's question.
Forgotten(p, ran) ==
    /\ pendingConfirm' = [pendingConfirm EXCEPT ![p] = 0]
    /\ asked' = [q \in DOMAIN asked |->
                   IF q # pendingConfirm[p] THEN asked[q]
                   ELSE [asked[q] EXCEPT !.stands = FALSE, !.runs = @ + ran]]

\* Reading the question, dropping it and beginning to run it are one segment.
Confirm(c) ==
    LET r == line[c]
        q == asked[pendingConfirm[r.by]] IN
    /\ r.at = "known" /\ (r.says = "yes" \/ (r.says = "ok" /\ Fresh(r.by)))
    /\ IF Fresh(r.by)
       THEN Forgotten(r.by, 1) /\ Serve(c, Acting(r, q.verb, q.ids))
       ELSE Forgotten(r.by, 0) /\ Serve(c, NotServing)
    /\ UNCHANGED <<deskTasks, role, deskCounts>>

Refuse(c) ==
    /\ line[c].at = "known" /\ line[c].says = "no"
    /\ Forgotten(line[c].by, 0) /\ Serve(c, NotServing)
    /\ UNCHANGED <<deskTasks, role, deskCounts>>

\* An "ok" with nothing to answer is not understood; a reader may only look; what
\* destroys is asked about, and what does not is run.
Parse(c) ==
    LET r == line[c] IN
    /\ r.at = "known" /\ (r.says \in Verb \/ (r.says = "ok" /\ ~Fresh(r.by)))
    /\ Serve(c, IF r.says = "ok" \/ r.readOnly THEN NotServing
                ELSE IF r.says \in Destructive THEN [r EXCEPT !.at = "asking", !.rest = r.ids]
                ELSE Acting(r, r.says, r.ids))
    /\ UNCHANGED <<deskTasks, role, asked, pendingConfirm, deskCounts>>

\* Each task is read; the last is read and the question put, in place of the one
\* before, or there is nothing to ask.
AskNext(c) ==
    LET r == line[c]
        p == r.by
        found == r.found \/ state[Head(r.rest)] \notin {"COMPLETE", "CANCELLED"} IN
    /\ r.at = "asking"
    /\ IF Len(r.rest) > 1
       THEN Serve(c, [r EXCEPT !.rest = Tail(@), !.found = found]) /\ UNCHANGED <<asked, pendingConfirm>>
       ELSE /\ Serve(c, NotServing)
            /\ IF ~found THEN UNCHANGED <<asked, pendingConfirm>>
               ELSE /\ Len(asked) < MaxQuestions
                    /\ pendingConfirm' = [pendingConfirm EXCEPT ![p] = Len(asked) + 1]
                    /\ asked' = Append([q \in DOMAIN asked |->
                                          IF asked[q].by = p THEN [asked[q] EXCEPT !.stands = FALSE] ELSE asked[q]],
                                       [by |-> p, verb |-> r.says, ids |-> r.ids, at |-> minute,
                                        stands |-> TRUE, runs |-> 0])
    /\ UNCHANGED <<deskTasks, role, deskCounts>>

------------------------------------------------------------------------------
(* Running it, one id after the other *)

Done(c) ==
    Serve(c, IF Len(line[c].rest) > 1 THEN [line[c] EXCEPT !.at = "reading", !.rest = Tail(@)]
             ELSE NotServing)

\* The row is read, and a run that is alive made final, before the gateway is asked
\* to abort it.
ReadTarget(c) ==
    LET r == line[c]
        t == Head(r.rest) IN
    /\ r.at = "reading"
    /\ \/ /\ r.says = "cancel" /\ state[t] \in {"COMPLETE", "CANCELLED"}
          /\ Done(c) /\ UNCHANGED alive
       \/ /\ r.says = "cancel" => state[t] \notin {"COMPLETE", "CANCELLED"}
          /\ alive' = IF r.says = "run" THEN alive ELSE alive \ {t}
          /\ Serve(c, [r EXCEPT !.at = "striking", !.seen = state[t]])
    /\ UNCHANGED <<state, role, asked, pendingConfirm, deskCounts>>

\* "run" releases what is held, revises what is blocked, and leaves the rest; only
\* an illegal release is not caught.
RunAgain(c, t) ==
    CASE line[c].seen = "CREATED" ->
           /\ Put(t, "QUEUED", "none")
           /\ IF MayTransition(state[t], "QUEUED", "none") THEN Done(c) ELSE Serve(c, NotServing)
      [] line[c].seen = "BLOCKED" -> Revise(t) /\ Done(c)
      [] OTHER -> UNCHANGED state /\ Done(c)

\* The answer to the abort, whatever it was, is followed by the task's move.
MoveTarget(c) ==
    LET r == line[c]
        t == Head(r.rest) IN
    /\ r.at = "striking"
    /\ CASE r.says = "cancel" -> Put(t, "CANCELLED", "none") /\ Done(c)
         [] r.says = "stop"   -> Put(t, "BLOCKED", "none") /\ Done(c)
         [] OTHER             -> RunAgain(c, t)
    /\ UNCHANGED <<alive, role, asked, pendingConfirm, deskCounts>>

------------------------------------------------------------------------------
(* Everything else *)

Stirs == stirs < MaxStirs /\ stirs' = stirs + 1
TaskStirs(t) ==
    /\ Stirs
    /\ \/ state[t] = "QUEUED" /\ Put(t, "DISPATCHED", "none") /\ alive' = alive \cup {t}
       \/ t \in alive /\ Put(t, "COMPLETE", "none") /\ alive' = alive \ {t}
       \/ state[t] = "COMPLETE" /\ Put(t, "QUEUED", "revision") /\ UNCHANGED alive
    /\ UNCHANGED <<role, asked, pendingConfirm, line, minute, lines>>

\* The text surface asks nothing: "stop" cancels there, and "continue" revises; the
\* run is left to others.
TextSurface(t) ==
    /\ Stirs
    /\ Put(t, "CANCELLED", "none") \/ Revise(t)
    /\ UNCHANGED <<alive, role, asked, pendingConfirm, line, minute, lines>>

\* An operator is registered, by an admin and never on sight; or deactivated.
Enrol(p) ==
    /\ Stirs
    /\ \/ role[p] = "none" /\ role' \in {[role EXCEPT ![p] = r] : r \in {"operator", "readonly"}}
       \/ role[p] # "none" /\ role' = [role EXCEPT ![p] = "none"]
    /\ UNCHANGED <<deskTasks, asked, pendingConfirm, line, minute, lines>>

TimePasses ==
    /\ minute < LastTick /\ minute' = minute + 1
    /\ UNCHANGED <<deskTasks, role, asked, pendingConfirm, line, stirs, lines>>

DeskRestarts ==
    /\ Stirs
    /\ line' = [c \in Line |-> NotServing] /\ pendingConfirm' = [p \in Person |-> 0]
    /\ asked' = [q \in DOMAIN asked |-> [asked[q] EXCEPT !.stands = FALSE]]
    /\ UNCHANGED <<deskTasks, role, minute, lines>>

ServeLine(c) ==
    \/ \E p \in Person : \/ \E word \in {"yes", "ok", "no"} : Answer(c, p, word)
                         \/ \E verb \in Verb, ids \in IdList : Command(c, p, verb, ids)
    \/ \E verb \in Verb, ids \in IdList : ControlPage(c, verb, ids)
    \/ Confirm(c) \/ Refuse(c) \/ Parse(c) \/ AskNext(c) \/ ReadTarget(c) \/ MoveTarget(c)

CommandsNext ==
    \/ \E c \in Line : ServeLine(c)
    \/ \E t \in Target : TaskStirs(t) \/ TextSurface(t)
    \/ \E p \in Person : Enrol(p)
    \/ TimePasses \/ DeskRestarts

CommandsSpec == CommandsInit /\ [][CommandsNext]_deskVars

------------------------------------------------------------------------------
(* Properties *)

\* A destructive command runs at most once for the question it was answered with,
\* within its time, and not after another question, a "no" or a restart has put an
\* end to it, however many answers are typed at once. (handleCommand)
AnsweredOnceInTime ==
    [][\A q \in DOMAIN asked : asked'[q].runs # asked[q].runs =>
          asked[q].runs = 0 /\ asked[q].stands /\ minute <= asked[q].at + TtlTicks]_deskVars
==============================================================================
