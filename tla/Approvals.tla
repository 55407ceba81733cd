------------------------------ MODULE Approvals ------------------------------
(***************************************************************************)
(* The decisions a person takes about one task: the approval admission     *)
(* asks for before an L3 task first runs, and those the permission         *)
(* interposer asks for in the middle of a run, with the tool call held     *)
(* until it is answered or gives up.                                       *)
(*                                                                         *)
(* Requests, decisions, admission and the run's own end are chains of      *)
(* statements that interleave.  The gates other than the approval always   *)
(* pass, and backoff is left out: a tick comes when it comes.  A run that  *)
(* starts moves its execution only: RUNNING is what an approval sets.      *)
(***************************************************************************)
EXTENDS Naturals
LOCAL INSTANCE TaskLifecycle

CONSTANTS
    Approval,       \* ids of approvals rows
    Decider,        \* operators who may decide at once
    NoApproval,
    MaxAttempts, MaxRevisions     \* bounds

ASSUME ApprovalsAssumption ==
    NoApproval \notin Approval /\ MaxAttempts \in Nat /\ MaxRevisions \in Nat

VARIABLES
    status, gated,  \* of the task; gated: its approval_level is L3
    attempt,        \* what its latest execution came to
    attempts,       \* executions it has had
    answer,         \* the approvals rows
    latest,         \* the one decided last, by decided_at
    unparked,       \* approvals a run asked for whose task has yet to be parked
    decider,        \* what each operator is in the middle of
    tick,           \* what the admission pass makes of the task
    approved,       \* some approval of it was ever answered APPROVE
    owed,           \* no run of it has completed, its handoff on record, since it was asked for
    revisions

apVars == <<status, gated, attempt, attempts, answer, latest, unparked, decider, tick,
            approved, owed, revisions>>

------------------------------------------------------------------------------
Decision == {"APPROVE", "REJECT", "MODIFY"}
Open == {a \in Approval : answer[a] = "open"}
Unused == {a \in Approval : answer[a] = "none"}

Deciding == [at : {"idle", "writing", "moving"}, on : Approval \cup {NoApproval}, says : Decision]
NotDeciding == [at |-> "idle", on |-> NoApproval, says |-> "REJECT"]

\* seen: the status of the row the pass read.
NoTick == [at |-> "idle", seen |-> "QUEUED"]

ApprovalsTypeOK ==
    /\ status \in TaskStatus /\ gated \in BOOLEAN /\ approved \in BOOLEAN /\ owed \in BOOLEAN
    /\ attempt \in {"none", "live", "done", "failed"}
    /\ attempts \in 0..MaxAttempts /\ revisions \in 0..MaxRevisions
    /\ answer \in [Approval -> {"none", "open"} \cup Decision]
    /\ latest \in Approval \cup {NoApproval}
    /\ unparked \subseteq Approval \ Unused
    /\ decider \in [Decider -> Deciding]
    /\ tick \in [at : {"idle", "listed", "human", "block", "pass", "handing"}, seen : AdmissibleStatus]

ApprovalsInit ==
    /\ status = "QUEUED" /\ gated \in BOOLEAN /\ attempt = "none" /\ attempts = 0
    /\ answer = [a \in Approval |-> "none"] /\ latest = NoApproval /\ unparked = {}
    /\ decider = [d \in Decider |-> NotDeciding] /\ tick = NoTick
    /\ approved = FALSE /\ owed = TRUE /\ revisions = 0

\* setStatus, which throws on an illegal move and changes nothing.
Move(to) == status' = IF MayTransition(status, to, "none") THEN to ELSE status

------------------------------------------------------------------------------
(* Asking and deciding *)

CreateApproval(a) ==
    /\ answer[a] = "none"
    /\ answer' = [answer EXCEPT ![a] = "open"]

\* The interposer holds a tool call: the request finds the task by the session of an
\* execution, which may be over, or by the workspace, which other tasks share.
RaiseApproval(a) ==
    /\ CreateApproval(a)
    /\ unparked' = unparked \cup {a}
    /\ UNCHANGED <<status, gated, attempt, attempts, latest, decider, tick, approved, owed, revisions>>

\* Its second half parks the task, if it may be: a refused move is a 500, which the
\* interposer reads as a rejection, and the approval stays on file.
ParkForApproval(a) ==
    /\ a \in unparked
    /\ unparked' = unparked \ {a}
    /\ IF status \in {"COMPLETE", "CANCELLED"} THEN UNCHANGED status ELSE Move("WAIT_HUMAN")
    /\ UNCHANGED <<gated, attempt, attempts, answer, latest, decider, tick, approved, owed, revisions>>

\* decide() reads the row and finds it undecided.
BeginDecide(d, a, says) ==
    /\ decider[d] = NotDeciding /\ answer[a] = "open"
    /\ decider' = [decider EXCEPT ![d] = [at |-> "writing", on |-> a, says |-> says]]
    /\ UNCHANGED <<status, gated, attempt, attempts, answer, latest, unparked, tick, approved, owed, revisions>>

\* Its UPDATE does not look again: the later of two wins.  The HTTP route and the
\* Slack app go on to the task; the text surface does not.
WriteDecision(d) ==
    LET a == decider[d].on IN
    /\ decider[d].at = "writing"
    /\ answer' = [answer EXCEPT ![a] = decider[d].says]
    /\ latest' = a
    /\ approved' = (approved \/ decider[d].says = "APPROVE")
    /\ \/ decider' = [decider EXCEPT ![d].at = "moving"]
       \/ decider' = [decider EXCEPT ![d] = NotDeciding]
    /\ UNCHANGED <<status, gated, attempt, attempts, unparked, tick, owed, revisions>>

\* An approval raised in mid-turn belongs to a run that is alive: the task goes
\* back to it, or is blocked.  Otherwise admission will see to it.
MoveDecided(d) ==
    /\ decider[d].at = "moving"
    /\ IF attempt = "live" /\ status = "WAIT_HUMAN"
       THEN Move(IF decider[d].says = "APPROVE" THEN "RUNNING" ELSE "BLOCKED")
       ELSE UNCHANGED status
    /\ decider' = [decider EXCEPT ![d] = NotDeciding]
    /\ UNCHANGED <<gated, attempt, attempts, answer, latest, unparked, tick, approved, owed, revisions>>

------------------------------------------------------------------------------
(* Admission *)

ListTask ==
    /\ tick.at = "idle" /\ status \in AdmissibleStatus
    /\ tick' = [at |-> "listed", seen |-> status]
    /\ UNCHANGED <<status, gated, attempt, attempts, answer, latest, unparked, decider, approved, owed, revisions>>

\* Defect for the checks: a MODIFY is as good as an APPROVE.
OnlyRejects(says) == says = "REJECT"

\* MODIFY sends the work back as REJECT does.
TurnsDown(says) == says \in {"REJECT", "MODIFY"}

CheckApproval ==
    /\ tick.at = "listed"
    /\ \/ /\ Open # {} /\ tick' = [tick EXCEPT !.at = "human"] /\ UNCHANGED answer
       \/ /\ Open = {} /\ latest # NoApproval /\ TurnsDown(answer[latest])
          /\ tick' = [tick EXCEPT !.at = "block"] /\ UNCHANGED answer
       \/ /\ Open = {} /\ gated /\ latest = NoApproval
          /\ \E a \in Unused : CreateApproval(a)
          /\ tick' = [tick EXCEPT !.at = "human"]
       \/ /\ Open = {}
          /\ IF latest = NoApproval THEN ~gated ELSE ~TurnsDown(answer[latest])
          /\ tick' = [tick EXCEPT !.at = "pass"] /\ UNCHANGED answer
    /\ UNCHANGED <<status, gated, attempt, attempts, latest, unparked, decider, approved, owed, revisions>>

ParkTask ==
    /\ tick.at \in {"human", "block"}
    /\ Move(IF tick.at = "human" THEN "WAIT_HUMAN" ELSE "BLOCKED")
    /\ tick' = NoTick
    /\ UNCHANGED <<gated, attempt, attempts, answer, latest, unparked, decider, approved, owed, revisions>>

\* What the row reads once a task that was parked is back in the queue.
Requeued == IF tick.seen = "QUEUED" THEN status ELSE "QUEUED"

\* A task parked before is requeued first, which may be refused and end the pass;
\* one with an attempt in flight is parked; another gets an attempt.
DispatchTask ==
    /\ tick.at = "pass"
    /\ \/ /\ tick.seen # "QUEUED" /\ ~MayTransition(status, "QUEUED", "none")
          /\ tick' = NoTick
          /\ UNCHANGED <<status, attempt, attempts>>
       \/ /\ tick.seen # "QUEUED" => MayTransition(status, "QUEUED", "none")
          /\ attempt = "live"
          /\ status' = IF MayTransition(Requeued, "WAIT_RUNTIME", "none") THEN "WAIT_RUNTIME" ELSE status
          /\ tick' = NoTick
          /\ UNCHANGED <<attempt, attempts>>
       \/ /\ tick.seen # "QUEUED" => MayTransition(status, "QUEUED", "none")
          /\ attempt # "live" /\ attempts < MaxAttempts
          /\ attempts' = attempts + 1 /\ attempt' = "live" /\ status' = Requeued
          /\ tick' = [tick EXCEPT !.at = "handing"]
    /\ UNCHANGED <<gated, answer, latest, unparked, decider, approved, owed, revisions>>

\* The run may have asked, been answered or ended before its handoff is on record:
\* then the record is refused and the pass dies.
HandoffReturns ==
    /\ tick.at = "handing" /\ tick' = NoTick
    /\ \/ /\ IF attempt = "live" THEN Move("DISPATCHED") ELSE UNCHANGED status
          /\ UNCHANGED attempt
       \/ /\ attempt = "live" /\ attempt' = "failed" /\ Move("WAIT_RUNTIME")
    /\ UNCHANGED <<gated, attempts, answer, latest, unparked, decider, approved, owed, revisions>>

------------------------------------------------------------------------------
(* The run, and operators *)

\* The outcome is the execution's whatever the task does; the task follows only
\* where the state machine lets it.
EndRun(outcome) ==
    /\ attempt = "live" /\ attempt' = outcome
    /\ Move(IF outcome = "done" THEN "COMPLETE" ELSE "BLOCKED")
    /\ owed' = (owed /\ (outcome = "done" => tick.at = "handing"))
    /\ UNCHANGED <<gated, attempts, answer, latest, unparked, decider, tick, approved, revisions>>

\* createRevision, through RESUMABLE from BLOCKED.
ReviseTask ==
    /\ revisions < MaxRevisions /\ revisions' = revisions + 1
    /\ status = "BLOCKED" \/ MayTransition(status, "QUEUED", "revision")
    /\ status' = "QUEUED" /\ owed' = TRUE
    /\ UNCHANGED <<gated, attempt, attempts, answer, latest, unparked, decider, tick, approved>>

CancelTask ==
    /\ MayTransition(status, "CANCELLED", "none") /\ status' = "CANCELLED"
    /\ UNCHANGED <<gated, attempt, attempts, answer, latest, unparked, decider, tick, approved, owed, revisions>>

Admission == ListTask \/ CheckApproval \/ ParkTask \/ DispatchTask \/ HandoffReturns

ApprovalsNext ==
    \/ \E a \in Approval : RaiseApproval(a) \/ ParkForApproval(a)
    \/ \E d \in Decider : \/ \E a \in Approval, says \in Decision : BeginDecide(d, a, says)
                          \/ WriteDecision(d) \/ MoveDecided(d)
    \/ Admission
    \/ \E outcome \in {"done", "failed"} : EndRun(outcome)
    \/ ReviseTask \/ CancelTask

ApprovalsSpec == ApprovalsInit /\ [][ApprovalsNext]_apVars

------------------------------------------------------------------------------
(* Properties *)

\* An L3 task has no attempt before somebody has answered APPROVE, whoever else
\* answers, revises or asks meanwhile. (checkApproval, decide)
NothingUnapprovedRuns == gated /\ attempts > 0 => approved

\* An approval given in mid-turn resumes the run; work that has completed once its
\* handoff was on record is not handed off again unless it was asked for again.
\* Does not hold: see README.
ApprovalResumesTheRun == [][attempts' > attempts => owed]_apVars

\* A task whose last decision turned it down can still be carried forward by a
\* revision.  Does not hold: see README.
RevisionCarriesForward ==
    [][status = "QUEUED" /\ status' = "BLOCKED" => revisions = 0]_apVars
==============================================================================
