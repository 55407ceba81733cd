---------------------------- MODULE TaskLifecycle ----------------------------
(***************************************************************************)
(* The two status vocabularies of the controller and the table of legal    *)
(* task transitions (src/domain/state-machine.mjs).  Constant-level: every *)
(* module that writes a task status goes through MayTransition.            *)
(***************************************************************************)

\* Statuses a parked task may wait in (WAITING_STATUSES).
WaitingStatus ==
    {"WAIT_DEP", "WAIT_HUMAN", "WAIT_WORKSPACE", "WAIT_RESOURCE", "WAIT_QUOTA",
     "WAIT_CONCURRENCY", "WAIT_WORKER", "WAIT_RUNTIME"}

\* Every status a task row may hold.
TaskStatus ==
    WaitingStatus \cup
    {"CREATED", "QUEUED", "DISPATCHED", "RUNNING", "COMPLETE", "BLOCKED",
     "FAILED", "RESUMABLE", "CANCELLED"}

\* Statuses admission considers on a tick.
AdmissibleStatus == {"QUEUED"} \cup WaitingStatus

\* The statuses reachable in one move from each status (TRANSITIONS).
Successors(s) ==
    CASE s = "CREATED"       -> {"QUEUED", "CANCELLED"}
      [] s = "QUEUED"        -> WaitingStatus \cup {"DISPATCHED", "BLOCKED", "CANCELLED"}
      [] s = "WAIT_HUMAN"    -> (WaitingStatus \ {s}) \cup
                                {"QUEUED", "DISPATCHED", "BLOCKED", "CANCELLED", "RUNNING"}
      [] s \in WaitingStatus \ {"WAIT_HUMAN"} ->
                                (WaitingStatus \ {s}) \cup
                                {"QUEUED", "DISPATCHED", "BLOCKED", "CANCELLED"}
      [] s = "DISPATCHED"    -> {"RUNNING", "COMPLETE", "WAIT_QUOTA", "WAIT_RESOURCE",
                                 "QUEUED", "BLOCKED", "FAILED", "CANCELLED"}
      [] s = "RUNNING"       -> {"WAIT_HUMAN", "COMPLETE", "QUEUED", "BLOCKED",
                                 "FAILED", "CANCELLED"}
      [] s = "BLOCKED"       -> {"RESUMABLE", "FAILED", "CANCELLED", "COMPLETE"}
      [] s = "RESUMABLE"     -> {"QUEUED", "CANCELLED"}
      [] s = "COMPLETE"      -> {"QUEUED"}
      [] s = "FAILED"        -> {"QUEUED", "CANCELLED"}
      [] s = "CANCELLED"     -> {}

CanTransition(from, to) == to \in Successors(from)

\* The marker a caller must pass for the two guarded ways back to the queue.
Reason == {"none", "revision", "auto-retry"}

AssertTransition(from, to, reason) ==
    /\ CanTransition(from, to)
    /\ from \in {"COMPLETE", "FAILED"} /\ to = "QUEUED" => reason = "revision"
    /\ from \in {"DISPATCHED", "RUNNING"} /\ to = "QUEUED" => reason = "auto-retry"

\* What tasks.setStatus accepts: rewriting the status a task already has is not
\* a transition, anything else must be a legal one.  FALSE means it throws.
MayTransition(from, to, reason) == from = to \/ AssertTransition(from, to, reason)

\* Statuses of one attempt.  "NONE" is a row that does not exist yet.
ExecutionStatus ==
    {"PENDING", "DISPATCHED", "RUNNING", "COMPLETE", "BLOCKED", "FAILED", "CANCELLED"}

\* Reaching one of these stamps finalized_at; BLOCKED deliberately does not.
ExecutionTerminal == {"COMPLETE", "FAILED", "CANCELLED"}
==============================================================================
