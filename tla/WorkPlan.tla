------------------------------ MODULE WorkPlan -------------------------------
(***************************************************************************)
(* How requests become tasks, and in what order those run: the checklist   *)
(* of docs/tasks.md, plans that break a request into phases, the edges     *)
(* between their tasks, and admission's first gate, which reads them.      *)
(*                                                                         *)
(* The requests are chains of statements and overlap; each task is created *)
(* with its edges in one transaction.  An attempt ends in the step that    *)
(* ends it, and the gates after the first always pass.                     *)
(***************************************************************************)
EXTENDS Integers, Sequences, FiniteSets, FiniteSetsExt
LOCAL INSTANCE TaskLifecycle

CONSTANTS
    Piece,          \* items of the checklist, and phases of a plan, by position
    After,          \* the earlier ones each must follow
    Lightweight,    \* how many phases a lightweight plan keeps
    Planner,        \* requests that are served at once
    MaxTasks, MaxRequests, MaxPlanOps, MaxDocEdits, MaxPlanTroubles     \* bounds

ASSUME PlanAssumption ==
    /\ IsFiniteSet(Piece) /\ Piece = 1..Cardinality(Piece) /\ Piece # {}
    /\ After \in [Piece -> SUBSET Piece] /\ \A p \in Piece : \A q \in After[p] : q < p
    /\ Lightweight \in Piece
ASSUME PlanBounds == {MaxTasks, MaxRequests, MaxPlanOps, MaxDocEdits, MaxPlanTroubles} \subseteq Nat

VARIABLES
    doc,            \* docs/tasks.md
    rows,           \* the tasks, in the order of their creation
    planner,        \* the request each handler is serving
    look,           \* the task admission is at
    finished,       \* tasks that have been COMPLETE
    requests, planOps, docEdits, planTroubles

planVars == <<doc, rows, planner, look, finished, requests, planOps, docEdits, planTroubles>>
planCounts == <<requests, planOps, docEdits, planTroubles>>

------------------------------------------------------------------------------
Task == 1..MaxTasks
Known == DOMAIN rows
Documents == [Piece -> {"absent", "open", "registered", "done"}]

\* row: listed, hidden by a soft delete, or gone.  follows: its edges when it was
\* created.  ran: it has an execution.
TaskRow == [status : TaskStatus, row : {"listed", "hidden", "gone"}, piece : Piece \cup {0},
            kind : {"task", "doc", "plan", "work"}, parent : Task \cup {0},
            deps : SUBSET Task, follows : SUBSET Task, ran : BOOLEAN]

\* todo: pieces to create; made: the task of each piece; due: tasks to queue, both
\* of them in their order.
Errand == [at : {"free", "creating", "queueing", "marking"}, kind : {"task", "doc", "plan", "work"},
           read : Documents, todo : SUBSET (Piece \cup {0}), made : [Piece -> Task \cup {0}],
           due : SUBSET Task, parent : Task \cup {0}, immediate : BOOLEAN]

Idle == [at |-> "free", kind |-> "task", read |-> [p \in Piece |-> "absent"], todo |-> {},
         made |-> [p \in Piece |-> 0], due |-> {}, parent |-> 0, immediate |-> FALSE]

Glance == [at : {"idle", "seen"}, on : Task \cup {0}, seen : AdmissibleStatus, met : BOOLEAN]
NoLook == [at |-> "idle", on |-> 0, seen |-> "QUEUED", met |-> FALSE]

PlanTypeOK ==
    /\ doc \in Documents
    /\ rows \in Seq(TaskRow) /\ Len(rows) <= MaxTasks
    /\ \A t \in Known : rows[t].deps \subseteq rows[t].follows /\ \A d \in rows[t].follows : d < t
    /\ planner \in [Planner -> Errand]
    /\ \A h \in Planner : /\ \A p \in Piece : planner[h].made[p] <= Len(rows)
                          /\ planner[h].due \subseteq Known
    /\ look \in Glance /\ look.on <= Len(rows)
    /\ finished \subseteq Known
    /\ requests \in 0..MaxRequests /\ planOps \in 0..MaxPlanOps /\ docEdits \in 0..MaxDocEdits
    /\ planTroubles \in 0..MaxPlanTroubles

PlanInit ==
    /\ doc \in [Piece -> {"open", "absent"}] /\ rows = <<>>
    /\ planner = [h \in Planner |-> Idle] /\ look = NoLook /\ finished = {}
    /\ requests = 0 /\ planOps = 0 /\ docEdits = 0 /\ planTroubles = 0

Moved(t, to, reason) ==
    IF MayTransition(rows[t].status, to, reason) THEN [rows EXCEPT ![t].status = to] ELSE rows

\* What a request goes on to once it has nothing to create and nothing to queue.
Onward(r) ==
    CASE r.due # {}                                    -> [r EXCEPT !.at = "queueing"]
      [] r.due = {} /\ r.todo # {}                     -> [r EXCEPT !.at = "creating"]
      [] r.due = {} /\ r.todo = {} /\ r.kind = "doc"   -> [r EXCEPT !.at = "marking"]
      [] OTHER                                         -> Idle

------------------------------------------------------------------------------
(* Requests *)

Arrives(h) ==
    /\ planner[h].at = "free" /\ requests < MaxRequests /\ requests' = requests + 1
    /\ UNCHANGED <<doc, rows, look, finished, planOps, docEdits, planTroubles>>

OpenItems(d) == {p \in Piece : d[p] = "open"}

\* "Daftarkan" reads the document and leaves what is marked or done alone.
BeginRegister(h, immediate) ==
    /\ Arrives(h) /\ OpenItems(doc) # {}
    /\ planner' = [planner EXCEPT ![h] = [Idle EXCEPT !.at = "creating", !.kind = "doc", !.read = doc,
                                           !.todo = OpenItems(doc), !.immediate = immediate]]

\* A single task, which the request may hold or have broken down.
BeginTask(h) ==
    /\ Arrives(h)
    /\ planner' = [planner EXCEPT ![h] = [Idle EXCEPT !.at = "creating", !.todo = {0}]]

\* DOC, as PREPARE, TASK and Slack's CREATE do, makes one task and queues it.
BeginDoc(h) ==
    /\ Arrives(h)
    /\ planner' = [planner EXCEPT ![h] = [Idle EXCEPT !.at = "creating", !.todo = {0},
                                           !.immediate = TRUE]]

Phases == {1..n : n \in {Lightweight, Cardinality(Piece)}}

Children(t) == {c \in Known : rows[c].parent = t /\ rows[c].row = "listed"}

\* decomposeParent leaves a parent with children as it is.
BeginDecompose(h, t) ==
    /\ Arrives(h) /\ rows[t].row # "gone" /\ Children(t) = {}
    /\ \E phases \in Phases :
          planner' = [planner EXCEPT ![h] = [Idle EXCEPT !.at = "creating", !.kind = "plan",
                                              !.todo = phases, !.parent = t]]

\* WORK finds a Brain and a worker for every phase before it creates any.
BeginWork(h) ==
    /\ Arrives(h)
    /\ planner' = [planner EXCEPT ![h] = [Idle EXCEPT !.at = "creating", !.kind = "work",
                                           !.todo = Piece]]

------------------------------------------------------------------------------
Depends(r, p) == IF p = 0 THEN {} ELSE {r.made[q] : q \in After[p]} \ {0}

NewRow(r, p) ==
    [status |-> "CREATED", row |-> "listed", piece |-> p, kind |-> r.kind, parent |-> r.parent,
     deps |-> Depends(r, p), follows |-> Depends(r, p), ran |-> FALSE]

\* What a request queues once it has created t, the last of table: an item as it
\* goes, when it was asked to; at the end every phase of a parent, and of a WORK
\* the phases that follow none.
DueAfter(r, t, table) ==
    LET all == {r.made[p] : p \in Piece} \ {0} IN
    CASE r.kind = "doc"                   -> IF r.immediate THEN {t} ELSE {}
      [] r.kind = "plan" /\ r.todo = {}   -> all
      [] r.kind = "work" /\ r.todo = {}   -> {c \in all : table[c].follows = {}}
      [] OTHER                            -> {}

\* What becomes of a single task t: it is held, queued, or broken down at once.
Intake(r, t) ==
    {Onward([r EXCEPT !.due = {t}])} \cup
    (IF r.immediate THEN {}
     ELSE {Idle} \cup {[r EXCEPT !.kind = "plan", !.todo = phases, !.parent = t] : phases \in Phases})

\* tasks.create writes the row and its edges in one transaction; an edge to a row
\* that is gone, or a parent that is, is refused, and with it the request.
CreateNext(h) ==
    LET r == planner[h]
        p == Min(r.todo)
        t == Len(rows) + 1
        table == Append(rows, NewRow(r, p))
        then == [r EXCEPT !.todo = @ \ {p}, !.made = IF p = 0 THEN @ ELSE [@ EXCEPT ![p] = t]] IN
    /\ r.at = "creating" /\ t <= MaxTasks
    /\ IF \E d \in Depends(r, p) \cup ({r.parent} \ {0}) : rows[d].row = "gone"
       THEN rows' = rows /\ planner' = [planner EXCEPT ![h] = Idle]
       ELSE /\ rows' = table
            /\ \/ /\ p # 0
                  /\ planner' = [planner EXCEPT ![h] = Onward([then EXCEPT !.due = DueAfter(then, t, table)])]
               \/ p = 0 /\ \E next \in Intake(then, t) : planner' = [planner EXCEPT ![h] = next]
    /\ UNCHANGED <<doc, look, finished, planCounts>>

\* An error ends the request where it is and leaves what it has created.
RequestFails(h) ==
    /\ planner[h].at \in {"creating", "queueing"}
    /\ planTroubles < MaxPlanTroubles /\ planTroubles' = planTroubles + 1
    /\ planner' = [planner EXCEPT ![h] = Idle]
    /\ UNCHANGED <<doc, rows, look, finished, requests, planOps, docEdits>>

\* So does a task that may not be queued any more.
QueueNext(h) ==
    LET r == planner[h]
        t == Min(r.due) IN
    /\ r.at = "queueing"
    /\ IF rows[t].row # "gone" /\ MayTransition(rows[t].status, "QUEUED", "none")
       THEN /\ rows' = Moved(t, "QUEUED", "none")
            /\ planner' = [planner EXCEPT ![h] = Onward([r EXCEPT !.due = @ \ {t}])]
       ELSE /\ rows' = rows
            /\ planner' = [planner EXCEPT ![h] = Idle]
    /\ UNCHANGED <<doc, look, finished, planCounts>>

\* Defect for the checks: every open item of the document as it is by now.
MarkedAfresh(r) == [p \in Piece |-> IF doc[p] = "open" THEN "registered" ELSE doc[p]]

\* markRegistered: the document that was read, with what was created marked.
Marked(r) == [p \in Piece |-> IF r.read[p] = "open" /\ r.made[p] # 0 THEN "registered" ELSE r.read[p]]

\* The write may fail, which is a warning.
MarkDocument(h) ==
    /\ planner[h].at = "marking"
    /\ doc' \in {doc, Marked(planner[h])}
    /\ planner' = [planner EXCEPT ![h] = Idle]
    /\ UNCHANGED <<rows, look, finished, planCounts>>

ControllerStops ==
    /\ planTroubles < MaxPlanTroubles /\ planTroubles' = planTroubles + 1
    /\ planner' = [h \in Planner |-> Idle] /\ look' = NoLook
    /\ UNCHANGED <<doc, rows, finished, requests, planOps, docEdits>>

------------------------------------------------------------------------------
(* Admission, and the run *)

\* Defect for the checks: a predecessor that was called off holds nobody up.
OverAndDone(t) == {d \in rows[t].deps : rows[d].status \notin {"COMPLETE", "CANCELLED"}}

Unmet(t) == {d \in rows[t].deps : rows[d].status # "COMPLETE"}

CheckDependencies(t) ==
    /\ look = NoLook /\ rows[t].row = "listed" /\ rows[t].status \in AdmissibleStatus
    /\ look' = [at |-> "seen", on |-> t, seen |-> rows[t].status, met |-> Unmet(t) = {}]
    /\ UNCHANGED <<doc, rows, planner, finished, planCounts>>

\* A parked task is queued again before it is handed off; a move that has become
\* illegal ends the pass, and one after the handoff leaves the task where it is.
Admit ==
    LET t == look.on
        again == IF look.seen = "QUEUED" THEN rows ELSE Moved(t, "QUEUED", "none") IN
    /\ look.on # 0 /\ look' = NoLook
    /\ CASE rows[t].row = "gone" -> UNCHANGED rows
         [] rows[t].row # "gone" /\ ~look.met -> rows' = Moved(t, "WAIT_DEP", "none")
         [] OTHER ->
              IF look.seen # "QUEUED" /\ ~MayTransition(rows[t].status, "QUEUED", "none")
              THEN UNCHANGED rows
              ELSE rows' = [again EXCEPT ![t].ran = TRUE,
                                         ![t].status = IF MayTransition(@, "DISPATCHED", "none")
                                                       THEN "DISPATCHED" ELSE @]
    /\ UNCHANGED <<doc, planner, finished, planCounts>>

RunEnds(t, to) ==
    /\ rows[t].status = "DISPATCHED" /\ rows' = Moved(t, to, "none")
    /\ \/ to = "COMPLETE" /\ finished' = finished \cup {t} /\ UNCHANGED planTroubles
       \/ /\ to = "BLOCKED" /\ UNCHANGED finished
          /\ planTroubles < MaxPlanTroubles /\ planTroubles' = planTroubles + 1
    /\ UNCHANGED <<doc, planner, look, requests, planOps, docEdits>>

------------------------------------------------------------------------------
(* Operators, and whoever edits the document *)

Operates == planOps < MaxPlanOps /\ planOps' = planOps + 1

StartHeld(t) ==
    /\ Operates /\ rows[t].row # "gone" /\ rows[t].status = "CREATED"
    /\ rows' = Moved(t, "QUEUED", "none")
    /\ UNCHANGED <<doc, planner, look, finished, requests, docEdits, planTroubles>>

CancelPiece(t) ==
    /\ Operates /\ rows[t].row # "gone" /\ rows[t].status # "CANCELLED"
    /\ MayTransition(rows[t].status, "CANCELLED", "none") /\ rows' = Moved(t, "CANCELLED", "none")
    /\ UNCHANGED <<doc, planner, look, finished, requests, docEdits, planTroubles>>

\* createRevision looks no further than the row, hidden or not.
RevisePiece(t) ==
    /\ Operates /\ rows[t].row # "gone"
    /\ rows[t].status = "BLOCKED" \/ MayTransition(rows[t].status, "QUEUED", "revision")
    /\ rows' = [rows EXCEPT ![t].status = "QUEUED"]
    /\ UNCHANGED <<doc, planner, look, finished, requests, docEdits, planTroubles>>

\* DELETE and purge.  The edges go both ways; a row with executions is hidden, and
\* one that children name is kept by its foreign key, which undoes it all.
DeleteTask(t) ==
    /\ Operates /\ rows[t].row = "listed"
    /\ rows[t].status \in {"CREATED", "CANCELLED", "COMPLETE", "FAILED"}
    /\ rows[t].ran \/ \A c \in Known : rows[c].parent = t => rows[c].row = "gone"
    /\ rows' = [c \in Known |->
                  IF c = t THEN [rows[c] EXCEPT !.deps = {}, !.row = IF rows[t].ran THEN "hidden" ELSE "gone"]
                  ELSE [rows[c] EXCEPT !.deps = @ \ {t}]]
    /\ UNCHANGED <<doc, planner, look, finished, requests, docEdits, planTroubles>>

\* An item is added, taken out or ticked off.
EditDocument(p) ==
    /\ docEdits < MaxDocEdits /\ docEdits' = docEdits + 1
    /\ \/ doc[p] = "absent" /\ doc' = [doc EXCEPT ![p] = "open"]
       \/ doc[p] = "open" /\ doc' = [doc EXCEPT ![p] = "absent"]
       \/ doc[p] \in {"open", "registered"} /\ doc' = [doc EXCEPT ![p] = "done"]
    /\ UNCHANGED <<rows, planner, look, finished, requests, planOps, planTroubles>>

Request(h) ==
    \/ \E immediate \in BOOLEAN : BeginRegister(h, immediate)
    \/ BeginTask(h) \/ BeginDoc(h) \/ BeginWork(h)
    \/ \E t \in Known : BeginDecompose(h, t)
    \/ CreateNext(h) \/ RequestFails(h) \/ QueueNext(h) \/ MarkDocument(h)

PlanNext ==
    \/ \E h \in Planner : Request(h)
    \/ ControllerStops
    \/ Admit
    \/ \E t \in Known : \/ CheckDependencies(t)
                        \/ \E to \in {"COMPLETE", "BLOCKED"} : RunEnds(t, to)
                        \/ StartHeld(t) \/ CancelPiece(t) \/ RevisePiece(t) \/ DeleteTask(t)
    \/ \E p \in Piece : EditDocument(p)

PlanSpec == PlanInit /\ [][PlanNext]_planVars

------------------------------------------------------------------------------
(* Properties *)

\* No task has an attempt before each task it was created to follow has completed
\* or been deleted, whatever was cancelled, revised or deleted on the way.
\* (checkDependencies, tasks.create, tasks.delete)
PhasesInOrder ==
    \A t \in Known : rows[t].ran =>
        \A d \in rows[t].follows : d \in finished \/ rows[d].row # "listed"

\* An item the document shows as registered has been made a task, though requests
\* overlap, fail half way and write over each other. (registerTasksFromDoc)
MarksAreHonest ==
    \A p \in Piece : doc[p] = "registered" =>
        \E t \in Known : rows[t].piece = p /\ rows[t].kind = "doc"

\* An item does not start before the item it depends on has.  Does not hold: see README.
ChecklistInOrder ==
    \A t, d \in Known : rows[t].kind = "doc" /\ rows[d].kind = "doc" /\ rows[t].ran
        /\ rows[d].piece \in After[rows[t].piece] /\ rows[d].row = "listed" /\ d < t => d \in finished

\* An item is registered once.  Does not hold: see README.
ItemsOnce ==
    \A t, d \in Known : rows[t].kind = "doc" /\ rows[d].kind = "doc"
        /\ rows[t].piece = rows[d].piece => t = d

\* A task that was broken down never runs beside its phases.  Does not hold: see README.
ParentRests == \A t \in Known : rows[t].ran => Children(t) = {}

\* Deleting a task forecloses its revision.  Does not hold: see README.
DeletedStaysSo == \A t \in Known : rows[t].row = "hidden" => rows[t].status # "QUEUED"
==============================================================================
