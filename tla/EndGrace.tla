------------------------------ MODULE EndGrace ------------------------------
(***************************************************************************)
(* The end frames of one run.  The gateway may report an abnormal end and  *)
(* correct it shortly after, so an abnormal verdict is held for a grace    *)
(* window in the memory of the process; a clean end and an abort are       *)
(* applied at once.  Applying reads the execution and writes it later, and *)
(* a final execution cannot be written again; reconciliation applies what  *)
(* describe says in the same two steps.                                    *)
(***************************************************************************)
EXTENDS Naturals, FiniteSets

CONSTANTS
    MaxFrames,      \* bound: end frames of the run
    MaxForgets      \* bound: restarts of the process

ASSUME EndGraceAssumption == MaxFrames \in Nat \ {0} /\ MaxForgets \in Nat

VARIABLES
    said,           \* verdict of each frame heard, in order
    held,           \* the frame pendingEnds holds, 0 for none
    timers,         \* frames whose grace timer is armed
    applying,       \* frames, and 0 for a describe, that found the execution open
    outcome,        \* whose verdict the execution carries
    superseded,     \* frames replaced while they were held
    forgets

graceVars == <<said, held, timers, applying, outcome, superseded, forgets>>

Frame == 1..MaxFrames
Described == 0
Undecided == MaxFrames + 1
HeardSoFar == {n \in Frame : said[n] # "silent"}

GraceTypeOK ==
    /\ said \in [Frame -> {"silent", "clean", "aborted", "abnormal"}]
    /\ held \in HeardSoFar \cup {0}
    /\ timers \subseteq HeardSoFar /\ superseded \subseteq HeardSoFar /\ applying \subseteq HeardSoFar \cup {Described}
    /\ outcome \in HeardSoFar \cup {Described, Undecided}
    /\ forgets \in 0..MaxForgets

GraceInit ==
    /\ said = [n \in Frame |-> "silent"] /\ held = 0 /\ timers = {} /\ applying = {}
    /\ outcome = Undecided /\ superseded = {} /\ forgets = 0

\* applyEnd's read: a frame that finds the execution final is dropped.
Finds(n) == IF outcome = Undecided THEN applying \cup {n} ELSE applying

\* Defect for the checks: the entry goes, its timer stays armed.
StillArmed == timers

\* clearTimeout of the frame that is held.
Disarmed == timers \ {held}

\* onLifecycleEnd: the newest frame takes the place of one still held.
HearEnd(n, verdict) ==
    /\ HeardSoFar = 1..(n - 1)
    /\ said' = [said EXCEPT ![n] = verdict]
    /\ superseded' = superseded \cup ({held} \ {0})
    /\ \/ /\ verdict \in {"clean", "aborted"}
          /\ held' = 0 /\ timers' = Disarmed /\ applying' = Finds(n)
       \/ /\ verdict = "abnormal"
          /\ held' = n /\ timers' = Disarmed \cup {n} /\ UNCHANGED applying
    /\ UNCHANGED <<outcome, forgets>>

GraceEnds(n) ==
    /\ n \in timers
    /\ held' = 0 /\ timers' = timers \ {n} /\ applying' = Finds(n)
    /\ UNCHANGED <<said, outcome, superseded, forgets>>

\* reconcileOnce lists the execution and its session reads "done".
DescribedDone ==
    /\ outcome = Undecided /\ applying' = Finds(Described)
    /\ UNCHANGED <<said, held, timers, outcome, superseded, forgets>>

\* The write: a final execution refuses it.
ApplyVerdict(n) ==
    /\ n \in applying
    /\ applying' = applying \ {n}
    /\ outcome' = IF outcome = Undecided THEN n ELSE outcome
    /\ UNCHANGED <<said, held, timers, superseded, forgets>>

\* A restart forgets what was held and what was being applied.
Forget ==
    /\ forgets < MaxForgets /\ forgets' = forgets + 1
    /\ held' = 0 /\ timers' = {} /\ applying' = {}
    /\ UNCHANGED <<said, outcome, superseded>>

GraceNext ==
    \/ \E n \in Frame : \/ \E verdict \in {"clean", "aborted", "abnormal"} : HearEnd(n, verdict)
                        \/ GraceEnds(n)
    \/ \E n \in Frame \cup {Described} : ApplyVerdict(n)
    \/ DescribedDone \/ Forget

GraceSpec == GraceInit /\ [][GraceNext]_graceVars

\* A verdict that was corrected inside its window never becomes the outcome, and one
\* that did become it was not being held any more. (onLifecycleEnd)
CorrectedEndCounts ==
    /\ outcome \notin superseded
    /\ outcome \in Frame => outcome # held /\ outcome \notin timers
=============================================================================
