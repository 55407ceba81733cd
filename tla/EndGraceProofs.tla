--------------------------- MODULE EndGraceProofs ---------------------------
(* A verdict corrected inside its grace window is never recorded, for any    *)
(* number of frames and restarts.                                            *)
EXTENDS EndGrace, TLAPS

\* A timer is armed for the frame that is held and for no other, and a frame that
\* was superseded is out of every hand that could still write it.
GraceIInv ==
    /\ GraceTypeOK
    /\ timers = {held} \ {0}
    /\ held \in Frame => held \notin applying /\ outcome # held
    /\ outcome \notin superseded
    /\ superseded \cap applying = {}
    /\ held \notin superseded

LEMMA GraceInitInv == GraceInit => GraceIInv
  BY EndGraceAssumption DEF GraceInit, GraceIInv, GraceTypeOK, HeardSoFar, Frame, Described, Undecided

\* Hearing a frame adds it to what was heard and keeps the rest.
LEMMA HeardGrows ==
  ASSUME GraceIInv, NEW n \in Frame, NEW verdict \in {"clean", "aborted", "abnormal"},
         HearEnd(n, verdict)
  PROVE  /\ n \notin HeardSoFar
         /\ HeardSoFar' = HeardSoFar \cup {n}
  BY EndGraceAssumption DEF GraceIInv, GraceTypeOK, HearEnd, HeardSoFar, Frame

LEMMA GraceStep == GraceIInv /\ [GraceNext]_graceVars => GraceIInv'
<1> SUFFICES ASSUME GraceIInv, [GraceNext]_graceVars PROVE GraceIInv'
  OBVIOUS
<1> USE EndGraceAssumption DEF GraceIInv, GraceTypeOK, Frame, Described, Undecided
<1>1. ASSUME NEW n \in Frame, NEW verdict \in {"clean", "aborted", "abnormal"}, HearEnd(n, verdict)
      PROVE  GraceIInv'
  <2>1. n \notin HeardSoFar /\ HeardSoFar' = HeardSoFar \cup {n} /\ HeardSoFar \subseteq Frame
    BY <1>1, HeardGrows DEF HeardSoFar
  <2>2. said' \in [1..MaxFrames -> {"silent", "clean", "aborted", "abnormal"}]
    BY <1>1 DEF HearEnd
  <2>3. CASE verdict \in {"clean", "aborted"}
    <3>1. held' = 0 /\ timers' = {} /\ superseded' = superseded \cup ({held} \ {0})
      BY <1>1, <2>3 DEF HearEnd, Disarmed
    <3>2. applying' \subseteq applying \cup {n} /\ outcome' = outcome /\ forgets' = forgets
      BY <1>1, <2>3 DEF HearEnd, Finds
    <3>3. n # outcome /\ n # held /\ n \notin superseded
      BY <2>1 DEF HeardSoFar
    <3> QED BY <2>1, <2>2, <3>1, <3>2, <3>3
  <2>4. CASE verdict = "abnormal"
    <3>1. held' = n /\ timers' = {n} /\ superseded' = superseded \cup ({held} \ {0})
      BY <1>1, <2>4 DEF HearEnd, Disarmed
    <3>2. applying' = applying /\ outcome' = outcome /\ forgets' = forgets
      BY <1>1, <2>4 DEF HearEnd
    <3>3. n # outcome /\ n # held /\ n \notin superseded /\ n \notin applying /\ n # 0
      BY <2>1 DEF HeardSoFar
    <3> QED BY <2>1, <2>2, <3>1, <3>2, <3>3
  <2> QED BY <2>3, <2>4
<1>2. ASSUME NEW n \in Frame, GraceEnds(n) PROVE GraceIInv'
  BY <1>2 DEF GraceEnds, Finds, HeardSoFar
<1>3. ASSUME NEW n \in Frame \cup {Described}, ApplyVerdict(n) PROVE GraceIInv'
  BY <1>3 DEF ApplyVerdict, HeardSoFar
<1>4. CASE DescribedDone
  BY <1>4 DEF DescribedDone, Finds, HeardSoFar
<1>5. CASE Forget
  BY <1>5 DEF Forget, HeardSoFar
<1>6. CASE UNCHANGED graceVars
  BY <1>6 DEF graceVars, HeardSoFar
<1> QED BY <1>1, <1>2, <1>3, <1>4, <1>5, <1>6 DEF GraceNext

\* Types, the timers' bookkeeping and where superseded frames are, as one invariant.
THEOREM GraceInductive == GraceSpec => []GraceIInv
  BY GraceInitInv, GraceStep, PTL DEF GraceSpec

\* However many frames come and however often the process restarts, the outcome is
\* never a verdict that a newer frame replaced inside its window. (onLifecycleEnd)
THEOREM NewestEndRecorded == GraceSpec => []CorrectedEndCounts
<1>1. GraceIInv => CorrectedEndCounts
  BY DEF GraceIInv, CorrectedEndCounts, Frame
<1> QED BY <1>1, GraceInductive, PTL
=============================================================================
