------------------------- MODULE CommandDeskProofs --------------------------
(* A destructive command runs once for its question, in time, for any number *)
(* of people, handlers, commands and restarts.                               *)
EXTENDS CommandDesk, TLAPS
LOCAL INSTANCE TaskLifecycle

\* A question as the argument needs it: how often it ran is not bounded beforehand.
Posed == [by : Person, verb : Destructive, ids : IdList, at : Nat, stands : BOOLEAN, runs : Nat]

\* What a handler holds fits what it is about to do.
Fits(r) ==
    /\ r.at \in {"asking", "reading", "striking"} => r.rest # <<>>
    /\ r.at \in {"known", "asking"} => r.by \in Person
    /\ r.at = "known" /\ r.says \in Verb => r.ids \in IdList
    /\ r.at = "asking" => r.ids \in IdList /\ r.says \in Destructive

LinesOK ==
    /\ state \in [Target -> TaskStatus]
    /\ line \in [Line -> Serving]
    /\ \A c \in Line : Fits(line[c])

\* What a person may still answer is theirs, stands, and has not run.
QuestionsOK ==
    /\ minute \in Nat
    /\ asked \in Seq(Posed)
    /\ pendingConfirm \in [Person -> 0..Len(asked)]
    /\ \A p \in Person : LET q == pendingConfirm[p] IN
          q # 0 => asked[q].by = p /\ asked[q].stands /\ asked[q].runs = 0

CommandIInv == LinesOK /\ QuestionsOK

LEMMA SequenceOf ==
  ASSUME NEW S, NEW n \in Nat, NEW f \in [1..n -> S]
  PROVE  f \in Seq(S) /\ Len(f) = n
  OBVIOUS

LEMMA TailTyped ==
  ASSUME NEW ids \in Seq(Target), Len(ids) > 1
  PROVE  Tail(ids) \in Seq(Target) /\ Tail(ids) # <<>>
<1>1. ids # <<>>
  OBVIOUS
<1>2. Tail(ids) \in Seq(Target) /\ Len(Tail(ids)) = Len(ids) - 1
  BY <1>1
<1>3. Len(<<>>) = 0 /\ Len(Tail(ids)) # 0
  BY <1>2
<1> QED BY <1>2, <1>3

LEMMA NotServingTyped == NotServing \in Serving /\ NotServing.at = "idle" /\ Fits(NotServing)
  BY DEF NotServing, Fits, Serving, Verb, Destructive, TaskStatus, WaitingStatus

LEMMA CommandInit == CommandsInit => CommandIInv
<1> SUFFICES ASSUME CommandsInit PROVE CommandIInv
  OBVIOUS
<1>1. state \in [Target -> TaskStatus]
  BY DEF CommandsInit, TaskStatus
<1>2. line \in [Line -> Serving] /\ \A c \in Line : line[c].at = "idle"
  BY NotServingTyped DEF CommandsInit
<1>3. QuestionsOK
  BY DEF CommandsInit, QuestionsOK
<1> QED BY <1>1, <1>2, <1>3 DEF CommandIInv, LinesOK, Fits

\* A handler that goes on to carry out a command has ids to carry it out on.
LEMMA ActingTyped ==
  ASSUME NEW r \in Serving, NEW verb \in Verb, NEW ids \in IdList
  PROVE  /\ Acting(r, verb, ids) \in Serving
         /\ Fits(Acting(r, verb, ids))
<1>1. ids \in Seq(Target) /\ ids # <<>>
  BY DeskAssumption
<1>2. Ids(verb, ids) \in Seq(Target) /\ Ids(verb, ids) # <<>>
  BY <1>1 DEF Ids
<1> HIDE DEF Ids
<1> QED BY <1>1, <1>2 DEF Acting, Serving, Fits

LEMMA ServeKeeps ==
  ASSUME LinesOK, NEW c \in Line, NEW r \in Serving, Fits(r), Serve(c, r),
         state' \in [Target -> TaskStatus]
  PROVE  LinesOK'
<1>1. line' = [line EXCEPT ![c] = r]
  BY DEF Serve
<1>2. line' \in [Line -> Serving]
  BY <1>1 DEF LinesOK
<1>3. \A b \in Line : Fits(line'[b])
  BY <1>1 DEF LinesOK
<1> QED BY <1>2, <1>3 DEF LinesOK, Fits

\* setStatus and createRevision keep the table's type.
LEMMA PutTyped ==
  ASSUME state \in [Target -> TaskStatus], NEW t \in Target, NEW to \in TaskStatus,
         NEW reason, Put(t, to, reason)
  PROVE  state' \in [Target -> TaskStatus]
  BY DEF Put

LEMMA ReviseTyped ==
  ASSUME state \in [Target -> TaskStatus], NEW t \in Target, Revise(t)
  PROVE  state' \in [Target -> TaskStatus]
<1>1. "QUEUED" \in TaskStatus
  BY DEF TaskStatus
<1> QED BY <1>1, PutTyped DEF Revise

\* A handler that has one id less to see to.
LEMMA DoneTyped ==
  ASSUME NEW r \in Serving, r.rest # <<>>
  PROVE  Len(r.rest) > 1 => /\ [r EXCEPT !.at = "reading", !.rest = Tail(@)] \in Serving
                            /\ Fits([r EXCEPT !.at = "reading", !.rest = Tail(@)])
<1> SUFFICES ASSUME Len(r.rest) > 1
             PROVE  /\ [r EXCEPT !.at = "reading", !.rest = Tail(@)] \in Serving
                    /\ Fits([r EXCEPT !.at = "reading", !.rest = Tail(@)])
  OBVIOUS
<1>1. r.rest \in Seq(Target)
  BY DEF Serving
<1>2. Tail(r.rest) \in Seq(Target) /\ Tail(r.rest) # <<>>
  BY <1>1
<1> DEFINE rest == Tail(r.rest)
<1> HIDE DEF rest
<1>3. [r EXCEPT !.at = "reading", !.rest = rest] \in Serving
  BY <1>2 DEF rest, Serving
<1> QED BY <1>2, <1>3 DEF rest, Serving, Fits

LEMMA DoneKeeps ==
  ASSUME LinesOK, NEW c \in Line, line[c].rest # <<>>, Done(c), state' \in [Target -> TaskStatus]
  PROVE  LinesOK'
<1>1. line[c] \in Serving
  BY DEF LinesOK
<1>2. CASE Len(line[c].rest) > 1
  BY <1>1, <1>2, DoneTyped, ServeKeeps DEF Done
<1>3. CASE ~(Len(line[c].rest) > 1)
  BY <1>3, NotServingTyped, ServeKeeps DEF Done
<1> QED BY <1>2, <1>3

\* Every step keeps what the handlers hold in order.
LEMMA LinesStep == CommandIInv /\ [CommandsNext]_deskVars => LinesOK'
<1> SUFFICES ASSUME CommandIInv, [CommandsNext]_deskVars PROVE LinesOK'
  OBVIOUS
<1>0. LinesOK /\ QuestionsOK /\ state \in [Target -> TaskStatus] /\ \A c \in Line : line[c] \in Serving /\ Fits(line[c])
  BY DEF CommandIInv, LinesOK
<1>1. ASSUME NEW c \in Line, NEW p \in Person, NEW word \in {"yes", "ok", "no"}, Answer(c, p, word)
      PROVE  LinesOK'
  <2> DEFINE reader == role[p] = "readonly"
             r == [NotServing EXCEPT !.at = "known", !.by = p, !.readOnly = reader, !.says = word]
  <2>0. reader \in BOOLEAN
    OBVIOUS
  <2> HIDE DEF reader
  <2>1. r \in Serving /\ Fits(r)
    BY <2>0, NotServingTyped DEF Serving, Fits, Verb, Destructive
  <2>2. Serve(c, r) /\ state' = state
    BY <1>1 DEF Answer, Heard, deskTasks, reader
  <2> HIDE DEF r
  <2> QED BY <1>0, <2>1, <2>2, ServeKeeps
<1>2. ASSUME NEW c \in Line, NEW p \in Person, NEW verb \in Verb, NEW ids \in IdList,
             Command(c, p, verb, ids)
      PROVE  LinesOK'
  <2> DEFINE reader == role[p] = "readonly"
             r == [NotServing EXCEPT !.at = "known", !.by = p, !.readOnly = reader,
                                     !.says = verb, !.ids = ids]
  <2>0. ids \in Seq(Target) /\ reader \in BOOLEAN
    BY DeskAssumption
  <2> HIDE DEF reader
  <2>1. r \in Serving /\ Fits(r)
    BY <2>0, NotServingTyped DEF Serving, Fits, Verb, Destructive
  <2>2. Serve(c, r) /\ state' = state
    BY <1>2 DEF Command, Heard, deskTasks, reader
  <2> HIDE DEF r
  <2> QED BY <1>0, <2>1, <2>2, ServeKeeps
<1>3. ASSUME NEW c \in Line, NEW verb \in Verb, NEW ids \in IdList, ControlPage(c, verb, ids)
      PROVE  LinesOK'
  BY <1>0, <1>3, NotServingTyped, ActingTyped, ServeKeeps DEF ControlPage, Heard, deskTasks
<1>4. ASSUME NEW c \in Line, Confirm(c) PROVE LinesOK'
  <2> DEFINE q == asked[pendingConfirm[line[c].by]]
  <2>1. state' = state
    BY <1>4 DEF Confirm, deskTasks
  <2>2. CASE Fresh(line[c].by)
    <3>1. line[c].by \in Person
      BY <1>0, <1>4 DEF Confirm, Fits
    <3>2. q \in Posed
      BY <1>0, <2>2, <3>1 DEF QuestionsOK, Fresh
    <3>3. q.verb \in Verb /\ q.ids \in IdList
      BY <3>2 DEF Posed, Verb
    <3>4. Serve(c, Acting(line[c], q.verb, q.ids))
      BY <1>4, <2>2 DEF Confirm
    <3> HIDE DEF q
    <3> QED BY <1>0, <2>1, <3>3, <3>4, ActingTyped, ServeKeeps
  <2>3. CASE ~Fresh(line[c].by)
    BY <1>0, <1>4, <2>1, <2>3, NotServingTyped, ServeKeeps DEF Confirm
  <2> QED BY <2>2, <2>3
<1>5. ASSUME NEW c \in Line, Refuse(c) PROVE LinesOK'
  BY <1>0, <1>5, NotServingTyped, ServeKeeps DEF Refuse, deskTasks
<1>6. ASSUME NEW c \in Line, Parse(c) PROVE LinesOK'
  <2> DEFINE r == line[c]
  <2>1. state' = state
    BY <1>6 DEF Parse, deskTasks
  <2>2. CASE r.says = "ok" \/ r.readOnly
    BY <1>0, <1>6, <2>1, <2>2, NotServingTyped, ServeKeeps DEF Parse
  <2>3. CASE ~(r.says = "ok" \/ r.readOnly) /\ r.says \in Destructive
    <3> DEFINE s == [r EXCEPT !.at = "asking", !.rest = r.ids]
    <3>1. Serve(c, s)
      BY <1>6, <2>3 DEF Parse
    <3>2. r.by \in Person /\ r.ids \in IdList /\ r \in Serving
      BY <1>0, <1>6, <2>3 DEF Parse, Fits, Verb
    <3>3. r.ids \in Seq(Target) /\ r.ids # <<>>
      BY <3>2, DeskAssumption
    <3> HIDE DEF r
    <3>4. s \in Serving /\ Fits(s)
      BY <2>3, <3>2, <3>3 DEF Serving, Fits
    <3> HIDE DEF s
    <3> QED BY <1>0, <2>1, <3>1, <3>4, ServeKeeps
  <2>4. CASE ~(r.says = "ok" \/ r.readOnly) /\ r.says \notin Destructive
    <3>1. Serve(c, Acting(r, r.says, r.ids))
      BY <1>6, <2>4 DEF Parse
    <3>2. r.says \in Verb /\ r.ids \in IdList /\ r \in Serving
      BY <1>0, <1>6, <2>4 DEF Parse, Fits
    <3> QED BY <1>0, <2>1, <3>1, <3>2, ActingTyped, ServeKeeps
  <2> QED BY <2>2, <2>3, <2>4
<1>7. ASSUME NEW c \in Line, AskNext(c) PROVE LinesOK'
  <2> DEFINE r == line[c]
  <2>1. state' = state
    BY <1>7 DEF AskNext, deskTasks
  <2>2. CASE Len(r.rest) > 1
    <3> DEFINE found == r.found \/ state[Head(r.rest)] \notin {"COMPLETE", "CANCELLED"}
               s == [r EXCEPT !.rest = Tail(@), !.found = found]
    <3>1. Serve(c, s)
      BY <1>7, <2>2 DEF AskNext
    <3>2. r \in Serving /\ r.rest \in Seq(Target) /\ r.by \in Person /\ r.ids \in IdList
          /\ r.says \in Destructive /\ r.at = "asking"
      BY <1>0, <1>7 DEF AskNext, Fits, Serving
    <3>3. Tail(r.rest) \in Seq(Target) /\ Tail(r.rest) # <<>>
      BY <2>2, <3>2, TailTyped
    <3>4. found \in BOOLEAN
      BY Zenon
    <3> HIDE DEF r, found
    <3>5. s \in Serving /\ Fits(s)
      BY <3>2, <3>3, <3>4 DEF Serving, Fits
    <3> HIDE DEF s
    <3> QED BY <1>0, <2>1, <3>1, <3>5, ServeKeeps
  <2>3. CASE ~(Len(r.rest) > 1)
    BY <1>0, <1>7, <2>1, <2>3, NotServingTyped, ServeKeeps DEF AskNext
  <2> QED BY <2>2, <2>3
<1>8. ASSUME NEW c \in Line, ReadTarget(c) PROVE LinesOK'
  <2> DEFINE r == line[c]
             t == Head(r.rest)
             s == [r EXCEPT !.at = "striking", !.seen = state[t]]
  <2>1. state' = state
    BY <1>8 DEF ReadTarget
  <2>2. r \in Serving /\ r.rest # <<>> /\ t \in Target
    BY <1>0, <1>8 DEF ReadTarget, Fits, Serving
  <2>3. CASE Done(c)
    BY <1>0, <2>1, <2>2, <2>3, DoneKeeps
  <2>4. CASE Serve(c, s)
    <3>1. state[t] \in TaskStatus
      BY <1>0, <2>2
    <3> HIDE DEF r, t
    <3>2. s \in Serving /\ Fits(s)
      BY <2>2, <3>1 DEF Serving, Fits
    <3> HIDE DEF s
    <3> QED BY <1>0, <2>1, <2>4, <3>2, ServeKeeps
  <2> QED BY <1>8, <2>3, <2>4 DEF ReadTarget
<1>9. ASSUME NEW c \in Line, MoveTarget(c) PROVE LinesOK'
  <2> DEFINE t == Head(line[c].rest)
  <2>1. line[c].rest # <<>> /\ t \in Target
    BY <1>0, <1>9 DEF MoveTarget, Fits, Serving
  <2>2. Done(c) \/ Serve(c, NotServing)
    BY <1>9 DEF MoveTarget, RunAgain
  <2>3. {"CANCELLED", "BLOCKED", "QUEUED"} \subseteq TaskStatus
    BY DEF TaskStatus
  <2>4. \/ Put(t, "CANCELLED", "none") \/ Put(t, "BLOCKED", "none") \/ Put(t, "QUEUED", "none")
        \/ Revise(t) \/ state' = state
    BY <1>9 DEF MoveTarget, RunAgain
  <2> HIDE DEF t
  <2>5. state' \in [Target -> TaskStatus]
    BY <1>0, <2>1, <2>3, <2>4, PutTyped, ReviseTyped
  <2> QED BY <1>0, <2>1, <2>2, <2>5, NotServingTyped, DoneKeeps, ServeKeeps
<1>10. ASSUME NEW t \in Target, TaskStirs(t) \/ TextSurface(t) PROVE LinesOK'
  <2>1. {"DISPATCHED", "COMPLETE", "CANCELLED", "QUEUED"} \subseteq TaskStatus
    BY DEF TaskStatus
  <2>2. state' \in [Target -> TaskStatus]
    BY <1>0, <1>10, <2>1, PutTyped, ReviseTyped DEF TaskStirs, TextSurface
  <2>3. line' = line
    BY <1>10 DEF TaskStirs, TextSurface
  <2> QED BY <1>0, <2>2, <2>3 DEF LinesOK, Fits
<1>11. CASE DeskRestarts
  <2>1. state' = state /\ line' = [c \in Line |-> NotServing]
    BY <1>11 DEF DeskRestarts, deskTasks
  <2> QED BY <1>0, <2>1, NotServingTyped DEF LinesOK, Fits
<1>12. ASSUME state' = state, line' = line PROVE LinesOK'
  BY <1>0, <1>12 DEF LinesOK, Fits
<1>13. ASSUME NEW p \in Person, Enrol(p) PROVE LinesOK'
  BY <1>12, <1>13 DEF Enrol, deskTasks
<1>14. CASE TimePasses \/ UNCHANGED deskVars
  BY <1>12, <1>14 DEF TimePasses, deskVars, deskTasks
<1> QED
  BY <1>1, <1>2, <1>3, <1>4, <1>5, <1>6, <1>7, <1>8, <1>9, <1>10, <1>11, <1>13, <1>14
  DEF CommandsNext, ServeLine

\* An answer takes the person's question away, whatever it is.
LEMMA ForgottenKeeps ==
  ASSUME QuestionsOK, NEW p \in Person, NEW ran \in {0, 1}, Forgotten(p, ran), minute' = minute
  PROVE  /\ QuestionsOK'
         /\ DOMAIN asked' = DOMAIN asked
         /\ \A q \in DOMAIN asked : asked'[q].runs # asked[q].runs => q = pendingConfirm[p] /\ ran = 1
<1> DEFINE o == pendingConfirm[p]
<1>1. /\ pendingConfirm' = [pendingConfirm EXCEPT ![p] = 0]
      /\ asked' = [q \in DOMAIN asked |-> IF q # o THEN asked[q]
                                          ELSE [asked[q] EXCEPT !.stands = FALSE, !.runs = @ + ran]]
  BY DEF Forgotten
<1>2. /\ DOMAIN asked = 1..Len(asked) /\ Len(asked) \in Nat
      /\ \A q \in DOMAIN asked : asked[q] \in Posed
      /\ pendingConfirm \in [Person -> 0..Len(asked)]
      /\ minute \in Nat
  BY DEF QuestionsOK
<1>3. \A e \in Person : pendingConfirm[e] # 0 =>
         /\ asked[pendingConfirm[e]].by = e /\ asked[pendingConfirm[e]].stands
         /\ asked[pendingConfirm[e]].runs = 0
  BY DEF QuestionsOK
<1> HIDE DEF o
<1>4. DOMAIN asked' = DOMAIN asked
  BY <1>1
<1>5. \A q \in DOMAIN asked : q # o => asked'[q] = asked[q]
  BY <1>1
<1>6. \A q \in DOMAIN asked : asked'[q] \in Posed
  <2>1. SUFFICES ASSUME NEW q \in DOMAIN asked, q = o PROVE asked'[q] \in Posed
    BY <1>2, <1>5
  <2> DEFINE x == asked[q].runs + ran
  <2>2. asked'[q] = [asked[q] EXCEPT !.stands = FALSE, !.runs = x]
    BY <1>1, <2>1
  <2>3. x \in Nat /\ asked[q] \in Posed
    BY <1>2, <2>1 DEF Posed
  <2> HIDE DEF x
  <2> QED BY <2>2, <2>3 DEF Posed
<1>7. \A q \in DOMAIN asked : ran = 0 => asked'[q].runs = asked[q].runs
  <2>1. SUFFICES ASSUME NEW q \in DOMAIN asked, q = o, ran = 0 PROVE asked'[q].runs = asked[q].runs
    BY <1>5
  <2>2. asked'[q] = [asked[q] EXCEPT !.stands = FALSE, !.runs = @ + 0]
    BY <1>1, <2>1
  <2> QED BY <1>2, <2>2 DEF Posed
<1>8. asked' \in Seq(Posed) /\ Len(asked') = Len(asked)
  <2>1. asked' = [q \in 1..Len(asked) |-> asked'[q]]
    BY <1>1, <1>2
  <2>2. \A q \in 1..Len(asked) : asked'[q] \in Posed
    BY <1>2, <1>6
  <2>3. asked' \in [1..Len(asked) -> Posed]
    BY <2>1, <2>2, Zenon
  <2>4. Len(asked) \in Nat
    BY <1>2
  <2>5. \A f \in [1..Len(asked) -> Posed] : f \in Seq(Posed) /\ Len(f) = Len(asked)
    BY <2>4, SequenceOf
  <2> QED BY <2>3, <2>5
<1>9. pendingConfirm' \in [Person -> 0..Len(asked')] /\ minute' \in Nat
  <2> DEFINE N == 0..Len(asked)
  <2>0. 0 \in N /\ pendingConfirm \in [Person -> N]
    BY <1>2
  <2> HIDE DEF N
  <2>1. pendingConfirm' \in [Person -> N]
    BY <1>1, <2>0
  <2> QED BY <1>2, <1>8, <2>1 DEF N
<1>10. ASSUME NEW e \in Person, pendingConfirm'[e] # 0
       PROVE  LET q == pendingConfirm'[e] IN asked'[q].by = e /\ asked'[q].stands /\ asked'[q].runs = 0
  <2>1. e # p /\ pendingConfirm'[e] = pendingConfirm[e]
    BY <1>1, <1>2, <1>10
  <2>2. pendingConfirm[e] # o
    <3>1. SUFFICES ASSUME pendingConfirm[e] = o PROVE FALSE
      OBVIOUS
    <3>2. pendingConfirm[p] # 0 /\ asked[pendingConfirm[p]].by = p /\ asked[pendingConfirm[p]].by = e
      BY <1>3, <1>10, <2>1, <3>1 DEF o
    <3> QED BY <2>1, <3>2
  <2>3. pendingConfirm[e] \in DOMAIN asked
    BY <1>2, <1>10, <2>1
  <2> QED BY <1>3, <1>5, <1>10, <2>1, <2>2, <2>3
<1>11. QuestionsOK'
  BY <1>8, <1>9, <1>10 DEF QuestionsOK
<1> QED BY <1>4, <1>5, <1>7, <1>11 DEF o

\* A question that is put drops the person's earlier one.
LEMMA AskKeeps ==
  ASSUME LinesOK, QuestionsOK, NEW c \in Line, AskNext(c)
  PROVE  /\ QuestionsOK'
         /\ \A q \in DOMAIN asked : asked'[q].runs = asked[q].runs
<1> DEFINE r == line[c]
           p == line[c].by
           kept == [q \in DOMAIN asked |->
                      IF asked[q].by = p THEN [asked[q] EXCEPT !.stands = FALSE] ELSE asked[q]]
           new == [by |-> p, verb |-> r.says, ids |-> r.ids, at |-> minute, stands |-> TRUE, runs |-> 0]
<1>1. minute' = minute
  BY DEF AskNext, deskCounts
<1>2. CASE asked' = asked /\ pendingConfirm' = pendingConfirm
  BY <1>1, <1>2 DEF QuestionsOK
<1>3. CASE /\ pendingConfirm' = [pendingConfirm EXCEPT ![p] = Len(asked) + 1]
           /\ asked' = Append(kept, new)
  <2>1. p \in Person /\ new \in Posed
    BY DEF AskNext, LinesOK, Fits, Posed, QuestionsOK
  <2>2. \A q \in DOMAIN asked : asked[q] \in Posed
    BY DEF QuestionsOK
  <2>3. \A q \in DOMAIN asked : /\ kept[q] \in Posed /\ kept[q].runs = asked[q].runs
                                /\ asked[q].by # p => kept[q] = asked[q]
    BY <2>2 DEF Posed
  <2>4. DOMAIN asked = 1..Len(asked) /\ Len(asked) \in Nat
    BY DEF QuestionsOK
  <2>5. kept \in Seq(Posed) /\ Len(kept) = Len(asked)
    <3>1. kept = [q \in 1..Len(asked) |-> kept[q]]
      BY <2>4
    <3> HIDE DEF kept
    <3> QED BY <2>3, <2>4, <3>1
  <2> HIDE DEF kept, new
  <2>6. /\ asked' \in Seq(Posed) /\ Len(asked') = Len(asked) + 1
        /\ asked'[Len(asked) + 1] = new /\ \A q \in 1..Len(asked) : asked'[q] = kept[q]
    BY <1>3, <2>1, <2>5
  <2>7. pendingConfirm' \in [Person -> 0..Len(asked')]
    BY <1>3, <2>1, <2>4, <2>6 DEF QuestionsOK
  <2>8. ASSUME NEW e \in Person, pendingConfirm'[e] # 0
        PROVE  LET q == pendingConfirm'[e] IN asked'[q].by = e /\ asked'[q].stands /\ asked'[q].runs = 0
    <3>1. CASE e = p
      BY <1>3, <2>1, <2>6, <3>1 DEF new, QuestionsOK
    <3>2. CASE e # p
      <4>1. pendingConfirm'[e] = pendingConfirm[e] /\ pendingConfirm[e] \in 1..Len(asked)
        BY <1>3, <2>8, <3>2 DEF QuestionsOK
      <4>2. asked[pendingConfirm[e]].by = e /\ asked[pendingConfirm[e]].stands
            /\ asked[pendingConfirm[e]].runs = 0
        BY <4>1 DEF QuestionsOK
      <4> QED BY <2>3, <2>4, <2>6, <3>2, <4>1, <4>2
    <3> QED BY <3>1, <3>2
  <2>9. \A q \in DOMAIN asked : asked'[q].runs = asked[q].runs
    BY <2>3, <2>4, <2>6
  <2>10. minute' \in Nat
    BY <1>1 DEF QuestionsOK
  <2> QED BY <2>6, <2>7, <2>8, <2>9, <2>10 DEF QuestionsOK
<1> QED BY <1>2, <1>3 DEF AskNext

\* What a step may do to the questions: only an answer in time counts a run.
InTime == \A q \in DOMAIN asked : asked'[q].runs # asked[q].runs =>
             asked[q].runs = 0 /\ asked[q].stands /\ minute <= asked[q].at + TtlTicks

LEMMA QuestionsStep == CommandIInv /\ [CommandsNext]_deskVars => QuestionsOK' /\ InTime
<1> SUFFICES ASSUME CommandIInv, [CommandsNext]_deskVars PROVE QuestionsOK' /\ InTime
  OBVIOUS
<1>0. LinesOK /\ QuestionsOK
  BY DEF CommandIInv
<1>1. ASSUME NEW c \in Line, Confirm(c) PROVE QuestionsOK' /\ InTime
  <2> DEFINE p == line[c].by
  <2>1. p \in Person /\ minute' = minute
    BY <1>0, <1>1 DEF Confirm, LinesOK, Fits, deskCounts
  <2>2. CASE Fresh(p)
    <3>1. Forgotten(p, 1)
      BY <1>1, <2>2 DEF Confirm
    <3>2. /\ asked[pendingConfirm[p]].stands /\ asked[pendingConfirm[p]].runs = 0
          /\ minute <= asked[pendingConfirm[p]].at + TtlTicks
      BY <1>0, <2>1, <2>2 DEF Fresh, QuestionsOK
    <3> HIDE DEF p
    <3> QED BY <1>0, <2>1, <3>1, <3>2, ForgottenKeeps DEF InTime
  <2>3. CASE ~Fresh(p)
    <3>1. Forgotten(p, 0)
      BY <1>1, <2>3 DEF Confirm
    <3> HIDE DEF p
    <3> QED BY <1>0, <2>1, <3>1, ForgottenKeeps DEF InTime
  <2> QED BY <2>2, <2>3
<1>2. ASSUME NEW c \in Line, Refuse(c) PROVE QuestionsOK' /\ InTime
  <2>1. line[c].by \in Person /\ minute' = minute /\ Forgotten(line[c].by, 0)
    BY <1>0, <1>2 DEF Refuse, LinesOK, Fits, deskCounts
  <2> QED BY <1>0, <2>1, ForgottenKeeps DEF InTime
<1>3. ASSUME NEW c \in Line, AskNext(c) PROVE QuestionsOK' /\ InTime
  BY <1>0, <1>3, AskKeeps DEF InTime
<1>4. CASE DeskRestarts
  <2>1. /\ pendingConfirm' = [p \in Person |-> 0] /\ minute' = minute
        /\ asked' = [q \in DOMAIN asked |-> [asked[q] EXCEPT !.stands = FALSE]]
    BY <1>4 DEF DeskRestarts
  <2>2. \A q \in DOMAIN asked : asked[q] \in Posed
    BY <1>0 DEF QuestionsOK
  <2>3. \A q \in DOMAIN asked : asked'[q] \in Posed /\ asked'[q].runs = asked[q].runs
    BY <2>1, <2>2 DEF Posed
  <2>4. asked' \in Seq(Posed) /\ Len(asked') = Len(asked)
    <3>1. asked' = [q \in 1..Len(asked) |-> asked'[q]]
      BY <1>0, <2>1 DEF QuestionsOK
    <3>2. DOMAIN asked = 1..Len(asked) /\ Len(asked) \in Nat
      BY <1>0 DEF QuestionsOK
    <3> QED BY <2>3, <3>1, <3>2
  <2>5. pendingConfirm' \in [Person -> 0..Len(asked')] /\ \A p \in Person : pendingConfirm'[p] = 0
    BY <1>0, <2>1, <2>4 DEF QuestionsOK
  <2> QED BY <1>0, <2>1, <2>3, <2>4, <2>5 DEF QuestionsOK, InTime
<1>5. ASSUME UNCHANGED <<asked, pendingConfirm>>, minute' \in Nat PROVE QuestionsOK' /\ InTime
  BY <1>0, <1>5 DEF QuestionsOK, InTime
<1>6. minute \in Nat
  BY <1>0 DEF QuestionsOK
<1>7. ASSUME NEW c \in Line,
             \/ \E p \in Person : \/ \E word \in {"yes", "ok", "no"} : Answer(c, p, word)
                                  \/ \E verb \in Verb, ids \in IdList : Command(c, p, verb, ids)
             \/ \E verb \in Verb, ids \in IdList : ControlPage(c, verb, ids)
      PROVE  QuestionsOK' /\ InTime
  BY <1>5, <1>6, <1>7 DEF Answer, Command, ControlPage, Heard
<1>8. ASSUME NEW c \in Line, Parse(c) \/ ReadTarget(c) \/ MoveTarget(c) PROVE QuestionsOK' /\ InTime
  BY <1>5, <1>6, <1>8 DEF Parse, ReadTarget, MoveTarget, deskCounts
<1>9. ASSUME NEW t \in Target, TaskStirs(t) \/ TextSurface(t) PROVE QuestionsOK' /\ InTime
  BY <1>5, <1>6, <1>9 DEF TaskStirs, TextSurface
<1>10. ASSUME NEW p \in Person, Enrol(p) PROVE QuestionsOK' /\ InTime
  BY <1>5, <1>6, <1>10 DEF Enrol
<1>11. CASE TimePasses
  BY <1>5, <1>6, <1>11 DEF TimePasses
<1>12. CASE UNCHANGED deskVars
  BY <1>5, <1>6, <1>12 DEF deskVars, deskCounts
<1> QED
  BY <1>1, <1>2, <1>3, <1>4, <1>7, <1>8, <1>9, <1>10, <1>11, <1>12 DEF CommandsNext, ServeLine

\* What the answers rest on, as one invariant.
THEOREM CommandInductive == CommandsSpec => []CommandIInv
<1>1. CommandIInv /\ [CommandsNext]_deskVars => CommandIInv'
  BY LinesStep, QuestionsStep DEF CommandIInv
<1> QED BY <1>1, CommandInit, PTL DEF CommandsSpec

\* However many answers people type at once, and whatever is asked, dropped or
\* forgotten meanwhile, a destructive command runs at most once for its question, in
\* its time and while it stands. (handleCommand)
THEOREM ConfirmedOnce == CommandsSpec => AnsweredOnceInTime
<1>1. CommandIInv /\ [CommandsNext]_deskVars => [InTime]_deskVars
  BY QuestionsStep
<1>2. InTime <=> \A q \in DOMAIN asked : asked'[q].runs # asked[q].runs =>
                    asked[q].runs = 0 /\ asked[q].stands /\ minute <= asked[q].at + TtlTicks
  BY DEF InTime
<1> HIDE DEF InTime
<1>3. CommandsSpec => [][InTime]_deskVars
  BY <1>1, CommandInductive, PTL DEF CommandsSpec
<1> QED BY <1>3 DEF AnsweredOnceInTime, InTime

-----------------------------------------------------------------------------
(* Types *)

\* What may become of a question that is on file, and what a new one says.
AskedOnward ==
    /\ Len(asked') <= MaxQuestions
    /\ \A q \in DOMAIN asked :
          /\ asked'[q].at = asked[q].at
          /\ asked'[q].runs = asked[q].runs \/ (asked'[q].runs = 1 /\ lines > 0)
    /\ \A q \in DOMAIN asked' \ DOMAIN asked : asked'[q].at = minute /\ asked'[q].runs = 0

\* The bounds: a question is put by the clock, and run by a command that came in.
BoundsOK ==
    /\ minute \in 0..LastTick /\ stirs \in 0..MaxStirs /\ lines \in 0..MaxLines
    /\ Len(asked) <= MaxQuestions
    /\ \A q \in DOMAIN asked :
          /\ asked[q].at \in 0..LastTick
          /\ asked[q].runs = 0 \/ (asked[q].runs = 1 /\ lines > 0)
    /\ \A c \in Line : line[c].at # "idle" => lines > 0

PeopleOK == alive \subseteq Target /\ role \in [Person -> {"none", "operator", "readonly"}]

LEMMA TypesSuffice == CommandIInv /\ BoundsOK /\ PeopleOK => CommandsTypeOK
<1> SUFFICES ASSUME CommandIInv, BoundsOK, PeopleOK PROVE CommandsTypeOK
  OBVIOUS
<1>0. LinesOK /\ QuestionsOK
  BY DEF CommandIInv
<1>1. asked \in Seq(Question)
  <2>1. asked \in Seq(Posed) /\ DOMAIN asked = 1..Len(asked) /\ Len(asked) \in Nat
    BY <1>0 DEF QuestionsOK
  <2>2. ASSUME NEW q \in DOMAIN asked PROVE asked[q] \in Question
    <3>1. asked[q] \in Posed
      BY <2>1, <2>2
    <3>2. asked[q].at \in 0..LastTick
      BY <2>2 DEF BoundsOK
    <3>3. asked[q].runs \in 0..MaxLines
      <4>1. /\ asked[q].runs = 0 \/ (asked[q].runs = 1 /\ lines > 0)
            /\ lines \in 0..MaxLines /\ MaxLines \in Nat
        BY <2>2, DeskAssumption DEF BoundsOK
      <4> QED BY <4>1
    <3> QED BY <3>1, <3>2, <3>3 DEF Posed, Question
  <2>3. asked = [q \in 1..Len(asked) |-> asked[q]]
    BY <2>1
  <2>4. asked \in [1..Len(asked) -> Question]
    BY <2>1, <2>2, <2>3, Zenon
  <2> QED BY <2>1, <2>4, SequenceOf
<1>2. minute <= LastTick /\ stirs <= MaxStirs /\ lines <= MaxLines /\ Len(asked) <= MaxQuestions
  BY DeskAssumption DEF BoundsOK
<1>3. /\ state \in [Target -> TaskStatus] /\ line \in [Line -> Serving]
      /\ pendingConfirm \in [Person -> 0..Len(asked)]
      /\ \A p \in Person : pendingConfirm[p] # 0 => asked[pendingConfirm[p]].by = p
  BY <1>0 DEF LinesOK, QuestionsOK
<1> QED BY <1>1, <1>2, <1>3 DEF PeopleOK, CommandsTypeOK

LEMMA PeopleStep == PeopleOK /\ LinesOK /\ [CommandsNext]_deskVars => PeopleOK'
<1> SUFFICES ASSUME PeopleOK, LinesOK, [CommandsNext]_deskVars PROVE PeopleOK'
  OBVIOUS
<1> USE DEF PeopleOK
<1>1. ASSUME NEW c \in Line, ReadTarget(c) PROVE PeopleOK'
  <2>1. alive' \subseteq alive
    BY <1>1 DEF ReadTarget
  <2> QED BY <1>1, <2>1 DEF ReadTarget
<1>2. ASSUME NEW c \in Line, ServeLine(c), ~ReadTarget(c) PROVE PeopleOK'
  BY <1>2 DEF ServeLine, Answer, Command, ControlPage, Heard, Confirm, Refuse, Parse, AskNext, MoveTarget, deskTasks
<1>3. ASSUME NEW t \in Target, TaskStirs(t) \/ TextSurface(t) PROVE PeopleOK'
  <2>1. alive' \subseteq alive \cup {t} /\ role' = role
    BY <1>3 DEF TaskStirs, TextSurface
  <2> QED BY <2>1
<1>4. ASSUME NEW p \in Person, Enrol(p) PROVE PeopleOK'
  BY <1>4 DEF Enrol, deskTasks
<1>5. CASE TimePasses \/ DeskRestarts \/ UNCHANGED deskVars
  BY <1>5 DEF TimePasses, DeskRestarts, deskVars, deskTasks
<1> QED BY <1>1, <1>2, <1>3, <1>4, <1>5 DEF CommandsNext

LEMMA AnswerOnward ==
  ASSUME QuestionsOK, BoundsOK, NEW p \in Person, NEW ran \in {0, 1}, Forgotten(p, ran), minute' = minute,
         lines > 0
  PROVE  AskedOnward
<1> DEFINE o == pendingConfirm[p]
<1>1. asked' = [q \in DOMAIN asked |-> IF q # o THEN asked[q]
                                       ELSE [asked[q] EXCEPT !.stands = FALSE, !.runs = @ + ran]]
  BY DEF Forgotten
<1>2. QuestionsOK' /\ DOMAIN asked' = DOMAIN asked
  BY ForgottenKeeps
<1>3. /\ asked \in Seq(Posed) /\ asked' \in Seq(Posed) /\ 0 \notin DOMAIN asked
      /\ o # 0 => asked[o].runs = 0
  BY <1>2 DEF QuestionsOK
<1>4. Len(asked') = Len(asked)
  BY <1>2, <1>3
<1> HIDE DEF o
<1>5. ASSUME NEW q \in DOMAIN asked
      PROVE  /\ asked'[q].at = asked[q].at
             /\ asked'[q].runs = asked[q].runs \/ asked'[q].runs = 1
  <2>1. asked[q] \in Posed
    BY <1>3, <1>5
  <2>2. CASE q # o
    BY <1>1, <1>5, <2>2
  <2>3. CASE q = o
    <3>1. asked[q].runs = 0
      BY <1>3, <1>5, <2>3
    <3>2. asked'[q] = [asked[q] EXCEPT !.stands = FALSE, !.runs = 0 + ran]
      BY <1>1, <1>5, <2>3, <3>1
    <3> QED BY <2>1, <3>1, <3>2 DEF Posed
  <2> QED BY <2>2, <2>3
<1> QED BY <1>2, <1>4, <1>5 DEF AskedOnward, BoundsOK

LEMMA AskOnward ==
  ASSUME LinesOK, QuestionsOK, BoundsOK, NEW c \in Line, AskNext(c)
  PROVE  AskedOnward
<1> DEFINE p == line[c].by
           kept == [q \in DOMAIN asked |->
                      IF asked[q].by = p THEN [asked[q] EXCEPT !.stands = FALSE] ELSE asked[q]]
<1>1. CASE asked' = asked
  BY <1>1 DEF AskedOnward, BoundsOK
<1>2. CASE /\ asked' = Append(kept, [by |-> p, verb |-> line[c].says, ids |-> line[c].ids, at |-> minute,
                                     stands |-> TRUE, runs |-> 0])
           /\ Len(asked) < MaxQuestions
  <2> DEFINE new == [by |-> p, verb |-> line[c].says, ids |-> line[c].ids, at |-> minute,
                     stands |-> TRUE, runs |-> 0]
  <2>1. \A q \in DOMAIN asked : kept[q].at = asked[q].at /\ kept[q].runs = asked[q].runs
    <3>1. \A q \in DOMAIN asked : asked[q] \in Posed
      BY DEF QuestionsOK
    <3> QED BY <3>1 DEF Posed
  <2>2. DOMAIN asked = 1..Len(asked) /\ Len(asked) \in Nat
    BY DEF QuestionsOK
  <2>3. kept = [q \in 1..Len(asked) |-> kept[q]]
    BY <2>2
  <2>4. new.at = minute /\ new.runs = 0
    OBVIOUS
  <2> HIDE DEF kept, new
  <2>5. kept \in Seq({kept[q] : q \in 1..Len(asked)}) /\ Len(kept) = Len(asked)
    <3>1. kept \in [1..Len(asked) -> {kept[q] : q \in 1..Len(asked)}]
      BY <2>3
    <3> QED BY <2>2, <3>1, SequenceOf
  <2>6. /\ asked' = Append(kept, new)
        /\ DOMAIN asked' = 1..(Len(asked) + 1) /\ Len(asked') = Len(asked) + 1
        /\ asked'[Len(asked) + 1] = new /\ \A q \in 1..Len(asked) : asked'[q] = kept[q]
    BY <1>2, <2>5 DEF new
  <2>7. Len(asked') <= MaxQuestions
    BY <1>2, <2>2, <2>6, DeskAssumption
  <2>8. DOMAIN asked' \ DOMAIN asked = {Len(asked) + 1}
    BY <2>2, <2>6
  <2> QED BY <2>1, <2>2, <2>4, <2>6, <2>7, <2>8 DEF AskedOnward
<1> QED BY <1>1, <1>2 DEF AskNext

\* The questions as they were.
LEMMA StandOnward == ASSUME BoundsOK, asked' = asked PROVE AskedOnward
  BY DEF AskedOnward, BoundsOK

LEMMA BoundsKept ==
  ASSUME BoundsOK, QuestionsOK, AskedOnward, minute' \in 0..LastTick, stirs' \in 0..MaxStirs, lines' \in 0..MaxLines,
         lines' >= lines, \A c \in Line : line'[c].at # "idle" => lines' > 0
  PROVE  BoundsOK'
<1>0. LastTick \in Nat /\ minute \in 0..LastTick /\ lines \in 0..MaxLines /\ MaxLines \in Nat
  BY DeskAssumption DEF BoundsOK
<1>1. ASSUME NEW q \in DOMAIN asked'
      PROVE  asked'[q].at \in 0..LastTick /\ (asked'[q].runs = 0 \/ (asked'[q].runs = 1 /\ lines' > 0))
  <2>1. lines > 0 => lines' > 0
    BY <1>0
  <2>2. CASE q \in DOMAIN asked
    BY <2>1, <2>2 DEF AskedOnward, BoundsOK
  <2>3. CASE q \notin DOMAIN asked
    BY <1>0, <1>1, <2>3 DEF AskedOnward
  <2> QED BY <2>2, <2>3
<1>2. Len(asked') <= MaxQuestions
  BY DEF AskedOnward
<1> QED BY <1>1, <1>2 DEF BoundsOK

LEMMA BoundsStep == BoundsOK /\ CommandIInv /\ [CommandsNext]_deskVars => BoundsOK'
<1> SUFFICES ASSUME BoundsOK, CommandIInv, [CommandsNext]_deskVars PROVE BoundsOK'
  OBVIOUS
<1>0. LinesOK /\ QuestionsOK
  BY DEF CommandIInv
<1>1. /\ minute \in 0..LastTick /\ stirs \in 0..MaxStirs /\ lines \in 0..MaxLines
      /\ LastTick \in Nat /\ MaxStirs \in Nat /\ MaxLines \in Nat /\ lines >= lines
      /\ \A c \in Line : line[c].at # "idle" => lines > 0
  BY DeskAssumption DEF BoundsOK
<1>2. ASSUME NEW c \in Line, Heard(c), NEW r, Serve(c, r) PROVE BoundsOK'
  <2>1. lines' = lines + 1 /\ lines < MaxLines /\ UNCHANGED <<asked, minute, stirs>>
    BY <1>2 DEF Heard
  <2>2. lines' \in 0..MaxLines /\ lines' >= lines /\ lines' > 0
    BY <1>1, <2>1
  <2>3. AskedOnward
    BY <2>1, StandOnward
  <2> QED BY <1>0, <1>1, <2>1, <2>2, <2>3, BoundsKept
<1>3. ASSUME NEW c \in Line, Serve(c, NotServing) \/ line[c].at # "idle",
             NEW r, Serve(c, r), AskedOnward, UNCHANGED deskCounts
      PROVE  BoundsOK'
  <2>1. UNCHANGED <<minute, stirs, lines>>
    BY <1>3 DEF deskCounts
  <2>2. \A b \in Line : line'[b].at # "idle" => lines > 0
    BY <1>0, <1>1, <1>3 DEF Serve, NotServing, LinesOK
  <2> QED BY <1>0, <1>1, <1>3, <2>1, <2>2, BoundsKept
<1>4. ASSUME NEW c \in Line, Confirm(c) \/ Refuse(c) PROVE BoundsOK'
  <2>1. line[c].at = "known" /\ line[c].by \in Person /\ UNCHANGED deskCounts
    BY <1>0, <1>4 DEF Confirm, Refuse, LinesOK, Fits
  <2>2. lines > 0 /\ minute' = minute
    BY <1>1, <2>1 DEF deskCounts
  <2>3. \E ran \in {0, 1} : Forgotten(line[c].by, ran)
    BY <1>4 DEF Confirm, Refuse
  <2>4. AskedOnward
    BY <1>0, <2>1, <2>2, <2>3, AnswerOnward
  <2>5. \E r : Serve(c, r)
    BY <1>4 DEF Confirm, Refuse
  <2> QED BY <1>3, <2>1, <2>4, <2>5
<1>5. ASSUME NEW c \in Line, AskNext(c) PROVE BoundsOK'
  <2>1. AskedOnward
    BY <1>0, <1>5, AskOnward
  <2>2. line[c].at # "idle" /\ (\E r : Serve(c, r)) /\ UNCHANGED deskCounts
    BY <1>5 DEF AskNext
  <2> QED BY <1>3, <2>1, <2>2
<1>6. ASSUME NEW c \in Line, Parse(c) \/ ReadTarget(c) \/ MoveTarget(c) PROVE BoundsOK'
  <2>1. AskedOnward
    BY <1>6, StandOnward DEF Parse, ReadTarget, MoveTarget
  <2>2. line[c].at # "idle" /\ UNCHANGED deskCounts
    BY <1>6 DEF Parse, ReadTarget, MoveTarget
  <2>3. \E r : Serve(c, r)
    BY <1>6 DEF Parse, ReadTarget, MoveTarget, RunAgain, Done
  <2> QED BY <1>3, <2>1, <2>2, <2>3
<1>7. ASSUME Stirs, UNCHANGED <<asked, line, minute, lines>> PROVE BoundsOK'
  <2>1. stirs' \in 0..MaxStirs
    BY <1>1, <1>7 DEF Stirs
  <2>2. AskedOnward
    BY <1>7, StandOnward
  <2> QED BY <1>0, <1>1, <1>7, <2>1, <2>2, BoundsKept
<1>8. ASSUME NEW t \in Target, TaskStirs(t) \/ TextSurface(t) PROVE BoundsOK'
  BY <1>7, <1>8 DEF TaskStirs, TextSurface
<1>9. ASSUME NEW p \in Person, Enrol(p) PROVE BoundsOK'
  BY <1>7, <1>9 DEF Enrol
<1>10. CASE TimePasses
  <2>1. minute' \in 0..LastTick /\ UNCHANGED <<asked, line, stirs, lines>>
    BY <1>1, <1>10 DEF TimePasses
  <2>2. AskedOnward
    BY <2>1, StandOnward
  <2> QED BY <1>0, <1>1, <2>1, <2>2, BoundsKept
<1>11. CASE DeskRestarts
  <2>1. stirs' \in 0..MaxStirs /\ UNCHANGED <<minute, lines>>
    BY <1>1, <1>11 DEF DeskRestarts, Stirs
  <2>2. \A c \in Line : line'[c].at = "idle"
    BY <1>11 DEF DeskRestarts, NotServing
  <2>3. asked' = [q \in DOMAIN asked |-> [asked[q] EXCEPT !.stands = FALSE]]
    BY <1>11 DEF DeskRestarts
  <2>4. \A q \in DOMAIN asked : asked[q] \in Posed
    BY <1>0 DEF QuestionsOK
  <2>5. \A q \in DOMAIN asked : asked'[q].at = asked[q].at /\ asked'[q].runs = asked[q].runs
    BY <2>3, <2>4 DEF Posed
  <2>6. DOMAIN asked' = DOMAIN asked /\ Len(asked') = Len(asked)
    <3>1. asked' \in Seq(Posed)
      BY <1>11, QuestionsStep DEF QuestionsOK, CommandsNext
    <3> QED BY <1>0, <2>3, <3>1 DEF QuestionsOK
  <2>7. AskedOnward
    BY <2>5, <2>6 DEF AskedOnward, BoundsOK
  <2> QED BY <1>0, <1>1, <2>1, <2>2, <2>7, BoundsKept
<1>12. CASE UNCHANGED deskVars
  BY <1>0, <1>1, <1>12, StandOnward, BoundsKept DEF deskVars, deskCounts
<1>13. ASSUME NEW c \in Line,
              \/ \E p \in Person : \/ \E word \in {"yes", "ok", "no"} : Answer(c, p, word)
                                   \/ \E verb \in Verb, ids \in IdList : Command(c, p, verb, ids)
              \/ \E verb \in Verb, ids \in IdList : ControlPage(c, verb, ids)
       PROVE  BoundsOK'
  BY <1>2, <1>13 DEF Answer, Command, ControlPage
<1> QED
  BY <1>4, <1>5, <1>6, <1>8, <1>9, <1>10, <1>11, <1>12, <1>13 DEF CommandsNext, ServeLine

LEMMA TypesStart == CommandsInit => BoundsOK /\ PeopleOK
  BY DeskAssumption DEF CommandsInit, BoundsOK, PeopleOK, NotServing

LEMMA CommandsKept ==
  ASSUME CommandIInv, BoundsOK, PeopleOK, [CommandsNext]_deskVars
  PROVE  CommandIInv' /\ BoundsOK' /\ PeopleOK'
<1>1. CommandIInv'
  BY LinesStep, QuestionsStep DEF CommandIInv
<1> QED BY <1>1, BoundsStep, PeopleStep DEF CommandIInv

\* What the handlers hold, the questions and their times are of their types: a question
\* is counted at most once, and by a command that came in.
THEOREM CommandsTyped == CommandsSpec => []CommandsTypeOK
<1>1. CommandsInit => CommandIInv /\ BoundsOK /\ PeopleOK
  BY CommandInit, TypesStart
<1>2. CommandIInv /\ BoundsOK /\ PeopleOK /\ [CommandsNext]_deskVars => (CommandIInv /\ BoundsOK /\ PeopleOK)'
  BY CommandsKept
<1> QED BY <1>1, <1>2, TypesSuffice, PTL DEF CommandsSpec
=============================================================================
