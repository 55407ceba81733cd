----------------------------- MODULE PartsProofs -----------------------------
(***************************************************************************)
(* Proofs about three parts that do not meet: the connection to the        *)
(* gateway (GatewayLink), the fleet of agents with the dispatch of tasks   *)
(* to it (Fleet), and chat (ChatTurn with ChatPool).  The parts share no   *)
(* variable, and no lemma is about more than one of them; the last section *)
(* puts them, and the quotas, side by side.                                *)
(***************************************************************************)
EXTENDS MCParts, ModelQuotaProofs

-----------------------------------------------------------------------------
(* The connection *)

\* What is kept of the runs a socket carried: a frame that may still be refused
\* has its request id in dispatchedRuns, unless newer ones made it go, for its age or
\* its number; and whoever finds a handshake done finds a method, unless the gateway's
\* last greeting offered none.
FramesAreTracked == \A c \in Run : answer[c] # "none" => c \in Range(tracked) \cup aged \cup dropped
GreetingNamesMethod == hello => method \/ bare

\* The step of RunNamesItsMethod.
NamesMethod == Run \cap nulls' \subseteq nulls \/ bare

LinkIInv ==
    /\ LinkTypeOK
    /\ FramesAreTracked /\ GreetingNamesMethod
    /\ LateRefusalNamesItsRun

LEMMA ForgetKeepsOthers ==
    ASSUME NEW kept \in Seq(Run), NEW c
    PROVE  /\ Forget(kept, c) \in Seq(Run) /\ Len(Forget(kept, c)) <= Len(kept)
           /\ Range(kept) \ {c} \subseteq Range(Forget(kept, c))
<1>1. CASE c \notin Range(kept)
  BY <1>1 DEF Forget
<1>2. CASE c \in Range(kept)
  <2> DEFINE k == CHOOSE i \in DOMAIN kept : kept[i] = c
             rest == RemoveAt(kept, k)
  <2>1. k \in 1..Len(kept) /\ kept[k] = c
    BY <1>2 DEF Range
  <2>2. Forget(kept, c) = rest
    BY <1>2 DEF Forget
  <2> HIDE DEF k
  <2> DEFINE front == SubSeq(kept, 1, k - 1)
             back == SubSeq(kept, k + 1, Len(kept))
  <2>3. /\ front \in Seq(Run) /\ Len(front) = k - 1 /\ \A i \in 1..(k - 1) : front[i] = kept[i]
        /\ back \in Seq(Run) /\ Len(back) = Len(kept) - k
        /\ \A i \in 1..(Len(kept) - k) : back[i] = kept[k + i]
    BY <2>1, SMT
  <2>4. rest = front \o back
    BY DEF RemoveAt
  <2> HIDE DEF front, back, rest
  <2>5. rest \in Seq(Run) /\ Len(rest) = Len(kept) - 1
    BY <2>1, <2>3, <2>4
  <2>6. ASSUME NEW i \in 1..Len(kept), kept[i] # c
        PROVE  \E j \in 1..Len(rest) : rest[j] = kept[i]
    <3>1. CASE i < k
      <4>1. i \in 1..Len(rest) /\ rest[i] = kept[i]
        BY <2>1, <2>3, <2>4, <2>5, <3>1
      <4> QED
        BY <4>1
    <3>2. CASE i > k
      <4>1. i - k \in 1..(Len(kept) - k) /\ kept[k + (i - k)] = kept[i]
        BY <2>1, <3>2
      <4>2. back[i - k] = kept[i]
        BY <2>3, <4>1
      <4>3. i - 1 \in 1..Len(rest) /\ rest[i - 1] = back[i - k]
        BY <2>1, <2>3, <2>4, <2>5, <3>2
      <4> QED
        BY <4>2, <4>3
    <3> QED
      BY <2>1, <2>6, <3>1, <3>2
  <2>7. Range(kept) \ {c} \subseteq Range(rest)
    BY <2>5, <2>6 DEF Range
  <2> QED
    BY <2>2, <2>5, <2>7
<1> QED
  BY <1>1, <1>2

LEMMA AppendAddsLast ==
    ASSUME NEW kept \in Seq(Run), NEW c \in Run
    PROVE  /\ Append(kept, c) \in Seq(Run) /\ Len(Append(kept, c)) = Len(kept) + 1
           /\ Append(kept, c)[Len(kept) + 1] = c
OBVIOUS

LEMMA TrackTypes ==
    ASSUME LinkTypeOK, NEW c \in Caller, Track(c)
    PROVE  /\ tracked' \in Seq(Run) /\ Len(tracked') <= MaxTracked
           /\ aged' = aged /\ dropped' \subseteq Run /\ dropped \subseteq dropped'
           /\ Range(tracked) \cup aged \cup dropped \subseteq Range(tracked') \cup aged' \cup dropped'
           /\ c \in Run => c \in Range(tracked')
<1>1. CASE c \notin Run
  BY <1>1 DEF Track, trackVars, LinkTypeOK
<1>2. CASE c \in Run
  <2> PICK k \in 0..Len(tracked) : tracked' = Append(MakeRoom(SubSeq(tracked, k + 1, Len(tracked))), c)
    BY <1>2 DEF Track
  <2> DEFINE left == SubSeq(tracked, k + 1, Len(tracked))
             kept == MakeRoom(left)
  <2>1. left \in Seq(Run) /\ Len(left) <= MaxTracked
    BY TrackedAssumption DEF LinkTypeOK
  <2>2. tracked' = Append(kept, c) /\ aged' = aged
        /\ dropped' = dropped \cup (Range(tracked) \ (Range(tracked') \cup aged))
    BY <1>2 DEF Track
  <2> HIDE DEF left
  <2>3. kept \in Seq(Run) /\ Len(kept) < MaxTracked
    BY <2>1, TrackedAssumption DEF MakeRoom
  <2> HIDE DEF kept
  <2>4. tracked' \in Seq(Run) /\ Len(tracked') = Len(kept) + 1 /\ tracked'[Len(kept) + 1] = c
    <3>1. c \in Run /\ kept \in Seq(Run) /\ tracked' = Append(kept, c)
      BY <1>2, <2>2, <2>3
    <3>2. /\ Append(kept, c) \in Seq(Run) /\ Len(Append(kept, c)) = Len(kept) + 1
          /\ Append(kept, c)[Len(kept) + 1] = c
      BY <3>1, AppendAddsLast
    <3> QED
      BY <3>1, <3>2, Zenon
  <2>5. c \in Range(tracked')
    BY <2>3, <2>4 DEF Range
  <2>6. Range(tracked) \subseteq Run
    BY DEF Range, LinkTypeOK
  <2>7. dropped \subseteq Run /\ MaxTracked \in Nat /\ Len(kept) \in Nat
    BY <2>3, TrackedAssumption DEF LinkTypeOK
  <2>8. Len(tracked') <= MaxTracked
    BY <2>3, <2>4, <2>7
  <2> QED
    BY <2>2, <2>4, <2>5, <2>6, <2>7, <2>8
<1> QED
  BY <1>1, <1>2

LEMMA LinkStarts == LinkInit => LinkIInv
<1> SUFFICES ASSUME LinkInit PROVE LinkIInv
  OBVIOUS
<1>1. LinkTypeOK
  <2>1. tracked \in Seq(Run) /\ Len(tracked) <= MaxTracked
    BY TrackedAssumption DEF LinkInit
  <2>2. 0 \in 0..MaxTroubles
    BY TrackedAssumption
  <2> QED
    BY <2>1, <2>2 DEF LinkInit, LinkTypeOK, Unfinished
<1>2. FramesAreTracked /\ LateRefusalNamesItsRun
  BY DEF LinkInit, FramesAreTracked, LateRefusalNamesItsRun, Caller
<1>3. GreetingNamesMethod
  BY DEF LinkInit, GreetingNamesMethod
<1> QED
  BY <1>1, <1>2, <1>3 DEF LinkIInv

\* What SendOn writes, whichever caller and socket.
LEMMA SendOnKeeps ==
    ASSUME LinkIInv, NEW c \in Caller, NEW s \in Socket \cup {NoSocket}, NEW names \in BOOLEAN,
           SendOn(s, c, names), told' = told, c \in Run => names \/ bare
    PROVE  /\ pending' \subseteq Caller /\ nulls' \subseteq Caller /\ named' \subseteq Caller
           /\ place' \in [Caller -> Unfinished \cup {"idle", "resolved", "rejected"}]
           /\ on' \in [Caller -> Socket \cup {NoSocket}]
           /\ answer' \in [Caller -> {"none", "due", "accepted"}]
           /\ tracked' \in Seq(Run) /\ Len(tracked') <= MaxTracked
           /\ aged' \subseteq Run /\ dropped' \subseteq Run
           /\ FramesAreTracked' /\ LateRefusalNamesItsRun' /\ NamesMethod
<1> USE DEF LinkIInv
<1>1. /\ tracked' \in Seq(Run) /\ Len(tracked') <= MaxTracked
      /\ aged' = aged /\ dropped' \subseteq Run /\ dropped \subseteq dropped'
      /\ Range(tracked) \cup aged \cup dropped \subseteq Range(tracked') \cup aged' \cup dropped'
      /\ c \in Run => c \in Range(tracked')
  BY TrackTypes DEF SendOn
<1>2. pending' \subseteq Caller /\ nulls' \subseteq Caller /\ named' \subseteq Caller /\ NamesMethod
  BY DEF SendOn, NamesMethod, LinkTypeOK
<1>3. /\ place' \in [Caller -> Unfinished \cup {"idle", "resolved", "rejected"}]
      /\ on' \in [Caller -> Socket \cup {NoSocket}]
  <2>1. /\ place \in [Caller -> Unfinished \cup {"idle", "resolved", "rejected"}]
        /\ on \in [Caller -> Socket \cup {NoSocket}]
    BY DEF LinkTypeOK
  <2>2. \E how \in {"rejected", "waiting"} : place' = [place EXCEPT ![c] = how]
    BY DEF SendOn, Settle, GiveUp
  <2>3. \E z \in Socket \cup {NoSocket} : on' = [on EXCEPT ![c] = z]
    BY DEF SendOn, GiveUp
  <2> QED
    BY <2>1, <2>2, <2>3 DEF Unfinished
<1>4. /\ answer' \in [Caller -> {"none", "due", "accepted"}]
      /\ \A d \in Caller \ {c} : answer'[d] = answer[d]
  BY DEF SendOn, LinkTypeOK
<1>5. FramesAreTracked'
  BY <1>1, <1>4 DEF FramesAreTracked, Caller
<1>6. LateRefusalNamesItsRun'
  BY <1>1 DEF LateRefusalNamesItsRun
<1> QED
  BY <1>1, <1>2, <1>3, <1>4, <1>5, <1>6 DEF LinkTypeOK

\* What a step that sends nothing and hears no refusal must leave in place.
LEMMA QuietKeeps ==
    ASSUME LinkIInv, UNCHANGED <<nulls, trackVars, told>>,
           \A c \in Run : answer'[c] # "none" => answer[c] # "none"
    PROVE  FramesAreTracked' /\ LateRefusalNamesItsRun' /\ NamesMethod
BY DEF LinkIInv, FramesAreTracked, LateRefusalNamesItsRun, NamesMethod, trackVars

LEMMA TroubleTypes ==
    ASSUME LinkTypeOK, Trouble
    PROVE  troubles' \in 0..MaxTroubles
BY TrackedAssumption DEF Trouble, LinkTypeOK

\* Calls that begin, and the handshake.
LEMMA CallsKeep ==
    ASSUME LinkIInv, NEW c \in Caller, Call(c) \/ Handshake(c) \/ Fails(c)
    PROVE  LinkIInv' /\ NamesMethod
<1> USE DEF LinkIInv
<1>1. CASE SendAtOnce(c)
  <2> USE <1>1
  <2>1. SendOn(socket, c, method) /\ socket \in Socket \cup {NoSocket} /\ method \in BOOLEAN
        /\ told' = told /\ (c \in Run => method \/ bare)
    BY DEF SendAtOnce, Connected, GreetingNamesMethod, LinkTypeOK
  <2>2. UNCHANGED <<link, moduleVars, bare, told, subscribed, troubles>>
    BY DEF SendAtOnce
  <2>3. GreetingNamesMethod'
    BY <2>2 DEF moduleVars, GreetingNamesMethod
  <2>4. LinkTypeOK'
    <3>1. /\ pending' \subseteq Caller /\ nulls' \subseteq Caller /\ named' \subseteq Caller
          /\ place' \in [Caller -> Unfinished \cup {"idle", "resolved", "rejected"}]
          /\ on' \in [Caller -> Socket \cup {NoSocket}]
          /\ answer' \in [Caller -> {"none", "due", "accepted"}]
          /\ tracked' \in Seq(Run) /\ Len(tracked') <= MaxTracked
          /\ aged' \subseteq Run /\ dropped' \subseteq Run
      BY <2>1, SendOnKeeps
    <3> QED
      BY <2>2, <3>1 DEF LinkTypeOK, moduleVars
  <2> QED
    BY <2>1, <2>3, <2>4, SendOnKeeps
<1>2. CASE OpenSocket(c)
  <2> USE <1>2
  <2>1. LinkTypeOK'
    BY DEF OpenSocket, Takes, Reads, LinkTypeOK, Settle, trackVars, Unfinished
  <2>2. FramesAreTracked' /\ LateRefusalNamesItsRun' /\ NamesMethod
    BY QuietKeeps DEF OpenSocket
  <2>3. GreetingNamesMethod'
    BY DEF OpenSocket, GreetingNamesMethod
  <2> QED
    BY <2>1, <2>2, <2>3
<1>3. ASSUME NEW s \in Socket, HelloOk(c, s) PROVE LinkIInv' /\ NamesMethod
  <2> USE <1>3
  <2>1. hello' = TRUE /\ method' = TRUE /\ bare' = FALSE /\ UNCHANGED <<told, subscribed, troubles>>
        /\ GreetingNamesMethod'
    BY DEF HelloOk, Greets, GreetingNamesMethod
  <2>2. CASE ConnectsTwice(c)
    <3>1. UNCHANGED <<nulls, pending, trackVars, answer, told>> /\ named' = named \cup {c}
          /\ \E z \in Socket : link' = [link EXCEPT ![s] = "ready", ![z] = "opening"] /\ Takes(c, z)
      BY <2>2 DEF HelloOk, Reads
    <3> PICK z \in Socket : link' = [link EXCEPT ![s] = "ready", ![z] = "opening"] /\ Takes(c, z)
      BY <3>1
    <3>4. /\ link' \in [Socket -> {"none", "opening", "closing", "closed"} \cup Usable]
          /\ place' \in [Caller -> Unfinished \cup {"idle", "resolved", "rejected"}]
          /\ on' \in [Caller -> Socket \cup {NoSocket}] /\ socket' \in Socket
      BY DEF Takes, LinkTypeOK, Settle, Unfinished, Usable
    <3>2. LinkTypeOK'
      BY <2>1, <3>1, <3>4 DEF LinkTypeOK, trackVars
    <3>3. FramesAreTracked' /\ LateRefusalNamesItsRun' /\ NamesMethod
      BY <3>1, QuietKeeps
    <3> QED
      BY <2>1, <3>2, <3>3
  <2>3. CASE ~ConnectsTwice(c)
    <3> DEFINE names == c \in named \/ c \notin ChatRun
    <3>1. SendOn(socket, c, names) /\ socket \in Socket \cup {NoSocket}
          /\ names \in BOOLEAN /\ (c \in Run => names \/ bare)
      BY <2>3, CallersDiffer DEF HelloOk, LinkTypeOK
    <3> HIDE DEF names
    <3>2. link' \in [Socket -> {"none", "opening", "closing", "closed"} \cup Usable] /\ socket' = socket
      BY <2>3 DEF HelloOk, LinkTypeOK, Usable
    <3>3. /\ pending' \subseteq Caller /\ nulls' \subseteq Caller /\ named' \subseteq Caller
          /\ place' \in [Caller -> Unfinished \cup {"idle", "resolved", "rejected"}]
          /\ on' \in [Caller -> Socket \cup {NoSocket}]
          /\ answer' \in [Caller -> {"none", "due", "accepted"}]
          /\ tracked' \in Seq(Run) /\ Len(tracked') <= MaxTracked
          /\ aged' \subseteq Run /\ dropped' \subseteq Run
          /\ FramesAreTracked' /\ LateRefusalNamesItsRun' /\ NamesMethod
      BY <2>1, <3>1, SendOnKeeps
    <3>4. LinkTypeOK'
      BY <2>1, <3>2, <3>3 DEF LinkTypeOK
    <3> QED
      BY <2>1, <3>3, <3>4
  <2> QED
    BY <2>2, <2>3
<1>4. ASSUME NEW s \in Socket, HelloRefused(c, s) \/ HandshakeFails(c, s) \/ HelloBare(c, s)
      PROVE  LinkIInv' /\ NamesMethod
  <2> USE <1>4
  <2>1. troubles' \in 0..MaxTroubles
    BY TroubleTypes DEF HelloRefused, HandshakeFails, HelloBare, LinkTypeOK
  <2>2. /\ GaveUp(c) /\ socket' = socket /\ UNCHANGED <<told, subscribed>>
        /\ \/ hello' = hello /\ method' = method /\ bare' = bare
           \/ hello' = TRUE /\ method' = FALSE /\ bare' = TRUE
    BY DEF HelloRefused, HandshakeFails, HelloBare, Greets, moduleVars
  <2>3. link' \in [Socket -> {"none", "opening", "closing", "closed"} \cup Usable]
    BY DEF HelloRefused, HandshakeFails, HelloBare, LinkTypeOK, Usable
  <2>4. LinkTypeOK'
    BY <2>1, <2>2, <2>3 DEF LinkTypeOK, GaveUp, GiveUp, Settle, trackVars
  <2>5. FramesAreTracked' /\ LateRefusalNamesItsRun' /\ NamesMethod
    <3>1. UNCHANGED <<nulls, trackVars, told>> /\ answer' = answer
      BY <2>2 DEF GaveUp
    <3> QED
      BY <3>1, QuietKeeps
  <2>6. GreetingNamesMethod'
    <3>1. CASE hello' = hello /\ method' = method /\ bare' = bare
      BY <3>1 DEF GreetingNamesMethod
    <3>2. CASE hello' = TRUE /\ method' = FALSE /\ bare' = TRUE
      BY <3>2 DEF GreetingNamesMethod
    <3> QED
      BY <2>2, <3>1, <3>2
  <2> QED
    BY <2>4, <2>5, <2>6
<1> QED
  BY <1>1, <1>2, <1>3, <1>4 DEF Call, Handshake, Fails

\* Sockets that open and close, timers, and the subscription's timer.
LEMMA SocketsKeep ==
    ASSUME LinkIInv,
           \/ \E s \in Socket : Opens(s) \/ Closes(s)
           \/ \E c \in Caller : RequestTimesOut(c) \/ GrowsOld(c)
           \/ SubscribeAgain
    PROVE  LinkIInv' /\ NamesMethod
<1> USE DEF LinkIInv
<1>1. ASSUME NEW s \in Socket, Opens(s) PROVE LinkIInv' /\ NamesMethod
  <2> USE <1>1
  <2>1. LinkTypeOK'
    BY DEF Opens, LinkTypeOK, moduleVars, callVars, trackVars, Usable
  <2>2. FramesAreTracked' /\ LateRefusalNamesItsRun' /\ NamesMethod
    BY QuietKeeps DEF Opens, callVars
  <2>3. GreetingNamesMethod'
    BY DEF Opens, moduleVars, GreetingNamesMethod
  <2> QED
    BY <2>1, <2>2, <2>3
<1>2. ASSUME NEW s \in Socket, Closes(s) PROVE LinkIInv' /\ NamesMethod
  <2> USE <1>2
  <2>1. troubles' \in 0..MaxTroubles
    BY TroubleTypes DEF Closes, LinkTypeOK
  <2>2. LinkTypeOK'
    BY <2>1 DEF Closes, RejectPending, LinkTypeOK, trackVars, Unfinished
  <2>3. \A c \in Run : answer'[c] # "none" => answer[c] # "none"
    BY DEF Closes, Caller
  <2>4. FramesAreTracked' /\ LateRefusalNamesItsRun' /\ NamesMethod
    BY <2>3, QuietKeeps DEF Closes
  <2>5. GreetingNamesMethod'
    BY DEF Closes, GreetingNamesMethod
  <2> QED
    BY <2>2, <2>4, <2>5
<1>3. ASSUME NEW c \in Caller, RequestTimesOut(c) PROVE LinkIInv' /\ NamesMethod
  <2> USE <1>3
  <2>1. troubles' \in 0..MaxTroubles
    BY TroubleTypes DEF RequestTimesOut, LinkTypeOK
  <2>2. LinkTypeOK'
    BY <2>1 DEF RequestTimesOut, LinkTypeOK, Settle, moduleVars, trackVars
  <2>3. FramesAreTracked' /\ LateRefusalNamesItsRun' /\ NamesMethod
    BY QuietKeeps DEF RequestTimesOut
  <2>4. GreetingNamesMethod'
    BY DEF RequestTimesOut, moduleVars, GreetingNamesMethod
  <2> QED
    BY <2>2, <2>3, <2>4
<1>4. CASE SubscribeAgain
  <2> USE <1>4
  <2>1. LinkTypeOK'
    BY DEF SubscribeAgain, SubscribeAfter, LinkTypeOK, moduleVars, trackVars
  <2>2. \A c \in Run : answer'[c] # "none" => answer[c] # "none"
    BY DEF SubscribeAgain, SubscribeAfter, LinkTypeOK, Caller
  <2>3. FramesAreTracked' /\ LateRefusalNamesItsRun' /\ NamesMethod
    BY <2>2, QuietKeeps DEF SubscribeAgain, SubscribeAfter
  <2>4. GreetingNamesMethod'
    BY DEF SubscribeAgain, SubscribeAfter, moduleVars, GreetingNamesMethod
  <2> QED
    BY <2>1, <2>3, <2>4
<1>5. ASSUME NEW c \in Caller, GrowsOld(c) PROVE LinkIInv' /\ NamesMethod
  <2> USE <1>5
  <2>1. c \in Run /\ aged' = aged \cup {c}
        /\ UNCHANGED <<link, moduleVars, callVars, tracked, dropped, answer, bare, told, subscribed, troubles>>
    BY DEF GrowsOld, Range, LinkTypeOK
  <2>2. LinkTypeOK'
    BY <2>1 DEF LinkTypeOK, moduleVars, callVars
  <2>3. FramesAreTracked' /\ LateRefusalNamesItsRun' /\ NamesMethod /\ GreetingNamesMethod'
    BY <2>1 DEF FramesAreTracked, LateRefusalNamesItsRun, NamesMethod, GreetingNamesMethod, callVars, moduleVars
  <2> QED
    BY <2>2, <2>3
<1> QED
  BY <1>1, <1>2, <1>3, <1>4, <1>5

\* The gateway's frames.
LEMMA FramesKeep ==
    ASSUME LinkIInv, NEW c \in Caller, Accepts(c) \/ Refuses(c)
    PROVE  LinkIInv' /\ NamesMethod
<1> USE DEF LinkIInv
<1>1. CASE Accepts(c)
  <2> USE <1>1
  <2>1. UNCHANGED <<nulls, trackVars, told>>
    BY DEF Accepts, StillTracked, trackVars
  <2>2. LinkTypeOK'
    <3>1. on[c] \in Socket
      BY DEF Accepts, Reaches, LinkTypeOK
    <3> QED
      BY <2>1, <3>1 DEF Accepts, LinkTypeOK, Settle, moduleVars, trackVars
  <2>3. \A d \in Run : answer'[d] # "none" => answer[d] # "none"
    BY DEF Accepts, LinkTypeOK, Caller
  <2>4. FramesAreTracked' /\ LateRefusalNamesItsRun' /\ NamesMethod
    BY <2>1, <2>3, QuietKeeps
  <2>5. GreetingNamesMethod'
    BY DEF Accepts, moduleVars, GreetingNamesMethod
  <2> QED
    BY <2>2, <2>4, <2>5
<1>2. CASE Refuses(c)
  <2> USE <1>2
  <2>1. /\ tracked' \in Seq(Run) /\ Len(tracked') <= MaxTracked
        /\ Range(tracked) \ {c} \subseteq Range(tracked')
    <3>1. tracked' \in {tracked, Forget(tracked, c)}
      BY DEF Refuses
    <3>2. tracked \in Seq(Run) /\ Len(tracked) <= MaxTracked /\ MaxTracked \in Nat
      BY TrackedAssumption DEF LinkTypeOK
    <3>3. CASE tracked' = tracked
      BY <3>2, <3>3
    <3>4. CASE tracked' = Forget(tracked, c)
      <4>1. /\ Forget(tracked, c) \in Seq(Run) /\ Len(Forget(tracked, c)) <= Len(tracked)
            /\ Range(tracked) \ {c} \subseteq Range(Forget(tracked, c))
        BY <3>2, ForgetKeepsOthers
      <4>2. Len(tracked') <= MaxTracked
        BY <3>2, <3>4, <4>1
      <4> QED
        BY <3>4, <4>1, <4>2
    <3> QED
      BY <3>1, <3>3, <3>4
  <2>2. troubles' \in 0..MaxTroubles
    BY TroubleTypes DEF Refuses, LinkTypeOK
  <2>3. LinkTypeOK'
    BY <2>1, <2>2 DEF Refuses, LinkTypeOK, Settle, moduleVars
  <2>4. /\ answer'[c] = "none" /\ \A d \in Caller \ {c} : answer'[d] = answer[d] /\ told'[d] = told[d]
        /\ told'[c] = "nameless" => told[c] = "nameless" \/ c \notin Range(tracked)
        /\ dropped' = dropped /\ aged' = aged /\ nulls' = nulls
    BY DEF Refuses, LinkTypeOK
  <2>5. FramesAreTracked'
    BY <2>1, <2>4 DEF FramesAreTracked, Caller
  <2>6. LateRefusalNamesItsRun'
    <3>1. c \in Run => c \in Range(tracked) \cup aged \cup dropped
      BY DEF Refuses, FramesAreTracked
    <3> QED
      BY <2>4, <3>1 DEF LateRefusalNamesItsRun, Caller
  <2>7. NamesMethod
    BY <2>4 DEF NamesMethod
  <2>8. GreetingNamesMethod'
    BY DEF Refuses, moduleVars, GreetingNamesMethod
  <2> QED
    BY <2>3, <2>5, <2>6, <2>7, <2>8
<1> QED
  BY <1>1, <1>2

LEMMA LinkSteps ==
    ASSUME LinkIInv, [LinkNext]_linkVars
    PROVE  LinkIInv' /\ NamesMethod
<1>1. CASE LinkNext
  BY <1>1, CallsKeep, SocketsKeep, FramesKeep DEF LinkNext
<1>2. CASE UNCHANGED linkVars
  BY <1>2 DEF linkVars, moduleVars, callVars, trackVars, LinkIInv, LinkTypeOK, FramesAreTracked,
     GreetingNamesMethod, LateRefusalNamesItsRun, NamesMethod
<1> QED
  BY <1>1, <1>2

\* The inductive invariant of the connection: types, which frames may still be refused
\* under their run's name, and that a greeting kept goes without a method only when the
\* gateway's last one did.
THEOREM LinkInductive == LinkSpec => []LinkIInv
<1>1. LinkInit => LinkIInv
  BY LinkStarts
<1>2. LinkIInv /\ [LinkNext]_linkVars => LinkIInv'
  BY LinkSteps
<1> QED
  BY <1>1, <1>2, PTL DEF LinkSpec

\* The error branch of gateway-ws.mjs: whichever sockets were opened side by side,
\* closed under each other or reset, a refusal that comes after the answer, or after
\* the request's timeout, names its run, unless a later dispatch has let the name go
\* for its age or for room in dispatchedRuns.
THEOREM RefusalsAreNamed == LinkSpec => []LateRefusalNamesItsRun
BY LinkInductive, PTL DEF LinkIInv

\* dispatch() reads runMethod after connect(): a frame of a run goes without one only
\* when the gateway's last greeting offered none.
THEOREM RunsNameTheirMethod == LinkSpec => RunNamesItsMethod
<1>1. LinkIInv /\ [LinkNext]_linkVars => [Run \cap nulls' \subseteq nulls \/ bare]_linkVars
  BY LinkSteps DEF NamesMethod
<1> QED
  BY <1>1, LinkInductive, PTL DEF LinkSpec, RunNamesItsMethod

-----------------------------------------------------------------------------
(* The fleet: arithmetic and cardinalities *)

LEMMA LeastIsLeast ==
    ASSUME NEW S \in SUBSET Nat, S # {}
    PROVE  Least(S) \in S /\ \A k \in S : Least(S) <= k
<1> DEFINE R == OpToRel(<, Nat)
<1>1. \A x, y \in Nat : <<x, y>> \in R <=> x < y
  BY DEF OpToRel
<1>2. IsWellFoundedOn(R, Nat)
  BY NatLessThanWellFounded
<1> HIDE DEF R
<1>3. \E x \in S : \A y \in S : ~ (<<y, x>> \in R)
  BY <1>2, WFMin
<1>4. PICK n \in S : \A y \in S : ~ (<<y, n>> \in R)
  BY <1>3
<1>5. \A k \in S : <<k, n>> \in R <=> k < n
  BY <1>1
<1>6. \A k \in S : ~(k < n)
  BY <1>4, <1>5
<1>7. \A k \in S : n <= k
  BY <1>6
<1> QED
  BY <1>7 DEF Least

LEMMA LargestFloor == Most(Floors) \in Floors /\ \A f \in Floors : f <= Most(Floors)
<1> DEFINE below == {99 - f : f \in Floors}
<1>1. below \in SUBSET Nat /\ below # {}
  <2>1. \A f \in Floors : 99 - f \in Nat
    BY FloorsAssumption
  <2> QED
    BY <2>1, FloorsAssumption
<1>2. Least(below) \in below /\ \A k \in below : Least(below) <= k
  BY <1>1, LeastIsLeast
<1>3. PICK n \in Floors : Least(below) = 99 - n
  BY <1>2
<1>4. \A f \in Floors : 99 - n <= 99 - f
  BY <1>2, <1>3
<1>5. \A f \in Floors : f <= n
  BY <1>4, FloorsAssumption
<1> QED
  BY <1>5 DEF Most

LEMMA SmallerIsSmaller ==
    ASSUME NEW i \in Nat, NEW j \in Nat
    PROVE  Smaller(i, j) \in Nat /\ Smaller(i, j) <= i /\ Smaller(i, j) <= j
BY LeastIsLeast, {i, j} \in SUBSET Nat, {i, j} # {} DEF Smaller

\* The fleet is finite and has a slot for each sandbox of the largest floor.
LEMMA FleetIsFinite ==
    /\ IsFiniteSet(FleetAgent) /\ Cardinality(FleetAgent) \in Nat
    /\ Most(Floors) \in Nat /\ Most(Floors) <= Cardinality(FleetAgent)
<1>0. Most(Floors) \in 0..99
  BY LargestFloor, FloorsAssumption
<1> DEFINE top == Most(Floors)
           name == {"slot", "sbx", "own"}
           number == 0..(top + MaxSbx + 2)
           variant == 0..MaxVariants
           pair == number \X variant
           box == name \X pair
           triple == name \X number \X variant
           flat == [x \in box |-> <<x[1], x[2][1], x[2][2]>>]
           slot == [n \in 1..top |-> Slot(n, 0)]
<1>1. top \in Nat
  BY <1>0
<1>2. MaxSbx \in Nat /\ MaxVariants \in Nat
  BY FleetBounds
<1> HIDE DEF top
<1>3. IsFiniteSet(name)
  <2>1. IsFiniteSet({} \cup {"slot"})
    BY FS_EmptySet, FS_AddElement
  <2>2. IsFiniteSet(({} \cup {"slot"}) \cup {"sbx"})
    BY <2>1, FS_AddElement
  <2>3. IsFiniteSet((({} \cup {"slot"}) \cup {"sbx"}) \cup {"own"})
    BY <2>2, FS_AddElement
  <2>4. name = (({} \cup {"slot"}) \cup {"sbx"}) \cup {"own"}
    OBVIOUS
  <2> QED
    BY <2>3, <2>4
<1>4. IsFiniteSet(number) /\ IsFiniteSet(variant)
  <2>1. top + MaxSbx + 2 \in Int /\ MaxVariants \in Int
    BY <1>1, <1>2
  <2> QED
    BY <2>1, FS_Interval
<1>5. FleetAgent \subseteq triple
  BY <1>1, <1>2 DEF FleetAgent, AutoAgent, Slot, Sbx, Fitting, Foreign, top
<1> HIDE DEF name, number, variant
<1>6. IsFiniteSet(box)
  <2>1. IsFiniteSet(pair)
    BY <1>4, FS_Product
  <2> HIDE DEF pair
  <2> QED
    BY <1>3, <2>1, FS_Product
<1>7. flat \in Surjection(box, triple)
  <2>1. flat \in [box -> triple]
    OBVIOUS
  <2>2. ASSUME NEW x \in triple PROVE \E y \in box : flat[y] = x
    <3>1. <<x[1], <<x[2], x[3]>>>> \in box /\ flat[<<x[1], <<x[2], x[3]>>>>] = x
      OBVIOUS
    <3> QED
      BY <3>1
  <2> QED
    BY <2>1, <2>2 DEF Surjection
<1>8. IsFiniteSet(FleetAgent)
  <2>1. IsFiniteSet(triple)
    BY <1>6, <1>7, FS_Surjection
  <2> HIDE DEF triple
  <2> QED
    BY <1>5, <2>1, FS_Subset
<1>9. slot \in Injection(1..top, FleetAgent)
  <2>1. slot \in [1..top -> FleetAgent]
    BY <1>2 DEF FleetAgent, AutoAgent, top
  <2> QED
    BY <2>1 DEF Injection, IsInjective, Slot
<1>10. Cardinality(1..top) = top
  BY <1>1, FS_Interval
<1> HIDE DEF slot
<1> QED
  BY <1>1, <1>8, <1>9, <1>10, FS_Injection, FS_CardinalityType DEF top

-----------------------------------------------------------------------------
(* The fleet: where a task may be sent *)

\* A harness never asks the registry.  What the registry was asked for exactly
\* carries the task's model, and whatever else it gave goes with an override.
HarnessesAskNobody ==
    \A t \in Harnessed : spot[t] \in {"parked", "sending", "running", "done"}
PicksCarryModel ==
    \A t \in Work \ Harnessed : spot[t] = "sending" => forced[t] \/ pick[t] # Foreign

FleetIInv ==
    /\ FleetTypeOK
    /\ HarnessesAskNobody /\ PicksCarryModel
    /\ RunsAsRouted

LEMMA FleetStarts == FleetInit => FleetIInv
<1> SUFFICES ASSUME FleetInit PROVE FleetIInv
  OBVIOUS
<1>1. floor \in Floors
  <2>1. Floors \in SUBSET Nat /\ Floors # {}
    BY FloorsAssumption
  <2> QED
    BY <2>1, LeastIsLeast DEF FleetInit
<1>2. Resting \in PassState
  BY FleetIsFinite DEF Resting, PassState
<1>3. NoRun \in [agent : FleetAgent \cup {NobodyId}, model : {"none", "routed", "other"}]
  BY DEF NoRun
<1>4. {Fitting, Foreign} \subseteq FleetAgent
  BY DEF FleetAgent
<1>5. 0 \in 0..MaxSbx /\ 0 \in 0..MaxFleetFaults /\ 0 \in 0..MaxFleetEdits
  BY FleetBounds
<1>6. FleetTypeOK
  BY <1>1, <1>2, <1>3, <1>4, <1>5 DEF FleetInit, FleetTypeOK
<1>7. HarnessesAskNobody /\ PicksCarryModel /\ RunsAsRouted
  BY HarnessedAssumption DEF FleetInit, HarnessesAskNobody, PicksCarryModel, RunsAsRouted
<1> QED
  BY <1>6, <1>7 DEF FleetIInv

\* What the registry answers: agents of the project's workspace, and unless any
\* model will do, only those that carry the task's.
LEMMA RegistryAnswers ==
    ASSUME FleetTypeOK, NEW refresh \in BOOLEAN, NEW anyModel \in BOOLEAN,
           NEW a \in Resolutions(Listing(refresh), anyModel)
    PROVE  a \in FleetAgent /\ (anyModel \/ a # Foreign)
<1>1. a \in Listing(refresh) /\ Matches(a, anyModel)
  BY DEF Resolutions
<1>2. a \in FleetAgent
  BY <1>1 DEF Listing, FleetTypeOK, FleetAgent
<1> QED
  BY <1>1, <1>2 DEF Matches, OfModel

LEMMA Remembered ==
    ASSUME FleetTypeOK, NEW refresh \in BOOLEAN, Remember(refresh)
    PROVE  cache' \subseteq {Fitting, Foreign} /\ cached' \in BOOLEAN
BY DEF Remember, Listing, FleetTypeOK, FleetAgent, InProject

\* What a step of a pass or of the gateway leaves of the dispatches.
LEMMA OthersKeepDispatches ==
    ASSUME HarnessesAskNobody, PicksCarryModel, RunsAsRouted, UNCHANGED dispatchVars
    PROVE  HarnessesAskNobody' /\ PicksCarryModel' /\ RunsAsRouted'
BY DEF HarnessesAskNobody, PicksCarryModel, RunsAsRouted, dispatchVars

LEMMA LapseTypes ==
    ASSUME FleetTypeOK, Lapse \/ Change \/ UNCHANGED boundVars
    PROVE  fleetFaults' \in 0..MaxFleetFaults /\ fleetEdits' \in 0..MaxFleetEdits
BY FleetBounds DEF Lapse, Change, boundVars, FleetTypeOK

\* One look at the registry, whatever list it comes from.
LEMMA TakeKeeps ==
    ASSUME FleetIInv, NEW t \in Work \ Harnessed, NEW refresh \in BOOLEAN, NEW anyModel \in BOOLEAN,
           NEW otherwise \in {"refreshing", "forcing", "growing"},
           Take(t, Listing(refresh), anyModel, otherwise), Remember(refresh),
           UNCHANGED <<gatewayFleet, admin, ran, sbxs, floor, pass, boundVars>>,
           spot[t] # "running"
    PROVE  FleetIInv'
<1> USE DEF FleetIInv
<1> DEFINE offers == Resolutions(Listing(refresh), anyModel)
<1>1. cache' \subseteq {Fitting, Foreign} /\ cached' \in BOOLEAN
  BY Remembered
<1>2. /\ spot' \in [Work -> {"parked", "resolving", "refreshing", "forcing", "sending",
                             "running", "growing", "done"}]
      /\ spot'[t] \in {otherwise, "sending"} /\ \A u \in Work \ {t} : spot'[u] = spot[u]
  BY DEF Take, Go, FleetTypeOK
<1>3. /\ pick' \in [Work -> FleetAgent \cup {NobodyId}] /\ forced' \in [Work -> BOOLEAN]
      /\ \A u \in Work \ {t} : pick'[u] = pick[u] /\ forced'[u] = forced[u]
      /\ spot'[t] = "sending" => forced'[t] \/ pick'[t] # Foreign
  <2>1. CASE offers = {}
    BY <2>1 DEF Take, Go, FleetTypeOK
  <2>2. CASE offers # {}
    <3>1. PICK a \in offers : pick' = [pick EXCEPT ![t] = a]
      BY <2>2 DEF Take
    <3>2. a \in FleetAgent /\ (anyModel \/ a # Foreign)
      BY <3>1, RegistryAnswers
    <3>3. forced' = [forced EXCEPT ![t] = anyModel]
      BY <2>2 DEF Take
    <3> QED
      BY <3>1, <3>2, <3>3 DEF FleetTypeOK
  <2> QED
    BY <2>1, <2>2
<1>4. FleetTypeOK'
  BY <1>1, <1>2, <1>3 DEF FleetTypeOK, gatewayFleet, boundVars
<1>5. HarnessesAskNobody' /\ PicksCarryModel'
  BY <1>2, <1>3, HarnessedAssumption DEF HarnessesAskNobody, PicksCarryModel
<1>6. RunsAsRouted'
  BY <1>2 DEF RunsAsRouted
<1> QED
  BY <1>4, <1>5, <1>6

LEMMA DispatchKeeps ==
    ASSUME FleetIInv, NEW t \in Work, Dispatch(t) \/ RunIsOver(t)
    PROVE  FleetIInv'
<1> USE DEF FleetIInv, OnlyDispatches
<1>1. CASE BeginDispatch(t)
  <2> USE <1>1
  <2>1. FleetTypeOK'
    BY DEF BeginDispatch, Go, FleetTypeOK, gatewayFleet, registryVars, boundVars
  <2>2. HarnessesAskNobody' /\ PicksCarryModel' /\ RunsAsRouted'
    BY HarnessedAssumption
       DEF BeginDispatch, ByHarness, Go, FleetTypeOK, HarnessesAskNobody, PicksCarryModel, RunsAsRouted
  <2> QED
    BY <2>1, <2>2
<1>2. CASE ResolveExact(t)
  BY <1>2, TakeKeeps DEF ResolveExact, HarnessesAskNobody
<1>3. CASE ResolveRefreshed(t)
  <2>1. CASE admin
    BY <1>3, <2>1, TakeKeeps DEF ResolveRefreshed, HarnessesAskNobody
  <2>2. CASE ~admin
    BY <1>3, <2>2, TakeKeeps DEF ResolveRefreshed, HarnessesAskNobody
  <2> QED
    BY <2>1, <2>2
<1>4. CASE ResolveForced(t)
  BY <1>4, TakeKeeps DEF ResolveForced, HarnessesAskNobody
<1>5. CASE SpawnHarness(t)
  <2> USE <1>5
  <2>1. fleetFaults' \in 0..MaxFleetFaults /\ fleetEdits' \in 0..MaxFleetEdits
    BY LapseTypes DEF SpawnHarness
  <2>2. UNCHANGED <<gatewayFleet, registryVars, admin, pick, forced, sbxs, floor, pass>>
    BY DEF SpawnHarness
  <2>3. t \in Harnessed
    BY DEF SpawnHarness, ByHarness
  <2>4. CASE /\ spot' = [spot EXCEPT ![t] = "running"]
             /\ ran' = [ran EXCEPT ![t] = [agent |-> NobodyId, model |-> "routed"]]
    <3>1. FleetTypeOK'
      BY <2>1, <2>2, <2>4 DEF FleetTypeOK, gatewayFleet, registryVars
    <3> QED
      BY <2>2, <2>3, <2>4, <3>1, HarnessedAssumption
         DEF FleetTypeOK, HarnessesAskNobody, PicksCarryModel, RunsAsRouted
  <2>5. CASE spot' = [spot EXCEPT ![t] = "parked"] /\ UNCHANGED ran
    <3>1. FleetTypeOK'
      BY <2>1, <2>2, <2>5 DEF FleetTypeOK, gatewayFleet, registryVars
    <3> QED
      BY <2>2, <2>3, <2>5, <3>1, HarnessedAssumption
         DEF FleetTypeOK, HarnessesAskNobody, PicksCarryModel, RunsAsRouted
  <2> QED
    BY <2>4, <2>5 DEF SpawnHarness, Go
<1>6. CASE SendRun(t)
  <2> USE <1>6
  <2>1. GatewayRuns(t) = [agent |-> pick[t], model |-> "routed"]
    BY DEF SendRun, ByHarness, GatewayRuns, PicksCarryModel
  <2>2. FleetTypeOK'
    BY <2>1 DEF SendRun, Go, FleetTypeOK, gatewayFleet, registryVars, boundVars
  <2>3. HarnessesAskNobody' /\ PicksCarryModel' /\ RunsAsRouted'
    BY <2>1, HarnessedAssumption DEF SendRun, ByHarness, Go, FleetTypeOK, HarnessesAskNobody,
       PicksCarryModel, RunsAsRouted
  <2> QED
    BY <2>2, <2>3
<1>7. CASE RunIsOver(t)
  <2> USE <1>7
  <2>1. FleetTypeOK'
    BY DEF RunIsOver, Go, FleetTypeOK, gatewayFleet, registryVars, boundVars, NoRun
  <2>2. HarnessesAskNobody' /\ PicksCarryModel' /\ RunsAsRouted'
    BY HarnessedAssumption DEF RunIsOver, Go, FleetTypeOK, HarnessesAskNobody,
       PicksCarryModel, RunsAsRouted
  <2> QED
    BY <2>1, <2>2
<1>8. CASE GrowForTask(t)
  <2> USE <1>8
  <2>1. fleetFaults' \in 0..MaxFleetFaults /\ fleetEdits' \in 0..MaxFleetEdits
    BY LapseTypes DEF GrowForTask
  <2>2. alive' \subseteq FleetAgent /\ sbxs' \in 0..MaxSbx
    BY FleetBounds DEF GrowForTask, FleetTypeOK, FleetAgent, AutoAgent
  <2>3. FleetTypeOK'
    BY <2>1, <2>2 DEF GrowForTask, Go, FleetTypeOK, registryVars
  <2>4. HarnessesAskNobody' /\ PicksCarryModel' /\ RunsAsRouted'
    BY HarnessedAssumption DEF GrowForTask, Go, FleetTypeOK, HarnessesAskNobody,
       PicksCarryModel, RunsAsRouted
  <2> QED
    BY <2>3, <2>4
<1> QED
  BY <1>1, <1>2, <1>3, <1>4, <1>5, <1>6, <1>7, <1>8 DEF Dispatch

\* A pass that grows the fleet stays within the floor it read.
LEMMA PassTypes ==
    ASSUME FleetTypeOK, NEW p \in Passes, NEW next \in PassState, Becomes(p, next)
    PROVE  pass' \in [Passes -> PassState]
BY DEF Becomes, FleetTypeOK

LEMMA FleetSizes ==
    ASSUME NEW agents \in SUBSET FleetAgent
    PROVE  Cardinality(OfModel(agents)) \in 0..Cardinality(FleetAgent)
<1>1. OfModel(agents) \in SUBSET FleetAgent
  BY DEF OfModel
<1>2. IsFiniteSet(OfModel(agents)) /\ Cardinality(OfModel(agents)) <= Cardinality(FleetAgent)
  BY <1>1, FleetIsFinite, FS_Subset
<1> QED
  BY <1>2, FleetIsFinite, FS_CardinalityType

LEMMA ReconcileTypes ==
    ASSUME FleetTypeOK, NEW p \in Passes, Reconcile(p)
    PROVE  FleetTypeOK'
<1> USE DEF OnlyKeeps, OnlyLooks
<1>0. pass[p] \in PassState /\ Resting \in PassState
  BY FleetIsFinite DEF FleetTypeOK, Resting, PassState
<1>1. CASE PassReadsFloor(p)
  <2>1. [Resting EXCEPT !.at = "listing", !.want = floor] \in PassState
    BY <1>0 DEF PassState, FleetTypeOK
  <2>2. pass' \in [Passes -> PassState]
    BY <1>1, <2>1, PassTypes DEF PassReadsFloor
  <2> QED
    BY <1>1, <2>2 DEF PassReadsFloor, FleetTypeOK, gatewayFleet, registryVars, dispatchVars, boundVars
<1>2. CASE PassLists(p)
  <2> USE <1>2
  <2>1. PICK view \in {shown, {}} :
          LET size == Cardinality(OfModel(view))
              read == [pass[p] EXCEPT !.count = size]
          IN /\ IF view = shown THEN UNCHANGED boundVars ELSE Lapse
             /\ Becomes(p, IF size < pass[p].want
                           THEN [read EXCEPT !.at = "growing", !.names = view \cap AutoAgent]
                           ELSE IF size > pass[p].want
                           THEN [read EXCEPT !.at = "attributing", !.names = view \cap AutoAgent]
                           ELSE Resting)
    BY DEF PassLists
  <2> DEFINE size == Cardinality(OfModel(view))
             read == [pass[p] EXCEPT !.count = size]
  <2>2. size \in 0..Cardinality(FleetAgent)
    BY FleetSizes DEF FleetTypeOK
  <2> HIDE DEF size
  <2>3. /\ [read EXCEPT !.at = "growing", !.names = view \cap AutoAgent] \in PassState
        /\ [read EXCEPT !.at = "attributing", !.names = view \cap AutoAgent] \in PassState
    BY <1>0, <2>2 DEF PassState
  <2>4. pass' \in [Passes -> PassState]
    BY <1>0, <2>1, <2>3, PassTypes DEF size
  <2>5. fleetFaults' \in 0..MaxFleetFaults /\ fleetEdits' \in 0..MaxFleetEdits
    BY <2>1, LapseTypes
  <2> QED
    BY <2>4, <2>5 DEF PassLists, FleetTypeOK, gatewayFleet, registryVars, dispatchVars
<1>3. CASE PassGrows(p)
  <2> USE <1>3
  <2> DEFINE n == Least(FreeSlots(p))
             grown == [pass[p] EXCEPT !.count = @ + 1, !.names = @ \cup {Slot(n, 0)}]
  <2>1. pass[p].want \in Nat /\ pass[p].want <= Most(Floors)
    <3>1. pass[p].want \in Floors \cup {0}
      BY <1>0 DEF PassState
    <3>2. \A f \in Floors : f \in Nat
      BY FloorsAssumption
    <3> QED
      BY <3>1, <3>2, LargestFloor, FleetIsFinite
  <2>2. FreeSlots(p) \in SUBSET Nat /\ FreeSlots(p) # {}
    <3>1. FreeSlots(p) \subseteq 1..pass[p].want
      BY DEF FreeSlots
    <3>2. FreeSlots(p) # {}
      BY DEF PassGrows, GrowsNext
    <3> QED
      BY <2>1, <3>1, <3>2
  <2>3. n \in 1..Most(Floors)
    BY <2>1, <2>2, LeastIsLeast, FleetIsFinite DEF FreeSlots
  <2> HIDE DEF n
  <2>4. Named(n) \subseteq AutoAgent /\ Slot(n, 0) \in AutoAgent
    BY <2>3, FleetBounds DEF Named, AutoAgent
  <2>5. pass[p].count < Cardinality(FleetAgent)
    <3>1. pass[p].count < Smaller(pass[p].want, Cap)
      BY DEF PassGrows, GrowsNext
    <3>2. Smaller(pass[p].want, Cap) \in Nat /\ Smaller(pass[p].want, Cap) <= pass[p].want
      BY <2>1, SmallerIsSmaller, FloorsAssumption
    <3>3. pass[p].count \in Nat
      BY <1>0 DEF PassState
    <3> QED
      BY <2>1, <3>1, <3>2, <3>3, FleetIsFinite
  <2>6. grown \in PassState
    <3>1. pass[p].count + 1 \in 0..Cardinality(FleetAgent)
      BY <1>0, <2>5, FleetIsFinite DEF PassState
    <3>2. pass[p].names \cup {Slot(n, 0)} \in SUBSET AutoAgent
      BY <1>0, <2>4 DEF PassState
    <3> QED
      BY <1>0, <3>1, <3>2 DEF PassState
  <2>7. \/ Becomes(p, grown) \/ Becomes(p, Resting)
    BY DEF PassGrows, n
  <2>8. pass' \in [Passes -> PassState]
    BY <1>0, <2>6, <2>7, PassTypes
  <2>9. alive' \subseteq FleetAgent
    BY <2>4 DEF PassGrows, n, FleetTypeOK, FleetAgent
  <2>10. fleetFaults' \in 0..MaxFleetFaults /\ fleetEdits' \in 0..MaxFleetEdits
    BY LapseTypes DEF PassGrows
  <2> QED
    BY <2>8, <2>9, <2>10 DEF PassGrows, FleetTypeOK, registryVars, dispatchVars
<1>4. CASE PassAttributes(p)
  <2>1. [pass[p] EXCEPT !.at = "trimming", !.busy = Busy] \in PassState
    BY <1>0 DEF PassState, Busy
  <2>2. pass' \in [Passes -> PassState]
    BY <1>4, <2>1, PassTypes DEF PassAttributes
  <2> QED
    BY <1>4, <2>2 DEF PassAttributes, FleetTypeOK, gatewayFleet, registryVars, dispatchVars, boundVars
<1>5. CASE PassTrims(p)
  <2> USE <1>5
  <2>1. PICK a \in pass[p].names :
          \/ /\ Becomes(p, [pass[p] EXCEPT !.names = @ \ {a}])
             /\ UNCHANGED <<alive, locked, boundVars>>
          \/ /\ alive' = alive \ {a} /\ locked' = locked \cup {a}
             /\ Becomes(p, [pass[p] EXCEPT !.names = @ \ {a}, !.count = @ - 1])
             /\ UNCHANGED boundVars
          \/ /\ IF a \in alive /\ ~Running(a) THEN Lapse ELSE UNCHANGED boundVars
             /\ Becomes(p, Resting)
             /\ UNCHANGED <<alive, locked>>
    BY DEF PassTrims
  <2>2. a \in FleetAgent
    BY <1>0 DEF PassState, FleetAgent
  <2>3. pass[p].count - 1 \in 0..Cardinality(FleetAgent)
    <3>1. pass[p].count > pass[p].want /\ pass[p].want \in Nat
      BY <1>0, FloorsAssumption DEF PassTrims, PassState
    <3> QED
      BY <1>0, <3>1, FleetIsFinite DEF PassState
  <2>4. /\ [pass[p] EXCEPT !.names = @ \ {a}] \in PassState
        /\ [pass[p] EXCEPT !.names = @ \ {a}, !.count = @ - 1] \in PassState
    BY <1>0, <2>3 DEF PassState
  <2>5. pass' \in [Passes -> PassState]
    BY <1>0, <2>1, <2>4, PassTypes
  <2>6. alive' \subseteq FleetAgent /\ locked' \subseteq FleetAgent
    BY <2>1, <2>2 DEF FleetTypeOK
  <2>7. fleetFaults' \in 0..MaxFleetFaults /\ fleetEdits' \in 0..MaxFleetEdits
    BY <2>1, LapseTypes
  <2> QED
    BY <2>5, <2>6, <2>7 DEF PassTrims, FleetTypeOK, registryVars, dispatchVars
<1>6. CASE PassEnds(p)
  <2>1. pass' \in [Passes -> PassState]
    BY <1>0, <1>6, PassTypes DEF PassEnds
  <2> QED
    BY <1>6, <2>1 DEF PassEnds, FleetTypeOK, gatewayFleet, registryVars, dispatchVars, boundVars
<1> QED
  BY <1>1, <1>2, <1>3, <1>4, <1>5, <1>6 DEF Reconcile

\* The gateway, the registry's clock and the operator.
OthersOfFleet ==
    \/ ListCatchesUp \/ NameCleanedUp \/ CacheAges
    \/ \E f \in Floors : SetFloor(f)
    \/ \E a \in FleetAgent : OperatorKills(a)
    \/ OperatorCreates \/ ScopeChanges

LEMMA OthersTypes ==
    ASSUME FleetTypeOK, OthersOfFleet
    PROVE  FleetTypeOK'
<1> USE DEF OnlyKeeps, gatewayFleet, registryVars, dispatchVars
<1>0. fleetFaults' \in 0..MaxFleetFaults /\ fleetEdits' \in 0..MaxFleetEdits
  BY LapseTypes DEF OthersOfFleet, ListCatchesUp, NameCleanedUp, CacheAges, SetFloor, OperatorKills,
     OperatorCreates, ScopeChanges, boundVars
<1>1. CASE ListCatchesUp \/ NameCleanedUp \/ CacheAges \/ OperatorCreates \/ ScopeChanges
  BY <1>0, <1>1 DEF ListCatchesUp, NameCleanedUp, CacheAges, OperatorCreates, ScopeChanges,
     FleetTypeOK, FleetAgent
<1>2. ASSUME NEW f \in Floors, SetFloor(f) PROVE FleetTypeOK'
  <2>1. [Resting EXCEPT !.at = "asked"] \in PassState /\ "request" \in Passes
    BY FleetIsFinite DEF Resting, PassState, Passes
  <2>2. pass' \in [Passes -> PassState]
    BY <1>2, <2>1, PassTypes DEF SetFloor
  <2> QED
    BY <1>0, <1>2, <2>2 DEF SetFloor, FleetTypeOK
<1>3. ASSUME NEW a \in FleetAgent, OperatorKills(a) PROVE FleetTypeOK'
  BY <1>0, <1>3, SMTT(30) DEF OperatorKills, FleetTypeOK
<1> QED
  BY <1>1, <1>2, <1>3 DEF OthersOfFleet

LEMMA OthersSpare ==
    ASSUME OthersOfFleet \/ \E p \in Passes : Reconcile(p)
    PROVE  UNCHANGED dispatchVars
BY DEF OthersOfFleet, ListCatchesUp, NameCleanedUp, CacheAges, SetFloor, OperatorKills, OperatorCreates,
   ScopeChanges, Reconcile, PassReadsFloor, PassLists, PassGrows, PassAttributes, PassTrims, PassEnds,
   OnlyKeeps, OnlyLooks

LEMMA FleetSteps ==
    ASSUME FleetIInv, [FleetNext]_fleetVars
    PROVE  FleetIInv'
<1>1. CASE \E t \in Work : Dispatch(t) \/ RunIsOver(t)
  BY <1>1, DispatchKeeps
<1>2. CASE \E p \in Passes : Reconcile(p)
  <2>1. FleetTypeOK'
    BY <1>2, ReconcileTypes DEF FleetIInv
  <2> QED
    BY <1>2, <2>1, OthersSpare, OthersKeepDispatches DEF FleetIInv
<1>3. CASE OthersOfFleet
  <2>1. FleetTypeOK'
    BY <1>3, OthersTypes DEF FleetIInv
  <2> QED
    BY <1>3, <2>1, OthersSpare, OthersKeepDispatches DEF FleetIInv
<1>4. CASE UNCHANGED fleetVars
  BY <1>4, OthersKeepDispatches
     DEF fleetVars, FleetIInv, FleetTypeOK, gatewayFleet, registryVars, dispatchVars, boundVars
<1> QED
  BY <1>1, <1>2, <1>3, <1>4 DEF FleetNext, OthersOfFleet

\* The inductive invariant of the fleet: types (within them that no pass counts more
\* agents than there are names) and what a resolved dispatch holds in its hands.
THEOREM FleetInductive == FleetSpec => []FleetIInv
<1>1. FleetInit => FleetIInv
  BY FleetStarts
<1>2. FleetIInv /\ [FleetNext]_fleetVars => FleetIInv'
  BY FleetSteps
<1> QED
  BY <1>1, <1>2, PTL DEF FleetSpec

\* resolveOrThrow and dispatch: whichever list was stale and whichever scope was lost
\* in between, no task runs on another model than its route's, and no harness on an
\* agent of the fleet.
THEOREM NoSilentDowngrade == FleetSpec => []RunsAsRouted
BY FleetInductive, PTL DEF FleetIInv

-----------------------------------------------------------------------------
(* Chat: types *)

LEMMA ChatStarts == ChatInit => ChatTypeOK
<1> SUFFICES ASSUME ChatInit PROVE ChatTypeOK
  OBVIOUS
<1>1. PoolTypeOK
  BY BoundAssumption DEF ChatInit, PoolInit, PoolTypeOK, Step
<1>2. transcript \in [Conv -> Seq(Message)]
  BY DEF ChatInit
<1>3. 0 \in 0..MaxEdits /\ 0 \in 0..MaxRestarts
  BY NullsAssumption
<1> QED
  BY <1>1, <1>2, <1>3, FirstBrainAssumption DEF ChatInit, ChatTypeOK, Location, RunState

LEMMA FaultTypes ==
    ASSUME PoolTypeOK, Fault \/ UNCHANGED faults
    PROVE  faults' \in 0..MaxFaults
BY BoundAssumption DEF Fault, PoolTypeOK

LEMMA UpdateTypes ==
    ASSUME ChatTypeOK, NEW t \in Turn, NEW s \in {"PENDING", "RUNNING", "DONE", "FAILED"},
           UpdateDelivery(t, s)
    PROVE  /\ status' \in [Turn -> {"none", "PENDING", "RUNNING", "DONE", "FAILED"}]
           /\ \A u \in Turn \ {t} : status'[u] = status[u]
           /\ status'[t] \in {status[t], s}
BY DEF UpdateDelivery, ChatTypeOK

LEMMA ResolveTypes ==
    ASSUME PoolTypeOK, NEW t \in Turn, NEW b \in Brain, Resolve(t, b)
    PROVE  PoolTypeOK'
<1> USE DEF Goto, gatewayAgents, Step
<1>1. CASE Reuse(t, b)
  BY <1>1 DEF Reuse, PoolTypeOK
<1>2. CASE DropStaleRow(t, b)
  <2>1. faults' \in 0..MaxFaults
    BY <1>2, FaultTypes DEF DropStaleRow, Lists
  <2> QED
    BY <1>2, <2>1 DEF DropStaleRow, PoolTypeOK
<1>3. CASE CheckCap(t, b)
  <2>1. faults' \in 0..MaxFaults
    BY <1>3, FaultTypes DEF CheckCap, Lists
  <2> QED
    BY <1>3, <2>1 DEF CheckCap, PoolTypeOK
<1>4. CASE CreateAgent(t, b)
  BY <1>4 DEF CreateAgent, PoolTypeOK
<1>5. CASE CreateFails(t, b)
  <2>1. faults' \in 0..MaxFaults
    BY <1>5, FaultTypes DEF CreateFails
  <2> QED
    BY <1>5, <2>1 DEF CreateFails, PoolTypeOK
<1>6. CASE BecomesVisible(t) \/ NotVisibleInTime(t)
  BY <1>6 DEF BecomesVisible, NotVisibleInTime, PoolTypeOK
<1> QED
  BY <1>1, <1>2, <1>3, <1>4, <1>5, <1>6 DEF Resolve

LEMMA OperatorTypes ==
    ASSUME ChatTypeOK, Operator
    PROVE  ChatTypeOK'
<1> USE DEF ChatTypeOK, rowVars, deliveryVars, runVars, pollVars, poolVars, sessionVars
<1>1. ASSUME NEW t \in Turn, SendMessage(t) PROVE ChatTypeOK'
  <2>1. PoolTypeOK'
    BY <1>1 DEF SendMessage, PoolTypeOK, gatewayAgents, Goto, Step
  <2> QED
    BY <1>1, <2>1 DEF SendMessage, Location
<1>2. ASSUME NEW b \in Brain, SwitchBrain(b) PROVE ChatTypeOK'
  BY <1>2, NullsAssumption DEF SwitchBrain, Rebind, Edit, PoolTypeOK
<1>3. ASSUME NEW m \in {"ACTIVE", "ARCHIVED"}, SetMode(m) PROVE ChatTypeOK'
  BY <1>3, NullsAssumption DEF SetMode, Edit, PoolTypeOK
<1>4. CASE DeleteSession
  BY <1>4, NullsAssumption DEF DeleteSession, Edit, PoolTypeOK
<1> QED
  BY <1>1, <1>2, <1>3, <1>4 DEF Operator

\* What a delivery writes on its way out.
LEMMA ReturnTypes ==
    ASSUME ChatTypeOK, NEW t \in Turn, Return(t)
    PROVE  /\ at' \in [Turn -> Location] /\ askedRef' \in [Turn -> Conv \cup {NoConv}]
           /\ held' \in [Turn -> Agent \cup {NoAgent}]
BY DEF Return, ChatTypeOK, PoolTypeOK, Location

LEMMA SessionKeyType ==
    ASSUME ChatTypeOK, NEW t \in Turn, held[t] # NoAgent
    PROVE  SessionKey(t) \in Conv /\ AgentOf(SessionKey(t)) = held[t]
<1>1. held[t] \in Agent
  BY DEF ChatTypeOK, PoolTypeOK
<1>2. <<t, held[t]>> \in Conv /\ AgentOf(<<t, held[t]>>) = held[t]
  BY <1>1 DEF Conv, AgentOf
<1>3. CASE StaleRef(t) \/ askedRef[t] = NoConv
  BY <1>2, <1>3 DEF SessionKey
<1>4. CASE ~(StaleRef(t) \/ askedRef[t] = NoConv)
  BY <1>4 DEF SessionKey, StaleRef, ChatTypeOK
<1> QED
  BY <1>3, <1>4

\* What the places of a delivery say about what it holds, and about its run: a turn
\* is sent once, to a conversation of the agent it resolved.
TurnFits(t) ==
    /\ at[t] # "resolving" => step[t] = "idle"
    /\ step[t] \in {"waiting", "resolved"} => held[t] # NoAgent
    /\ mode # "DELETED" /\ status[t] = "none" => at[t] = "idle"
    /\ at[t] = "idle" => held[t] = NoAgent /\ conv[t] = NoConv
    /\ at[t] \in {"idle", "resolving", "sending"} => run[t] = "none"
    /\ at[t] = "sending" => conv[t] \in Conv /\ AgentOf(conv[t]) = held[t]

LEMMA DeliveryTypes ==
    ASSUME ChatTypeOK, NEW t \in Turn, TurnFits(t), Deliver(t) \/ DeliveryThrows(t)
    PROVE  ChatTypeOK'
<1> USE DEF OnlyDelivers, rowVars, deliveryVars, runVars, pollVars, sessionVars, gatewayAgents, poolButHeld
<1>1. CASE ResolveStep(t)
  <2>1. PoolTypeOK'
    BY <1>1, ResolveTypes DEF ResolveStep, ChatTypeOK
  <2> QED
    BY <1>1, <2>1 DEF ResolveStep, ChatTypeOK
<1>2. CASE SandboxRefused(t)
  <2>1. status' \in [Turn -> {"none", "PENDING", "RUNNING", "DONE", "FAILED"}]
    BY <1>2, UpdateTypes DEF SandboxRefused
  <2> QED
    BY <1>2, <2>1, ReturnTypes DEF SandboxRefused, ChatTypeOK, PoolTypeOK, Goto, Step
<1>3. CASE MarkRunning(t)
  <2>1. status' \in [Turn -> {"none", "PENDING", "RUNNING", "DONE", "FAILED"}]
    BY <1>3, UpdateTypes DEF MarkRunning
  <2>2. SessionKey(t) \in Conv
    BY <1>3, SessionKeyType DEF MarkRunning, TurnFits
  <2> QED
    BY <1>3, <2>1, <2>2 DEF MarkRunning, MoveTo, ChatTypeOK, PoolTypeOK, Goto, Step, Location
<1>4. CASE Send(t)
  <2>1. faults' \in 0..MaxFaults
    BY <1>4, FaultTypes DEF Send, ChatTypeOK
  <2>2. run' \in [Turn -> RunState]
    BY <1>4 DEF Send, ChatTypeOK, RunState
  <2> QED
    BY <1>4, <2>1, <2>2 DEF Send, MoveTo, ChatTypeOK, PoolTypeOK, Location
<1>5. CASE DispatchAnswered(t)
  BY <1>5 DEF DispatchAnswered, MoveTo, ChatTypeOK, PoolTypeOK, Location
<1>6. CASE DispatchThrows(t)
  <2>1. status' \in [Turn -> {"none", "PENDING", "RUNNING", "DONE", "FAILED"}]
    BY <1>6, UpdateTypes DEF DispatchThrows
  <2> QED
    BY <1>6, <2>1, ReturnTypes DEF DispatchThrows, ChatTypeOK, PoolTypeOK
<1>7. CASE StoreRef(t)
  <2>1. /\ at' \in [Turn -> Location] /\ askedRef' \in [Turn -> Conv \cup {NoConv}]
        /\ held' \in [Turn -> Agent \cup {NoAgent}]
    BY <1>7, ReturnTypes DEF StoreRef, MoveTo, ChatTypeOK, PoolTypeOK, Location
  <2> QED
    BY <1>7, <2>1 DEF StoreRef, ChatTypeOK, PoolTypeOK
<1>8. CASE MarkReplied(t)
  <2>1. status' \in [Turn -> {"none", "PENDING", "RUNNING", "DONE", "FAILED"}]
    BY <1>8, UpdateTypes DEF MarkReplied
  <2> QED
    BY <1>8, <2>1, ReturnTypes DEF MarkReplied, ChatTypeOK, PoolTypeOK
<1>9. CASE DeliveryThrows(t)
  <2>1. status' \in [Turn -> {"none", "PENDING", "RUNNING", "DONE", "FAILED"}]
    BY <1>9, UpdateTypes DEF DeliveryThrows
  <2>2. faults' \in 0..MaxFaults
    BY <1>9, FaultTypes DEF DeliveryThrows, ChatTypeOK
  <2> QED
    BY <1>9, <2>1, <2>2, ReturnTypes DEF DeliveryThrows, ChatTypeOK, PoolTypeOK, Goto, Step
<1> QED
  BY <1>1, <1>2, <1>3, <1>4, <1>5, <1>6, <1>7, <1>8, <1>9 DEF Deliver

LEMMA CrashTypes ==
    ASSUME ChatTypeOK, Crash
    PROVE  ChatTypeOK'
<1>1. faults' \in 0..MaxFaults
  BY FaultTypes DEF Crash, ChatTypeOK
<1> QED
  BY <1>1 DEF Crash, ChatTypeOK, PoolTypeOK, Step, Location, sessionVars, rowVars, runVars, gatewayAgents

LEMMA SaysTypes ==
    ASSUME ChatTypeOK, NEW t \in Turn, NEW what \in Said, Says(t, what)
    PROVE  transcript' \in [Conv -> Seq(Message)]
<1>1. [turn |-> t, said |-> what] \in Message
  BY DEF Message
<1>2. \A c \in Conv : Append(transcript[c], [turn |-> t, said |-> what]) \in Seq(Message)
  BY <1>1 DEF ChatTypeOK
<1> QED
  BY <1>2 DEF Says, ChatTypeOK

LEMMA GatewayTypes ==
    ASSUME ChatTypeOK, Gateway
    PROVE  ChatTypeOK'
<1> USE DEF OnlyRuns, rowVars, deliveryVars, runVars, pollVars, sessionVars, gatewayAgents, poolVars
<1>1. ASSUME NEW t \in Turn, RunStarts(t) \/ RunAnswers(t) \/ RunFails(t) PROVE ChatTypeOK'
  <2>1. transcript' \in [Conv -> Seq(Message)]
    BY <1>1, SaysTypes DEF RunStarts, RunAnswers, RunFails, Said
  <2>2. run' \in [Turn -> RunState]
    BY <1>1 DEF RunStarts, RunAnswers, RunFails, ChatTypeOK, RunState
  <2>3. UNCHANGED <<sessionVars, deliveryVars, pollVars, rowVars, restarts, poolVars>>
    BY <1>1 DEF RunStarts, RunAnswers, RunFails
  <2> QED
    BY <2>1, <2>2, <2>3 DEF ChatTypeOK, PoolTypeOK
<1>2. ASSUME NEW t \in Turn, RunDies(t) PROVE ChatTypeOK'
  BY <1>2, NullsAssumption DEF RunDies, ChatTypeOK, PoolTypeOK, RunState
<1>3. ASSUME NEW t \in Turn, LateRefusal(t) PROVE ChatTypeOK'
  <2>1. status' \in [Turn -> {"none", "PENDING", "RUNNING", "DONE", "FAILED"}]
    BY <1>3, UpdateTypes DEF LateRefusal, ChatTypeOK
  <2> QED
    BY <1>3, <2>1 DEF LateRefusal, ChatTypeOK, PoolTypeOK, RunState
<1>4. ASSUME NEW a \in Agent, KillAgent(a) PROVE ChatTypeOK'
  <2>1. PoolTypeOK'
    <3>1. faults' \in 0..MaxFaults
      BY <1>4, FaultTypes DEF KillAgent, Kill, ChatTypeOK
    <3> QED
      BY <1>4, <3>1 DEF KillAgent, Kill, ChatTypeOK, PoolTypeOK
  <2>2. run' \in [Turn -> RunState]
    BY <1>4 DEF KillAgent, ChatTypeOK, RunState
  <2> QED
    BY <1>4, <2>1, <2>2 DEF KillAgent, ChatTypeOK
<1>5. ASSUME NEW a \in Agent, AgentCleanedUp(a) PROVE ChatTypeOK'
  <2>1. PoolTypeOK'
    BY <1>5 DEF AgentCleanedUp, CleanedUp, ChatTypeOK, PoolTypeOK
  <2>2. <<>> \in Seq(Message)
    OBVIOUS
  <2>3. transcript' \in [Conv -> Seq(Message)]
    BY <1>5, <2>2 DEF AgentCleanedUp, ChatTypeOK
  <2> QED
    BY <1>5, <2>1, <2>3 DEF AgentCleanedUp, ChatTypeOK
<1>6. CASE AgentsListed
  <2>1. PoolTypeOK'
    BY <1>6 DEF AgentsListed, ListingCatchesUp, ChatTypeOK, PoolTypeOK
  <2> QED
    BY <1>6, <2>1 DEF AgentsListed, ChatTypeOK
<1> QED
  BY <1>1, <1>2, <1>3, <1>4, <1>5, <1>6 DEF Gateway

\* The reply found is a message of the transcript it was looked for in.
LEMMA ReplyIsThere ==
    ASSUME NEW said \in Seq(Message), NEW t \in Turn, FindTurnReply(t, said) # NoMessage
    PROVE  \E i \in DOMAIN said :
              /\ FindTurnReply(t, said) = said[i] /\ said[i].said # "prompt"
              /\ \E p \in DOMAIN said : p < i /\ said[p].turn = t /\ said[p].said = "prompt"
              /\ \A j \in DOMAIN said : \A p \in DOMAIN said :
                    said[j].said # "prompt" /\ p < j /\ said[p].turn = t /\ said[p].said = "prompt" => i <= j
<1> DEFINE prompts == {i \in DOMAIN said : said[i].turn = t /\ said[i].said = "prompt"}
           after == {i \in DOMAIN said : said[i].said # "prompt" /\ \E p \in prompts : p < i}
           first == CHOOSE i \in after : \A j \in after : i <= j
<1>1. after # {} /\ FindTurnReply(t, said) = said[first]
  BY DEF FindTurnReply
<1>2. after \in SUBSET Nat
  OBVIOUS
<1>3. Least(after) \in after /\ \A k \in after : Least(after) <= k
  BY <1>1, <1>2, LeastIsLeast
<1>4. first = Least(after)
  BY DEF Least
<1> HIDE DEF first
<1> QED
  BY <1>1, <1>3, <1>4

LEMMA PollerTypes ==
    ASSUME ChatTypeOK, Poller
    PROVE  ChatTypeOK'
<1> USE DEF OnlyPolls, rowVars, deliveryVars, runVars, pollVars, sessionVars, gatewayAgents, poolVars
<1>1. ASSUME NEW t \in Turn, NEW isOld \in BOOLEAN, PollReads(t, isOld) PROVE ChatTypeOK'
  <2>1. faults' \in 0..MaxFaults
    BY <1>1, FaultTypes DEF PollReads, ChatTypeOK
  <2>2. PoolTypeOK'
    BY <1>1, <2>1 DEF PollReads, ChatTypeOK, PoolTypeOK
  <2>3. found' \in Message \cup {NoMessage}
    <3>1. CASE ref # NoConv /\ found' = FindTurnReply(t, transcript[ref])
      <4>1. transcript[ref] \in Seq(Message)
        BY <3>1 DEF ChatTypeOK
      <4>2. CASE found' # NoMessage
        <5>1. PICK i \in DOMAIN transcript[ref] : found' = transcript[ref][i]
          BY <3>1, <4>1, <4>2, ReplyIsThere
        <5> QED
          BY <4>1, <5>1
      <4> QED
        BY <4>2
    <3>2. CASE found' = NoMessage
      BY <3>2
    <3> QED
      BY <1>1, <3>1, <3>2 DEF PollReads
  <2> QED
    BY <1>1, <2>2, <2>3 DEF PollReads, ChatTypeOK
<1>2. ASSUME NEW t \in Turn, PollWrites(t) PROVE ChatTypeOK'
  <2>1. status' \in [Turn -> {"none", "PENDING", "RUNNING", "DONE", "FAILED"}]
    BY <1>2, UpdateTypes DEF PollWrites, ChatTypeOK
  <2>2. content' \in [Turn -> Turn \cup {NoTurn}]
    BY <1>2 DEF PollWrites, ChatTypeOK, Message, NoMessage
  <2> QED
    BY <1>2, <2>1, <2>2 DEF PollWrites, ChatTypeOK, PoolTypeOK
<1> QED
  BY <1>1, <1>2 DEF Poller

-----------------------------------------------------------------------------
(* Chat: one Brain per conversation *)

\* Agents, rows and conversations are those of the Brain that was asked.
OwnBrains ==
    /\ \A b \in Brain : row[b] # NoAgent => row[b][1] = b
    /\ \A t \in Turn : held[t] # NoAgent => held[t][1] = asked[t]
    /\ \A t \in Turn : conv[t] # NoConv => AgentOf(conv[t])[1] = asked[t]

ChatShape ==
    /\ exists \cap cleaning = {}
    /\ \A t \in Turn : TurnFits(t)
    /\ OwnBrains

LEMMA OwnBrainsSuffice == OwnBrains => OneBrainPerConversation
BY DEF OwnBrains, OneBrainPerConversation

\* A step that spares what the shape is about.
LEMMA ShapeSpared ==
    ASSUME ChatShape, UNCHANGED <<exists, cleaning, row, step, held, asked, at, conv, mode, run>>,
           \A t \in Turn : status'[t] = "none" => status[t] = "none"
    PROVE  ChatShape'
BY DEF ChatShape, TurnFits, OwnBrains

LEMMA DeliverySparesOthers ==
    ASSUME ChatTypeOK, NEW t \in Turn, Deliver(t) \/ DeliveryThrows(t)
    PROVE  /\ \A u \in Turn \ {t} : /\ at'[u] = at[u] /\ step'[u] = step[u] /\ status'[u] = status[u]
                                    /\ held'[u] = held[u] /\ conv'[u] = conv[u] /\ run'[u] = run[u]
           /\ UNCHANGED <<mode, asked, cleaning>>
<1> USE DEF ChatTypeOK, PoolTypeOK, OnlyDelivers, sessionVars, pollVars, deliveryVars, rowVars, runVars,
            gatewayAgents, poolButHeld, MoveTo, Goto, Return
<1>1. CASE ResolveStep(t)
  BY <1>1 DEF ResolveStep, Resolve, Reuse, DropStaleRow, CheckCap, CreateAgent, CreateFails,
     BecomesVisible, NotVisibleInTime
<1>2. CASE SandboxRefused(t) \/ MarkRunning(t)
  <2>1. \A u \in Turn \ {t} : status'[u] = status[u]
    BY <1>2, UpdateTypes DEF SandboxRefused, MarkRunning
  <2> QED
    BY <1>2, <2>1 DEF SandboxRefused, MarkRunning
<1>3. CASE Send(t) \/ DispatchAnswered(t) \/ StoreRef(t)
  BY <1>3 DEF Send, DispatchAnswered, StoreRef
<1>4. CASE DispatchThrows(t) \/ MarkReplied(t) \/ DeliveryThrows(t)
  <2>1. \A u \in Turn \ {t} : status'[u] = status[u]
    BY <1>4, UpdateTypes DEF DispatchThrows, MarkReplied, DeliveryThrows
  <2> QED
    BY <1>4, <2>1 DEF DispatchThrows, MarkReplied, DeliveryThrows
<1> QED
  BY <1>1, <1>2, <1>3, <1>4 DEF Deliver

LEMMA DeliveryFits ==
    ASSUME ChatTypeOK, ChatShape, NEW t \in Turn, Deliver(t) \/ DeliveryThrows(t)
    PROVE  TurnFits(t)'
<1> USE DEF ChatTypeOK, PoolTypeOK, OnlyDelivers, sessionVars, pollVars, deliveryVars, rowVars, runVars,
            gatewayAgents, poolButHeld, MoveTo, Goto, Return, TurnFits
<1>0. TurnFits(t)
  BY DEF ChatShape
<1>1. CASE ResolveStep(t)
  <2>1. NoAgent \notin Agent
    BY NoAgentAssumption
  <2>2. at[t] = "resolving" /\ at' = at /\ run' = run /\ status' = status /\ conv' = conv /\ mode' = mode
    BY <1>1 DEF ResolveStep
  <2>3. step'[t] \in {"waiting", "resolved"} => held'[t] # NoAgent
    BY <1>0, <1>1, <2>1 DEF ResolveStep, Resolve, Reuse, DropStaleRow, CheckCap, CreateAgent, CreateFails,
       BecomesVisible, NotVisibleInTime
  <2> QED
    BY <1>0, <2>2, <2>3
<1>2. CASE SandboxRefused(t)
  <2>1. status'[t] = "none" => status[t] = "none"
    BY <1>2, UpdateTypes DEF SandboxRefused
  <2> QED
    BY <1>0, <1>2, <2>1 DEF SandboxRefused
<1>3. CASE MarkRunning(t)
  <2>1. status'[t] = "none" => status[t] = "none"
    BY <1>3, UpdateTypes DEF MarkRunning
  <2>2. SessionKey(t) \in Conv /\ AgentOf(SessionKey(t)) = held[t]
    BY <1>0, <1>3, SessionKeyType DEF MarkRunning
  <2> QED
    BY <1>0, <1>3, <2>1, <2>2 DEF MarkRunning
<1>4. CASE Send(t) \/ DispatchAnswered(t) \/ StoreRef(t)
  BY <1>0, <1>4 DEF Send, DispatchAnswered, StoreRef
<1>5. CASE DispatchThrows(t) \/ MarkReplied(t) \/ DeliveryThrows(t)
  <2>1. status'[t] = "none" => status[t] = "none"
    BY <1>5, UpdateTypes DEF DispatchThrows, MarkReplied, DeliveryThrows
  <2> QED
    BY <1>0, <1>5, <2>1 DEF DispatchThrows, MarkReplied, DeliveryThrows
<1> QED
  BY <1>1, <1>2, <1>3, <1>4, <1>5 DEF Deliver

LEMMA FreeNames ==
    ASSUME NEW b \in Brain, NEW a \in Agent, FreeName(b, a)
    PROVE  a[1] = b /\ a \notin exists /\ a \notin cleaning
<1>1. CASE NameOf(b) \notin exists \cup cleaning
  <2>1. a = <<b, 0>> /\ a \notin exists \cup cleaning
    BY <1>1 DEF FreeName, NameOf
  <2> QED
    BY <2>1
<1>2. CASE NameOf(b) \in exists \cup cleaning
  BY <1>2 DEF FreeName
<1> QED
  BY <1>1, <1>2

LEMMA DeliveryOwns ==
    ASSUME ChatTypeOK, ChatShape, NEW t \in Turn, Deliver(t) \/ DeliveryThrows(t)
    PROVE  OwnBrains' /\ exists' \cap cleaning' = {}
<1> USE DEF ChatTypeOK, PoolTypeOK, OnlyDelivers, sessionVars, pollVars, deliveryVars, rowVars, runVars,
            gatewayAgents, poolButHeld, MoveTo, Goto, Return
<1>0. OwnBrains /\ exists \cap cleaning = {} /\ asked' = asked /\ TurnFits(t)
  BY DeliverySparesOthers DEF ChatShape
<1>1. CASE ResolveStep(t)
  <2>0. conv' = conv /\ asked[t] \in Brain /\ NoAgent \notin Agent
    BY <1>1, NoAgentAssumption DEF ResolveStep
  <2>1. CASE Reuse(t, asked[t])
    BY <1>0, <2>0, <2>1 DEF Reuse, OwnBrains
  <2>2. CASE CreateAgent(t, asked[t])
    <3>1. PICK a \in Agent : /\ FreeName(asked[t], a) /\ exists' = exists \cup {a}
                             /\ held' = [held EXCEPT ![t] = a] /\ row' = [row EXCEPT ![asked[t]] = a]
      BY <2>2 DEF CreateAgent
    <3>2. a[1] = asked[t] /\ a \notin cleaning
      BY <3>1, FreeNames
    <3>3. cleaning' = cleaning
      BY <2>2 DEF CreateAgent
    <3> QED
      BY <1>0, <2>0, <3>1, <3>2, <3>3 DEF OwnBrains
  <2>3. CASE DropStaleRow(t, asked[t])
    BY <1>0, <2>0, <2>3 DEF DropStaleRow, OwnBrains
  <2>4. CASE CheckCap(t, asked[t]) \/ CreateFails(t, asked[t]) \/ BecomesVisible(t) \/ NotVisibleInTime(t)
    BY <1>0, <2>0, <2>4 DEF CheckCap, CreateFails, BecomesVisible, NotVisibleInTime, OwnBrains
  <2> QED
    BY <1>1, <2>1, <2>2, <2>3, <2>4 DEF ResolveStep, Resolve
<1>2. CASE MarkRunning(t)
  <2>1. SessionKey(t) \in Conv /\ AgentOf(SessionKey(t)) = held[t] /\ held[t] # NoAgent
    BY <1>0, <1>2, SessionKeyType DEF MarkRunning, TurnFits
  <2> QED
    BY <1>0, <1>2, <2>1 DEF MarkRunning, OwnBrains
<1>3. CASE SandboxRefused(t) \/ DispatchThrows(t) \/ MarkReplied(t) \/ DeliveryThrows(t)
  BY <1>0, <1>3 DEF SandboxRefused, DispatchThrows, MarkReplied, DeliveryThrows, OwnBrains
<1>4. CASE Send(t) \/ DispatchAnswered(t) \/ StoreRef(t)
  BY <1>0, <1>4 DEF Send, DispatchAnswered, StoreRef, OwnBrains
<1> QED
  BY <1>1, <1>2, <1>3, <1>4 DEF Deliver

LEMMA ShapeKept ==
    ASSUME ChatTypeOK, ChatShape, ChatNext
    PROVE  ChatShape'
<1> USE DEF rowVars, deliveryVars, runVars, pollVars, sessionVars, gatewayAgents, poolVars
<1>1. ASSUME NEW t \in Turn, Deliver(t) \/ DeliveryThrows(t) PROVE ChatShape'
  <2>1. \A u \in Turn \ {t} : TurnFits(u)'
    BY <1>1, DeliverySparesOthers DEF TurnFits, ChatShape
  <2> QED
    BY <1>1, <2>1, DeliveryFits, DeliveryOwns DEF ChatShape
<1>2. CASE Crash
  BY <1>2 DEF Crash, ChatShape, TurnFits, OwnBrains, ChatTypeOK, Location
<1>3. ASSUME NEW t \in Turn, SendMessage(t) PROVE ChatShape'
  <2>1. at[t] = "idle" /\ TurnFits(t)
    BY <1>3 DEF SendMessage, NextInLine, ChatShape, TurnFits
  <2>2. /\ UNCHANGED <<mode, conv, run, row, held, exists, cleaning>>
        /\ status' = [status EXCEPT ![t] = "PENDING"] /\ at' = [at EXCEPT ![t] = "resolving"]
        /\ step' = [step EXCEPT ![t] = "lookup"] /\ asked' = [asked EXCEPT ![t] = brain]
    BY <1>3 DEF SendMessage, Goto
  <2>3. \A u \in Turn : TurnFits(u)'
    BY <2>1, <2>2 DEF ChatShape, TurnFits, ChatTypeOK, PoolTypeOK
  <2>4. OwnBrains'
    BY <2>1, <2>2 DEF ChatShape, TurnFits, OwnBrains, ChatTypeOK
  <2> QED
    BY <2>2, <2>3, <2>4 DEF ChatShape
<1>4. CASE (\E b \in Brain : SwitchBrain(b)) \/ DeleteSession \/ \E m \in {"ACTIVE", "ARCHIVED"} : SetMode(m)
  <2>1. UNCHANGED <<exists, cleaning, row, step, held, asked, at, conv, run>>
    BY <1>4 DEF SwitchBrain, DeleteSession, SetMode
  <2>2. (mode' # "DELETED" => mode # "DELETED" /\ status' = status)
    BY <1>4 DEF SwitchBrain, DeleteSession, SetMode
  <2> QED
    BY <2>1, <2>2 DEF ChatShape, TurnFits, OwnBrains
<1>5. CASE Gateway
  <2>1. ASSUME NEW t \in Turn, RunStarts(t) \/ RunAnswers(t) \/ RunFails(t) \/ RunDies(t) \/ LateRefusal(t)
        PROVE  ChatShape'
    <3>1. UNCHANGED <<exists, cleaning, row, step, held, asked, at, conv, mode>>
      BY <2>1 DEF RunStarts, RunAnswers, RunFails, RunDies, LateRefusal, OnlyRuns
    <3>2. \A u \in Turn : status'[u] = "none" => status[u] = "none"
      BY <2>1, UpdateTypes DEF RunStarts, RunAnswers, RunFails, RunDies, LateRefusal
    <3>3. run[t] # "none" /\ \A u \in Turn : run[u] = "none" => run'[u] = "none"
      BY <2>1 DEF RunStarts, RunAnswers, RunFails, RunDies, LateRefusal, ChatTypeOK
    <3> QED
      BY <3>1, <3>2, <3>3 DEF ChatShape, TurnFits, OwnBrains
  <2>2. ASSUME NEW a \in Agent, KillAgent(a) PROVE ChatShape'
    BY <2>2 DEF KillAgent, Kill, OnlyRuns, ChatShape, TurnFits, OwnBrains, ChatTypeOK
  <2>3. ASSUME NEW a \in Agent, AgentCleanedUp(a) PROVE ChatShape'
    BY <2>3 DEF AgentCleanedUp, CleanedUp, OnlyRuns, ChatShape, TurnFits, OwnBrains
  <2>4. CASE AgentsListed
    BY <2>4 DEF AgentsListed, ListingCatchesUp, OnlyRuns, ChatShape, TurnFits, OwnBrains
  <2> QED
    BY <1>5, <2>1, <2>2, <2>3, <2>4 DEF Gateway
<1>6. CASE Poller
  <2>1. UNCHANGED <<exists, cleaning, row, step, held, asked, at, conv, mode, run>>
    BY <1>6 DEF Poller, PollReads, PollWrites, OnlyPolls
  <2>2. \A u \in Turn : status'[u] = "none" => status[u] = "none"
    BY <1>6, UpdateTypes DEF Poller, PollReads, PollWrites
  <2> QED
    BY <2>1, <2>2, ShapeSpared
<1> QED
  BY <1>1, <1>2, <1>3, <1>4, <1>5, <1>6 DEF ChatNext, Operator

LEMMA ChatTypesKept ==
    ASSUME ChatTypeOK, ChatShape, [ChatNext]_chatVars
    PROVE  ChatTypeOK'
<1>1. ASSUME NEW t \in Turn, Deliver(t) \/ DeliveryThrows(t) PROVE ChatTypeOK'
  BY <1>1, DeliveryTypes DEF ChatShape
<1>2. CASE Operator \/ Crash \/ Gateway \/ Poller
  BY <1>2, OperatorTypes, CrashTypes, GatewayTypes, PollerTypes
<1>3. CASE UNCHANGED chatVars
  BY <1>3 DEF chatVars, sessionVars, rowVars, deliveryVars, runVars, pollVars, poolVars, ChatTypeOK, PoolTypeOK
<1> QED
  BY <1>1, <1>2, <1>3 DEF ChatNext

LEMMA ChatShapeKept ==
    ASSUME ChatTypeOK, ChatShape, [ChatNext]_chatVars
    PROVE  ChatShape'
<1>1. CASE UNCHANGED chatVars
  <2>1. UNCHANGED <<exists, cleaning, row, step, held, asked, at, conv, mode, run, status>>
    BY <1>1 DEF chatVars, sessionVars, rowVars, deliveryVars, runVars, pollVars, poolVars, gatewayAgents
  <2> QED
    BY <2>1, ShapeSpared
<1> QED
  BY <1>1, ShapeKept

\* The inductive invariant of chat: types, what each place of a delivery holds, and
\* whose agents and conversations are whose.
THEOREM ChatInductive == ChatSpec => [](ChatTypeOK /\ ChatShape)
<1>1. ChatInit => ChatTypeOK /\ ChatShape
  BY ChatStarts DEF ChatInit, PoolInit, ChatShape, TurnFits, OwnBrains
<1>2. ChatTypeOK /\ ChatShape /\ [ChatNext]_chatVars => (ChatTypeOK /\ ChatShape)'
  BY ChatTypesKept, ChatShapeKept
<1> QED
  BY <1>1, <1>2, PTL DEF ChatSpec

\* switchBrain, deliver and setGatewayRef: whichever delivery stores its reference
\* last, and whichever agents are killed and named anew, the turns of a conversation
\* were all addressed to one Brain, for any Brains, turns and faults.
THEOREM ConversationsKeepTheirBrain == ChatSpec => []OneBrainPerConversation
BY ChatInductive, OwnBrainsSuffice, PTL DEF ChatShape

-----------------------------------------------------------------------------
(* Chat: whose answer is shown *)

\* A run that died, after some run of the gateway died without a word.
Lost(t) == run[t] = "dead" /\ restarts > 0

\* What may be shown of turn t: its own answer, or one of its conversation if its
\* run was lost.
Shows(t, u) ==
    \/ u = t
    \/ Lost(t) /\ u \in Turn /\ run[u] # "none" /\ conv[u] = conv[t]

\* In a transcript each prompt is followed by what became of it.  The last one may
\* still be worked on, or its agent is gone and its transcript with it, soon.  Of
\* the prompts of lost runs nothing is said, but that they are where they belong.
TranscriptFits(c) ==
    /\ transcript[c] # <<>> => AgentOf(c) \in exists \cup cleaning
    /\ \A i \in 1..Len(transcript[c]) :
          conv[transcript[c][i].turn] = c /\ run[transcript[c][i].turn] # "none"
    /\ \A i \in 1..Len(transcript[c]) :
          transcript[c][i].said = "prompt" /\ ~Lost(transcript[c][i].turn) =>
          IF i < Len(transcript[c])
          THEN transcript[c][i + 1].turn = transcript[c][i].turn /\ transcript[c][i + 1].said # "prompt"
          ELSE AgentOf(c) \notin exists \/ run[transcript[c][i].turn] = "running"

RunFits(t) ==
    /\ run[t] \in {"queued", "running"} => conv[t] \in Conv /\ AgentOf(conv[t]) \in exists
    /\ run[t] = "running" =>
          /\ Len(transcript[conv[t]]) > 0
          /\ transcript[conv[t]][Len(transcript[conv[t]])] = [turn |-> t, said |-> "prompt"]

ConversationsFit ==
    /\ \A c \in Conv : TranscriptFits(c)
    /\ \A t \in Turn : RunFits(t)

FoundFits == found.said = "answer" => looked \in Turn /\ Shows(looked, found.turn)
ShownFits == \A t \in Turn : status[t] = "DONE" => Shows(t, content[t])

AnswersFit == ConversationsFit /\ FoundFits /\ ShownFits

\* findTurnReply goes by position, and finds this turn's answer or none, unless the
\* turn's run was lost.
LEMMA ReplyFits ==
    ASSUME ChatTypeOK, NEW c \in Conv, TranscriptFits(c), NEW t \in Turn,
           FindTurnReply(t, transcript[c]) # NoMessage
    PROVE  Shows(t, FindTurnReply(t, transcript[c]).turn)
<1> DEFINE said == transcript[c]
<1>1. said \in Seq(Message)
  BY DEF ChatTypeOK
<1>2. PICK i \in DOMAIN said :
        /\ FindTurnReply(t, said) = said[i] /\ said[i].said # "prompt"
        /\ \E p \in DOMAIN said : p < i /\ said[p].turn = t /\ said[p].said = "prompt"
        /\ \A j \in DOMAIN said : \A p \in DOMAIN said :
              said[j].said # "prompt" /\ p < j /\ said[p].turn = t /\ said[p].said = "prompt" => i <= j
  BY <1>1, ReplyIsThere
<1>3. PICK p \in DOMAIN said : p < i /\ said[p].turn = t /\ said[p].said = "prompt"
  BY <1>2
<1>4. i \in 1..Len(said) /\ p \in 1..Len(said) /\ p < Len(said) /\ p + 1 \in DOMAIN said
  BY <1>1, <1>3
<1>5. CASE Lost(t)
  <2>1. said[i] \in Message
    BY <1>1
  <2>2. said[i].turn \in Turn
    BY <2>1 DEF Message
  <2>3. conv[said[i].turn] = c /\ run[said[i].turn] # "none" /\ conv[t] = c
    BY <1>3, <1>4 DEF TranscriptFits
  <2> QED
    BY <1>2, <1>5, <2>2, <2>3 DEF Shows
<1>6. CASE ~Lost(t)
  <2>1. said[p + 1].turn = t /\ said[p + 1].said # "prompt"
    BY <1>3, <1>4, <1>6 DEF TranscriptFits
  <2>2. i <= p + 1
    BY <1>2, <1>3, <1>4, <2>1
  <2>3. i = p + 1
    BY <1>3, <1>4, <2>2
  <2> QED
    BY <1>2, <2>1, <2>3 DEF Shows
<1> QED
  BY <1>5, <1>6

\* A run that was sent keeps its conversation, and a lost one stays lost.
Onward ==
    \A t \in Turn :
        /\ run[t] # "none" => run'[t] # "none" /\ conv'[t] = conv[t]
        /\ Lost(t) => Lost(t)'

\* What was fit to be shown stays so.
LEMMA ShownStays ==
    ASSUME Onward, NEW t \in Turn, NEW u, Shows(t, u)
    PROVE  Shows(t, u)'
BY DEF Onward, Shows, Lost

LEMMA ShownKept ==
    ASSUME Onward, ShownFits,
           \A t \in Turn : status'[t] = "DONE" =>
               \/ status[t] = "DONE" /\ content'[t] = content[t]
               \/ Shows(t, content'[t])
    PROVE  ShownFits'
<1> SUFFICES ASSUME NEW t \in Turn, status'[t] = "DONE"
             PROVE  Shows(t, content[t])'
  BY DEF ShownFits
<1> PICK u : u = content'[t]
  OBVIOUS
<1>1. Shows(t, u)
  BY DEF ShownFits
<1>2. Shows(t, u)'
  BY <1>1, ShownStays
<1> QED
  BY <1>2 DEF Shows

LEMMA FoundKept ==
    ASSUME Onward, FoundFits, UNCHANGED <<found, looked>>
    PROVE  FoundFits'
<1> SUFFICES ASSUME found.said = "answer"
             PROVE  looked \in Turn /\ Shows(looked, found.turn)'
  BY DEF FoundFits, Shows
<1> PICK t \in Turn : t = looked
  BY DEF FoundFits
<1> PICK u : u = found.turn
  OBVIOUS
<1>1. Shows(t, u)
  BY DEF FoundFits
<1>2. Shows(t, u)'
  BY <1>1, ShownStays
<1> QED
  BY <1>2 DEF Shows

LEMMA StepsGoOnward ==
    ASSUME ChatTypeOK, ChatShape, [ChatNext]_chatVars
    PROVE  Onward
<1> SUFFICES ASSUME NEW t \in Turn
             PROVE  /\ run[t] # "none" => run'[t] # "none" /\ conv'[t] = conv[t]
                    /\ run[t] = "dead" => run'[t] = "dead"
                    /\ restarts > 0 => restarts' > 0
  BY DEF Onward, Lost
<1>0. restarts \in Nat /\ TurnFits(t)
  BY NullsAssumption DEF ChatTypeOK, ChatShape
<1>1. ASSUME NEW u \in Turn, Deliver(u) \/ DeliveryThrows(u)
      PROVE  /\ run[t] # "none" => run'[t] = run[t] /\ conv'[t] = conv[t]
             /\ restarts' = restarts
  <2>1. restarts' = restarts
    BY <1>1 DEF Deliver, DeliveryThrows, ResolveStep, SandboxRefused, MarkRunning, Send, DispatchAnswered,
       DispatchThrows, StoreRef, MarkReplied, runVars
  <2>2. CASE t # u
    BY <1>1, <2>1, <2>2, DeliverySparesOthers
  <2>3. CASE t = u /\ run[t] # "none"
    <3>1. at[t] \notin {"resolving", "sending"}
      BY <1>0, <2>3 DEF TurnFits
    <3>2. DispatchAnswered(t) \/ DispatchThrows(t) \/ StoreRef(t) \/ MarkReplied(t) \/ DeliveryThrows(t)
      BY <1>1, <2>3, <3>1 DEF Deliver, ResolveStep, SandboxRefused, MarkRunning, Send
    <3>3. UNCHANGED <<run, conv>>
      BY <3>2 DEF DispatchAnswered, DispatchThrows, StoreRef, MarkReplied, DeliveryThrows, runVars
    <3> QED
      BY <2>1, <3>3
  <2> QED
    BY <2>1, <2>2, <2>3
<1>2. CASE Gateway
  <2> USE DEF OnlyRuns, deliveryVars, runVars
  <2>1. UNCHANGED conv
    BY <1>2 DEF Gateway, RunStarts, RunAnswers, RunFails, RunDies, LateRefusal, KillAgent,
       AgentCleanedUp, AgentsListed
  <2>2. restarts' = restarts \/ restarts' = restarts + 1
    BY <1>2 DEF Gateway, RunStarts, RunAnswers, RunFails, RunDies, LateRefusal, KillAgent,
       AgentCleanedUp, AgentsListed
  <2>3. run'[t] = run[t] \/ (run[t] \in {"queued", "running"} /\ run'[t] # "none")
    <3>1. ASSUME NEW u \in Turn, RunStarts(u) \/ RunAnswers(u) \/ RunFails(u) \/ RunDies(u) \/ LateRefusal(u)
          PROVE  run'[t] = run[t] \/ (run[t] \in {"queued", "running"} /\ run'[t] # "none")
      BY <3>1 DEF RunStarts, RunAnswers, RunFails, RunDies, LateRefusal, ChatTypeOK
    <3>2. ASSUME NEW a \in Agent, KillAgent(a) \/ AgentCleanedUp(a)
          PROVE  run'[t] = run[t] \/ (run[t] \in {"queued", "running"} /\ run'[t] # "none")
      BY <3>2 DEF KillAgent, AgentCleanedUp
    <3> QED
      BY <1>2, <3>1, <3>2 DEF Gateway, AgentsListed
  <2> QED
    BY <1>0, <2>1, <2>2, <2>3
<1>3. CASE Operator \/ Crash \/ Poller \/ UNCHANGED chatVars
  <2>1. UNCHANGED <<run, conv, restarts>>
    BY <1>3 DEF Operator, SendMessage, SwitchBrain, SetMode, DeleteSession, Crash, Poller, PollReads,
       PollWrites, OnlyPolls, deliveryVars, runVars, chatVars
  <2> QED
    BY <1>0, <2>1
<1> QED
  BY <1>0, <1>1, <1>2, <1>3 DEF ChatNext

\* A step that appends nothing, ends no run and leaves the agents.
LEMMA AnswersSpared ==
    ASSUME ConversationsFit, ChatTypeOK, Onward, UNCHANGED <<transcript, exists, cleaning>>,
           \A t \in Turn : /\ run[t] = "running" => run'[t] = "running" \/ Lost(t)'
                           /\ run'[t] \in {"queued", "running"} => run'[t] = run[t] /\ conv'[t] = conv[t]
    PROVE  ConversationsFit'
<1>1. \A c \in Conv : \A i \in 1..Len(transcript[c]) : transcript[c][i] \in Message
  BY DEF ChatTypeOK
<1>2. \A m \in Message : m.turn \in Turn
  BY DEF Message
<1>3. \A c \in Conv : TranscriptFits(c)'
  BY <1>1, <1>2 DEF ConversationsFit, TranscriptFits, Onward
<1>4. \A t \in Turn : RunFits(t)'
  BY DEF ConversationsFit, RunFits
<1> QED
  BY <1>3, <1>4 DEF ConversationsFit

\* What is said in a conversation keeps it in order, if the last prompt is answered
\* or was lost.
LEMMA SayingKeeps ==
    ASSUME ConversationsFit, ChatTypeOK, UNCHANGED <<exists, cleaning, conv, restarts>>,
           NEW t \in Turn, NEW what \in Said, Says(t, what),
           run[t] \in {"queued", "running"},
           NEW state \in {"running", "answered", "failed"}, run' = [run EXCEPT ![t] = state],
           IF what = "prompt"
           THEN /\ run[t] = "queued" /\ state = "running"
                /\ \A u \in Turn : run[u] = "running" => conv[u] # conv[t]
           ELSE run[t] = "running" /\ state # "running"
    PROVE  ConversationsFit'
<1> DEFINE c == conv[t]
           said == transcript[c]
           m == [turn |-> t, said |-> what]
<1>1. c \in Conv /\ AgentOf(c) \in exists /\ said \in Seq(Message) /\ m \in Message
  BY DEF ConversationsFit, RunFits, ChatTypeOK, Message
<1>2. /\ transcript'[c] = Append(said, m) /\ \A d \in Conv \ {c} : transcript'[d] = transcript[d]
      /\ run'[t] = state /\ \A u \in Turn \ {t} : run'[u] = run[u]
  BY <1>1 DEF Says, ChatTypeOK
<1>3. /\ Len(Append(said, m)) = Len(said) + 1 /\ Append(said, m)[Len(said) + 1] = m
      /\ \A i \in 1..Len(said) : Append(said, m)[i] = said[i]
  BY <1>1
<1>4. \A i \in 1..Len(said) : said[i] \in Message /\ said[i].turn \in Turn
  <2>1. \A i \in 1..Len(said) : said[i] \in Message
    BY <1>1
  <2> QED
    BY <2>1 DEF Message
<1>5. /\ \A u \in Turn : Lost(u)' <=> Lost(u)
      /\ \A u \in Turn : run[u] # "none" => run'[u] # "none"
  BY <1>2 DEF Lost
<1>6. what # "prompt" => Len(said) > 0 /\ said[Len(said)] = [turn |-> t, said |-> "prompt"]
  BY DEF ConversationsFit, RunFits
<1>7. ASSUME Len(said) > 0, said[Len(said)].said = "prompt", ~Lost(said[Len(said)].turn)
      PROVE  what # "prompt" /\ said[Len(said)].turn = t
  <2>1. Len(said) \in 1..Len(said)
    BY <1>1, <1>7
  <2>2. run[said[Len(said)].turn] = "running" /\ conv[said[Len(said)].turn] = c
    BY <1>1, <1>7, <2>1 DEF ConversationsFit, TranscriptFits
  <2>3. what # "prompt"
    BY <1>4, <2>1, <2>2
  <2> QED
    BY <1>6, <2>3
<1>8. \A u \in Turn \ {t} : run[u] = "running" => conv[u] # c
  <2>1. SUFFICES ASSUME NEW u \in Turn \ {t}, run[u] = "running", conv[u] = c PROVE FALSE
    OBVIOUS
  <2>2. said[Len(said)] = [turn |-> u, said |-> "prompt"]
    BY <2>1, SMTT(30) DEF ConversationsFit, RunFits
  <2>3. said[Len(said)].turn = t
    BY <1>6, <2>1
  <2> QED
    BY <2>1, <2>2, <2>3
<1>9. TranscriptFits(c)'
  <2>1. transcript'[c] # <<>> => AgentOf(c) \in exists' \cup cleaning'
    BY <1>1
  <2>2. ASSUME NEW i \in 1..(Len(said) + 1)
        PROVE  conv'[Append(said, m)[i].turn] = c /\ run'[Append(said, m)[i].turn] # "none"
    <3>1. CASE i \in 1..Len(said)
      BY <1>1, <1>3, <1>4, <1>5, <3>1 DEF ConversationsFit, TranscriptFits
    <3>2. CASE i = Len(said) + 1
      BY <1>2, <1>3, <3>2
    <3> QED
      BY <1>1, <3>1, <3>2
  <2>3. ASSUME NEW i \in 1..(Len(said) + 1), Append(said, m)[i].said = "prompt",
               ~Lost(Append(said, m)[i].turn)
        PROVE  IF i < Len(said) + 1
               THEN /\ Append(said, m)[i + 1].turn = Append(said, m)[i].turn
                    /\ Append(said, m)[i + 1].said # "prompt"
               ELSE run'[Append(said, m)[i].turn] = "running"
    <3>1. CASE i < Len(said)
      <4>1. i \in 1..Len(said) /\ i + 1 \in 1..Len(said)
        BY <1>1, <3>1
      <4>2. said[i + 1].turn = said[i].turn /\ said[i + 1].said # "prompt"
        BY <1>1, <1>3, <2>3, <3>1, <4>1 DEF ConversationsFit, TranscriptFits
      <4> QED
        BY <1>1, <1>3, <3>1, <4>1, <4>2
    <3>2. CASE i = Len(said)
      <4>1. Len(said) > 0 /\ said[Len(said)].said = "prompt" /\ ~Lost(said[Len(said)].turn)
        BY <1>1, <1>3, <2>3, <3>2
      <4>2. what # "prompt" /\ said[Len(said)].turn = t
        BY <1>7, <4>1
      <4> QED
        BY <1>1, <1>3, <3>2, <4>2
    <3>3. CASE i = Len(said) + 1
      <4>1. what = "prompt" /\ Append(said, m)[i].turn = t
        BY <1>3, <2>3, <3>3
      <4> QED
        BY <1>1, <1>2, <3>3, <4>1
    <3> QED
      BY <1>1, <2>3, <3>1, <3>2, <3>3
  <2>4. \A i \in 1..(Len(said) + 1) : Append(said, m)[i].turn \in Turn
    BY <1>1, <1>3, <1>4
  <2>5. \A i \in 1..(Len(said) + 1) : Lost(Append(said, m)[i].turn)' <=> Lost(Append(said, m)[i].turn)
    BY <1>2, <2>4 DEF Lost
  <2>6. ASSUME NEW i \in 1..(Len(said) + 1), Append(said, m)[i].said = "prompt",
               ~(run'[Append(said, m)[i].turn] = "dead" /\ restarts' > 0)
        PROVE  IF i < Len(said) + 1
               THEN /\ Append(said, m)[i + 1].turn = Append(said, m)[i].turn
                    /\ Append(said, m)[i + 1].said # "prompt"
               ELSE run'[Append(said, m)[i].turn] = "running"
    <3>1. ~Lost(Append(said, m)[i].turn)
      BY <2>5, <2>6 DEF Lost
    <3> QED
      BY <2>3, <2>6, <3>1
  <2>7. transcript'[c] = Append(said, m) /\ Len(transcript'[c]) = Len(said) + 1
    BY <1>2, <1>3
  <2> QED
    BY <2>1, <2>2, <2>6, <2>7 DEF TranscriptFits, Lost
<1>10. ASSUME NEW d \in Conv \ {c} PROVE TranscriptFits(d)'
  <2>1. \A i \in 1..Len(transcript[d]) : transcript[d][i].turn \in Turn
    <3>1. transcript[d] \in Seq(Message)
      BY DEF ChatTypeOK
    <3>2. \A i \in 1..Len(transcript[d]) : transcript[d][i] \in Message
      BY <3>1
    <3> QED
      BY <3>2 DEF Message
  <2>2. \A i \in 1..Len(transcript[d]) : transcript[d][i].turn # t
    BY <1>10 DEF ConversationsFit, TranscriptFits
  <2>3. \A i \in 1..Len(transcript[d]) : run'[transcript[d][i].turn] = run[transcript[d][i].turn]
    BY <1>2, <2>1, <2>2
  <2> QED
    BY <1>2, <1>10, <2>3 DEF ConversationsFit, TranscriptFits, Lost
<1>11. ASSUME NEW u \in Turn PROVE RunFits(u)'
  <2>1. CASE u = t
    <3>1. state = "running" => m = [turn |-> t, said |-> "prompt"]
      OBVIOUS
    <3> QED
      BY <1>1, <1>2, <1>3, <2>1, <3>1 DEF RunFits
  <2>2. CASE u # t
    <3>1. run[u] = "running" => conv[u] \in Conv \ {c}
      BY <1>8, <2>2 DEF ConversationsFit, RunFits
    <3> QED
      BY <1>2, <2>2, <3>1 DEF ConversationsFit, RunFits
  <2> QED
    BY <2>1, <2>2
<1> QED
  BY <1>9, <1>10, <1>11 DEF ConversationsFit

LEMMA DeliverySaysNothing ==
    ASSUME ChatTypeOK, ChatShape, ConversationsFit, Onward,
           NEW t \in Turn, Deliver(t) \/ DeliveryThrows(t)
    PROVE  ConversationsFit'
<1> USE DEF OnlyDelivers, sessionVars, pollVars, deliveryVars, rowVars, runVars,
            gatewayAgents, poolButHeld, MoveTo, Goto, Return
<1>0. TurnFits(t)
  BY DEF ChatShape
<1>1. \A c \in Conv : \A i \in 1..Len(transcript[c]) : transcript[c][i].turn \in Turn
  <2>1. ASSUME NEW c \in Conv PROVE \A i \in 1..Len(transcript[c]) : transcript[c][i] \in Message
    BY DEF ChatTypeOK
  <2> QED
    BY <2>1 DEF Message
<1>2. CASE ResolveStep(t) /\ ~CreateAgent(t, asked[t])
  <2>1. UNCHANGED <<transcript, run, conv, exists, cleaning>>
    BY <1>2 DEF ResolveStep, Resolve, Reuse, DropStaleRow, CheckCap, CreateFails, BecomesVisible, NotVisibleInTime
  <2> QED
    BY <2>1, AnswersSpared
<1>3. CASE ResolveStep(t) /\ CreateAgent(t, asked[t])
  <2>1. PICK a \in Agent : FreeName(asked[t], a) /\ exists' = exists \cup {a}
    BY <1>3 DEF CreateAgent
  <2>2. a \notin exists \cup cleaning
    BY <2>1, FreeNames DEF ChatTypeOK
  <2>3. UNCHANGED <<transcript, run, conv, restarts, cleaning>>
    BY <1>3 DEF ResolveStep, CreateAgent
  <2>4. ASSUME NEW c \in Conv PROVE TranscriptFits(c)'
    <3>1. CASE AgentOf(c) = a
      <4>1. transcript[c] = <<>>
        BY <2>2, <3>1 DEF ConversationsFit, TranscriptFits
      <4> QED
        BY <2>3, <4>1 DEF TranscriptFits
    <3>2. CASE AgentOf(c) # a
      BY <2>1, <2>3, <3>2 DEF ConversationsFit, TranscriptFits, Lost
    <3> QED
      BY <3>1, <3>2
  <2>5. \A u \in Turn : RunFits(u)'
    BY <2>1, <2>3 DEF ConversationsFit, RunFits
  <2> QED
    BY <2>4, <2>5 DEF ConversationsFit
<1>4. CASE MarkRunning(t)
  <2>1. UNCHANGED <<transcript, run, exists, cleaning>> /\ run[t] = "none"
    BY <1>0, <1>4 DEF MarkRunning, TurnFits
  <2>2. \A u \in Turn \ {t} : conv'[u] = conv[u]
    BY <1>4 DEF MarkRunning, ChatTypeOK
  <2> QED
    BY <2>1, <2>2, AnswersSpared
<1>5. CASE Send(t)
  <2>1. UNCHANGED <<transcript, conv, restarts, exists, cleaning>>
    BY <1>5 DEF Send
  <2>2. run[t] = "none" /\ conv[t] \in Conv /\ AgentOf(conv[t]) = held[t]
    BY <1>0, <1>5 DEF Send, TurnFits
  <2>3. CASE UNCHANGED run
    BY <2>1, <2>3, AnswersSpared
  <2>4. CASE run' = [run EXCEPT ![t] = IF held[t] \in exists THEN "queued" ELSE "refused"]
    <3>1. run'[t] \in {"queued", "refused"} /\ (run'[t] = "queued" => held[t] \in exists)
      BY <2>4 DEF ChatTypeOK
    <3>2. \A u \in Turn \ {t} : run'[u] = run[u]
      BY <2>4 DEF ChatTypeOK
    <3>3. \A u \in Turn : RunFits(u)'
      BY <2>1, <2>2, <3>1, <3>2 DEF ConversationsFit, RunFits
    <3>4. ASSUME NEW c \in Conv PROVE TranscriptFits(c)'
      <4>1. \A u \in Turn : run[u] # "none" => run'[u] = run[u]
        BY <2>2, <3>2
      <4> QED
        BY <1>1, <2>1, <4>1 DEF ConversationsFit, TranscriptFits, Lost
    <3> QED
      BY <3>3, <3>4 DEF ConversationsFit
  <2> QED
    BY <1>5, <2>3, <2>4 DEF Send
<1>6. CASE SandboxRefused(t) \/ DispatchAnswered(t) \/ DispatchThrows(t) \/ StoreRef(t)
           \/ MarkReplied(t) \/ DeliveryThrows(t)
  <2>1. UNCHANGED <<transcript, run, conv, exists, cleaning>>
    BY <1>6 DEF SandboxRefused, DispatchAnswered, DispatchThrows, StoreRef, MarkReplied, DeliveryThrows
  <2> QED
    BY <2>1, AnswersSpared
<1> QED
  BY <1>2, <1>3, <1>4, <1>5, <1>6 DEF Deliver

LEMMA DeliveryShowsItsOwn ==
    ASSUME ChatTypeOK, AnswersFit, Onward, NEW t \in Turn, Deliver(t) \/ DeliveryThrows(t)
    PROVE  ShownFits' /\ FoundFits'
<1> USE DEF OnlyDelivers, sessionVars, pollVars, deliveryVars, rowVars, runVars,
            gatewayAgents, poolButHeld, MoveTo, Goto, Return
<1>1. UNCHANGED <<found, looked>>
  BY DEF Deliver, DeliveryThrows, ResolveStep, SandboxRefused, MarkRunning, Send, DispatchAnswered,
     DispatchThrows, StoreRef, MarkReplied
<1>2. \A u \in Turn : status'[u] = "DONE" =>
          \/ status[u] = "DONE" /\ content'[u] = content[u]
          \/ Shows(u, content'[u])
  <2>1. CASE ResolveStep(t) \/ Send(t) \/ DispatchAnswered(t) \/ StoreRef(t)
    BY <2>1 DEF ResolveStep, Send, DispatchAnswered, StoreRef
  <2>2. CASE SandboxRefused(t) \/ MarkRunning(t) \/ DispatchThrows(t) \/ DeliveryThrows(t)
    <3>1. UNCHANGED content
      BY <2>2 DEF SandboxRefused, MarkRunning, DispatchThrows, DeliveryThrows
    <3>2. UpdateDelivery(t, "FAILED") \/ UpdateDelivery(t, "RUNNING")
      BY <2>2 DEF SandboxRefused, MarkRunning, DispatchThrows, DeliveryThrows
    <3>3. \A u \in Turn : status'[u] = "DONE" => status[u] = "DONE"
      BY <3>2, UpdateTypes
    <3> QED
      BY <3>1, <3>3
  <2>3. CASE MarkReplied(t)
    <3>1. content' = [content EXCEPT ![t] = t]
      BY <2>3 DEF MarkReplied
    <3>2. \A u \in Turn \ {t} : status'[u] = status[u] /\ content'[u] = content[u]
      BY <2>3, <3>1, UpdateTypes DEF MarkReplied, ChatTypeOK
    <3>3. Shows(t, content'[t])
      BY <3>1 DEF Shows, ChatTypeOK
    <3> QED
      BY <3>2, <3>3
  <2> QED
    BY <2>1, <2>2, <2>3 DEF Deliver
<1> QED
  BY <1>1, <1>2, ShownKept, FoundKept DEF AnswersFit

\* RunDies is the one step that leaves a prompt behind in a conversation whose agent
\* lives on; the turn is lost from then on.
LEMMA GatewayAnswers ==
    ASSUME ChatTypeOK, ChatShape, ConversationsFit, Onward, Gateway
    PROVE  ConversationsFit'
<1> USE DEF OnlyRuns, sessionVars, deliveryVars, pollVars, poolVars, rowVars, runVars, gatewayAgents
<1>1. \A c \in Conv : \A i \in 1..Len(transcript[c]) : transcript[c][i].turn \in Turn
  <2>1. ASSUME NEW c \in Conv PROVE \A i \in 1..Len(transcript[c]) : transcript[c][i] \in Message
    BY DEF ChatTypeOK
  <2> QED
    BY <2>1 DEF Message
<1>2. ASSUME NEW t \in Turn, RunStarts(t)
      PROVE  ConversationsFit'
  BY <1>2, SayingKeeps DEF RunStarts, Said
<1>3. ASSUME NEW t \in Turn, RunAnswers(t)
      PROVE  ConversationsFit'
  BY <1>3, SayingKeeps DEF RunAnswers, Said
<1>4. ASSUME NEW t \in Turn, RunFails(t)
      PROVE  ConversationsFit'
  BY <1>4, SayingKeeps DEF RunFails, Said
<1>5. ASSUME NEW t \in Turn, RunDies(t)
      PROVE  ConversationsFit'
  <2>1. UNCHANGED <<transcript, conv, exists, cleaning>> /\ run[t] = "running"
        /\ run' = [run EXCEPT ![t] = "dead"] /\ restarts' = restarts + 1 /\ restarts \in Nat
    BY <1>5, NullsAssumption DEF RunDies, ChatTypeOK
  <2>2. Lost(t)'
    BY <2>1 DEF Lost, ChatTypeOK
  <2> QED
    BY <2>1, <2>2, AnswersSpared DEF ChatTypeOK
<1>6. ASSUME NEW t \in Turn, LateRefusal(t)
      PROVE  ConversationsFit'
  <2>1. UNCHANGED <<transcript, conv, exists, cleaning>> /\ run[t] = "queued"
        /\ run' = [run EXCEPT ![t] = "refused"]
    BY <1>6 DEF LateRefusal
  <2> QED
    BY <2>1, AnswersSpared DEF ChatTypeOK
<1>7. ASSUME NEW a \in Agent, KillAgent(a)
      PROVE  ConversationsFit'
  <2>1. /\ exists' = exists \ {a} /\ cleaning' = cleaning \cup {a} /\ UNCHANGED <<transcript, conv, restarts>>
        /\ \A t \in Turn : run'[t] = IF run[t] \in {"queued", "running"} /\ AgentOf(conv[t]) = a
                                     THEN "dead" ELSE run[t]
    BY <1>7 DEF KillAgent, Kill
  <2>2. \A u \in Turn : RunFits(u)'
    BY <2>1 DEF ConversationsFit, RunFits
  <2>3. ASSUME NEW c \in Conv PROVE TranscriptFits(c)'
    <3>1. \A u \in Turn : Lost(u) => Lost(u)'
      BY DEF Onward
    <3>2. \A u \in Turn : run[u] # "none" => run'[u] # "none"
      BY DEF Onward
    <3> QED
      BY <1>1, <2>1, <3>1, <3>2 DEF ConversationsFit, TranscriptFits
  <2> QED
    BY <2>2, <2>3 DEF ConversationsFit
<1>8. ASSUME NEW a \in Agent, AgentCleanedUp(a)
      PROVE  ConversationsFit'
  <2>1. /\ a \in cleaning /\ cleaning' = cleaning \ {a} /\ UNCHANGED <<exists, run, conv, restarts>>
        /\ \A c \in Conv : transcript'[c] = IF AgentOf(c) = a THEN <<>> ELSE transcript[c]
    BY <1>8 DEF AgentCleanedUp, CleanedUp
  <2>2. a \notin exists
    BY <2>1 DEF ChatShape
  <2>3. \A u \in Turn : RunFits(u)'
    BY <2>1, <2>2 DEF ConversationsFit, RunFits
  <2>4. ASSUME NEW c \in Conv PROVE TranscriptFits(c)'
    <3>1. CASE AgentOf(c) = a
      <4>1. transcript'[c] = <<>>
        BY <2>1, <3>1
      <4> QED
        BY <4>1 DEF TranscriptFits
    <3>2. CASE AgentOf(c) # a
      BY <2>1, <3>2 DEF ConversationsFit, TranscriptFits, Lost
    <3> QED
      BY <3>1, <3>2
  <2> QED
    BY <2>3, <2>4 DEF ConversationsFit
<1>9. CASE AgentsListed
  <2>1. UNCHANGED <<transcript, run, conv, exists, cleaning>>
    BY <1>9 DEF AgentsListed, ListingCatchesUp
  <2> QED
    BY <2>1, AnswersSpared
<1> QED
  BY <1>2, <1>3, <1>4, <1>5, <1>6, <1>7, <1>8, <1>9 DEF Gateway

LEMMA PollerAnswers ==
    ASSUME ChatTypeOK, AnswersFit, Onward, Poller
    PROVE  AnswersFit'
<1> USE DEF OnlyPolls, sessionVars, deliveryVars, rowVars, runVars, gatewayAgents, poolVars
<1>0. FoundFits /\ ShownFits /\ NoMessage.said # "answer"
  BY DEF AnswersFit, NoMessage
<1>1. UNCHANGED <<transcript, run, conv, exists, cleaning, restarts>>
  BY DEF Poller, PollReads, PollWrites
<1>2. ConversationsFit'
  BY <1>1, AnswersSpared DEF AnswersFit
<1>3. ASSUME NEW t \in Turn, NEW isOld \in BOOLEAN, PollReads(t, isOld)
      PROVE  ShownFits' /\ FoundFits'
  <2>1. UNCHANGED <<status, content>> /\ looked' = t
    BY <1>3 DEF PollReads
  <2>2. ShownFits'
    BY <1>0, <2>1, ShownKept
  <2>3. CASE found' = NoMessage
    BY <1>0, <2>2, <2>3 DEF FoundFits
  <2>4. CASE ref # NoConv /\ found' = FindTurnReply(t, transcript[ref])
    <3>1. ref \in Conv
      BY <2>4 DEF ChatTypeOK
    <3>2. TranscriptFits(ref)
      BY <3>1 DEF AnswersFit, ConversationsFit
    <3>3. found' # NoMessage => Shows(t, found'.turn)
      BY <2>4, <3>1, <3>2, ReplyFits
    <3> QED
      BY <1>0, <1>1, <2>1, <2>2, <3>3 DEF FoundFits, Shows, Lost
  <2> QED
    BY <1>3, <2>3, <2>4 DEF PollReads
<1>4. ASSUME NEW t \in Turn, PollWrites(t)
      PROVE  ShownFits' /\ FoundFits'
  <2>1. found' = NoMessage /\ looked = t
    BY <1>4 DEF PollWrites
  <2>2. FoundFits'
    BY <1>0, <2>1 DEF FoundFits
  <2>3. \A u \in Turn : status'[u] = "DONE" =>
            \/ status[u] = "DONE" /\ content'[u] = content[u]
            \/ Shows(u, content'[u])
    <3>1. CASE UpdateDelivery(t, "DONE") /\ found.said = "answer" /\ content' = [content EXCEPT ![t] = found.turn]
      <4>1. \A u \in Turn \ {t} : status'[u] = status[u] /\ content'[u] = content[u]
        BY <3>1, UpdateTypes DEF ChatTypeOK
      <4>2. content'[t] = found.turn /\ Shows(t, found.turn)
        BY <1>0, <2>1, <3>1 DEF FoundFits, ChatTypeOK
      <4> QED
        BY <4>1, <4>2
    <3>2. CASE UpdateDelivery(t, "FAILED") /\ content' = content
      <4>1. \A u \in Turn : status'[u] = "DONE" => status[u] = "DONE"
        BY <3>2, UpdateTypes
      <4> QED
        BY <3>2, <4>1
    <3>3. CASE UNCHANGED rowVars
      BY <3>3
    <3> QED
      BY <1>4, <3>1, <3>2, <3>3 DEF PollWrites
  <2> QED
    BY <1>0, <2>2, <2>3, ShownKept
<1> QED
  BY <1>2, <1>3, <1>4 DEF Poller, AnswersFit

LEMMA OperatorAnswers ==
    ASSUME ChatTypeOK, ChatShape, AnswersFit, Onward, Operator \/ Crash
    PROVE  AnswersFit'
<1> USE DEF rowVars, deliveryVars, runVars, pollVars, poolVars, gatewayAgents
<1>1. UNCHANGED <<transcript, run, conv, exists, cleaning>>
  BY DEF Operator, SendMessage, SwitchBrain, SetMode, DeleteSession, Crash
<1>2. ConversationsFit'
  BY <1>1, AnswersSpared DEF AnswersFit
<1>3. UNCHANGED content /\ \A u \in Turn : status'[u] = "DONE" => status[u] = "DONE"
  <2>1. ASSUME NEW t \in Turn, SendMessage(t)
        PROVE  UNCHANGED content /\ \A u \in Turn : status'[u] = "DONE" => status[u] = "DONE"
    BY <2>1 DEF SendMessage, ChatTypeOK
  <2>2. CASE DeleteSession
    BY <2>2 DEF DeleteSession
  <2> QED
    BY <2>1, <2>2 DEF Operator, SwitchBrain, SetMode, Crash
<1>4. FoundFits'
  <2>1. found' = NoMessage \/ UNCHANGED <<found, looked>>
    BY DEF Operator, SendMessage, SwitchBrain, SetMode, DeleteSession, Crash
  <2>2. CASE found' = NoMessage
    BY <2>2 DEF FoundFits, NoMessage
  <2> QED
    BY <2>1, <2>2, FoundKept DEF AnswersFit
<1> QED
  BY <1>2, <1>3, <1>4, ShownKept DEF AnswersFit

LEMMA AnswersStart == ChatInit => AnswersFit
<1> SUFFICES ASSUME ChatInit PROVE AnswersFit
  OBVIOUS
<1>1. \A c \in Conv : transcript[c] = <<>>
  BY DEF ChatInit
<1>2. \A t \in Turn : run[t] = "none" /\ status[t] = "none"
  BY DEF ChatInit
<1>3. found.said = "nothing"
  BY DEF ChatInit, NoMessage
<1> QED
  BY <1>1, <1>2, <1>3 DEF AnswersFit, ConversationsFit, FoundFits, ShownFits, TranscriptFits, RunFits

LEMMA AnswersKept ==
    ASSUME ChatTypeOK, ChatShape, AnswersFit, [ChatNext]_chatVars
    PROVE  AnswersFit'
<1>0. Onward
  BY StepsGoOnward
<1>1. ASSUME NEW t \in Turn, Deliver(t) \/ DeliveryThrows(t) PROVE AnswersFit'
  BY <1>0, <1>1, DeliverySaysNothing, DeliveryShowsItsOwn DEF AnswersFit
<1>2. CASE Gateway
  <2>1. UNCHANGED <<content, found, looked>>
    BY <1>2 DEF Gateway, RunStarts, RunAnswers, RunFails, RunDies, LateRefusal, KillAgent,
       AgentCleanedUp, AgentsListed, OnlyRuns, rowVars, pollVars
  <2>2. \A u \in Turn : status'[u] = "DONE" => status[u] = "DONE"
    BY <1>2, UpdateTypes DEF Gateway, RunStarts, RunAnswers, RunFails, RunDies, LateRefusal, KillAgent,
       AgentCleanedUp, AgentsListed, rowVars
  <2>3. ConversationsFit'
    BY <1>0, <1>2, GatewayAnswers DEF AnswersFit
  <2> QED
    BY <1>0, <2>1, <2>2, <2>3, ShownKept, FoundKept DEF AnswersFit
<1>3. CASE Operator \/ Crash \/ Poller
  BY <1>0, <1>3, OperatorAnswers, PollerAnswers
<1>4. CASE UNCHANGED chatVars
  <2>1. UNCHANGED <<transcript, run, conv, exists, cleaning, status, content, found, looked>>
    BY <1>4 DEF chatVars, rowVars, deliveryVars, runVars, pollVars, poolVars
  <2>2. ConversationsFit'
    BY <1>0, <2>1, AnswersSpared DEF AnswersFit
  <2> QED
    BY <1>0, <2>1, <2>2, ShownKept, FoundKept DEF AnswersFit
<1> QED
  BY <1>1, <1>2, <1>3, <1>4 DEF ChatNext

ChatIInv == ChatTypeOK /\ ChatShape /\ AnswersFit

LEMMA ChatStartsFit == ChatInit => ChatIInv
BY ChatStarts, AnswersStart DEF ChatIInv, ChatInit, PoolInit, ChatShape, TurnFits, OwnBrains

LEMMA ChatSteps ==
    ASSUME ChatIInv, [ChatNext]_chatVars
    PROVE  ChatIInv'
<1>1. ChatShape'
  BY ChatShapeKept DEF ChatIInv
<1> QED
  BY <1>1, ChatTypesKept, AnswersKept DEF ChatIInv

\* The inductive invariant behind the answers: every prompt whose run was not lost is
\* followed by what was said to it, or is still run; and what is held or shown was
\* found that way.
THEOREM AnswersInductive == ChatSpec => []ChatIInv
<1>1. ChatInit => ChatIInv
  BY ChatStartsFit
<1>2. ChatIInv /\ [ChatNext]_chatVars => ChatIInv'
  BY ChatSteps
<1> QED
  BY <1>1, <1>2, PTL DEF ChatSpec

\* findTurnReply, completeOne and deliver, for any Brains, turns, faults, kills, edits
\* and deaths of runs: a turn shown as DONE shows its own answer, or its run was lost
\* and it shows one of its own conversation.
THEOREM AnswersAreOwnOrNext == ChatSpec => []AnswerIsOwnOrNext
<1>1. ChatIInv => AnswerIsOwnOrNext
  BY DEF ChatIInv, AnswersFit, ShownFits, Shows, Lost, AnswerIsOwnOrNext
<1> QED
  BY <1>1, AnswersInductive, PTL

\* Where no run ends without a word in its transcript, every answer is the turn's own.
THEOREM AnswersAreOwn == ASSUME MaxRestarts = 0 PROVE ChatSpec => []AnswerIsOwn
<1>1. ChatIInv => AnswerIsOwn
  BY DEF ChatIInv, AnswersFit, ShownFits, Shows, Lost, ChatTypeOK, AnswerIsOwn
<1> QED
  BY <1>1, AnswersInductive, PTL

-----------------------------------------------------------------------------
(* The parts together, as MCParts puts them *)

PartsIInv == ChatIInv /\ LinkIInv /\ FleetIInv /\ QuotaTypeOK /\ QuotaIInv

LEMMA PartsStart == PartsInit => PartsIInv
BY ChatStartsFit, LinkStarts, FleetStarts, QuotaStarts, QuotaInitInv DEF PartsInit, PartsIInv

\* Whichever part moves, the others rest, which is a step of theirs too.
LEMMA PartsSteps ==
    ASSUME PartsIInv, [PartsNext]_<<world, chatVars, linkVars, fleetVars, quotaVars>>
    PROVE  PartsIInv'
<1>1. /\ [ChatNext]_chatVars /\ [LinkNext]_linkVars
      /\ [FleetNext]_fleetVars /\ [QuotaNext]_quotaVars
  BY DEF PartsNext, Here
<1>2. ChatIInv' /\ LinkIInv' /\ FleetIInv'
  BY <1>1, ChatSteps, LinkSteps, FleetSteps DEF PartsIInv
<1>3. QuotaTypeOK' /\ QuotaIInv'
  BY <1>1, QuotaTypesKept, QuotaStep DEF PartsIInv
<1> QED
  BY <1>2, <1>3 DEF PartsIInv

\* The inductive invariants of the parts hold side by side.
THEOREM PartsInductive == PartsSpec => []PartsIInv
<1>1. PartsInit => PartsIInv
  BY PartsStart
<1>2. PartsIInv /\ [PartsNext]_<<world, chatVars, linkVars, fleetVars, quotaVars>> => PartsIInv'
  BY PartsSteps
<1> QED
  BY <1>1, <1>2, PTL DEF PartsSpec

\* The state of chat, of the connection, of the fleet and of the quotas is of its
\* type, whichever of them moves, and no bound of theirs is passed.
THEOREM PartsTyped == PartsSpec => []PartsTypeOK
<1>1. PartsIInv => PartsTypeOK
  BY DEF PartsIInv, ChatIInv, LinkIInv, FleetIInv, PartsTypeOK
<1> QED
  BY <1>1, PartsInductive, PTL
=============================================================================
