---------------------------- MODULE GatewayLink ----------------------------
(***************************************************************************)
(* The controller's connection to the gateway (gateway-ws.mjs): connect()  *)
(* with its handshake, the one `socket` variable every caller shares, the  *)
(* requests pending on it, the request ids kept for refusals that come     *)
(* after the answer, and the subscription that a socket takes with it.     *)
(*                                                                         *)
(* Nothing keeps two callers from connecting at once: each opens a socket, *)
(* the last one stays in `socket`, the others stay open, and the close of  *)
(* any of them resets the connection.                                      *)
(***************************************************************************)
EXTENDS Integers, FiniteSets, SequencesExt

CONSTANTS
    Socket,         \* WebSocket objects
    NoSocket,
    Run,            \* calls of dispatch(): connect first, then read the method
    ChatRun,        \* calls of dispatchChat(): read the method, then connect
    Subscriber,     \* the subscription's call, repeated by a timer
    MaxTracked,     \* dispatchedRuns holds no more than that
    MaxTroubles       \* bound: sockets that break, greetings, handshakes and requests that fail

Caller == Run \cup ChatRun \cup {Subscriber}

ASSUME NoSocketAssumption == NoSocket \notin Socket
ASSUME CallersDiffer == Run \cap ChatRun = {} /\ Subscriber \notin Run \cup ChatRun
ASSUME TrackedAssumption == MaxTracked \in Nat \ {0} /\ MaxTroubles \in Nat

VARIABLES
    link,           \* readyState of each socket; "ready" once its handshake is done
    socket,         \* the module's variables
    hello,
    method,         \* runMethod is known
    place,          \* where each call is
    on,             \* the socket it is connecting with, or its frame went out on
    named,          \* connecting calls that have read a method already
    nulls,          \* dispatches whose frame named no method
    pending,        \* calls in the pending map
    tracked,        \* dispatchedRuns, the oldest first
    aged,           \* runs sent longer ago than dispatchedRuns remembers
    dropped,        \* runs pushed out by their number
    answer,         \* what the gateway has made of a frame
    bare,           \* history: the gateway's last greeting offered no dispatch method
    told,           \* late refusals handed to the sink, with the run's name or without
    subscribed,     \* sockets the gateway sends events on
    troubles          \* of those, so far

moduleVars == <<socket, hello, method>>
callVars == <<place, on, named, nulls, pending>>
trackVars == <<tracked, aged, dropped>>
linkVars == <<link, moduleVars, callVars, trackVars, answer, bare, told, subscribed, troubles>>

------------------------------------------------------------------------------
Unfinished == {"connecting", "waiting"}

\* readyState 1: before its handshake, after it, and when it was refused.
Usable == {"open", "ready", "refused"}

LinkTypeOK ==
    /\ link \in [Socket -> {"none", "opening", "closing", "closed"} \cup Usable]
    /\ socket \in Socket \cup {NoSocket} /\ hello \in BOOLEAN /\ method \in BOOLEAN
    /\ place \in [Caller -> Unfinished \cup {"idle", "resolved", "rejected"}]
    /\ on \in [Caller -> Socket \cup {NoSocket}]
    /\ named \subseteq Caller /\ nulls \subseteq Caller /\ pending \subseteq Caller
    /\ tracked \in Seq(Run) /\ Len(tracked) <= MaxTracked
    /\ aged \subseteq Run /\ dropped \subseteq Run /\ bare \in BOOLEAN
    /\ answer \in [Caller -> {"none", "due", "accepted"}]
    /\ told \in [Caller -> {"nothing", "named", "nameless"}]
    /\ subscribed \subseteq Socket /\ troubles \in 0..MaxTroubles

LinkInit ==
    /\ link = [s \in Socket |-> "none"]
    /\ socket = NoSocket /\ hello = FALSE /\ method = FALSE
    /\ place = [c \in Caller |-> "idle"] /\ on = [c \in Caller |-> NoSocket]
    /\ named = {} /\ nulls = {} /\ pending = {}
    /\ tracked = <<>> /\ aged = {} /\ dropped = {} /\ bare = FALSE
    /\ answer = [c \in Caller |-> "none"] /\ told = [c \in Caller |-> "nothing"]
    /\ subscribed = {} /\ troubles = 0

Trouble == troubles < MaxTroubles /\ troubles' = troubles + 1

Settle(c, how) == place' = [place EXCEPT ![c] = how]
GiveUp(c) == Settle(c, "rejected") /\ on' = [on EXCEPT ![c] = NoSocket]

------------------------------------------------------------------------------
(* Sending *)

\* Defect for the checks: nothing makes room.
KeepEverything(kept) == kept

\* trackDispatchedRun lets the old ones go, which come first, and makes room by
\* dropping the oldest of the others.
MakeRoom(kept) == IF Len(kept) >= MaxTracked THEN Tail(kept) ELSE kept

Track(c) ==
    IF c \in Run
    THEN /\ \E k \in 0..Len(tracked) :
               /\ \A i \in DOMAIN tracked : i <= k <=> tracked[i] \in aged
               /\ tracked' = Append(MakeRoom(SubSeq(tracked, k + 1, Len(tracked))), c)
         /\ dropped' = dropped \cup (Range(tracked) \ (Range(tracked') \cup aged))
         /\ UNCHANGED aged
    ELSE UNCHANGED trackVars

\* The request timeout is as long as dispatchedRuns remembers: nothing pending is old.
GrowsOld(c) ==
    /\ c \in Range(tracked) \ (aged \cup pending)
    /\ \A i, k \in DOMAIN tracked : tracked[k] = c /\ i < k => tracked[i] \in aged
    /\ aged' = aged \cup {c}
    /\ UNCHANGED <<link, moduleVars, callVars, tracked, dropped, answer, bare, told, subscribed, troubles>>

\* The rest of request() once connect() has resolved.  The entry in `pending` is
\* made first: a socket that is gone, or not open yet, throws and leaves it there.
\* A frame on a closing socket is discarded without a word.
SendOn(s, c, names) ==
    /\ pending' = pending \cup {c}
    /\ named' = named \ {c}
    /\ Track(c)
    /\ IF s = NoSocket \/ (s # NoSocket /\ link[s] = "opening")
       THEN GiveUp(c) /\ UNCHANGED <<nulls, answer>>
       ELSE /\ Settle(c, "waiting")
            /\ on' = [on EXCEPT ![c] = IF link[s] = "closing" THEN NoSocket ELSE s]
            /\ answer' = [answer EXCEPT ![c] = IF link[s] = "closing" THEN "none" ELSE "due"]
            /\ nulls' = IF c \in Run \cup ChatRun /\ ~names THEN nulls \cup {c} ELSE nulls

\* Defect for the checks: an open socket is enough, whoever greeted on it.
SocketIsOpen == socket # NoSocket /\ link[socket] \in Usable

\* connect() returns at once when some handshake was done and `socket` is open,
\* although the handshake may have been another socket's.
Connected == hello /\ socket # NoSocket /\ link[socket] \in Usable

SendAtOnce(c) ==
    /\ place[c] = "idle" /\ Connected
    /\ SendOn(socket, c, method)
    /\ UNCHANGED <<link, moduleVars, bare, told, subscribed, troubles>>

Unused(s) == link[s] \in {"none", "closed"} /\ \A c \in Caller : on[c] # s
ConnectingWith(c, s) == place[c] = "connecting" /\ on[c] = s

\* A call that connects is given a socket of its own, and `socket` is that one.
Takes(c, s) == on' = [on EXCEPT ![c] = s] /\ socket' = s /\ Settle(c, "connecting")
Reads(c) == named' = named \cup {c}

\* dispatchChat reads runMethod before it connects.
OpenSocket(c) ==
    /\ place[c] = "idle" /\ ~Connected
    /\ \E s \in Socket : Unused(s) /\ link' = [link EXCEPT ![s] = "opening"] /\ Takes(c, s)
    /\ IF c \in ChatRun /\ method THEN Reads(c) ELSE UNCHANGED named
    /\ UNCHANGED <<hello, method, nulls, pending, trackVars, answer, bare, told, subscribed, troubles>>

Opens(s) ==
    /\ link[s] = "opening"
    /\ link' = [link EXCEPT ![s] = "open"]
    /\ UNCHANGED <<moduleVars, callVars, trackVars, answer, bare, told, subscribed, troubles>>

\* hello-ok: `hello` is there before the method is looked for.
Greets(c, s) == link[s] = "open" /\ ConnectingWith(c, s) /\ hello' = TRUE

\* dispatch() connects once to read the method and once more to send: it opens
\* another socket when `socket` is, by then, one that is not open.
ConnectsTwice(c) == c \in Run \ named /\ (socket = NoSocket \/ link[socket] \notin Usable)

\* In the same turn comes the opener's frame, on whatever `socket` is now.
HelloOk(c, s) ==
    /\ Greets(c, s) /\ method' = TRUE /\ bare' = FALSE
    /\ IF ConnectsTwice(c)
       THEN /\ \E z \in Socket : Unused(z) /\ link' = [link EXCEPT ![s] = "ready", ![z] = "opening"] /\ Takes(c, z)
            /\ Reads(c) /\ UNCHANGED <<nulls, pending, trackVars, answer>>
       ELSE /\ link' = [link EXCEPT ![s] = "ready"]
            /\ SendOn(socket, c, c \in named \/ c \notin ChatRun) /\ UNCHANGED socket
    /\ UNCHANGED <<told, subscribed, troubles>>

GaveUp(c) == GiveUp(c) /\ named' = named \ {c} /\ UNCHANGED <<nulls, pending, trackVars, answer>>

\* connect() rejects, and keeps the greeting and the socket.
HelloBare(c, s) ==
    /\ Greets(c, s) /\ method' = FALSE /\ bare' = TRUE
    /\ Trouble
    /\ link' = [link EXCEPT ![s] = "ready"]
    /\ GaveUp(c) /\ UNCHANGED <<socket, told, subscribed>>

\* connect() leaves the socket open, and the gateway closes it.
HelloRefused(c, s) ==
    /\ link[s] = "open" /\ ConnectingWith(c, s)
    /\ Trouble
    /\ link' = [link EXCEPT ![s] = "refused"]
    /\ GaveUp(c) /\ UNCHANGED <<moduleVars, bare, told, subscribed>>

\* connectTimeoutMs, or an error of a socket that could not connect.
HandshakeFails(c, s) ==
    /\ ConnectingWith(c, s)
    /\ IF link[s] \in {"opening", "open"} THEN Trouble ELSE UNCHANGED troubles
    /\ link' = [link EXCEPT ![s] = IF @ \in {"opening", "open"} THEN "closing" ELSE @]
    /\ GaveUp(c) /\ UNCHANGED <<moduleVars, bare, told, subscribed>>

------------------------------------------------------------------------------
(* The end of a socket, of any socket *)

\* Defect for the checks: the waiting calls are dropped and nobody is told.
ForgetPending == UNCHANGED place /\ pending' = {}

RejectPending ==
    /\ place' = [c \in Caller |-> IF c \in pending /\ place[c] = "waiting" THEN "rejected" ELSE place[c]]
    /\ pending' = {}

ToClose(s) == link[s] \in {"closing", "refused"}

\* reset()
Closes(s) ==
    /\ IF ToClose(s) THEN UNCHANGED troubles ELSE link[s] \in Usable /\ Trouble
    /\ link' = [link EXCEPT ![s] = "closed"]
    /\ RejectPending
    /\ socket' = NoSocket /\ hello' = FALSE /\ method' = FALSE
    /\ answer' = [c \in Caller |-> IF on[c] = s THEN "none" ELSE answer[c]]
    /\ on' = [c \in Caller |-> IF on[c] = s /\ place[c] # "connecting" THEN NoSocket ELSE on[c]]
    /\ subscribed' = subscribed \ {s}
    /\ UNCHANGED <<named, nulls, trackVars, bare, told>>

RequestTimesOut(c) ==
    /\ c \in pending
    /\ IF answer[c] = "due" THEN Trouble ELSE UNCHANGED troubles
    /\ pending' = pending \ {c}
    /\ Settle(c, IF place[c] = "waiting" THEN "rejected" ELSE place[c])
    /\ UNCHANGED <<link, moduleVars, on, named, nulls, trackVars, answer, bare, told, subscribed>>

------------------------------------------------------------------------------
(* Frames of the gateway *)

Reaches(c) == on[c] # NoSocket /\ link[on[c]] \in Usable

\* dispatchedRuns.delete: a run is in there once.
Forget(kept, c) ==
    IF c \in Range(kept) THEN RemoveAt(kept, CHOOSE i \in DOMAIN kept : kept[i] = c) ELSE kept

\* Defect for the checks: an answered dispatch is no longer tracked.
Untrack(c) == Forget(tracked, c)

StillTracked(c) == IF c \in Caller THEN tracked ELSE <<>>

\* A frame that names no method, or comes before the handshake, is refused.
Acceptable(c) == link[on[c]] = "ready" /\ c \notin nulls

Accepts(c) ==
    /\ answer[c] = "due" /\ Reaches(c) /\ Acceptable(c)
    /\ answer' = [answer EXCEPT ![c] = "accepted"]
    /\ pending' = pending \ {c}
    /\ IF c \in pending THEN Settle(c, "resolved") ELSE UNCHANGED place
    /\ tracked' = StillTracked(c)
    /\ subscribed' = IF c = Subscriber THEN subscribed \cup {on[c]} ELSE subscribed
    /\ UNCHANGED <<link, moduleVars, on, named, nulls, aged, dropped, bare, told, troubles>>

\* An error: of a call that still waits, or the second answer of one that does not.
Refuses(c) ==
    /\ answer[c] \in {"due", "accepted"} /\ Reaches(c)
    /\ answer[c] = "accepted" => c \in Run \cup ChatRun
    /\ IF c = Subscriber /\ Acceptable(c) THEN Trouble ELSE UNCHANGED troubles
    /\ answer' = [answer EXCEPT ![c] = "none"]
    /\ on' = [on EXCEPT ![c] = NoSocket]
    /\ pending' = pending \ {c}
    /\ IF c \in pending
       THEN Settle(c, "rejected") /\ UNCHANGED <<tracked, told>>
       ELSE /\ told' = [told EXCEPT ![c] = IF c \in Range(tracked) THEN "named" ELSE "nameless"]
            /\ tracked' = Forget(tracked, c)
            /\ UNCHANGED place
    /\ UNCHANGED <<link, moduleVars, named, nulls, aged, dropped, bare, subscribed>>

SubscribeAfter(outcomes) ==
    /\ place[Subscriber] \in outcomes /\ Subscriber \notin pending
    /\ place' = [place EXCEPT ![Subscriber] = "idle"]
    /\ answer' = [answer EXCEPT ![Subscriber] = "none"]
    /\ on' = [on EXCEPT ![Subscriber] = NoSocket]
    /\ UNCHANGED <<link, moduleVars, named, nulls, pending, trackVars, bare, told, subscribed, troubles>>

\* Defect for the checks: a subscription that was granted is not asked for again.
OnlyAfterFailure == SubscribeAfter({"rejected"})

\* resubscribeTimer
SubscribeAgain == SubscribeAfter({"resolved", "rejected"})

------------------------------------------------------------------------------
Call(c) == SendAtOnce(c) \/ OpenSocket(c)
Handshake(c) == \E s \in Socket : HelloOk(c, s) \/ HandshakeFails(c, s)
Fails(c) == \E s \in Socket : HelloRefused(c, s) \/ HelloBare(c, s)

Answers(c) == Accepts(c) \/ (answer[c] = "due" /\ ~Acceptable(c) /\ Refuses(c))

LinkNext ==
    \/ \E c \in Caller : \/ Call(c) \/ Handshake(c) \/ RequestTimesOut(c)
                         \/ Accepts(c) \/ Refuses(c) \/ Fails(c) \/ GrowsOld(c)
    \/ \E s \in Socket : Opens(s) \/ Closes(s)
    \/ SubscribeAgain

\* Timers fire, the gateway answers what reaches it, a socket that was told to
\* close does, and the subscription is asked for again and again.
LinkFairness ==
    /\ \A c \in Caller : WF_linkVars(RequestTimesOut(c)) /\ WF_linkVars(Answers(c))
    /\ \A c \in Caller : WF_linkVars(Handshake(c))
    /\ \A s \in Socket : WF_linkVars(Opens(s)) /\ WF_linkVars(ToClose(s) /\ Closes(s))
    /\ WF_linkVars(SubscribeAgain) /\ WF_linkVars(Call(Subscriber))

LinkSpec == LinkInit /\ [][LinkNext]_linkVars /\ LinkFairness

------------------------------------------------------------------------------
(* Properties *)

\* A refusal that comes after the answer is handed on with the name of its run,
\* also when the request timed out or the connection was reset in between: only a
\* later dispatch makes the name go, for its age or to make room, never the answer,
\* the timeout or the reset. (trackDispatchedRun, the late-error branch)
LateRefusalNamesItsRun == \A c \in Run : told[c] = "nameless" => c \in aged \cup dropped

\* dispatch() sends a frame without a method only when the gateway's last greeting
\* offered none, whoever connected and whatever closed meanwhile: connect() has
\* rejected that greeting, and still hands it to the next one. (dispatch, connect, reset)
RunNamesItsMethod == [][Run \cap nulls' \subseteq nulls \/ bare]_linkVars

\* Every call comes back: by its answer, its own timer, the handshake's, or the
\* reset of a connection it may not even be on. (request, connect, reset)
EveryCallReturns == \A c \in Caller : place[c] \in Unfinished ~> place[c] \notin Unfinished

\* Once sockets stop breaking, session events arrive: the current socket is a
\* subscribed one. (start, resubscribeTimer)
EventsFlowAgain == <>[](socket # NoSocket /\ socket \in subscribed)
==============================================================================
