-------------------------- MODULE ConnectionProofs --------------------------
(***************************************************************************)
(* Theorems about Connection, for any list of transports, any browser and  *)
(* server, and any number of contexts, tokens, messages and events.        *)
(* First what every method and callback of a transport keeps, then what    *)
(* the connection makes of it: its callbacks, delivered one after the      *)
(* other, and the transports it goes through.  On this rests what is said  *)
(* of the session of a hub.  The rest is what ConnectionAgreementProofs    *)
(* builds on: when the transports agree with what was told (4), what the   *)
(* contract allows (5), and where a step of a transport leads (6 to 12).   *)
(***************************************************************************)
EXTENDS Connection, TLAPS

(* What a transport tells its callbacks.                                   *)
Outs == Contract!States \cup {"fail", "unauthorized", "started", "received"}

(***************************************************************************)
(* 1. The shape of the transports                                          *)
(***************************************************************************)

(* The contexts of a websocket transport are the connection's, and a timer *)
(* runs only while a further reconnect is allowed.                         *)
WsWithin(t, n) ==
    /\ t.contextId <= n
    /\ \A k \in DOMAIN t.authorizing : t.authorizing[k].contextId <= n
    /\ t.reconnectTimeout => t.reconnectCount < DEFAULT_RECONNECT_LIMIT

WsOk(t, n) == t \in Ws!Transports /\ WsWithin(t, n)

(* A hub that is not there has nothing under way.                          *)
CoreOk(t) ==
    /\ t \in Core!Transports
    /\ t.hub = "none" => /\ ~t.isDisconnecting /\ ~t.hasTransportError
                         /\ ~t.messageStream /\ ~t.streaming /\ ~t.hasMessage
                         /\ t.cancels = 0 /\ t.closes = 0 /\ t.renewals = <<>>

(* The library's connection: when it is down nothing of it is left, and    *)
(* while it is up it has a transport.                                      *)
LibraryOk(l) ==
    /\ l \in Library!Connections
    /\ l.state = "disconnected" => l = Library!New
    /\ l.state = "connecting" => /\ ~l.reconnectTimeout
                                 /\ l.negotiating => l.transport = 0
    /\ l.state \in {"connected", "reconnecting"}
        => l.transport # 0 /\ ~l.negotiating

SignalrOk(t) == t \in Signalr!Transports /\ LibraryOk(t.connection)

(* A transport of the given kind, on a connection that has had n contexts. *)
Ok(t, kind, n) ==
    \/ kind = Ws!Kind /\ WsOk(t, n)
    \/ kind = Core!Kind /\ CoreOk(t)
    \/ kind = Signalr!Kind /\ SignalrOk(t)

(* A step of a transport leads to a transport of the shape, and tells what *)
(* the connection knows.                                                   *)
StepOk(step, kind, n) == Ok(step.t, kind, n) /\ step.out \in Seq(Outs)
WsStep(step, n) == WsOk(step.t, n) /\ step.out \in Seq(Outs)

(* RemoveAt takes one element out; the others keep their order.            *)
LEMMA RemoveAtType ==
    ASSUME NEW S, NEW q \in Seq(S), NEW i \in DOMAIN q
    PROVE  /\ Ws!RemoveAt(q, i) \in Seq(S)
           /\ Len(Ws!RemoveAt(q, i)) = Len(q) - 1
           /\ \A k \in DOMAIN Ws!RemoveAt(q, i) :
                 /\ (IF k < i THEN k ELSE k + 1) \in DOMAIN q
                 /\ Ws!RemoveAt(q, i)[k] = q[IF k < i THEN k ELSE k + 1]
<1> DEFINE a == SubSeq(q, 1, i - 1)
           b == SubSeq(q, i + 1, Len(q))
<1>1. i \in 1..Len(q) /\ Len(q) \in Nat
  OBVIOUS
<1>2. a \in Seq(S) /\ Len(a) = i - 1 /\ \A k \in 1..(i - 1) : a[k] = q[k]
  BY <1>1
<1>3. b \in Seq(S) /\ Len(b) = Len(q) - i /\ \A k \in 1..(Len(q) - i) : b[k] = q[k + i]
  BY <1>1
<1>4. Ws!RemoveAt(q, i) = a \o b
  BY DEF Ws!RemoveAt
<1> HIDE DEF a, b
<1>5. a \o b \in Seq(S) /\ Len(a \o b) = Len(q) - 1
  BY <1>1, <1>2, <1>3
<1>6. ASSUME NEW k \in DOMAIN (a \o b)
      PROVE  /\ (IF k < i THEN k ELSE k + 1) \in DOMAIN q
             /\ (a \o b)[k] = q[IF k < i THEN k ELSE k + 1]
  <2>1. k \in 1..(Len(q) - 1)
    BY <1>5
  <2>2. CASE k < i
    BY <2>1, <2>2, <1>1, <1>2, <1>3
  <2>3. CASE ~(k < i)
    <3>1. (a \o b)[k] = b[k - (i - 1)]
      BY <2>1, <2>3, <1>1, <1>2, <1>3
    <3>2. b[k - (i - 1)] = q[k + 1]
      BY <2>1, <2>3, <1>1, <1>3
    <3> QED
      BY <2>1, <2>3, <1>1, <3>1, <3>2
  <2> QED
    BY <2>2, <2>3
<1> QED
  BY <1>4, <1>5, <1>6

(* Short lists of what is told are lists of what is told.                  *)
LEMMA OutsType ==
    /\ <<>> \in Seq(Outs)
    /\ \A x \in Outs : <<x>> \in Seq(Outs)
    /\ \A x, y \in Outs : <<x, y>> \in Seq(Outs)
    /\ \A p, q \in Seq(Outs) : p \o q \in Seq(Outs)
    /\ {"CONNECTING", "CONNECTED", "RECONNECTING", "DISCONNECTED", "FAILED",
        "exhausted", "fail", "unauthorized", "started", "received"} \subseteq Outs
BY DEF Outs, Contract!States

(***************************************************************************)
(* Induction over the natural numbers, and the sequences it needs.         *)
(***************************************************************************)
W == INSTANCE WellFoundedInduction

(* A set of natural numbers that is not empty has a least element.         *)
LEMMA LeastNatural ==
    ASSUME NEW T \in SUBSET Nat, T # {}
    PROVE  \E x \in T : \A y \in T : ~ (y < x)
<1>1. \E x \in T : \A y \in T : ~ (<<y, x>> \in W!OpToRel(<, Nat))
  BY W!WFMin, W!NatLessThanWellFounded
<1> QED
  BY <1>1 DEF W!OpToRel

(* Induction over the natural numbers, for a set.                          *)
LEMMA Induction ==
    ASSUME NEW S \in SUBSET Nat, 0 \in S, \A n \in S : n + 1 \in S
    PROVE  S = Nat
<1>1. ASSUME S # Nat PROVE FALSE
  <2> DEFINE T == Nat \ S
  <2>1. PICK x \in T : \A y \in T : ~ (y < x)
    BY <1>1, LeastNatural
  <2>2. x # 0 /\ x - 1 \in Nat /\ x - 1 \in S
    BY <2>1
  <2> QED
    BY <2>1, <2>2
<1> QED
  BY <1>1

(***************************************************************************)
(* Websockets.                                                             *)
(***************************************************************************)
(* A function on an initial segment of the numbers is a sequence.          *)
LEMMA FunctionIsSeq ==
    ASSUME NEW S, NEW n \in Nat, NEW f \in [1..n -> S]
    PROVE  f \in Seq(S) /\ Len(f) = n
OBVIOUS

(* A transport of the shape, with one thing told or none, is a step.       *)
LEMMA WsStepOf ==
    ASSUME NEW n \in Nat, NEW u, WsOk(u, n)
    PROVE  /\ WsStep([t |-> u, out |-> <<>>], n)
           /\ WsStep([t |-> u, out |-> <<"CONNECTED">>], n)
           /\ WsStep([t |-> u, out |-> <<"received">>], n)
           /\ WsStep([t |-> u, out |-> <<"unauthorized">>], n)
BY OutsType DEF WsStep

(* destroySocket.                                                          *)
LEMMA WsDestroy ==
    ASSUME NEW n \in Nat, NEW t, WsOk(t, n)
    PROVE  WsOk(Ws!destroySocket(t), n)
BY DEF WsOk, WsWithin, Ws!destroySocket, Ws!Transports

(* handleFailure.                                                          *)
LEMMA WsFailure ==
    ASSUME NEW n \in Nat, NEW t, WsOk(t, n)
    PROVE  WsStep(Ws!handleFailure(t), n)
BY WsDestroy, OutsType DEF WsStep, Ws!handleFailure, Ws!Step

(* createSocket.                                                           *)
LEMMA WsCreate ==
    ASSUME NEW n \in Nat, NEW t, WsOk(t, n)
    PROVE  WsStep(Ws!createSocket(t), n)
<1>1. CASE ~t.works
  BY <1>1, WsFailure DEF Ws!createSocket
<1>2. CASE t.works
  <2> DEFINE q == [phase |-> "opening", query |-> t.query]
             l == IF Ws!IsLive(t.socket) THEN Append(t.leaked, t.socket)
                  ELSE t.leaked
             u == [t EXCEPT !.socket = q, !.leaked = l]
  <2>1. q \in Ws!Sockets /\ t \in Ws!Transports
    BY DEF WsOk, Ws!Sockets, Ws!Transports
  <2>2. l \in Seq(Ws!Sockets)
    <3>1. t.leaked \in Seq(Ws!Sockets) /\ t.socket \in Ws!Sockets \cup {Ws!NoSocket}
      BY <2>1 DEF Ws!Transports
    <3> QED
      BY <3>1 DEF Ws!IsLive, Ws!NoSocket
  <2>3. WsOk(u, n)
    <3> HIDE DEF q, l
    <3> QED
      BY <2>1, <2>2 DEF WsOk, WsWithin, Ws!Transports
  <2>4. Ws!createSocket(t) = [t |-> u, out |-> <<>>]
    BY <1>2 DEF Ws!createSocket, Ws!Step
  <2> QED
    BY <2>3, <2>4, OutsType DEF WsStep
<1>3. t.works \in BOOLEAN
  BY DEF WsOk, Ws!Transports
<1> QED
  BY <1>1, <1>2, <1>3

(* restartConnection, below the limit of reconnects.                       *)
LEMMA WsRestart ==
    ASSUME NEW n \in Nat, NEW t, WsOk(t, n),
           t.reconnectCount < DEFAULT_RECONNECT_LIMIT
    PROVE  WsStep(Ws!restartConnection(t), n)
<1> DEFINE m == t.reconnectCount + 1
           u == [t EXCEPT !.reconnectTimeout = FALSE, !.reconnectCount = m]
<1>1. WsOk(u, n)
  <2>1. t \in Ws!Transports /\ m \in 0..DEFAULT_RECONNECT_LIMIT
    BY TransportsAssumption DEF WsOk, Ws!Transports
  <2> HIDE DEF m
  <2>2. u \in Ws!Transports
    BY <2>1 DEF Ws!Transports
  <2> QED
    BY <2>1, <2>2 DEF WsOk, WsWithin, Ws!Transports
<1> QED
  BY <1>1, WsCreate DEF Ws!restartConnection

(* NoneCurrent only takes the mark of the current promise away.            *)
LEMMA WsNoneCurrent ==
    ASSUME NEW n \in Nat, NEW t, WsOk(t, n)
    PROVE  /\ Ws!NoneCurrent(t) \in Seq(Ws!Authorizations)
           /\ DOMAIN Ws!NoneCurrent(t) = DOMAIN t.authorizing
           /\ Len(Ws!NoneCurrent(t)) = Len(t.authorizing)
           /\ \A k \in DOMAIN t.authorizing :
                 /\ Ws!NoneCurrent(t)[k].contextId = t.authorizing[k].contextId
                 /\ Ws!NoneCurrent(t)[k].authToken = t.authorizing[k].authToken
                 /\ Ws!NoneCurrent(t)[k].starts = t.authorizing[k].starts
                 /\ Ws!NoneCurrent(t)[k].renews = t.authorizing[k].renews
                 /\ ~Ws!NoneCurrent(t)[k].current
<1>1. t.authorizing \in Seq(Ws!Authorizations)
  BY DEF WsOk, Ws!Transports
<1> DEFINE q == t.authorizing
           f == [k \in DOMAIN q |-> [q[k] EXCEPT !.current = FALSE]]
<1>2. \A k \in DOMAIN q : q[k] \in Ws!Authorizations
  BY <1>1
<1>3. \A k \in DOMAIN q : [q[k] EXCEPT !.current = FALSE] \in Ws!Authorizations
  BY <1>2 DEF Ws!Authorizations
<1>4. f \in Seq(Ws!Authorizations) /\ Len(f) = Len(q)
  <2>1. DOMAIN q = 1..Len(q) /\ Len(q) \in Nat
    BY <1>1
  <2>2. f \in [1..Len(q) -> Ws!Authorizations]
    BY <1>3, <2>1
  <2> QED
    BY <2>1, <2>2, FunctionIsSeq
<1> QED
  BY <1>2, <1>4 DEF Ws!NoneCurrent, Ws!Authorizations

(* stop.                                                                   *)
LEMMA WsStop ==
    ASSUME NEW n \in Nat, NEW t, WsOk(t, n)
    PROVE  WsStep(Ws!stop(t), n)
<1> DEFINE a == Ws!NoneCurrent(t)
           r == IF "message" \in Ws!ToSet(t.recent) THEN <<"message">> ELSE <<>>
           u == [t EXCEPT !.socket = Ws!NoSocket,
                          !.reconnectTimeout = FALSE,
                          !.contextId = 0,
                          !.lastMessageId = 0,
                          !.authorizePromise = "none",
                          !.authorizing = a,
                          !.startLost = FALSE,
                          !.reconnectCount = 0,
                          !.hasBeenConnected = FALSE,
                          !.recent = r,
                          !.isReconnectPending = FALSE]
<1>1. t \in Ws!Transports
  BY DEF WsOk
<1>2. r \in Seq(Ws!Events)
  <2>1. "message" \in Ws!Events
    BY DEF Ws!Events
  <2>2. <<"message">> \in Seq(Ws!Events) /\ <<>> \in Seq(Ws!Events)
    BY <2>1
  <2> QED
    BY <2>2
<1>3. Ws!stop(t) = [t |-> u, out |-> <<"DISCONNECTED">>]
  BY <1>1 DEF Ws!stop, Ws!Step, Ws!destroySocket, Ws!Transports
<1>4. WsOk(u, n)
  <2>1. /\ a \in Seq(Ws!Authorizations)
        /\ \A k \in DOMAIN a : a[k].contextId <= n
    BY WsNoneCurrent DEF WsOk, WsWithin
  <2>2. 0 \in 0..DEFAULT_RECONNECT_LIMIT
    BY TransportsAssumption
  <2> HIDE DEF a, r
  <2>3. u \in Ws!Transports
    BY <1>1, <1>2, <2>1, <2>2 DEF Ws!Transports, Ws!Sockets
  <2>4. u.contextId = 0 /\ u.authorizing = a /\ ~u.reconnectTimeout
    BY <1>1 DEF Ws!Transports
  <2> HIDE DEF u
  <2> QED
    BY <2>1, <2>3, <2>4 DEF WsOk, WsWithin
<1> QED
  BY <1>3, <1>4, OutsType DEF WsStep

(* setQuery, with a context the connection has had.                        *)
LEMMA WsSetQuery ==
    ASSUME NEW n \in Nat, NEW t, WsOk(t, n),
           NEW token \in Nat, NEW context \in 0..n
    PROVE  WsOk(Ws!setQuery(t, token, context), n)
<1> DEFINE q == [context |-> context, token |-> token,
                 message |-> t.lastMessageId]
           u == [t EXCEPT !.query = q, !.contextId = context,
                          !.authToken = token]
<1>1. t \in Ws!Transports /\ q \in Ws!Queries /\ context \in Nat
  BY DEF WsOk, Ws!Transports, Ws!Queries
<1>2. Ws!setQuery(t, token, context) = u
  BY DEF Ws!setQuery
<1> HIDE DEF q
<1>3. u \in Ws!Transports
  BY <1>1 DEF Ws!Transports
<1> QED
  BY <1>1, <1>2, <1>3 DEF WsOk, WsWithin, Ws!Transports

(* The answers of the user, see Answer. *)
WsAnswers(n) == [updates : BOOLEAN, token : Nat, context : 0..n]

(* reconnect keeps the count of reconnects within the limit.               *)
LEMMA WsReconnect ==
    ASSUME NEW n \in Nat, NEW t, WsOk(t, n), NEW isImmediate \in BOOLEAN,
           NEW answer \in WsAnswers(n)
    PROVE  WsStep(Ws!reconnect(t, isImmediate, answer), n)
<1> DEFINE asked == IF answer.updates
                    THEN Ws!setQuery(t, answer.token, answer.context) ELSE t
           d == Ws!destroySocket(asked)
           down == [d EXCEPT !.reconnectTimeout = FALSE]
           step == IF isImmediate THEN Ws!restartConnection(down)
                   ELSE Ws!Step([down EXCEPT !.reconnectTimeout = TRUE], <<>>)
<1>1. CASE t.reconnectCount >= DEFAULT_RECONNECT_LIMIT
  BY <1>1, WsStop DEF Ws!reconnect
<1>2. CASE ~(t.reconnectCount >= DEFAULT_RECONNECT_LIMIT)
  <2>1. t.reconnectCount \in Nat /\ DEFAULT_RECONNECT_LIMIT \in Nat
    BY TransportsAssumption DEF WsOk, Ws!Transports
  <2>2. WsOk(asked, n) /\ asked.reconnectCount = t.reconnectCount
    <3>1. Ws!setQuery(t, answer.token, answer.context).reconnectCount = t.reconnectCount
      BY DEF WsOk, Ws!Transports, Ws!setQuery
    <3> QED
      BY <3>1, WsSetQuery DEF WsAnswers
  <2>3. /\ WsOk(down, n) /\ down.reconnectCount = t.reconnectCount
        /\ WsOk([down EXCEPT !.reconnectTimeout = TRUE], n)
    <3>1. WsOk(d, n) /\ d.reconnectCount = asked.reconnectCount
      <4> HIDE DEF asked
      <4> QED
        BY <2>2, WsDestroy DEF WsOk, Ws!destroySocket, Ws!Transports
    <3> HIDE DEF d
    <3>2. WsOk(down, n) /\ down.reconnectCount = t.reconnectCount
      BY <2>2, <3>1 DEF WsOk, WsWithin, Ws!Transports
    <3>3. down \in Ws!Transports
      BY <3>2 DEF WsOk
    <3> HIDE DEF down
    <3> DEFINE w == [down EXCEPT !.reconnectTimeout = TRUE]
    <3>4. /\ w \in Ws!Transports /\ w.contextId = down.contextId
          /\ w.authorizing = down.authorizing
          /\ w.reconnectCount = down.reconnectCount
      BY <3>3 DEF Ws!Transports
    <3> HIDE DEF w
    <3>5. WsWithin(w, n)
      BY <1>2, <2>1, <3>2, <3>4 DEF WsOk, WsWithin
    <3> QED
      BY <3>2, <3>4, <3>5 DEF WsOk, w
  <2>4. WsStep(step, n)
    <3> HIDE DEF down
    <3>1. WsStep(Ws!restartConnection(down), n)
      BY <1>2, <2>1, <2>3, WsRestart
    <3> QED
      BY <2>3, <3>1, OutsType DEF WsStep, Ws!Step
  <2>5. Ws!reconnect(t, isImmediate, answer) = [step EXCEPT !.out = <<"RECONNECTING">> \o @]
    BY <1>2 DEF Ws!reconnect, Ws!After
  <2>6. /\ [step EXCEPT !.out = <<"RECONNECTING">> \o @].t = step.t
        /\ [step EXCEPT !.out = <<"RECONNECTING">> \o @].out = <<"RECONNECTING">> \o step.out
    BY DEF Ws!restartConnection, Ws!createSocket, Ws!handleFailure, Ws!Step
  <2> HIDE DEF step
  <2> QED
    BY <2>4, <2>5, <2>6, OutsType DEF WsStep
<1> QED
  BY <1>1, <1>2

(* What WsOk says of a transport rests on four of its fields. *)
LEMMA WsSame ==
    ASSUME NEW n \in Nat, NEW t, WsOk(t, n), NEW u \in Ws!Transports,
           u.contextId = t.contextId,
           u.authorizing = t.authorizing,
           u.reconnectTimeout = t.reconnectTimeout,
           u.reconnectCount = t.reconnectCount
    PROVE  WsOk(u, n)
BY DEF WsOk, WsWithin

(* A socket of the transport opens, or closes.                             *)
LEMMA WsOpened ==
    ASSUME NEW n \in Nat, NEW t, WsOk(t, n),
           NEW which \in 0..Len(t.leaked),
           which = 0 => t.socket # Ws!NoSocket
    PROVE  /\ WsOk(Ws!Opened(t, which), n)
           /\ WsOk(Ws!Closed(t, which), n)
<1>1. t \in Ws!Transports /\ t.leaked \in Seq(Ws!Sockets)
  BY DEF WsOk, Ws!Transports
<1>2. CASE which = 0
  <2> DEFINE a == [t.socket EXCEPT !.phase = "open"]
             b == [t.socket EXCEPT !.phase = "closed"]
             u == [t EXCEPT !.socket = a]
             v == [t EXCEPT !.socket = b]
  <2>1. t.socket \in Ws!Sockets
    BY <1>1, <1>2 DEF Ws!Transports
  <2>2. a \in Ws!Sockets /\ b \in Ws!Sockets
    BY <2>1 DEF Ws!Sockets
  <2>3. Ws!Opened(t, which) = u /\ Ws!Closed(t, which) = v
    BY <1>2 DEF Ws!Opened, Ws!Closed
  <2> HIDE DEF a, b
  <2>4. WsOk(u, n) /\ WsOk(v, n)
    BY <1>1, <2>2 DEF WsOk, WsWithin, Ws!Transports
  <2> QED
    BY <2>3, <2>4
<1>3. CASE which # 0
  <2> DEFINE s == [t.leaked[which] EXCEPT !.phase = "open"]
             a == [t.leaked EXCEPT ![which] = s]
             b == Ws!RemoveAt(t.leaked, which)
             u == [t EXCEPT !.leaked = a]
             v == [t EXCEPT !.leaked = b]
  <2>1. which \in DOMAIN t.leaked
    BY <1>1, <1>3
  <2>2. s \in Ws!Sockets
    <3>1. t.leaked[which] \in Ws!Sockets
      BY <1>1, <2>1
    <3> QED
      BY <3>1 DEF Ws!Sockets
  <2>3. Ws!Opened(t, which) = u /\ Ws!Closed(t, which) = v
    BY <1>3 DEF Ws!Opened, Ws!Closed
  <2>4. a \in Seq(Ws!Sockets)
    <3> HIDE DEF s
    <3> QED
      BY <1>1, <2>1, <2>2
  <2>5. b \in Seq(Ws!Sockets)
    BY <1>1, <2>1, RemoveAtType
  <2> HIDE DEF a, b
  <2>6. WsOk(u, n) /\ WsOk(v, n)
    BY <1>1, <2>4, <2>5 DEF WsOk, WsWithin, Ws!Transports
  <2> QED
    BY <2>3, <2>6
<1> QED
  BY <1>2, <1>3

(* handleSocketOpen.                                                       *)
LEMMA WsSocketOpen ==
    ASSUME NEW n \in Nat, NEW t, WsOk(t, n),
           NEW which \in 0..Len(t.leaked),
           which = 0 => t.socket # Ws!NoSocket
    PROVE  WsStep(Ws!handleSocketOpen(t, which), n)
<1> DEFINE u == Ws!Opened(t, which)
           v == [u EXCEPT !.hasBeenConnected = TRUE, !.reconnectCount = 0]
<1>1. WsOk(u, n)
  BY WsOpened
<1> HIDE DEF u
<1>2. 0 \in 0..DEFAULT_RECONNECT_LIMIT /\ DEFAULT_RECONNECT_LIMIT \in Nat
  BY TransportsAssumption
<1>3. WsOk(v, n)
  <2>1. /\ v \in Ws!Transports /\ v.reconnectCount = 0
        /\ v.contextId = u.contextId /\ v.authorizing = u.authorizing
        /\ v.reconnectTimeout = u.reconnectTimeout
        /\ u.reconnectCount \in 0..DEFAULT_RECONNECT_LIMIT
    BY <1>1, <1>2 DEF WsOk, Ws!Transports
  <2> HIDE DEF v
  <2> QED
    BY <1>1, <1>2, <2>1 DEF WsOk, WsWithin
<1>4. \/ Ws!handleSocketOpen(t, which) = [t |-> u, out |-> <<>>]
      \/ Ws!handleSocketOpen(t, which) = [t |-> v, out |-> <<"CONNECTED">>]
  BY DEF Ws!handleSocketOpen, Ws!Step, u
<1> HIDE DEF v
<1>5. /\ WsStep([t |-> u, out |-> <<>>], n)
      /\ WsStep([t |-> v, out |-> <<"CONNECTED">>], n)
  BY <1>1, <1>3, WsStepOf
<1> QED
  BY <1>4, <1>5

(* What is remembered are events.                                          *)
LEMMA WsRemember ==
    ASSUME NEW n \in Nat, NEW t, WsOk(t, n), NEW event \in Ws!Events
    PROVE  WsOk(Ws!Remember(t, event), n)
<1> DEFINE before == CHOOSE k \in DOMAIN t.recent : t.recent[k] = event
           q == IF event \in Ws!ToSet(t.recent) THEN Ws!RemoveAt(t.recent, before)
                ELSE t.recent
           r == Append(q, event)
           u == [t EXCEPT !.recent = r]
<1>1. t \in Ws!Transports /\ t.recent \in Seq(Ws!Events)
  BY DEF WsOk, Ws!Transports
<1>2. q \in Seq(Ws!Events)
  <2>1. CASE event \in Ws!ToSet(t.recent)
    <3>1. \E k \in DOMAIN t.recent : t.recent[k] = event
      BY <2>1 DEF Ws!ToSet
    <3>2. before \in DOMAIN t.recent
      BY <3>1
    <3> HIDE DEF before
    <3> QED
      BY <1>1, <2>1, <3>2, RemoveAtType
  <2>2. CASE event \notin Ws!ToSet(t.recent)
    BY <1>1, <2>2
  <2> QED
    BY <2>1, <2>2
<1>3. r \in Seq(Ws!Events)
  <2> HIDE DEF q
  <2> QED
    BY <1>2
<1>4. Ws!Remember(t, event) = u
  BY DEF Ws!Remember
<1> HIDE DEF r
<1>5. WsOk(u, n)
  BY <1>1, <1>3 DEF WsOk, WsWithin, Ws!Transports
<1> QED
  BY <1>4, <1>5

(* An event is forgotten.                                                  *)
LEMMA WsForget ==
    ASSUME NEW n \in Nat, NEW t, WsOk(t, n), t.recent # <<>>
    PROVE  WsOk(Ws!Forget(t), n)
<1> DEFINE r == Tail(t.recent)
           u == [t EXCEPT !.recent = r]
<1>1. t \in Ws!Transports /\ r \in Seq(Ws!Events)
  BY DEF WsOk, Ws!Transports
<1> HIDE DEF r
<1>2. WsOk(u, n)
  BY <1>1 DEF WsOk, WsWithin, Ws!Transports
<1> QED
  BY <1>2 DEF Ws!Forget, r

(* handleSocketMessage.                                                    *)
LEMMA WsMessage ==
    ASSUME NEW n \in Nat, NEW t, WsOk(t, n), NEW frame
    PROVE  WsStep(Ws!handleSocketMessage(t, frame), n)
<1> DEFINE u == Ws!Remember(t, "message")
           m == u.lastMessageId + 1
           v == [u EXCEPT !.lastMessageId = m]
<1>1. WsOk(u, n)
  BY WsRemember DEF Ws!Events
<1>2. WsOk(v, n)
  <2>1. u \in Ws!Transports /\ m \in Nat
    BY <1>1 DEF WsOk, Ws!Transports
  <2> HIDE DEF u, m
  <2> QED
    BY <1>1, <2>1 DEF WsOk, WsWithin, Ws!Transports
<1>3. WsStep(Ws!handleFailure(u), n)
  BY <1>1, WsFailure
<1>4. \/ Ws!handleSocketMessage(t, frame) = [t |-> v, out |-> <<"received">>]
      \/ Ws!handleSocketMessage(t, frame) = Ws!handleFailure(u)
      \/ Ws!handleSocketMessage(t, frame) = [t |-> u, out |-> <<>>]
  BY DEF Ws!handleSocketMessage, Ws!Step
<1> HIDE DEF u, v
<1>5. /\ WsStep([t |-> u, out |-> <<>>], n)
      /\ WsStep([t |-> v, out |-> <<"received">>], n)
  BY <1>1, <1>2, WsStepOf
<1> QED
  BY <1>3, <1>4, <1>5

(* handleSocketClose.                                                      *)
LEMMA WsClose ==
    ASSUME NEW n \in Nat, NEW t, WsOk(t, n),
           NEW which \in 0..Len(t.leaked),
           which = 0 => t.socket # Ws!NoSocket,
           NEW code, NEW answer \in WsAnswers(n)
    PROVE  WsStep(Ws!handleSocketClose(t, which, code, answer), n)
<1> DEFINE u == Ws!Closed(t, which)
           v == [u EXCEPT !.isReconnectPending = TRUE]
           b == u.reconnectCount = 0
<1>1. WsOk(u, n)
  BY WsOpened
<1> DEFINE step == Ws!handleSocketClose(t, which, code, answer)
<1>2. \/ step = [t |-> u, out |-> <<>>]
      \/ step = [t |-> v, out |-> <<"unauthorized">>]
      \/ step = Ws!handleFailure(u)
      \/ step = Ws!reconnect(u, b, answer)
  BY DEF Ws!handleSocketClose, Ws!Step
<1> HIDE DEF u
<1>3. WsOk(v, n)
  BY <1>1 DEF WsOk, WsWithin, Ws!Transports
<1>4. WsStep(Ws!handleFailure(u), n) /\ WsStep(Ws!reconnect(u, b, answer), n)
  BY <1>1, WsFailure, WsReconnect
<1> HIDE DEF v, b
<1>5. /\ WsStep([t |-> u, out |-> <<>>], n)
      /\ WsStep([t |-> v, out |-> <<"unauthorized">>], n)
  BY <1>1, <1>3, WsStepOf
<1> HIDE DEF step
<1>6. WsStep(step, n)
  BY <1>2, <1>4, <1>5
<1> QED
  BY <1>6 DEF step

(* detectNetworkError.                                                     *)
LEMMA WsDetect ==
    ASSUME NEW n \in Nat, NEW t, WsOk(t, n), NEW answer \in WsAnswers(n)
    PROVE  WsStep(Ws!detectNetworkError(t, answer), n)
<1>1. \/ Ws!detectNetworkError(t, answer) = Ws!reconnect(t, TRUE, answer)
      \/ Ws!detectNetworkError(t, answer) = [t |-> t, out |-> <<>>]
  BY DEF Ws!detectNetworkError, Ws!Step
<1>2. WsStep(Ws!reconnect(t, TRUE, answer), n)
  BY WsReconnect
<1> QED
  BY <1>1, <1>2, OutsType, WsStepOf

(* onOrphanFound and onSubscribeNetworkError.                              *)
LEMMA WsReports ==
    ASSUME NEW n \in Nat, NEW t, WsOk(t, n), NEW answer \in WsAnswers(n)
    PROVE  /\ WsStep(Ws!onOrphanFound(t, answer), n)
           /\ WsStep(Ws!onSubscribeNetworkError(t, answer), n)
<1>1. "orphan" \in Ws!Events /\ "networkError" \in Ws!Events
  BY DEF Ws!Events
<1> QED
  BY <1>1, WsRemember, WsDetect DEF Ws!onOrphanFound, Ws!onSubscribeNetworkError

(* A transport with other authorisations, none of them for a later context *)
(* than the connection's.                                                  *)
LEMMA WsAuthorizing ==
    ASSUME NEW n \in Nat, NEW t, WsOk(t, n),
           NEW q \in Seq(Ws!Authorizations),
           \A k \in DOMAIN q : q[k].contextId <= n,
           NEW p \in {"none", "pending", "resolved", "rejected"}
    PROVE  /\ WsOk([t EXCEPT !.authorizePromise = p, !.authorizing = q], n)
           /\ WsOk([t EXCEPT !.authorizing = q], n)
<1> DEFINE u == [t EXCEPT !.authorizePromise = p, !.authorizing = q]
           v == [t EXCEPT !.authorizing = q]
<1>1. t \in Ws!Transports
  BY DEF WsOk
<1>2. u \in Ws!Transports /\ v \in Ws!Transports
  BY <1>1 DEF Ws!Transports
<1>3. /\ u.authorizing = q /\ u.contextId = t.contextId
      /\ u.reconnectTimeout = t.reconnectTimeout
      /\ u.reconnectCount = t.reconnectCount
      /\ v.authorizing = q /\ v.contextId = t.contextId
      /\ v.reconnectTimeout = t.reconnectTimeout
      /\ v.reconnectCount = t.reconnectCount
  BY <1>1 DEF Ws!Transports
<1> HIDE DEF u, v
<1>4. WsOk(u, n) /\ WsOk(v, n)
  BY <1>2, <1>3 DEF WsOk, WsWithin
<1> QED
  BY <1>4 DEF u, v

(* getAuthorizePromise, when it sends a request.                           *)
LEMMA WsAuthorize ==
    ASSUME NEW n \in Nat, NEW t, WsOk(t, n),
           NEW starts \in Nat, NEW renews \in BOOLEAN
    PROVE  WsOk(Ws!Authorize(t, starts, renews), n)
<1> DEFINE a == [contextId |-> t.contextId, authToken |-> t.authToken,
                 starts |-> starts, renews |-> renews, current |-> TRUE]
           r == Ws!NoneCurrent(t)
           q == Append(r, a)
<1>1. a \in Ws!Authorizations /\ a.contextId <= n
  BY DEF WsOk, WsWithin, Ws!Transports, Ws!Authorizations
<1>2. /\ r \in Seq(Ws!Authorizations)
      /\ \A k \in DOMAIN r : r[k].contextId <= n
  BY WsNoneCurrent DEF WsOk, WsWithin
<1>3. Ws!Authorize(t, starts, renews)
        = [t EXCEPT !.authorizePromise = "pending", !.authorizing = q]
  BY DEF Ws!Authorize
<1> HIDE DEF a, r
<1>4. /\ q \in Seq(Ws!Authorizations)
      /\ \A k \in DOMAIN q : q[k].contextId <= n
  <2>1. q \in Seq(Ws!Authorizations) /\ Len(q) = Len(r) + 1
    BY <1>1, <1>2
  <2>2. \A k \in 1..Len(q) : q[k] = IF k = Len(r) + 1 THEN a ELSE r[k]
    BY <1>1, <1>2
  <2>3. DOMAIN q = 1..Len(q) /\ DOMAIN r = 1..Len(r) /\ Len(r) \in Nat
    BY <1>2, <2>1
  <2> HIDE DEF q
  <2> QED
    BY <1>1, <1>2, <2>1, <2>2, <2>3
<1> HIDE DEF q
<1>5. WsOk([t EXCEPT !.authorizePromise = "pending", !.authorizing = q], n)
  BY <1>4, WsAuthorizing
<1> QED
  BY <1>3, <1>5

(* A further start waits for the promise there is.                         *)
LEMMA WsAddStart ==
    ASSUME NEW n \in Nat, NEW t, WsOk(t, n)
    PROVE  WsOk(Ws!AddStart(t), n)
<1> DEFINE a == t.authorizing
           Added(b) == IF b.current THEN [b EXCEPT !.starts = @ + 1] ELSE b
           q == [i \in DOMAIN a |-> Added(a[i])]
<1>1. a \in Seq(Ws!Authorizations) /\ \A k \in DOMAIN a : a[k].contextId <= n
  BY DEF WsOk, WsWithin, Ws!Transports
<1>2. Ws!AddStart(t) = [t EXCEPT !.authorizing = q]
  BY DEF Ws!AddStart
<1> HIDE DEF a
<1>3. ASSUME NEW k \in DOMAIN a
      PROVE  q[k] \in Ws!Authorizations /\ q[k].contextId <= n
  <2>1. a[k] \in Ws!Authorizations /\ a[k].contextId <= n
    BY <1>1
  <2> DEFINE m == a[k].starts + 1
             b == [a[k] EXCEPT !.starts = m]
  <2>2. m \in Nat
    BY <2>1 DEF Ws!Authorizations
  <2> HIDE DEF m
  <2>3. b \in Ws!Authorizations /\ b.contextId <= n
    BY <2>1, <2>2 DEF Ws!Authorizations
  <2>4. q[k] = a[k] \/ q[k] = b
    BY DEF m
  <2> HIDE DEF b
  <2> QED
    BY <2>1, <2>3, <2>4
<1>4. q \in Seq(Ws!Authorizations) /\ DOMAIN q = DOMAIN a
  <2>1. DOMAIN a = 1..Len(a) /\ Len(a) \in Nat
    BY <1>1
  <2>2. q \in [1..Len(a) -> Ws!Authorizations]
    BY <1>3, <2>1
  <2> QED
    BY <2>1, <2>2, FunctionIsSeq
<1> HIDE DEF q
<1>5. WsOk([t EXCEPT !.authorizing = q], n)
  BY <1>3, <1>4, WsAuthorizing
<1> QED
  BY <1>2, <1>5

(* What a start does once it is authorised.                                *)
LEMMA WsConnects ==
    ASSUME NEW n \in Nat, NEW t, WsOk(t, n)
    PROVE  WsStep(Ws!Connects(t), n)
<1> DEFINE step == Ws!createSocket(t)
<1>1. WsStep(step, n)
  BY WsCreate
<1>2. /\ [step EXCEPT !.out = <<"started", "CONNECTING">> \o @].t = step.t
      /\ [step EXCEPT !.out = <<"started", "CONNECTING">> \o @].out
            = <<"started", "CONNECTING">> \o step.out
  BY DEF Ws!createSocket, Ws!handleFailure, Ws!Step
<1>3. <<"started", "CONNECTING">> \in Seq(Outs)
  BY OutsType
<1>4. Ws!Connects(t) = [step EXCEPT !.out = <<"started", "CONNECTING">> \o @]
  BY DEF Ws!Connects, Ws!After
<1> HIDE DEF step
<1> QED
  BY <1>1, <1>2, <1>3, <1>4, OutsType DEF WsStep

(* start.                                                                  *)
LEMMA WsStart ==
    ASSUME NEW n \in Nat, NEW t, WsOk(t, n)
    PROVE  WsStep(Ws!start(t), n)
<1>1. /\ WsStep(Ws!Step(t, <<>>), n)
      /\ WsStep(Ws!Step(Ws!Authorize(t, 1, FALSE), <<>>), n)
      /\ WsStep(Ws!Step(Ws!AddStart(t), <<>>), n)
      /\ WsStep(Ws!Connects(t), n)
  BY WsAuthorize, WsAddStart, WsConnects, WsStepOf DEF Ws!Step
<1> QED
  BY <1>1 DEF Ws!start

(* updateQuery.                                                            *)
LEMMA WsUpdateQuery ==
    ASSUME NEW n \in Nat, NEW t, WsOk(t, n),
           NEW token \in Nat, NEW context \in 0..n, NEW forceAuth \in BOOLEAN
    PROVE  WsStep(Ws!updateQuery(t, token, context, forceAuth), n)
<1>1. WsOk(Ws!setQuery(t, token, context), n)
  BY WsSetQuery
<1>2. WsOk(Ws!Authorize(Ws!setQuery(t, token, context), 0, TRUE), n)
  BY <1>1, WsAuthorize
<1> QED
  BY <1>1, <1>2, WsStepOf DEF Ws!updateQuery, Ws!Step

(* A promise is settled.                                                   *)
LEMMA WsSettle ==
    ASSUME NEW n \in Nat, NEW t, WsOk(t, n), NEW i \in DOMAIN t.authorizing,
           NEW how \in {"none", "pending", "resolved", "rejected"}
    PROVE  WsOk(Ws!Settle(t, i, how), n)
<1> DEFINE a == t.authorizing
           p == IF a[i].current THEN how ELSE t.authorizePromise
           q == Ws!RemoveAt(a, i)
<1>1. /\ a \in Seq(Ws!Authorizations) /\ \A k \in DOMAIN a : a[k].contextId <= n
      /\ t.authorizePromise \in {"none", "pending", "resolved", "rejected"}
  BY DEF WsOk, WsWithin, Ws!Transports
<1>2. Ws!Settle(t, i, how)
        = [t EXCEPT !.authorizePromise = p, !.authorizing = q]
  BY DEF Ws!Settle
<1>3. p \in {"none", "pending", "resolved", "rejected"}
  BY <1>1
<1>4. q \in Seq(Ws!Authorizations) /\ \A k \in DOMAIN q : q[k].contextId <= n
  BY <1>1, RemoveAtType
<1> HIDE DEF p, q
<1>5. WsOk([t EXCEPT !.authorizePromise = p, !.authorizing = q], n)
  BY <1>3, <1>4, WsAuthorizing
<1> QED
  BY <1>2, <1>5

(* An authorisation fails, for whatever reason.                            *)
LEMMA WsAuthorizeFails ==
    ASSUME NEW n \in Nat, NEW t, WsOk(t, n), NEW i \in DOMAIN t.authorizing,
           NEW isNetworkError \in BOOLEAN
    PROVE  WsStep(Ws!AuthorizeFails(t, i, isNetworkError), n)
<1> DEFINE s == Ws!Settle(t, i, "rejected")
           lost == s.startLost \/ t.authorizing[i].starts > 0
           u == [s EXCEPT !.startLost = lost]
           a == t.authorizing
           q == [k \in DOMAIN a |-> [a[k] EXCEPT !.current = k = i]]
           v == [t EXCEPT !.authorizePromise = "pending", !.authorizing = q]
<1>1. WsOk(s, n)
  BY WsSettle
<1>2. WsStep([t |-> u, out |-> <<>>], n)
  <2>1. lost \in BOOLEAN /\ s \in Ws!Transports
    BY <1>1 DEF WsOk, Ws!Transports
  <2> HIDE DEF s, lost
  <2>2. WsOk(u, n)
    BY <1>1, <2>1 DEF WsOk, WsWithin, Ws!Transports
  <2> QED
    BY <2>2, WsStepOf
<1>3. WsStep([t |-> v, out |-> <<>>], n)
  <2>1. a \in Seq(Ws!Authorizations) /\ \A k \in DOMAIN a : a[k].contextId <= n
    BY DEF WsOk, WsWithin, Ws!Transports
  <2> HIDE DEF a
  <2>2. ASSUME NEW k \in DOMAIN a
        PROVE  q[k] \in Ws!Authorizations /\ q[k].contextId <= n
    <3>1. a[k] \in Ws!Authorizations /\ a[k].contextId <= n
      BY <2>1
    <3> QED
      BY <3>1 DEF Ws!Authorizations
  <2>3. q \in Seq(Ws!Authorizations) /\ DOMAIN q = DOMAIN a
    <3>1. DOMAIN a = 1..Len(a) /\ Len(a) \in Nat
      BY <2>1
    <3>2. q \in [1..Len(a) -> Ws!Authorizations]
      BY <2>2, <3>1
    <3> QED
      BY <3>1, <3>2, FunctionIsSeq
  <2> HIDE DEF q
  <2>4. WsOk(v, n)
    BY <2>2, <2>3, WsAuthorizing
  <2> QED
    BY <2>4, WsStepOf
<1>4. WsStep(Ws!handleFailure(s), n)
  BY <1>1, WsFailure
<1>5. \/ Ws!AuthorizeFails(t, i, isNetworkError) = [t |-> u, out |-> <<>>]
      \/ Ws!AuthorizeFails(t, i, isNetworkError) = [t |-> v, out |-> <<>>]
      \/ Ws!AuthorizeFails(t, i, isNetworkError) = Ws!handleFailure(s)
  BY DEF Ws!AuthorizeFails, Ws!Ignored, Ws!Step
<1> HIDE DEF s, u, v
<1> QED
  BY <1>2, <1>3, <1>4, <1>5

(* The starts that wait for an authorisation are served one after the      *)
(* other: what is told after k of them.                                    *)
IsServed(f, step, m) ==
    /\ f = [k \in 0..m |-> f[k]]
    /\ \A k \in 0..m : f[k] = IF k = 0 THEN step
                             ELSE Ws!After(f[k - 1].out, Ws!Connects(f[k - 1].t))

(* Of the starts that are served, the first and each after another.        *)
LEMMA ServedAt ==
    ASSUME NEW f, NEW step, NEW m \in Nat, IsServed(f, step, m)
    PROVE  /\ f[0] = step
           /\ \A k \in 0..m : k + 1 <= m =>
                 f[k + 1] = Ws!After(f[k].out, Ws!Connects(f[k].t))
<1>1. \A k \in 0..m :
         f[k] = IF k = 0 THEN step
                ELSE Ws!After(f[k - 1].out, Ws!Connects(f[k - 1].t))
  BY DEF IsServed
<1>2. 0 \in 0..m
  OBVIOUS
<1>3. ASSUME NEW k \in 0..m, k + 1 <= m
      PROVE  f[k + 1] = Ws!After(f[k].out, Ws!Connects(f[k].t))
  <2>1. k + 1 \in 0..m /\ k + 1 # 0 /\ (k + 1) - 1 = k
    BY <1>3
  <2> QED
    BY <1>1, <2>1
<1> QED
  BY <1>1, <1>2, <1>3

(* There is such a series, however many starts wait.                       *)
LEMMA Served ==
    ASSUME NEW step
    PROVE  \A m \in Nat : \E f : IsServed(f, step, m)
<1> DEFINE S == {m \in Nat : \E f : IsServed(f, step, m)}
<1>1. 0 \in S
  <2>1. IsServed([k \in 0..0 |-> step], step, 0)
    BY DEF IsServed
  <2> QED
    BY <2>1
<1>2. ASSUME NEW m \in S PROVE m + 1 \in S
  <2>1. PICK f : IsServed(f, step, m)
    OBVIOUS
  <2> DEFINE g == [k \in 0..(m + 1) |->
                      IF k = m + 1 THEN Ws!After(f[m].out, Ws!Connects(f[m].t))
                      ELSE f[k]]
  <2>2. IsServed(g, step, m + 1)
    <3>1. g = [k \in 0..(m + 1) |-> g[k]]
      OBVIOUS
    <3>2. ASSUME NEW k \in 0..(m + 1)
          PROVE  g[k] = IF k = 0 THEN step
                        ELSE Ws!After(g[k - 1].out, Ws!Connects(g[k - 1].t))
      <4>1. CASE k = m + 1
        BY <4>1
      <4>2. CASE k # m + 1
        <5>1. m \in Nat /\ k \in 0..m
          BY <4>2
        <5>2. f[k] = IF k = 0 THEN step
                     ELSE Ws!After(f[k - 1].out, Ws!Connects(f[k - 1].t))
          BY <2>1, <5>1 DEF IsServed
        <5>3. g[k] = f[k] /\ (k # 0 => g[k - 1] = f[k - 1])
          BY <4>2, <5>1
        <5> HIDE DEF g
        <5> QED
          BY <5>2, <5>3
      <4> QED
        BY <4>1, <4>2
    <3> HIDE DEF g
    <3> QED
      BY <3>1, <3>2 DEF IsServed
  <2> QED
    BY <2>2
<1> HIDE DEF S
<1>3. S = Nat
  BY <1>1, <1>2, Induction DEF S
<1> QED
  BY <1>3 DEF S

(* What an answered authorisation leads to, before the starts are served. *)
WsRenewed(t, i, answer) ==
    LET u == Ws!Settle(t, i, "resolved")
    IN  IF t.authorizing[i].renews /\ u.isReconnectPending
        THEN Ws!reconnect([u EXCEPT !.isReconnectPending = FALSE], TRUE, answer)
        ELSE Ws!Step(u, <<>>)

(* Authorized serves the starts that wait, after the renewal.              *)
LEMMA WsAuthorizedUnfold ==
    ASSUME NEW t, NEW i, NEW answer, t.authorizing[i].starts \in Nat
    PROVE  \E f : /\ IsServed(f, WsRenewed(t, i, answer), t.authorizing[i].starts)
                  /\ Ws!Authorized(t, i, answer) = f[t.authorizing[i].starts]
<1> DEFINE a == t.authorizing[i]
           renewed == WsRenewed(t, i, answer)
           started[k \in 0..a.starts] ==
               IF k = 0 THEN renewed
               ELSE Ws!After(started[k - 1].out, Ws!Connects(started[k - 1].t))
           F(f) == f = [k \in 0..a.starts |->
               IF k = 0 THEN renewed
               ELSE Ws!After(f[k - 1].out, Ws!Connects(f[k - 1].t))]
<1>1. \E f : F(f)
  <2>1. PICK f : IsServed(f, renewed, a.starts)
    BY Served
  <2>2. F(f)
    BY <2>1 DEF IsServed
  <2> QED
    BY <2>2
<1>2. started = CHOOSE f : F(f)
  BY DEF started
<1>3. F(started)
  BY <1>1, <1>2, Zenon
<1>4. IsServed(started, renewed, a.starts)
  <2> HIDE DEF started, renewed
  <2> QED
    BY <1>3 DEF IsServed
<1>5. Ws!Authorized(t, i, answer) = started[a.starts]
  BY DEF Ws!Authorized, WsRenewed
<1> QED
  BY <1>4, <1>5

(* The renewal keeps the shape.                                            *)
LEMMA WsRenewedType ==
    ASSUME NEW n \in Nat, NEW t, WsOk(t, n), NEW i \in DOMAIN t.authorizing,
           NEW answer \in WsAnswers(n)
    PROVE  WsStep(WsRenewed(t, i, answer), n)
<1> DEFINE u == Ws!Settle(t, i, "resolved")
           v == [u EXCEPT !.isReconnectPending = FALSE]
<1>1. WsOk(u, n)
  BY WsSettle
<1>2. WsRenewed(t, i, answer) = Ws!reconnect(v, TRUE, answer)
      \/ WsRenewed(t, i, answer) = [t |-> u, out |-> <<>>]
  BY DEF WsRenewed, Ws!Step
<1> HIDE DEF u
<1>3. WsOk(v, n)
  BY <1>1 DEF WsOk, WsWithin, Ws!Transports
<1> HIDE DEF v
<1>4. WsStep(Ws!reconnect(v, TRUE, answer), n)
  BY <1>3, WsReconnect
<1> QED
  BY <1>1, <1>2, <1>4, WsStepOf

(* The steps of a websocket are records that can be prefixed. *)
LEMMA WsAfter ==
    ASSUME NEW n \in Nat, NEW t, WsOk(t, n), NEW out \in Seq(Outs)
    PROVE  WsStep(Ws!After(out, Ws!Connects(t)), n)
<1> DEFINE step == Ws!Connects(t)
           more == [step EXCEPT !.out = out \o @]
<1>1. WsStep(step, n)
  BY WsConnects
<1>2. more.t = step.t /\ more.out = out \o step.out
  BY DEF Ws!Connects, Ws!After, Ws!createSocket, Ws!handleFailure, Ws!Step
<1>3. Ws!After(out, Ws!Connects(t)) = more
  BY DEF Ws!After
<1> HIDE DEF step, more
<1> QED
  BY <1>1, <1>2, <1>3, OutsType DEF WsStep

(* An authorisation is answered.                                           *)
LEMMA WsAuthorized ==
    ASSUME NEW n \in Nat, NEW t, WsOk(t, n), NEW i \in DOMAIN t.authorizing,
           NEW answer \in WsAnswers(n)
    PROVE  WsStep(Ws!Authorized(t, i, answer), n)
<1> DEFINE m == t.authorizing[i].starts
           renewed == WsRenewed(t, i, answer)
<1>1. m \in Nat
  <2>1. t.authorizing[i] \in Ws!Authorizations
    BY DEF WsOk, Ws!Transports
  <2> QED
    BY <2>1 DEF Ws!Authorizations
<1>2. PICK f : IsServed(f, renewed, m) /\ Ws!Authorized(t, i, answer) = f[m]
  BY <1>1, WsAuthorizedUnfold
<1>3. WsStep(renewed, n)
  BY WsRenewedType
<1> HIDE DEF m, renewed
<1> DEFINE S == {k \in Nat : k <= m => WsStep(f[k], n)}
<1>4. 0 \in S
  <2>1. f[0] = renewed
    BY <1>1, <1>2, ServedAt
  <2>2. WsStep(f[0], n)
    BY <1>3, <2>1
  <2> QED
    BY <2>2
<1>5. ASSUME NEW k \in S PROVE k + 1 \in S
  <2>1. CASE k + 1 <= m
    <3>1. WsStep(f[k], n)
      BY <1>1, <2>1
    <3>2. f[k + 1] = Ws!After(f[k].out, Ws!Connects(f[k].t))
      BY <1>1, <1>2, <2>1 DEF IsServed
    <3>3. WsStep(Ws!After(f[k].out, Ws!Connects(f[k].t)), n)
      BY <3>1, WsAfter DEF WsStep
    <3> QED
      BY <3>2, <3>3
  <2> QED
    BY <2>1
<1> HIDE DEF S
<1>6. S = Nat
  BY <1>4, <1>5, Induction DEF S
<1>7. WsStep(f[m], n)
  BY <1>1, <1>6 DEF S
<1> QED
  BY <1>2, <1>7

(***************************************************************************)
(* SignalR Core.                                                           *)
(***************************************************************************)
(* The same for a hub.                                                     *)
CoreStep(step) == CoreOk(step.t) /\ step.out \in Seq(Outs)

(* A hub of the shape, with one thing told or none, is a step.             *)
LEMMA CoreStepOf ==
    ASSUME NEW u, CoreOk(u)
    PROVE  /\ \A x \in Outs : CoreStep([t |-> u, out |-> <<x>>])
           /\ CoreStep([t |-> u, out |-> <<>>])
BY OutsType DEF CoreStep

(* setState.                                                               *)
LEMMA CoreSetState ==
    ASSUME NEW u, CoreOk(u), NEW state \in Core!States
    PROVE  CoreStep(Core!SetState(u, state))
<1>1. CoreOk([u EXCEPT !.state = state])
  BY DEF CoreOk, Core!Transports
<1>2. <<state>> \in Seq(Outs)
  BY OutsType DEF Core!States
<1> QED
  BY <1>1, <1>2 DEF CoreStep, Core!SetState, Core!Step

(* start.                                                                  *)
LEMMA CoreStart ==
    ASSUME NEW t, CoreOk(t)
    PROVE  CoreStep(Core!start(t))
<1> DEFINE u == [t EXCEPT !.hub = "connecting", !.hubContext = t.contextId,
                          !.lastUsedToken = t.authToken]
<1>1. CoreOk(u)
  BY DEF CoreOk, Core!Transports, Core!Hubs
<1>2. CoreStep(Core!SetState(u, "CONNECTING"))
  BY <1>1, CoreSetState DEF Core!States
<1>3. CoreStep(Core!Step(t, <<>>)) /\ CoreStep(Core!Step(t, <<"fail">>))
  BY CoreStepOf, OutsType DEF Core!Step
<1> QED
  BY <1>2, <1>3 DEF Core!start

(* stop, which may meet no hub at all.                                     *)
LEMMA CoreStop ==
    ASSUME NEW t, CoreOk(t), NEW hasTransportError \in BOOLEAN
    PROVE  CoreOk(Core!stop(t, hasTransportError))
<1> DEFINE e == t.hasTransportError \/ hasTransportError
           m == IF t.messageStream /\ t.hub = "connected" THEN t.cancels + 1
                ELSE t.cancels
           k == IF t.messageStream THEN t.closes ELSE t.closes + 1
           u == [t EXCEPT !.isDisconnecting = TRUE, !.hasTransportError = e,
                          !.cancels = m, !.closes = k]
<1>1. t \in Core!Transports /\ e \in BOOLEAN /\ m \in Nat /\ k \in Nat
  BY DEF CoreOk, Core!Transports
<1>2. Core!stop(t, hasTransportError) = IF t.hub = "none" THEN t ELSE u
  BY DEF Core!stop
<1> HIDE DEF e, m, k
<1>3. t.hub # "none" => CoreOk(u)
  BY <1>1 DEF CoreOk, Core!Transports
<1> QED
  BY <1>2, <1>3

(* renewSession.                                                           *)
LEMMA CoreRenew ==
    ASSUME NEW t, CoreOk(t)
    PROVE  CoreOk(Core!renewSession(t))
<1> DEFINE r == Append(t.renewals, t.authToken)
           u == [t EXCEPT !.renewals = r]
<1>1. t \in Core!Transports /\ r \in Seq(Nat)
  BY DEF CoreOk, Core!Transports
<1>2. Core!renewSession(t) = IF t.hub = "none" \/ t.state # "CONNECTED" THEN t ELSE u
  BY DEF Core!renewSession
<1> HIDE DEF r
<1>3. t.hub # "none" => CoreOk(u)
  BY <1>1 DEF CoreOk, Core!Transports
<1> QED
  BY <1>2, <1>3

(* updateQuery.                                                            *)
LEMMA CoreUpdateQuery ==
    ASSUME NEW t, CoreOk(t), NEW token \in Nat, NEW context \in Nat,
           NEW forceAuth \in BOOLEAN
    PROVE  CoreStep(Core!updateQuery(t, token, context, forceAuth))
<1> DEFINE u == [t EXCEPT !.contextId = context, !.authToken = token]
<1>1. CoreOk(u)
  BY DEF CoreOk, Core!Transports
<1>2. CoreOk(Core!renewSession(u))
  BY <1>1, CoreRenew
<1> QED
  BY <1>1, <1>2, CoreStepOf DEF Core!updateQuery, Core!Step

(* The hub is up, after a start or a reconnect.                            *)
LEMMA CoreConnected ==
    ASSUME NEW t, CoreOk(t), t.hub # "none", NEW out \in Seq(Outs)
    PROVE  CoreStep(Core!Connected(t, out))
<1> DEFINE m == [t EXCEPT !.messageStream = TRUE, !.streaming = TRUE]
           u == [m EXCEPT !.state = "CONNECTED"]
<1>1. CoreOk(u)
  BY DEF CoreOk, Core!Transports, Core!States
<1>2. CoreOk(Core!renewSession(u))
  BY <1>1, CoreRenew
<1>3. Append(out, "CONNECTED") \in Seq(Outs)
  BY OutsType
<1>4. Core!createMessageStream(t) = m
  BY DEF Core!createMessageStream
<1>5. \/ Core!Connected(t, out) = [t |-> u, out |-> Append(out, "CONNECTED")]
      \/ Core!Connected(t, out) = [t |-> Core!renewSession(u),
                                   out |-> Append(out, "CONNECTED")]
  BY <1>4 DEF Core!Connected, Core!Step
<1> HIDE DEF u
<1> QED
  BY <1>1, <1>2, <1>3, <1>5 DEF CoreStep

(* The promise of the hub's start is fulfilled, or rejected.               *)
LEMMA CoreStarted ==
    ASSUME NEW t, CoreOk(t)
    PROVE  CoreStep(Core!Started(t)) /\ CoreStep(Core!StartFails(t))
<1> DEFINE u == [t EXCEPT !.hub = "connected", !.sessionToken = t.lastUsedToken]
           v == [t EXCEPT !.hub = "failed"]
<1>1. CoreOk(u) /\ u.hub # "none" /\ CoreOk(v)
  BY DEF CoreOk, Core!Transports, Core!Hubs
<1>2. <<"started">> \in Seq(Outs)
  BY OutsType
<1>3. CoreStep(Core!Connected(u, <<"started">>)) /\ CoreStep([t |-> u, out |-> <<>>])
  <2> HIDE DEF u
  <2> QED
    BY <1>1, <1>2, CoreConnected, CoreStepOf
<1>4. CoreStep([t |-> v, out |-> <<"fail">>])
  BY <1>1, CoreStepOf, OutsType
<1> QED
  BY <1>3, <1>4 DEF Core!Started, Core!StartFails, Core!Step

(* handleConnectionClosure leaves nothing of the hub behind.               *)
LEMMA CoreClosure ==
    ASSUME NEW t, CoreOk(t)
    PROVE  CoreStep(Core!handleConnectionClosure(t))
<1> DEFINE u == [t EXCEPT !.hub = "none",
                          !.messageStream = FALSE,
                          !.streaming = FALSE,
                          !.hasMessage = FALSE,
                          !.isDisconnecting = FALSE,
                          !.hasStreamingStarted = FALSE,
                          !.hasTransportError = FALSE,
                          !.retries = 0,
                          !.cancels = 0, !.closes = 0,
                          !.renewals = <<>>]
<1>1. CoreOk(u)
  <2>1. t \in Core!Transports /\ 0 \in 0..MaxRetries /\ <<>> \in Seq(Nat)
    BY TransportsAssumption DEF CoreOk
  <2> QED
    BY <2>1 DEF CoreOk, Core!Transports, Core!Hubs
<1>2. Core!handleConnectionClosure(t) =
         IF t.hasTransportError THEN [t |-> u, out |-> <<"fail">>]
         ELSE Core!SetState(u, "DISCONNECTED")
  BY DEF Core!handleConnectionClosure, Core!Step
<1> HIDE DEF u
<1>3. CoreStep([t |-> u, out |-> <<"fail">>])
  BY <1>1, CoreStepOf, OutsType
<1>4. CoreStep(Core!SetState(u, "DISCONNECTED"))
  BY <1>1, CoreSetState DEF Core!States
<1> QED
  BY <1>2, <1>3, <1>4

(* A link that breaks, a further try within MaxRetries, and one that       *)
(* succeeds.                                                               *)
LEMMA CoreReconnects ==
    ASSUME NEW t, CoreOk(t), t.hub # "none"
    PROVE  /\ CoreStep(Core!onreconnecting(t))
           /\ CoreStep(Core!onreconnected(t))
           /\ t.retries < MaxRetries => CoreStep(Core!Retries(t))
<1> DEFINE h == IF t.closes > 0 THEN "disconnecting" ELSE "reconnecting"
           m == t.retries + 1
           u == [t EXCEPT !.hub = h,
                          !.lastUsedToken = t.authToken,
                          !.streaming = FALSE,
                          !.retries = 1,
                          !.cancels = 0, !.closes = 0,
                          !.renewals = <<>>]
           v == [t EXCEPT !.hub = "connected", !.retries = 0,
                          !.sessionToken = t.lastUsedToken]
           w == [t EXCEPT !.lastUsedToken = t.authToken, !.retries = m]
<1>1. /\ t \in Core!Transports /\ {0, 1} \subseteq 0..MaxRetries
      /\ <<>> \in Seq(Nat) /\ h \in Core!Hubs /\ h # "none"
      /\ t.retries < MaxRetries => m \in 0..MaxRetries
  BY TransportsAssumption DEF CoreOk, Core!Hubs, Core!Transports
<1> HIDE DEF h, m
<1>2. CoreOk(u)
  BY <1>1 DEF CoreOk, Core!Transports
<1>3. CoreOk(v) /\ v.hub # "none"
  BY <1>1 DEF CoreOk, Core!Transports, Core!Hubs
<1>4. t.retries < MaxRetries => CoreOk(w)
  BY <1>1 DEF CoreOk, Core!Transports
<1>5. /\ Core!onreconnecting(t) = Core!SetState(u, "RECONNECTING")
      /\ Core!onreconnected(t) = Core!Connected(v, <<>>)
      /\ Core!Retries(t) = [t |-> w, out |-> <<>>]
  BY DEF Core!onreconnecting, Core!onreconnected, Core!Retries, Core!Step, h, m
<1>6. <<>> \in Seq(Outs) /\ "RECONNECTING" \in Core!States
  BY DEF Core!States
<1> HIDE DEF u, v, w
<1> QED
  BY <1>2, <1>3, <1>4, <1>5, <1>6, CoreSetState, CoreConnected, CoreStepOf

(* The chain of stop goes on: its counts stay natural numbers.             *)
LEMMA CoreStops ==
    ASSUME NEW t, CoreOk(t)
    PROVE  /\ t.cancels > 0 => CoreStep(Core!StreamCancelled(t))
           /\ t.closes > 0 => CoreStep(Core!CloseAnswered(t))
<1>1. t \in Core!Transports
  BY DEF CoreOk
<1>2. ASSUME t.cancels > 0 PROVE CoreStep(Core!StreamCancelled(t))
  <2> DEFINE m == t.cancels - 1
             k == t.closes + 1
             u == [t EXCEPT !.cancels = m, !.closes = k, !.streaming = FALSE]
  <2>1. m \in Nat /\ k \in Nat
    BY <1>1, <1>2 DEF Core!Transports
  <2>2. t.hub # "none"
    BY <1>2 DEF CoreOk
  <2>3. Core!StreamCancelled(t) = [t |-> u, out |-> <<>>]
    BY DEF Core!StreamCancelled, Core!Step
  <2> HIDE DEF m, k
  <2>4. CoreOk(u)
    BY <1>1, <2>1, <2>2 DEF CoreOk, Core!Transports
  <2> QED
    BY <2>3, <2>4, CoreStepOf
<1>3. ASSUME t.closes > 0 PROVE CoreStep(Core!CloseAnswered(t))
  <2> DEFINE k == t.closes - 1
             u == [t EXCEPT !.closes = k]
             v == [u EXCEPT !.hub = "disconnecting"]
  <2>1. k \in Nat
    BY <1>1, <1>3 DEF Core!Transports
  <2>2. t.hub # "none"
    BY <1>3 DEF CoreOk
  <2>3. \/ Core!CloseAnswered(t) = Core!StartFails(u)
        \/ Core!CloseAnswered(t) = [t |-> u, out |-> <<>>]
        \/ Core!CloseAnswered(t) = [t |-> v, out |-> <<>>]
    BY DEF Core!CloseAnswered, Core!Step
  <2> HIDE DEF k
  <2>4. CoreOk(u) /\ CoreOk(v)
    BY <1>1, <2>1, <2>2 DEF CoreOk, Core!Transports, Core!Hubs
  <2> HIDE DEF u, v
  <2> QED
    BY <2>3, <2>4, CoreStepOf, CoreStarted
<1> QED
  BY <1>2, <1>3

(* What the stream brings.                                                 *)
LEMMA CoreStream ==
    ASSUME NEW t, CoreOk(t), t.hub # "none"
    PROVE  /\ \A parses \in BOOLEAN : CoreStep(Core!handleNextMessage(t, parses))
           /\ CoreStep(Core!StreamCompletes(t))
           /\ CoreStep(Core!handleMessageStreamError(t))
<1> DEFINE a == [t EXCEPT !.hasStreamingStarted = TRUE]
           b == [a EXCEPT !.hasMessage = TRUE]
           d == [t EXCEPT !.streaming = FALSE, !.messageStream = FALSE]
           e == [t EXCEPT !.streaming = FALSE]
           f == [e EXCEPT !.messageStream = FALSE]
<1>1. CoreOk(a) /\ CoreOk(b) /\ CoreOk(d) /\ CoreOk(e) /\ CoreOk(f)
  BY DEF CoreOk, Core!Transports
<1>2. /\ \A parses \in BOOLEAN :
             \/ Core!handleNextMessage(t, parses) = [t |-> b, out |-> <<"received">>]
             \/ Core!handleNextMessage(t, parses)
                  = [t |-> Core!stop(a, TRUE), out |-> <<>>]
      /\ Core!StreamCompletes(t) = [t |-> Core!stop(d, FALSE), out |-> <<>>]
      /\ \/ Core!handleMessageStreamError(t) = [t |-> e, out |-> <<>>]
         \/ Core!handleMessageStreamError(t)
              = [t |-> Core!stop(f, FALSE), out |-> <<>>]
  BY DEF Core!handleNextMessage, Core!StreamCompletes,
         Core!handleMessageStreamError, Core!Step
<1> HIDE DEF a, b, d, e, f
<1>3. CoreOk(Core!stop(a, TRUE)) /\ CoreOk(Core!stop(d, FALSE)) /\ CoreOk(Core!stop(f, FALSE))
  BY <1>1, CoreStop
<1>4. /\ CoreStep([t |-> b, out |-> <<"received">>])
      /\ CoreStep([t |-> e, out |-> <<>>])
      /\ CoreStep([t |-> Core!stop(a, TRUE), out |-> <<>>])
      /\ CoreStep([t |-> Core!stop(d, FALSE), out |-> <<>>])
      /\ CoreStep([t |-> Core!stop(f, FALSE), out |-> <<>>])
  BY <1>1, <1>3, CoreStepOf, OutsType
<1> QED
  BY <1>2, <1>4

(* A renewal is answered.                                                  *)
LEMMA CoreAnswered ==
    ASSUME NEW t, CoreOk(t), t.hub # "none", t.renewals # <<>>, NEW status
    PROVE  CoreStep(Core!RenewAnswered(t, status))
<1> DEFINE token == Head(t.renewals)
           r == Tail(t.renewals)
           u == [t EXCEPT !.renewals = r]
           v == [u EXCEPT !.sessionToken = token]
           o == IF t.authToken = token THEN <<"unauthorized">> ELSE <<>>
<1>1. t \in Core!Transports /\ r \in Seq(Nat) /\ token \in Nat
  BY DEF CoreOk, Core!Transports
<1>2. \/ Core!RenewAnswered(t, status) = [t |-> v, out |-> <<>>]
      \/ Core!RenewAnswered(t, status) = [t |-> u, out |-> o]
      \/ Core!RenewAnswered(t, status) = [t |-> Core!stop(u, FALSE), out |-> <<>>]
      \/ Core!RenewAnswered(t, status) = [t |-> Core!stop(u, TRUE), out |-> <<>>]
      \/ Core!RenewAnswered(t, status) = [t |-> Core!renewSession(u), out |-> <<>>]
  BY DEF Core!RenewAnswered, Core!Step
<1> HIDE DEF token, r
<1>3. CoreOk(u) /\ CoreOk(v)
  BY <1>1 DEF CoreOk, Core!Transports
<1>4. o \in Seq(Outs)
  BY OutsType
<1> HIDE DEF u, v, o
<1>5. CoreOk(Core!stop(u, FALSE)) /\ CoreOk(Core!stop(u, TRUE)) /\ CoreOk(Core!renewSession(u))
  BY <1>3, CoreStop, CoreRenew
<1>6. /\ CoreStep([t |-> v, out |-> <<>>])
      /\ CoreStep([t |-> u, out |-> o])
      /\ CoreStep([t |-> Core!stop(u, FALSE), out |-> <<>>])
      /\ CoreStep([t |-> Core!stop(u, TRUE), out |-> <<>>])
      /\ CoreStep([t |-> Core!renewSession(u), out |-> <<>>])
  BY <1>3, <1>4, <1>5, CoreStepOf DEF CoreStep
<1> QED
  BY <1>2, <1>6

(***************************************************************************)
(* The library of the legacy SignalR, and its transport.                   *)
(***************************************************************************)
(* What the library triggers.                                              *)
LibraryOuts == Library!connectionStates \cup {"started"}
LibraryStep(step) == LibraryOk(step.t) /\ step.out \in Seq(LibraryOuts)

(* A connection of the library with up to two events is a step.            *)
LEMMA LibraryStepOf ==
    ASSUME NEW u, LibraryOk(u)
    PROVE  /\ \A x \in LibraryOuts : LibraryStep([t |-> u, out |-> <<x>>])
           /\ \A x, y \in LibraryOuts : LibraryStep([t |-> u, out |-> <<x, y>>])
           /\ LibraryStep([t |-> u, out |-> <<>>])
BY DEF LibraryStep

(* stop, whatever of the connection has been given up before. *)
LEMMA LibraryStopped ==
    ASSUME NEW l \in Library!Connections
    PROVE  LibraryStep(Library!stop(l))
<1> DEFINE u == [l EXCEPT !.negotiating = FALSE, !.transport = 0,
                          !.socket = "none", !.reconnectTimeout = FALSE]
           v == [u EXCEPT !.state = "disconnected"]
<1>1. 0 \in 0..Len(LibraryTransports)
  BY TransportsAssumption
<1>2. v = Library!New /\ v \in Library!Connections
  <2>1. /\ v.state = "disconnected" /\ v.negotiating = FALSE /\ v.transport = 0
        /\ v.socket = "none" /\ v.reconnectTimeout = FALSE
        /\ v \in Library!Connections
    BY <1>1 DEF Library!Connections, Library!connectionStates
  <2> HIDE DEF v
  <2>2. v = [state |-> v.state, negotiating |-> v.negotiating,
             transport |-> v.transport, socket |-> v.socket,
             reconnectTimeout |-> v.reconnectTimeout]
    BY <2>1 DEF Library!Connections
  <2> QED
    BY <2>1, <2>2 DEF Library!New
<1>3. LibraryOk(v)
  BY <1>2 DEF LibraryOk, Library!New
<1>4. l.state = "disconnected" => u = v
  BY DEF Library!Connections
<1>5. \/ Library!stop(l) = [t |-> v, out |-> <<"disconnected">>]
      \/ Library!stop(l) = [t |-> v, out |-> <<>>]
  <2>1. u.state = l.state /\ l.state \in Library!connectionStates
    BY DEF Library!Connections
  <2> HIDE DEF u
  <2> QED
    BY <1>4, <2>1 DEF Library!stop, Library!changeState, Library!Step,
                      Library!connectionStates, u
<1> HIDE DEF v
<1> QED
  BY <1>3, <1>5, LibraryStepOf DEF LibraryOuts, Library!connectionStates

(* start.                                                                  *)
LEMMA LibraryStart ==
    ASSUME NEW l, LibraryOk(l)
    PROVE  LibraryStep(Library!start(l))
<1> DEFINE u == [l EXCEPT !.negotiating = TRUE]
           v == [u EXCEPT !.state = "connecting"]
<1>1. CASE l.state # "disconnected"
  BY <1>1, LibraryStepOf DEF Library!start, Library!Step
<1>2. CASE l.state = "disconnected"
  <2>1. l = Library!New /\ l \in Library!Connections
    BY <1>2 DEF LibraryOk
  <2>2. LibraryOk(v) /\ u.state = "disconnected"
    BY <2>1 DEF LibraryOk, Library!New, Library!Connections, Library!connectionStates
  <2>3. Library!start(l) = [t |-> v, out |-> <<"connecting">>]
    BY <1>2, <2>2 DEF Library!start, Library!changeState, Library!Step
  <2> HIDE DEF v
  <2> QED
    BY <2>2, <2>3, LibraryStepOf DEF LibraryOuts, Library!connectionStates
<1> QED
  BY <1>1, <1>2

(* The next of the library's own transports is tried. *)
LEMMA LibraryInitialize ==
    ASSUME NEW l \in Library!Connections, l.state = "connecting",
           ~l.negotiating, ~l.reconnectTimeout, NEW index \in Nat \ {0}
    PROVE  LibraryStep(Library!initialize(l, index))
<1> DEFINE u == [l EXCEPT !.transport = index, !.socket = "opening"]
<1>1. CASE index > Len(LibraryTransports)
  BY <1>1, LibraryStopped DEF Library!initialize
<1>2. CASE ~(index > Len(LibraryTransports))
  <2>1. index \in 0..Len(LibraryTransports)
    BY <1>2, TransportsAssumption
  <2>2. LibraryOk(u)
    BY <2>1 DEF LibraryOk, Library!Connections, Library!New
  <2> QED
    BY <1>2, <2>2, LibraryStepOf DEF Library!initialize, Library!Step
<1> QED
  BY <1>1, <1>2

(* The negotiation is answered.                                            *)
LEMMA LibraryNegotiated ==
    ASSUME NEW l, LibraryOk(l), l.negotiating, NEW answer
    PROVE  LibraryStep(Library!Negotiated(l, answer))
<1> DEFINE u == [l EXCEPT !.negotiating = FALSE]
<1>1. l \in Library!Connections /\ l.state = "connecting" /\ ~l.reconnectTimeout
  BY DEF LibraryOk, Library!New, Library!Connections, Library!connectionStates
<1>2. /\ u \in Library!Connections /\ u.state = "connecting" /\ ~u.negotiating
      /\ ~u.reconnectTimeout /\ LibraryOk(u)
  BY <1>1 DEF LibraryOk, Library!Connections
<1> HIDE DEF u
<1>3. /\ LibraryStep(Library!initialize(u, 1))
      /\ LibraryStep(Library!stop(u))
      /\ LibraryStep(Library!Step(u, <<>>))
  BY <1>2, LibraryInitialize, LibraryStopped, LibraryStepOf DEF Library!Step
<1> QED
  BY <1>3 DEF Library!Negotiated, u

(* The transport being tried is there, or has failed.                      *)
LEMMA LibraryTried ==
    ASSUME NEW l, LibraryOk(l), Library!Initializing(l)
    PROVE  LibraryStep(Library!onSuccess(l)) /\ LibraryStep(Library!onFailed(l))
<1> DEFINE u == [l EXCEPT !.socket = "open"]
           v == [u EXCEPT !.state = "connected"]
           w == [l EXCEPT !.socket = "none"]
           index == l.transport + 1
<1>1. /\ l \in Library!Connections /\ l.state = "connecting" /\ l.transport # 0
      /\ ~l.negotiating /\ ~l.reconnectTimeout
  BY DEF LibraryOk, Library!Initializing
<1>2. LibraryOk(v) /\ u.state = "connecting"
  BY <1>1 DEF LibraryOk, Library!Connections, Library!connectionStates
<1>3. /\ w \in Library!Connections /\ w.state = "connecting"
      /\ ~w.negotiating /\ ~w.reconnectTimeout /\ index \in Nat \ {0}
  BY <1>1 DEF Library!Connections
<1> DEFINE o == Append(<<"connected">>, "started")
<1>4. Library!onSuccess(l) = [t |-> v, out |-> o]
  <2> DEFINE step == Library!changeState(u, {"connecting"}, "connected")
  <2>1. step = [t |-> v, out |-> <<"connected">>]
    BY <1>2 DEF Library!changeState, Library!Step
  <2>2. Library!onSuccess(l) = [step EXCEPT !.out = Append(@, "started")]
    BY DEF Library!onSuccess
  <2> HIDE DEF step, v
  <2> QED
    BY <2>1, <2>2
<1>5. Library!onFailed(l) = Library!initialize(w, index)
  BY DEF Library!onFailed
<1> HIDE DEF v, w, index
<1>6. LibraryStep([t |-> v, out |-> o])
  BY <1>2 DEF LibraryStep, LibraryOuts, Library!connectionStates
<1> QED
  BY <1>3, <1>4, <1>5, <1>6, LibraryInitialize

(* What becomes of a connection that is up or reconnecting.                *)
LEMMA LibraryChanges ==
    ASSUME NEW l, LibraryOk(l), Library!isConnectedOrReconnecting(l), NEW expired \in BOOLEAN
    PROVE  /\ LibraryStep(Library!SocketCloses(l, expired))
           /\ LibraryStep(Library!PollFails(l, expired))
           /\ LibraryStep(Library!checkIfAlive(l, expired))
           /\ LibraryStep(Library!ReconnectTimeout(l, expired))
           /\ LibraryStep(Library!Reconnected(l))
<1> DEFINE u == [l EXCEPT !.socket = "none"]
           v == [l EXCEPT !.reconnectTimeout = FALSE]
           w == [v EXCEPT !.socket = "opening"]
           x == [l EXCEPT !.socket = "opening"]
           y == [l EXCEPT !.socket = "open", !.reconnectTimeout = FALSE]
           Good(m) == /\ LibraryOk(m) /\ Library!isConnectedOrReconnecting(m)
<1>1. Good(l) /\ Good(u) /\ Good(v) /\ Good(w) /\ Good(x) /\ Good(y)
  BY DEF LibraryOk, Library!isConnectedOrReconnecting, Library!Connections,
         Library!connectionStates
<1>2. ASSUME NEW m, Good(m), NEW from \in SUBSET {"connected", "reconnecting"},
             NEW to \in {"connected", "reconnecting"}
      PROVE  LibraryStep(Library!changeState(m, from, to))
  <2> DEFINE n == [m EXCEPT !.state = to]
  <2>1. LibraryOk(n) /\ to \in LibraryOuts
    BY <1>2 DEF LibraryOk, Library!isConnectedOrReconnecting, Library!Connections,
                Library!connectionStates, LibraryOuts
  <2>2. Library!changeState(m, from, to) \in
          {[t |-> n, out |-> <<to>>], [t |-> m, out |-> <<>>]}
    BY DEF Library!changeState, Library!Step
  <2> HIDE DEF n
  <2>3. LibraryStep([t |-> n, out |-> <<to>>]) /\ LibraryStep([t |-> m, out |-> <<>>])
    BY <1>2, <2>1, LibraryStepOf
  <2> QED
    BY <2>2, <2>3
<1>3. ASSUME NEW m, Good(m)
      PROVE  LibraryStep(Library!reconnect(m, expired)) /\ LibraryStep(Library!stop(m))
  <2> DEFINE n == [m EXCEPT !.reconnectTimeout = TRUE]
  <2>1. LibraryOk(n) /\ LibraryOk(m) /\ m \in Library!Connections
    BY <1>3 DEF LibraryOk, Library!isConnectedOrReconnecting, Library!Connections
  <2>2. \/ Library!reconnect(m, expired) = [t |-> n, out |-> <<>>]
        \/ Library!reconnect(m, expired) = [t |-> m, out |-> <<>>]
        \/ Library!reconnect(m, expired) = Library!stop(m)
    BY DEF Library!reconnect, Library!Step
  <2> HIDE DEF n
  <2>3. LibraryStep([t |-> n, out |-> <<>>]) /\ LibraryStep([t |-> m, out |-> <<>>])
        /\ LibraryStep(Library!stop(m))
    BY <2>1, LibraryStepOf, LibraryStopped
  <2> QED
    BY <2>2, <2>3
<1>4. LibraryStep(Library!Step(l, <<>>))
  BY LibraryStepOf DEF Library!Step
<1>5. /\ Library!SocketCloses(l, expired) = Library!reconnect(u, expired)
      /\ \/ Library!PollFails(l, expired) = Library!stop(l)
         \/ Library!PollFails(l, expired)
              = Library!changeState(x, {"connected"}, "reconnecting")
      /\ \/ Library!checkIfAlive(l, expired) = Library!reconnect(l, expired)
         \/ Library!checkIfAlive(l, expired) = Library!Step(l, <<>>)
      /\ \/ Library!ReconnectTimeout(l, expired) = Library!stop(v)
         \/ Library!ReconnectTimeout(l, expired)
              = Library!changeState(w, {"connected"}, "reconnecting")
      /\ Library!Reconnected(l)
           = Library!changeState(y, {"reconnecting"}, "connected")
  BY DEF Library!SocketCloses, Library!PollFails, Library!checkIfAlive,
         Library!ReconnectTimeout, Library!Reconnected,
         Library!ensureReconnectingState
<1>6. /\ LibraryStep(Library!changeState(x, {"connected"}, "reconnecting"))
      /\ LibraryStep(Library!changeState(w, {"connected"}, "reconnecting"))
      /\ LibraryStep(Library!changeState(y, {"reconnecting"}, "connected"))
      /\ LibraryStep(Library!reconnect(u, expired))
      /\ LibraryStep(Library!reconnect(l, expired))
      /\ LibraryStep(Library!stop(l))
      /\ LibraryStep(Library!stop(v))
  <2> HIDE DEF u, v, w, x, y, Good
  <2> QED
    BY <1>1, <1>2, <1>3
<1> HIDE DEF u, v, w, x, y, Good
<1> QED
  BY <1>4, <1>5, <1>6

(* The same for the transport around the library.                          *)
SignalrStep(step) == SignalrOk(step.t) /\ step.out \in Seq(Outs)

(* A step of the library is one of the transport around it.                *)
LEMMA SignalrDoes ==
    ASSUME NEW t, SignalrOk(t), NEW step, LibraryStep(step)
    PROVE  SignalrStep(Signalr!Does(t, step))
<1> DEFINE o == step.out
           f == [i \in DOMAIN o |-> Signalr!Heard(o[i])]
           l == step.t
           u == [t EXCEPT !.connection = l]
<1>1. o \in Seq(LibraryOuts) /\ LibraryOk(l) /\ t \in Signalr!Transports
  BY DEF LibraryStep, SignalrOk
<1>2. Signalr!Does(t, step) = [t |-> u, out |-> f]
  BY DEF Signalr!Does, Signalr!Step
<1> HIDE DEF o, l
<1>3. SignalrOk(u)
  <2>1. l \in Signalr!Library!Connections
    BY <1>1 DEF LibraryOk, Library!Connections, Signalr!Library!Connections,
         Library!connectionStates, Signalr!Library!connectionStates
  <2> QED
    BY <1>1, <2>1 DEF SignalrOk, Signalr!Transports
<1>4. \A x \in LibraryOuts : Signalr!Heard(x) \in Outs
  BY DEF LibraryOuts, Library!connectionStates, Signalr!Heard, Outs,
         Contract!States, Signalr!mapConnectionState, Signalr!Library!connectionStates
<1>5. f \in Seq(Outs)
  <2>1. Len(o) \in Nat /\ DOMAIN o = 1..Len(o)
    BY <1>1
  <2>2. f \in [1..Len(o) -> Outs]
    BY <1>1, <1>4, <2>1
  <2> QED
    BY <2>1, <2>2, FunctionIsSeq
<1> HIDE DEF u, f
<1> QED
  BY <1>2, <1>3, <1>5 DEF SignalrStep

(* The methods of the transport.                                           *)
LEMMA SignalrMethods ==
    ASSUME NEW t, SignalrOk(t), NEW token \in Nat, NEW context \in Nat
    PROVE  /\ SignalrStep(Signalr!start(t))
           /\ SignalrStep(Signalr!stop(t))
           /\ SignalrStep(Signalr!updateQuery(t, token, context))
           /\ SignalrStep(Signalr!handleError(t, TRUE))
<1> DEFINE u == [t EXCEPT !.contextId = context, !.authToken = token]
           l == t.connection
<1>1. SignalrOk(u)
  BY DEF SignalrOk, Signalr!Transports
<1>2. LibraryOk(l)
  BY DEF SignalrOk
<1>3. LibraryStep(Library!start(l)) /\ LibraryStep(Library!stop(l))
  BY <1>2, LibraryStart, LibraryStopped DEF LibraryOk
<1>4. Signalr!Library!start(l) = Library!start(l) /\ Signalr!Library!stop(l) = Library!stop(l)
  BY DEF Signalr!Library!start, Signalr!Library!stop, Library!start, Library!stop,
         Signalr!Library!changeState, Library!changeState, Signalr!Library!Step,
         Library!Step, Signalr!Library!connectionStates, Library!connectionStates
<1>5. SignalrStep(Signalr!start(t)) /\ SignalrStep(Signalr!stop(t))
  BY <1>3, <1>4, SignalrDoes DEF Signalr!start, Signalr!stop
<1>6. SignalrStep([t |-> u, out |-> <<>>])
  BY <1>1, OutsType DEF SignalrStep
<1>7. SignalrStep([t |-> t, out |-> <<"unauthorized">>])
  BY OutsType DEF SignalrStep
<1> QED
  BY <1>5, <1>6, <1>7 DEF Signalr!updateQuery, Signalr!handleError, Signalr!Step

(***************************************************************************)
(* 2. The shape of the connection                                          *)
(***************************************************************************)

(* A transport has one kind, and the shape of that kind.                   *)
LEMMA KindOf ==
    ASSUME NEW t, NEW kind, NEW n, Ok(t, kind, n)
    PROVE  /\ t.kind = kind /\ t # Absent /\ kind \in Kinds
           /\ t.kind = Ws!Kind => WsOk(t, n)
           /\ t.kind = Core!Kind => CoreOk(t)
           /\ t.kind = Signalr!Kind => SignalrOk(t)
           /\ t \in Ws!Transports \cup Core!Transports \cup Signalr!Transports
<1>1. /\ t \in Ws!Transports => t.kind = "websocket"
      /\ t \in Core!Transports => t.kind = "signalrCore"
      /\ t \in Signalr!Transports => t.kind = "signalr"
  BY DEF Ws!Transports, Core!Transports, Signalr!Transports, Ws!Kind, Core!Kind,
         Signalr!Kind
<1>2. \/ kind = "websocket" /\ WsOk(t, n) /\ t \in Ws!Transports
      \/ kind = "signalrCore" /\ CoreOk(t) /\ t \in Core!Transports
      \/ kind = "signalr" /\ SignalrOk(t) /\ t \in Signalr!Transports
  BY DEF Ok, WsOk, CoreOk, SignalrOk, Ws!Kind, Core!Kind, Signalr!Kind
<1>3. Absent.kind = "absent"
  BY DEF Absent
<1> QED
  BY <1>1, <1>2, <1>3 DEF Kinds, Ws!Kind, Core!Kind, Signalr!Kind

(* A transport that fits a context fits a later one.                       *)
LEMMA OkGrows ==
    ASSUME NEW n \in Nat, NEW m \in Nat, n <= m, NEW t, NEW kind, Ok(t, kind, n)
    PROVE  Ok(t, kind, m)
<1>1. WsOk(t, n) => WsOk(t, m)
  <2>1. ASSUME WsOk(t, n) PROVE WsOk(t, m)
    <3>1. t \in Ws!Transports /\ t.contextId \in Nat /\ t.contextId <= n
      BY <2>1 DEF WsOk, WsWithin, Ws!Transports
    <3>2. t.authorizing \in Seq(Ws!Authorizations)
      BY <3>1 DEF Ws!Transports
    <3>3. \A k \in DOMAIN t.authorizing :
             t.authorizing[k].contextId \in Nat /\ t.authorizing[k].contextId <= n
      <4>1. \A k \in DOMAIN t.authorizing : t.authorizing[k] \in Ws!Authorizations
        BY <3>2
      <4> QED
        BY <2>1, <4>1 DEF WsOk, WsWithin, Ws!Authorizations
    <3> QED
      BY <2>1, <3>1, <3>3 DEF WsOk, WsWithin
  <2> QED
    BY <2>1
<1> QED
  BY <1>1 DEF Ok

(* start keeps the shape, whichever the kind.                              *)
LEMMA StartOk ==
    ASSUME NEW n \in Nat, NEW t, NEW kind, Ok(t, kind, n)
    PROVE  StepOk(Start(t), kind, n)
<1>1. /\ t.kind = Ws!Kind => WsStep(Ws!start(t), n)
      /\ t.kind = Core!Kind => CoreStep(Core!start(t))
      /\ t.kind = Signalr!Kind => SignalrStep(Signalr!start(t))
  BY KindOf, WsStart, CoreStart, SignalrMethods
<1>2. t.kind = kind /\ kind \in Kinds
  BY KindOf
<1> QED
  BY <1>1, <1>2 DEF Start, StepOk, Ok, WsStep, CoreStep, SignalrStep, Kinds,
                    Ws!Kind, Core!Kind, Signalr!Kind

(* stop keeps the shape, whichever the kind.                               *)
LEMMA StopOk ==
    ASSUME NEW n \in Nat, NEW t, NEW kind, Ok(t, kind, n)
    PROVE  StepOk(Stop(t), kind, n)
<1>1. /\ t.kind = Ws!Kind => WsStep(Ws!stop(t), n)
      /\ t.kind = Core!Kind => CoreStep(Core!Step(Core!stop(t, FALSE), <<>>))
      /\ t.kind = Signalr!Kind => SignalrStep(Signalr!stop(t))
  <2>1. t.kind = Core!Kind => CoreOk(Core!stop(t, FALSE))
    BY KindOf, CoreStop
  <2> QED
    BY <2>1, KindOf, WsStop, CoreStepOf, SignalrMethods DEF Core!Step
<1>2. t.kind = kind /\ kind \in Kinds
  BY KindOf
<1> QED
  BY <1>1, <1>2 DEF Stop, StepOk, Ok, WsStep, CoreStep, SignalrStep, Kinds,
                    Ws!Kind, Core!Kind, Signalr!Kind

(* updateQuery keeps the shape, whichever the kind.                        *)
LEMMA UpdateQueryOk ==
    ASSUME NEW n \in Nat, NEW t, NEW kind, Ok(t, kind, n),
           NEW token \in Nat, NEW context \in 0..n, NEW forceAuth \in BOOLEAN
    PROVE  StepOk(UpdateQuery(t, token, context, forceAuth), kind, n)
<1>1. /\ t.kind = Ws!Kind => WsStep(Ws!updateQuery(t, token, context, forceAuth), n)
      /\ t.kind = Core!Kind => CoreStep(Core!updateQuery(t, token, context, forceAuth))
      /\ t.kind = Signalr!Kind => SignalrStep(Signalr!updateQuery(t, token, context))
  <2>1. context \in Nat
    OBVIOUS
  <2> QED
    BY <2>1, KindOf, WsUpdateQuery, CoreUpdateQuery, SignalrMethods
<1>2. t.kind = kind /\ kind \in Kinds
  BY KindOf
<1> QED
  BY <1>1, <1>2 DEF UpdateQuery, StepOk, Ok, WsStep, CoreStep, SignalrStep, Kinds,
                    Ws!Kind, Core!Kind, Signalr!Kind

(* A transport that was just made has the shape.                           *)
LEMMA NewOk ==
    ASSUME NEW s \in ScenarioRecords, NEW kind \in Kinds, NEW n \in Nat
    PROVE  Ok(NewTransport(s, kind), kind, n)
<1>1. \A works \in BOOLEAN : WsOk(Ws!New(works), n)
  <2>1. 0 \in 0..DEFAULT_RECONNECT_LIMIT
    BY TransportsAssumption
  <2>2. \A works \in BOOLEAN : Ws!New(works) \in Ws!Transports
    BY <2>1 DEF Ws!New, Ws!Transports, Ws!NoQuery, Ws!Queries
  <2>3. \A works \in BOOLEAN : WsWithin(Ws!New(works), n)
    BY DEF Ws!New, WsWithin
  <2> QED
    BY <2>2, <2>3 DEF WsOk
<1>2. \A works \in BOOLEAN : CoreOk(Core!New(works))
  <2>1. 0 \in 0..MaxRetries
    BY TransportsAssumption
  <2> QED
    BY <2>1 DEF CoreOk, Core!New, Core!Transports, Core!Hubs, Core!States
<1>3. SignalrOk(Signalr!New)
  <2>1. 0 \in 0..Len(LibraryTransports)
    BY TransportsAssumption
  <2>2. Library!New \in Library!Connections /\ LibraryOk(Library!New)
    BY <2>1 DEF Library!New, Library!Connections, Library!connectionStates, LibraryOk
  <2>3. Signalr!Library!New = Library!New
        /\ Signalr!Library!Connections = Library!Connections
    BY DEF Signalr!Library!New, Library!New, Signalr!Library!Connections,
           Library!Connections, Signalr!Library!connectionStates,
           Library!connectionStates
  <2> QED
    BY <2>2, <2>3 DEF SignalrOk, Signalr!New, Signalr!Transports
<1> DEFINE works == kind \in s.working
<1>4. works \in BOOLEAN
  OBVIOUS
<1>5. \/ NewTransport(s, kind) = Ws!New(works) /\ kind = Ws!Kind
      \/ NewTransport(s, kind) = Core!New(works) /\ kind = Core!Kind
      \/ NewTransport(s, kind) = Signalr!New /\ kind = Signalr!Kind
  BY DEF NewTransport, Kinds, Ws!Kind, Core!Kind, Signalr!Kind
<1> HIDE DEF works
<1> QED
  BY <1>1, <1>2, <1>3, <1>4, <1>5 DEF Ok

-----------------------------------------------------------------------------
(* The state of the connection, as what was asked of it has it.            *)
StateOf(asked) == IF asked = "down" THEN "started" ELSE asked

(* A place of the list, and what stands in it.                             *)
PlaceOk(t, kind, n) == t = Absent \/ Ok(t, kind, n)

(* The transports have their shapes, none was made beyond the current one. *)
Shape(d, s) ==
    /\ d \in Connections
    /\ Len(d.transports) = Len(s.transports)
    /\ d.tranportIndex <= Len(s.transports) + 1
    /\ d.contextId <= MaxContexts
    /\ \A i \in DOMAIN d.transports :
          /\ PlaceOk(d.transports[i], s.transports[i], d.contextId)
          /\ i > d.tranportIndex => d.transports[i] = Absent
    /\ HasTransport(d) => Current(d) # Absent

(* The state of the connection is what was asked for; contexts begin with  *)
(* a start.                                                                *)
Standing(d) ==
    /\ d.state = StateOf(d.promise.asked)
    /\ d.state = "created" => d.contextId = 0

Fits(d, s) == Shape(d, s) /\ Standing(d)

(* The transport at place i becomes u. *)
LEMMA PutOk ==
    ASSUME NEW s \in ScenarioRecords, NEW d, Shape(d, s),
           NEW i \in DOMAIN d.transports, d.transports[i] # Absent,
           NEW u, Ok(u, s.transports[i], d.contextId),
           NEW e, e = [d EXCEPT !.transports[i] = u]
    PROVE  /\ Shape(e, s) /\ e.transports[i] = u
           /\ \A j \in DOMAIN d.transports : j # i => e.transports[j] = d.transports[j]
           /\ DOMAIN e.transports = DOMAIN d.transports
           /\ e.state = d.state /\ e.tranportIndex = d.tranportIndex
           /\ e.authToken = d.authToken /\ e.contextId = d.contextId
           /\ e.promise = d.promise /\ e.rejected = d.rejected
<1> DEFINE P == {Absent} \cup Ws!Transports \cup Core!Transports \cup Signalr!Transports
           ts == [d.transports EXCEPT ![i] = u]
<1>1. d \in Connections /\ d.transports \in Seq(P)
  BY DEF Shape, Connections
<1>2. u \in P /\ u # Absent
  BY KindOf
<1>0. e = [d EXCEPT !.transports = ts]
  OBVIOUS
<1> HIDE DEF P
<1>3. /\ ts \in Seq(P) /\ Len(ts) = Len(d.transports) /\ ts[i] = u
      /\ DOMAIN ts = DOMAIN d.transports
      /\ \A j \in DOMAIN d.transports : j # i => ts[j] = d.transports[j]
  BY <1>1, <1>2
<1> HIDE DEF ts
<1>4. e \in Connections
  BY <1>0, <1>1, <1>3 DEF Connections, P
<1>5. /\ e.transports = ts
      /\ e.state = d.state /\ e.tranportIndex = d.tranportIndex
      /\ e.authToken = d.authToken /\ e.contextId = d.contextId
      /\ e.promise = d.promise /\ e.rejected = d.rejected
  BY <1>0, <1>1 DEF Connections
<1>6. \A j \in DOMAIN ts :
        /\ PlaceOk(ts[j], s.transports[j], d.contextId)
        /\ j > d.tranportIndex => ts[j] = Absent
  BY <1>1, <1>3 DEF Shape, PlaceOk
<1>7. HasTransport(d) => d.tranportIndex \in DOMAIN d.transports
  BY <1>1 DEF HasTransport, Connections
<1>8. HasTransport(e) => Current(e) # Absent
  BY <1>2, <1>3, <1>5, <1>7 DEF HasTransport, Current, Shape
<1>9. Shape(e, s)
  BY <1>3, <1>4, <1>5, <1>6, <1>8 DEF Shape
<1> QED
  BY <1>3, <1>5, <1>9

(* What the connection keeps of a step that only concerns its promise, its *)
(* query or its state.                                                     *)
LEMMA ShapeSame ==
    ASSUME NEW s \in ScenarioRecords, NEW d, Shape(d, s), NEW e \in Connections,
           e.transports = d.transports, e.tranportIndex = d.tranportIndex,
           e.contextId \in d.contextId..MaxContexts
    PROVE  Shape(e, s)
<1>1. d \in Connections /\ d.contextId \in Nat /\ e.contextId \in Nat
      /\ d.contextId <= e.contextId /\ e.contextId <= MaxContexts
  BY BoundsAssumption DEF Shape, Connections
<1>2. \A i \in DOMAIN d.transports :
         PlaceOk(d.transports[i], s.transports[i], e.contextId)
  BY <1>1, OkGrows DEF Shape, PlaceOk
<1> QED
  BY <1>1, <1>2 DEF Shape, HasTransport, Current

(* The current transport, if there is one, stands in its place.            *)
LEMMA CurrentOk ==
    ASSUME NEW s \in ScenarioRecords, NEW d, Shape(d, s), HasTransport(d)
    PROVE  /\ d.tranportIndex \in DOMAIN d.transports
           /\ d.tranportIndex \in DOMAIN s.transports
           /\ Current(d) # Absent
           /\ Ok(Current(d), s.transports[d.tranportIndex], d.contextId)
<1>1. d \in Connections /\ Len(d.transports) = Len(s.transports)
  BY DEF Shape
<1>2. d.tranportIndex \in Nat \ {0} /\ Len(d.transports) \in Nat
      /\ DOMAIN d.transports = 1..Len(d.transports)
      /\ DOMAIN s.transports = 1..Len(d.transports)
  BY <1>1 DEF Connections, ScenarioRecords
<1>3. d.tranportIndex \in DOMAIN d.transports
  BY <1>2 DEF HasTransport
<1> QED
  BY <1>2, <1>3 DEF Shape, PlaceOk, Current

(* updateQuery of the connection concerns the current transport and the    *)
(* query only.                                                             *)
LEMMA AskQueryOk ==
    ASSUME NEW s \in ScenarioRecords, NEW d, Shape(d, s), NEW token \in Nat,
           NEW context \in d.contextId..MaxContexts, NEW forceAuth \in BOOLEAN,
           NEW e, e = AskQuery(d, token, context, forceAuth)
    PROVE  /\ Shape(e, s)
           /\ e.state = d.state /\ e.tranportIndex = d.tranportIndex
           /\ e.authToken = token /\ e.contextId = context
           /\ e.promise = d.promise /\ e.rejected = d.rejected
           /\ DOMAIN e.transports = DOMAIN d.transports
           /\ \A j \in DOMAIN d.transports :
                 j # d.tranportIndex => e.transports[j] = d.transports[j]
           /\ HasTransport(e) <=> HasTransport(d)
           /\ HasTransport(d) =>
                 Current(e) = UpdateQuery(Current(d), token, context, forceAuth).t
           /\ ~HasTransport(d) => e.transports = d.transports
<1> DEFINE b == [d EXCEPT !.authToken = token, !.contextId = context]
           i == d.tranportIndex
           u == UpdateQuery(Current(d), token, context, forceAuth).t
<1>1. /\ d \in Connections /\ context \in Nat /\ d.contextId \in Nat
      /\ d.contextId <= context /\ context <= MaxContexts
  BY BoundsAssumption DEF Shape, Connections
<1>2. /\ b \in Connections
      /\ b.state = d.state /\ b.tranportIndex = i
      /\ b.authToken = token /\ b.contextId = context
      /\ b.promise = d.promise /\ b.rejected = d.rejected
      /\ b.transports = d.transports
  BY <1>1 DEF Connections
<1> HIDE DEF b
<1>3. Shape(b, s)
  BY <1>1, <1>2, ShapeSame
<1>4. HasTransport(b) <=> HasTransport(d)
  BY <1>2 DEF HasTransport
<1>5. e = IF HasTransport(d) THEN [b EXCEPT !.transports[i] = u] ELSE b
  BY <1>2 DEF AskQuery, b, Current
<1>6. CASE HasTransport(d)
  <2>1. /\ i \in DOMAIN b.transports /\ i \in DOMAIN s.transports
        /\ b.transports[i] # Absent
        /\ Ok(Current(d), s.transports[i], context)
    BY <1>2, <1>3, <1>4, <1>6, CurrentOk DEF Current
  <2>2. StepOk(UpdateQuery(Current(d), token, context, forceAuth), s.transports[i], context)
    <3>1. context \in 0..context
      BY <1>1
    <3> QED
      BY <1>1, <2>1, <3>1, UpdateQueryOk
  <2>3. Ok(u, s.transports[i], b.contextId)
    BY <1>2, <2>2 DEF StepOk
  <2> HIDE DEF u
  <2>4. e = [b EXCEPT !.transports[i] = u]
    BY <1>5, <1>6
  <2>5. /\ Shape(e, s) /\ e.transports[i] = u
        /\ \A j \in DOMAIN b.transports : j # i => e.transports[j] = b.transports[j]
        /\ DOMAIN e.transports = DOMAIN b.transports
        /\ e.state = b.state /\ e.tranportIndex = b.tranportIndex
        /\ e.authToken = b.authToken /\ e.contextId = b.contextId
        /\ e.promise = b.promise /\ e.rejected = b.rejected
    BY <1>3, <2>1, <2>3, <2>4, PutOk
  <2>6. Len(e.transports) = Len(b.transports)
    BY <1>3, <2>5 DEF Shape
  <2>7. HasTransport(e) /\ Current(e) = u
    BY <1>2, <1>6, <2>5, <2>6 DEF HasTransport, Current
  <2> QED
    BY <1>2, <1>6, <2>5, <2>7 DEF u
<1>7. CASE ~HasTransport(d)
  BY <1>2, <1>3, <1>4, <1>5, <1>7
<1> QED
  BY <1>6, <1>7

(* The same, when no authorisation is asked for. *)
Asked(d, token, context) == AskQuery(d, token, context, FALSE)
Queried(t, token, context) == UpdateQuery(t, token, context, FALSE).t

(* What Asked changes.                                                     *)
LEMMA AskOk ==
    ASSUME NEW s \in ScenarioRecords, NEW d, Shape(d, s), NEW token \in Nat,
           NEW context \in d.contextId..MaxContexts,
           NEW e, e = Asked(d, token, context)
    PROVE  /\ Shape(e, s)
           /\ e.state = d.state /\ e.tranportIndex = d.tranportIndex
           /\ e.authToken = token /\ e.contextId = context
           /\ e.promise = d.promise /\ e.rejected = d.rejected
           /\ DOMAIN e.transports = DOMAIN d.transports
           /\ \A j \in DOMAIN d.transports :
                 j # d.tranportIndex => e.transports[j] = d.transports[j]
           /\ HasTransport(e) <=> HasTransport(d)
           /\ HasTransport(d) => Current(e) = Queried(Current(d), token, context)
           /\ ~HasTransport(d) => e.transports = d.transports
<1>1. PICK no : no = FALSE
  OBVIOUS
<1>2. e = AskQuery(d, token, context, no)
  BY <1>1, Zenon DEF Asked
<1>3. no \in BOOLEAN
  BY <1>1
<1>4. UpdateQuery(Current(d), token, context, no).t = Queried(Current(d), token, context)
  BY <1>1, Zenon DEF Queried
<1> QED
  BY <1>2, <1>3, <1>4, AskQueryOk

(* A report leaves what was asked for, but for down.                       *)
LEMMA TellType ==
    ASSUME NEW k \in Contract!Promises, NEW state \in Contract!States
    PROVE  /\ Contract!Tell(k, state) \in Contract!Promises
           /\ StateOf(Contract!Tell(k, state).asked) = StateOf(k.asked)
           /\ Contract!Tell(k, state).told = state
           /\ Contract!Tell(k, state).late = k.late
BY DEF Contract!Promises, Contract!Tell, Contract!States, Contract!Asked, StateOf

(* The connection with another promise. *)
LEMMA PromiseOk ==
    ASSUME NEW s \in ScenarioRecords, NEW d, Shape(d, s), NEW k \in Contract!Promises,
           NEW e, e = [d EXCEPT !.promise = k]
    PROVE  /\ Shape(e, s) /\ e.promise = k /\ e.transports = d.transports
           /\ e.state = d.state /\ e.tranportIndex = d.tranportIndex
           /\ e.authToken = d.authToken /\ e.contextId = d.contextId
           /\ e.rejected = d.rejected
<1>1. d \in Connections /\ d.contextId \in Nat /\ d.contextId <= MaxContexts
  BY DEF Shape, Connections
<1>2. /\ e \in Connections /\ e.promise = k /\ e.transports = d.transports
      /\ e.state = d.state /\ e.tranportIndex = d.tranportIndex
      /\ e.authToken = d.authToken /\ e.contextId = d.contextId
      /\ e.rejected = d.rejected
  BY <1>1 DEF Connections
<1>3. e.contextId \in d.contextId..MaxContexts
  BY <1>1, <1>2, BoundsAssumption
<1>4. Shape(e, s)
  BY <1>2, <1>3, ShapeSame
<1> QED
  BY <1>2, <1>4

(* Overtake only concerns the promise.                                     *)
LEMMA OvertakeOk ==
    ASSUME NEW s \in ScenarioRecords, NEW d, Shape(d, s), NEW condition,
           NEW e, e = Overtake(d, condition)
    PROVE  /\ Shape(e, s) /\ e.transports = d.transports
           /\ e.promise = IF condition THEN [d.promise EXCEPT !.late = TRUE]
                          ELSE d.promise
           /\ e.state = d.state /\ e.tranportIndex = d.tranportIndex
           /\ e.authToken = d.authToken /\ e.contextId = d.contextId
           /\ e.rejected = d.rejected
           /\ Standing(d) => Standing(e)
<1> DEFINE k == [d.promise EXCEPT !.late = TRUE]
<1>1. d \in Connections /\ d.promise \in Contract!Promises
  BY DEF Shape, Connections
<1>2. k \in Contract!Promises /\ k.asked = d.promise.asked
  BY <1>1 DEF Contract!Promises
<1>3. e = IF condition THEN [d EXCEPT !.promise = k] ELSE d
  BY DEF Overtake
<1> HIDE DEF k
<1>4. CASE condition
  <2>1. e = [d EXCEPT !.promise = k]
    BY <1>3, <1>4
  <2>2. /\ Shape(e, s) /\ e.promise = k /\ e.transports = d.transports
        /\ e.state = d.state /\ e.tranportIndex = d.tranportIndex
        /\ e.authToken = d.authToken /\ e.contextId = d.contextId
        /\ e.rejected = d.rejected
    BY <1>2, <2>1, PromiseOk
  <2> QED
    BY <1>2, <1>4, <2>2 DEF Standing, k
<1>5. CASE ~condition
  BY <1>3, <1>5
<1> QED
  BY <1>4, <1>5

(* Of a connection that hears nothing any more, nothing is reported; else  *)
(* the promise is told, and the current transport may get its query.       *)
LEMMA ReportOk ==
    ASSUME NEW s \in ScenarioRecords, NEW d, Shape(d, s), NEW i,
           NEW state \in Contract!States, NEW e, e = Report(d, i, state)
    PROVE  /\ Shape(e, s) /\ (Standing(d) => Standing(e))
           /\ e.state = d.state /\ e.tranportIndex = d.tranportIndex
           /\ e.authToken = d.authToken /\ e.contextId = d.contextId
           /\ e.rejected = d.rejected
           /\ e.promise = IF Hears(d) THEN Contract!Tell(d.promise, state)
                          ELSE d.promise
           /\ DOMAIN e.transports = DOMAIN d.transports
           /\ \/ e.transports = d.transports
              \/ /\ HasTransport(d) /\ i # d.tranportIndex
                 /\ \A j \in DOMAIN d.transports :
                       j # d.tranportIndex => e.transports[j] = d.transports[j]
                 /\ Current(e) = Queried(Current(d), d.authToken, d.contextId)
<1> DEFINE k == Contract!Tell(d.promise, state)
           b == [d EXCEPT !.promise = k]
<1>1. d \in Connections /\ d.promise \in Contract!Promises
      /\ d.contextId \in d.contextId..MaxContexts /\ d.authToken \in Nat
  <2>1. d \in Connections /\ d.contextId \in Nat /\ d.contextId <= MaxContexts
    BY DEF Shape, Connections
  <2> QED
    BY <2>1, BoundsAssumption DEF Connections
<1>2. k \in Contract!Promises /\ StateOf(k.asked) = StateOf(d.promise.asked)
  BY <1>1, TellType
<1>3. \/ e = d /\ ~Hears(d)
      \/ e = b /\ Hears(d)
      \/ e = Asked(b, d.authToken, d.contextId) /\ Hears(d) /\ i # d.tranportIndex
  BY DEF Report, Asked
<1> HIDE DEF k
<1>4. b = [d EXCEPT !.promise = k]
  OBVIOUS
<1> HIDE DEF b
<1>5. /\ Shape(b, s) /\ b.promise = k /\ b.transports = d.transports
      /\ b.state = d.state /\ b.tranportIndex = d.tranportIndex
      /\ b.authToken = d.authToken /\ b.contextId = d.contextId
      /\ b.rejected = d.rejected
  BY <1>2, <1>4, PromiseOk
<1>6. CASE e = d /\ ~Hears(d)
  BY <1>6
<1>7. CASE e = b /\ Hears(d)
  BY <1>2, <1>5, <1>7 DEF Standing, k
<1>8. CASE e = Asked(b, d.authToken, d.contextId) /\ Hears(d) /\ i # d.tranportIndex
  <2>0. /\ d.contextId \in b.contextId..MaxContexts
        /\ e = Asked(b, d.authToken, d.contextId)
        /\ Shape(b, s) /\ d.authToken \in Nat
    BY <1>1, <1>5, <1>8
  <2>1. /\ Shape(e, s)
        /\ e.state = b.state /\ e.tranportIndex = b.tranportIndex
        /\ e.authToken = d.authToken /\ e.contextId = d.contextId
        /\ e.promise = b.promise /\ e.rejected = b.rejected
        /\ DOMAIN e.transports = DOMAIN b.transports
        /\ \A j \in DOMAIN b.transports :
              j # b.tranportIndex => e.transports[j] = b.transports[j]
        /\ HasTransport(b) =>
              Current(e) = Queried(Current(b), d.authToken, d.contextId)
        /\ ~HasTransport(b) => e.transports = b.transports
    BY <2>0, AskOk
  <2>2. Current(b) = Current(d) /\ (HasTransport(b) <=> HasTransport(d))
    BY <1>5 DEF Current, HasTransport
  <2>3. Standing(d) => Standing(e)
    BY <1>2, <1>5, <2>1 DEF Standing
  <2> QED
    BY <1>5, <1>8, <2>1, <2>2, <2>3 DEF k
<1> QED
  BY <1>3, <1>6, <1>7, <1>8

(* FirstOf is one of the candidates, or the end of the list.               *)
LEMMA FirstOfIs ==
    ASSUME NEW s \in ScenarioRecords, NEW K, K \subseteq DOMAIN s.transports
    PROVE  FirstOf(s, K) \in K \cup {Len(s.transports) + 1}
<1> DEFINE T == K \cup {Len(s.transports) + 1}
<1>1. Len(s.transports) \in Nat /\ DOMAIN s.transports = 1..Len(s.transports)
  BY DEF ScenarioRecords
<1>2. T \in SUBSET Nat /\ T # {}
  BY <1>1
<1>3. PICK x \in T : \A y \in T : ~ (y < x)
  BY <1>2, LeastNatural
<1>4. x \in T /\ \A y \in T : x <= y
  BY <1>2, <1>3
<1>5. FirstOf(s, K) = CHOOSE m \in T : \A y \in T : m <= y
  BY DEF FirstOf, Min
<1> HIDE DEF T
<1> QED
  BY <1>4, <1>5 DEF T

(* The next transport of the list is made, or its end is reached. *)
LEMMA CreatedOk ==
    ASSUME NEW s \in ScenarioRecords, NEW d \in Connections,
           Len(d.transports) = Len(s.transports), d.contextId <= MaxContexts,
           NEW i \in 1..(Len(s.transports) + 1),
           \A j \in DOMAIN d.transports :
              /\ PlaceOk(d.transports[j], s.transports[j], d.contextId)
              /\ j >= i => d.transports[j] = Absent,
           NEW e, e = Created(d, s, i)
    PROVE  /\ Shape(e, s) /\ e.tranportIndex = i
           /\ e.state = d.state /\ e.authToken = d.authToken
           /\ e.contextId = d.contextId
           /\ e.promise = d.promise /\ e.rejected = d.rejected
           /\ DOMAIN e.transports = DOMAIN d.transports
           /\ \A j \in DOMAIN d.transports :
                 j # i => e.transports[j] = d.transports[j]
           /\ i > Len(s.transports) => ~HasTransport(e)
           /\ i <= Len(s.transports) =>
                 /\ HasTransport(e) /\ s.transports[i] \in Kinds
                 /\ Current(e) = NewTransport(s, s.transports[i])
<1> DEFINE P == {Absent} \cup Ws!Transports \cup Core!Transports \cup Signalr!Transports
           N == Len(s.transports)
           new == NewTransport(s, s.transports[i])
           ts == IF i > N THEN d.transports ELSE [d.transports EXCEPT ![i] = new]
<1>1. N \in Nat /\ DOMAIN d.transports = 1..N /\ DOMAIN s.transports = 1..N
      /\ d.transports \in Seq(P) /\ i \in Nat \ {0} /\ d.contextId \in Nat
  <2>1. s.transports \in Seq(Kinds) /\ d.transports \in Seq(P) /\ d.contextId \in Nat
    BY DEF ScenarioRecords, Connections
  <2> QED
    BY <2>1
<1>2. i <= N => s.transports[i] \in Kinds
  BY <1>1 DEF ScenarioRecords
<1>3. i <= N => /\ Ok(new, s.transports[i], d.contextId)
                /\ new \in P /\ new # Absent
  BY <1>1, <1>2, NewOk, KindOf
<1>4. e = [d EXCEPT !.tranportIndex = i, !.transports = ts]
  BY DEF Created, Connections
<1> HIDE DEF P, new
<1>5. /\ ts \in Seq(P) /\ Len(ts) = N /\ DOMAIN ts = 1..N
      /\ \A j \in 1..N : j # i => ts[j] = d.transports[j]
      /\ i <= N => ts[i] = new
  BY <1>1, <1>3
<1> HIDE DEF ts
<1>6. /\ e.tranportIndex = i /\ e.transports = ts
      /\ e.state = d.state /\ e.authToken = d.authToken
      /\ e.contextId = d.contextId
      /\ e.promise = d.promise /\ e.rejected = d.rejected
      /\ e \in Connections
  BY <1>1, <1>4, <1>5 DEF Connections, P
<1>7. \A j \in 1..N : /\ PlaceOk(ts[j], s.transports[j], d.contextId)
                      /\ j > i => ts[j] = Absent
  BY <1>1, <1>3, <1>5 DEF PlaceOk
<1>8. i <= N => Current(e) = new /\ HasTransport(e)
  BY <1>5, <1>6 DEF Current, HasTransport
<1>9. i > N => ~HasTransport(e)
  BY <1>1, <1>5, <1>6 DEF HasTransport
<1>10. Shape(e, s)
  BY <1>1, <1>3, <1>5, <1>6, <1>7, <1>8, <1>9 DEF Shape
<1> QED
  BY <1>1, <1>2, <1>5, <1>6, <1>8, <1>9, <1>10 DEF new

(* A connection that was just made. *)
IsNew(d, s) ==
    /\ d.state = "created" /\ d.contextId = 0
    /\ \A j \in DOMAIN d.transports : j # d.tranportIndex => d.transports[j] = Absent
    /\ d.promise = IF HasTransport(d) THEN Contract!NewPromise
                   ELSE Contract!Tell(Contract!NewPromise, "exhausted")
    /\ HasTransport(d) =>
          /\ s.transports[d.tranportIndex] \in Kinds
          /\ Current(d) = NewTransport(s, s.transports[d.tranportIndex])

(* A new connection has the shape and is new.                              *)
LEMMA NewConnectionOk ==
    ASSUME NEW s \in ScenarioRecords
    PROVE  Fits(NewConnection(s), s) /\ IsNew(NewConnection(s), s)
<1> DEFINE P == {Absent} \cup Ws!Transports \cup Core!Transports \cup Signalr!Transports
           N == Len(s.transports)
           first == FirstOf(s, Candidates(s, 0))
           ts == [i \in DOMAIN s.transports |-> Absent]
           d == [state |-> "created", tranportIndex |-> 1, transports |-> ts,
                 authToken |-> 1, contextId |-> 0,
                 promise |-> Contract!NewPromise, rejected |-> FALSE]
           e == Created(d, s, first)
           k == IF first > N THEN Contract!Tell(e.promise, "exhausted")
                ELSE e.promise
<1>1. N \in Nat /\ DOMAIN s.transports = 1..N
  BY DEF ScenarioRecords
<1>2. first \in 1..(N + 1)
  BY <1>1, FirstOfIs DEF Candidates
<1>3. ts \in Seq(P) /\ Len(ts) = N /\ DOMAIN ts = 1..N
      /\ \A j \in 1..N : ts[j] = Absent
  <2>1. ts \in [1..N -> P] /\ DOMAIN ts = 1..N
    BY <1>1
  <2>2. ts \in Seq(P)
    BY <1>1, <2>1, FunctionIsSeq
  <2>3. Len(ts) = N
    BY <1>1, <2>1, <2>2
  <2> QED
    BY <1>1, <2>1, <2>2, <2>3
<1>4. Contract!NewPromise \in Contract!Promises /\ Contract!NewPromise.asked = "created"
  BY DEF Contract!NewPromise, Contract!Promises, Contract!Asked, Contract!States
<1> HIDE DEF P, ts
<1>5. /\ d \in Connections /\ d.contextId = 0 /\ d.transports = ts
      /\ d.state = "created" /\ d.promise = Contract!NewPromise
  BY <1>3, <1>4 DEF Connections, P
<1> HIDE DEF d, first
<1>6. \A j \in DOMAIN d.transports :
         /\ PlaceOk(d.transports[j], s.transports[j], d.contextId)
         /\ j >= first => d.transports[j] = Absent
  BY <1>3, <1>5 DEF PlaceOk
<1>7. d.contextId <= MaxContexts /\ Len(d.transports) = Len(s.transports)
  BY <1>3, <1>5, BoundsAssumption
<1>8. /\ Shape(e, s) /\ e.state = d.state /\ e.contextId = d.contextId
      /\ e.promise = d.promise /\ e.tranportIndex = first
      /\ \A j \in DOMAIN d.transports : j # first => e.transports[j] = d.transports[j]
      /\ DOMAIN e.transports = DOMAIN d.transports
      /\ first > N => ~HasTransport(e)
      /\ first <= N => /\ HasTransport(e) /\ s.transports[first] \in Kinds
                       /\ Current(e) = NewTransport(s, s.transports[first])
  BY <1>2, <1>5, <1>6, <1>7, CreatedOk
<1>9. k \in Contract!Promises /\ StateOf(k.asked) = "created"
  <2>1. "exhausted" \in Contract!States
    BY DEF Contract!States
  <2>2. StateOf("created") = "created"
    BY DEF StateOf
  <2> QED
    BY <1>4, <1>5, <1>8, <2>1, <2>2, TellType
<1>10. NewConnection(s) = [e EXCEPT !.promise = k]
  <2>1. NewConnection(s) = [e EXCEPT !.promise = IF first > Len(s.transports)
                                      THEN Contract!Tell(@, "exhausted") ELSE @]
    BY DEF NewConnection, d, ts, first
  <2> QED
    BY <2>1
<1> HIDE DEF e, k
<1>11. /\ Shape(NewConnection(s), s) /\ NewConnection(s).promise = k
       /\ NewConnection(s).state = e.state
       /\ NewConnection(s).contextId = e.contextId
       /\ NewConnection(s).transports = e.transports
       /\ NewConnection(s).tranportIndex = e.tranportIndex
  BY <1>8, <1>9, <1>10, PromiseOk
<1>12. k = IF HasTransport(e) THEN Contract!NewPromise
           ELSE Contract!Tell(Contract!NewPromise, "exhausted")
  BY <1>1, <1>2, <1>5, <1>8 DEF k
<1>13. IsNew(NewConnection(s), s)
  <2>1. /\ HasTransport(NewConnection(s)) <=> HasTransport(e)
        /\ Current(NewConnection(s)) = Current(e)
    BY <1>11 DEF HasTransport, Current
  <2>2. HasTransport(e) => /\ s.transports[first] \in Kinds
                           /\ Current(e) = NewTransport(s, s.transports[first])
    BY <1>1, <1>2, <1>8
  <2>3. DOMAIN e.transports = 1..N
    BY <1>3, <1>5, <1>8
  <2> QED
    BY <1>3, <1>5, <1>8, <1>11, <1>12, <2>1, <2>2, <2>3 DEF IsNew
<1> QED
  BY <1>5, <1>8, <1>9, <1>11, <1>13 DEF Fits, Standing

(* What a new transport reports when it is started. *)
LEMMA FirstReportOk ==
    ASSUME NEW s \in ScenarioRecords, NEW d, Shape(d, s), HasTransport(d),
           NEW out \in Seq(Outs), NEW e, e = FirstReport(d, d.tranportIndex, out)
    PROVE  /\ Shape(e, s) /\ (Standing(d) => Standing(e))
           /\ e.state = d.state /\ e.tranportIndex = d.tranportIndex
           /\ e.authToken = d.authToken /\ e.contextId = d.contextId
           /\ e.rejected = d.rejected /\ e.transports = d.transports
           /\ e.promise = IF Hears(d) /\ out # <<>> /\ out[1] \in Contract!States
                          THEN Contract!Tell(d.promise, out[1]) ELSE d.promise
<1>1. CASE out # <<>> /\ out[1] \in Contract!States
  <2>1. e = Report(d, d.tranportIndex, out[1])
    BY <1>1 DEF FirstReport
  <2> QED
    BY <1>1, <2>1, ReportOk
<1>2. CASE ~(out # <<>> /\ out[1] \in Contract!States)
  BY <1>2 DEF FirstReport
<1> QED
  BY <1>1, <1>2

(* The promise, overtaken or not.                                          *)
Cut(k, condition) == IF condition THEN [k EXCEPT !.late = TRUE] ELSE k

(* The transport t that is next when one fails is there, not started, or   *)
(* started and asked for what the connection asks for.                     *)
Replaces(e, d, s, k) ==
    LET kind == s.transports[e.tranportIndex]
        new == NewTransport(s, kind)
        step == Start(Queried(new, d.authToken, d.contextId))
    IN  /\ HasTransport(e) /\ kind \in Kinds
        /\ \/ d.state # "started" /\ Current(e) = new /\ e.promise = k
           \/ /\ d.state = "started" /\ Current(e) = step.t
              /\ kind = Core!Kind => kind \in s.working
              /\ e.promise = IF step.out # <<>> /\ step.out[1] \in Contract!States
                             THEN Contract!Tell(k, step.out[1]) ELSE k

(* When a transport fails, the next of the list takes its place, or there  *)
(* is none.                                                                *)
LEMMA FailOk ==
    ASSUME NEW s \in ScenarioRecords, NEW d, Shape(d, s), NEW from,
           NEW e, e = onTransportFail(d, s, from)
    PROVE  /\ Shape(e, s) /\ (Standing(d) => Standing(e))
           /\ e.state = d.state /\ e.authToken = d.authToken
           /\ e.contextId = d.contextId /\ e.rejected = d.rejected
           /\ DOMAIN e.transports = DOMAIN d.transports
           /\ \A j \in DOMAIN d.transports :
                 j # e.tranportIndex => e.transports[j] = d.transports[j]
           /\ HasTransport(d) => e.tranportIndex > d.tranportIndex
           /\ ~HasTransport(d) => e.tranportIndex = d.tranportIndex
           /\ \/ /\ ~HasTransport(e)
                 /\ e.promise = Contract!Tell(Cut(d.promise, Lingers(from)), "exhausted")
              \/ Replaces(e, d, s, Cut(d.promise, Lingers(from)))
<1> DEFINE N == Len(s.transports)
           b == Overtake(d, Lingers(from))
           k == Cut(d.promise, Lingers(from))
           usable == {i \in Candidates(s, d.tranportIndex) :
                         ~(d.state = "started" /\ StartThrows(s, i))}
           next == FirstOf(s, usable)
           m == Created(b, s, next)
           q == Asked(m, d.authToken, d.contextId)
           step == Start(Current(q))
           r == [q EXCEPT !.transports[next] = step.t]
           x == [m EXCEPT !.promise = Contract!Tell(m.promise, "exhausted")]
<1>1. /\ N \in Nat /\ DOMAIN s.transports = 1..N /\ DOMAIN d.transports = 1..N
      /\ d \in Connections /\ d.tranportIndex \in 1..(N + 1)
      /\ d.contextId \in Nat /\ d.contextId <= MaxContexts /\ d.authToken \in Nat
      /\ Len(d.transports) = N
  <2>1. s.transports \in Seq(Kinds)
    BY DEF ScenarioRecords
  <2> QED
    BY <2>1 DEF Shape, Connections
<1>2. /\ next \in d.tranportIndex..(N + 1)
      /\ d.tranportIndex <= N => next > d.tranportIndex
      /\ next <= N => ~(d.state = "started" /\ StartThrows(s, next))
  <2>1. usable \subseteq DOMAIN s.transports
    BY DEF Candidates
  <2>2. next \in usable \cup {N + 1}
    BY <2>1, FirstOfIs
  <2>3. \A i \in usable : i \in 1..N /\ i > d.tranportIndex
                          /\ ~(d.state = "started" /\ StartThrows(s, i))
    BY <1>1 DEF Candidates
  <2> HIDE DEF usable, next
  <2> QED
    BY <1>1, <2>2, <2>3
<1>3. /\ Shape(b, s) /\ b.transports = d.transports /\ b.promise = k
      /\ b.state = d.state /\ b.tranportIndex = d.tranportIndex
      /\ b.authToken = d.authToken /\ b.contextId = d.contextId
      /\ b.rejected = d.rejected /\ (Standing(d) => Standing(b))
  BY OvertakeOk DEF Cut
<1>4. e = IF ~HasTransport(m) THEN x
          ELSE IF d.state # "started" THEN m
          ELSE FirstReport(r, next, step.out)
  BY DEF onTransportFail, Asked
<1> HIDE DEF b, k, next
<1>5. /\ Shape(m, s) /\ m.tranportIndex = next
      /\ m.state = b.state /\ m.authToken = b.authToken
      /\ m.contextId = b.contextId
      /\ m.promise = b.promise /\ m.rejected = b.rejected
      /\ DOMAIN m.transports = DOMAIN b.transports
      /\ \A j \in DOMAIN b.transports :
            j # next => m.transports[j] = b.transports[j]
      /\ next > N => ~HasTransport(m)
      /\ next <= N => /\ HasTransport(m) /\ s.transports[next] \in Kinds
                      /\ Current(m) = NewTransport(s, s.transports[next])
  <2>1. \A j \in DOMAIN b.transports :
              /\ PlaceOk(b.transports[j], s.transports[j], b.contextId)
              /\ j >= next => b.transports[j] = Absent
    BY <1>1, <1>2, <1>3 DEF Shape
  <2>2. next \in 1..(N + 1) /\ b \in Connections
        /\ Len(b.transports) = Len(s.transports) /\ b.contextId <= MaxContexts
    BY <1>1, <1>2, <1>3 DEF Shape
  <2> QED
    BY <2>1, <2>2, CreatedOk
<1>6. Standing(d) => Standing(m)
  BY <1>3, <1>5 DEF Standing
<1>7. /\ HasTransport(d) => next > d.tranportIndex
      /\ ~HasTransport(d) => next = d.tranportIndex
  BY <1>1, <1>2 DEF HasTransport
<1> HIDE DEF m
<1>8. CASE ~HasTransport(m)
  <2>1. "exhausted" \in Contract!States
    BY DEF Contract!States
  <2>2. e = [m EXCEPT !.promise = Contract!Tell(m.promise, "exhausted")]
    BY <1>4, <1>8
  <2>3. m.promise \in Contract!Promises
    BY <1>5 DEF Shape, Connections
  <2>4. Contract!Tell(m.promise, "exhausted") \in Contract!Promises
        /\ StateOf(Contract!Tell(m.promise, "exhausted").asked) = StateOf(m.promise.asked)
    BY <2>1, <2>3, TellType
  <2>5. /\ Shape(e, s) /\ e.promise = Contract!Tell(m.promise, "exhausted")
        /\ e.transports = m.transports
        /\ e.state = m.state /\ e.tranportIndex = m.tranportIndex
        /\ e.authToken = m.authToken /\ e.contextId = m.contextId
        /\ e.rejected = m.rejected
    BY <1>5, <2>2, <2>4, PromiseOk
  <2>6. ~HasTransport(e)
    BY <1>8, <2>5 DEF HasTransport
  <2>7. Standing(d) => Standing(e)
    BY <1>6, <2>4, <2>5 DEF Standing
  <2> QED
    BY <1>3, <1>5, <1>7, <2>5, <2>6, <2>7 DEF k
<1>9. CASE HasTransport(m) /\ d.state # "started"
  <2>1. e = m
    BY <1>4, <1>9
  <2>2. next <= N
    BY <1>1, <1>2, <1>5, <1>9
  <2>3. Replaces(e, d, s, k)
    BY <1>3, <1>5, <1>9, <2>1, <2>2 DEF Replaces
  <2> QED
    BY <1>3, <1>5, <1>6, <1>7, <2>1, <2>3 DEF k
<1>10. CASE HasTransport(m) /\ d.state = "started"
  <2>1. next <= N
    BY <1>1, <1>2, <1>5, <1>10
  <2>2. /\ Shape(q, s)
        /\ q.state = m.state /\ q.tranportIndex = m.tranportIndex
        /\ q.authToken = d.authToken /\ q.contextId = d.contextId
        /\ q.promise = m.promise /\ q.rejected = m.rejected
        /\ DOMAIN q.transports = DOMAIN m.transports
        /\ \A j \in DOMAIN m.transports :
              j # m.tranportIndex => q.transports[j] = m.transports[j]
        /\ HasTransport(q)
        /\ Current(q) = Queried(Current(m), d.authToken, d.contextId)
    <3>1. d.contextId \in m.contextId..MaxContexts
      BY <1>1, <1>3, <1>5
    <3> QED
      BY <1>1, <1>5, <1>10, <3>1, AskOk
  <2> HIDE DEF q
  <2>3. /\ next \in DOMAIN q.transports /\ q.transports[next] # Absent
        /\ Ok(Current(q), s.transports[next], q.contextId)
    BY <1>5, <2>2, CurrentOk DEF Current
  <2>4. StepOk(step, s.transports[next], q.contextId)
    <3>1. q.contextId \in Nat
      BY <1>1, <2>2
    <3> QED
      BY <2>3, <3>1, StartOk
  <2> DEFINE t == step.t
             out == step.out
  <2>5. Ok(t, s.transports[next], q.contextId) /\ out \in Seq(Outs)
    BY <2>4 DEF StepOk
  <2>6. r = [q EXCEPT !.transports[next] = t]
    OBVIOUS
  <2>7. e = FirstReport(r, next, out)
    BY <1>4, <1>10
  <2>8. t = step.t /\ out = step.out /\ step = Start(Queried(Current(m), d.authToken, d.contextId))
    BY <2>2
  <2> HIDE DEF step, t, out, r
  <2>9. /\ Shape(r, s) /\ r.transports[next] = t
        /\ \A j \in DOMAIN q.transports : j # next => r.transports[j] = q.transports[j]
        /\ DOMAIN r.transports = DOMAIN q.transports
        /\ r.state = q.state /\ r.tranportIndex = q.tranportIndex
        /\ r.authToken = q.authToken /\ r.contextId = q.contextId
        /\ r.promise = q.promise /\ r.rejected = q.rejected
    <3>1. Shape(q, s)
      BY <2>2
    <3> QED
      BY <2>3, <2>5, <2>6, <3>1, PutOk
  <2>10. HasTransport(r) /\ Current(r) = t
    <3>1. Len(r.transports) = N
      BY <2>9 DEF Shape
    <3> QED
      BY <1>5, <2>1, <2>2, <2>9, <3>1 DEF HasTransport, Current
  <2>11. /\ Shape(e, s) /\ (Standing(r) => Standing(e))
         /\ e.state = r.state /\ e.tranportIndex = r.tranportIndex
         /\ e.authToken = r.authToken /\ e.contextId = r.contextId
         /\ e.rejected = r.rejected /\ e.transports = r.transports
         /\ e.promise = IF Hears(r) /\ out # <<>> /\ out[1] \in Contract!States
                        THEN Contract!Tell(r.promise, out[1]) ELSE r.promise
    <3>1. e = FirstReport(r, r.tranportIndex, out)
      BY <1>5, <2>2, <2>7, <2>9
    <3> QED
      BY <2>5, <2>9, <2>10, <3>1, FirstReportOk
  <2>12. Hears(r)
    BY <1>3, <1>5, <1>10, <2>2, <2>9 DEF Hears
  <2>13. Standing(d) => Standing(e)
    <3>1. r.state = m.state /\ r.promise = m.promise /\ r.contextId = m.contextId
      BY <1>3, <1>5, <2>2, <2>9
    <3>2. Standing(m) => Standing(r)
      BY <3>1 DEF Standing
    <3> QED
      BY <1>6, <2>11, <3>2
  <2>14. HasTransport(e) /\ Current(e) = t
    BY <2>10, <2>11 DEF HasTransport, Current
  <2>15. s.transports[next] = Core!Kind => s.transports[next] \in s.working
    BY <1>2, <1>10, <2>1 DEF StartThrows
  <2>16. Replaces(e, d, s, k)
    <3>1. e.tranportIndex = next /\ s.transports[next] \in Kinds
          /\ step = Start(Queried(NewTransport(s, s.transports[next]), d.authToken, d.contextId))
      BY <1>5, <2>1, <2>2, <2>8, <2>9, <2>11
    <3>2. e.promise = IF step.out # <<>> /\ step.out[1] \in Contract!States
                      THEN Contract!Tell(k, step.out[1]) ELSE k
      BY <1>3, <1>5, <2>2, <2>8, <2>9, <2>11, <2>12
    <3> QED
      BY <1>10, <2>8, <2>14, <2>15, <3>1, <3>2 DEF Replaces
  <2> QED
    BY <1>3, <1>5, <1>7, <2>2, <2>9, <2>11, <2>13, <2>16 DEF k
<1> QED
  BY <1>8, <1>9, <1>10

-----------------------------------------------------------------------------
(* A callback of the transport at place i keeps the shape. *)
LEMMA CallbackOk ==
    ASSUME NEW s \in ScenarioRecords, NEW d, Fits(d, s), NEW i, NEW from,
           NEW what \in Outs, NEW e, e = Callback(d, s, i, from, what)
    PROVE  /\ Fits(e, s)
           /\ e.state = d.state /\ e.contextId = d.contextId
           /\ e.authToken = d.authToken
           /\ DOMAIN e.transports = DOMAIN d.transports
<1> DEFINE r == d.rejected \/ Hears(d)
<1>1. CASE what \in Contract!States
  <2>1. e = Report(d, i, what) /\ Shape(d, s) /\ Standing(d)
    BY <1>1 DEF Callback, Fits, Contract!States
  <2>2. /\ Shape(e, s) /\ Standing(e)
        /\ e.state = d.state /\ e.contextId = d.contextId
        /\ e.authToken = d.authToken
        /\ DOMAIN e.transports = DOMAIN d.transports
    BY <1>1, <2>1, ReportOk
  <2> QED
    BY <2>2 DEF Fits
<1>2. CASE what = "fail"
  <2>1. "fail" \notin Contract!States
    BY DEF Contract!States
  <2> QED
    BY <1>2, <2>1, FailOk DEF Callback, Fits
<1>3. CASE what = "unauthorized"
  <2>1. what \notin Contract!States
    BY <1>3 DEF Contract!States
  <2>2. r \in BOOLEAN
    BY DEF Fits, Shape, Connections
  <2>3. e = [d EXCEPT !.rejected = r]
    BY <1>3, <2>1 DEF Callback
  <2> HIDE DEF r
  <2>4. d \in Connections /\ d.contextId \in Nat /\ d.contextId <= MaxContexts
    BY DEF Fits, Shape, Connections
  <2>5. /\ e \in Connections /\ e.transports = d.transports
        /\ e.tranportIndex = d.tranportIndex /\ e.contextId = d.contextId
        /\ e.state = d.state /\ e.promise = d.promise /\ e.authToken = d.authToken
    BY <2>2, <2>3, <2>4 DEF Connections
  <2>6. e.contextId \in d.contextId..MaxContexts
    BY <2>4, <2>5, BoundsAssumption
  <2>7. Shape(e, s)
    BY <2>5, <2>6, ShapeSame DEF Fits
  <2> QED
    BY <2>5, <2>7 DEF Fits, Standing
<1>4. CASE what \notin Contract!States \cup {"fail", "unauthorized"}
  BY <1>4 DEF Callback
<1> QED
  BY <1>1, <1>2, <1>3, <1>4

(* The callbacks of a step, one after the other: what is after k of them.  *)
IsDelivered(f, d, s, i, t, out, m) ==
    /\ f = [k \in 0..m |-> f[k]]
    /\ \A k \in 0..m : f[k] = IF k = 0 THEN [d EXCEPT !.transports[i] = t]
                              ELSE Callback(f[k - 1], s, i, t, out[k])

(* There is such a series of callbacks, however many there are.            *)
LEMMA Delivered ==
    ASSUME NEW d, NEW s, NEW i, NEW t, NEW out
    PROVE  \A m \in Nat : \E f : IsDelivered(f, d, s, i, t, out, m)
<1> DEFINE S == {m \in Nat : \E f : IsDelivered(f, d, s, i, t, out, m)}
           b == [d EXCEPT !.transports[i] = t]
<1>1. 0 \in S
  <2>1. IsDelivered([k \in 0..0 |-> b], d, s, i, t, out, 0)
    BY DEF IsDelivered
  <2> QED
    BY <2>1
<1>2. ASSUME NEW m \in S PROVE m + 1 \in S
  <2>1. PICK f : IsDelivered(f, d, s, i, t, out, m)
    OBVIOUS
  <2> DEFINE g == [k \in 0..(m + 1) |->
                      IF k = m + 1 THEN Callback(f[m], s, i, t, out[m + 1])
                      ELSE f[k]]
  <2>2. IsDelivered(g, d, s, i, t, out, m + 1)
    <3>1. g = [k \in 0..(m + 1) |-> g[k]]
      OBVIOUS
    <3>2. ASSUME NEW k \in 0..(m + 1)
          PROVE  g[k] = IF k = 0 THEN b ELSE Callback(g[k - 1], s, i, t, out[k])
      <4> HIDE DEF b
      <4>1. CASE k = m + 1
        BY <4>1
      <4>2. CASE k # m + 1
        <5>1. m \in Nat /\ k \in 0..m
          BY <4>2
        <5>2. f[k] = IF k = 0 THEN b ELSE Callback(f[k - 1], s, i, t, out[k])
          BY <2>1, <5>1 DEF IsDelivered, b
        <5>3. g[k] = f[k] /\ (k # 0 => g[k - 1] = f[k - 1])
          BY <4>2, <5>1
        <5> HIDE DEF g
        <5> QED
          BY <5>2, <5>3
      <4> QED
        BY <4>1, <4>2
    <3> HIDE DEF g
    <3> QED
      BY <3>1, <3>2 DEF IsDelivered
  <2> QED
    BY <2>2
<1> HIDE DEF S
<1>3. S = Nat
  BY <1>1, <1>2, Induction DEF S
<1> QED
  BY <1>3 DEF S

(* Deliver makes them all.                                                 *)
LEMMA DeliverUnfold ==
    ASSUME NEW d, NEW s, NEW i, NEW step, Len(step.out) \in Nat
    PROVE  \E f : /\ IsDelivered(f, d, s, i, step.t, step.out, Len(step.out))
                  /\ Deliver(d, s, i, step) = f[Len(step.out)]
<1> DEFINE m == Len(step.out)
           after[n \in 0..Len(step.out)] ==
               IF n = 0 THEN [d EXCEPT !.transports[i] = step.t]
               ELSE Callback(after[n - 1], s, i, step.t, step.out[n])
           F(f) == f = [n \in 0..Len(step.out) |->
               IF n = 0 THEN [d EXCEPT !.transports[i] = step.t]
               ELSE Callback(f[n - 1], s, i, step.t, step.out[n])]
<1>1. \E f : F(f)
  <2>1. PICK f : IsDelivered(f, d, s, i, step.t, step.out, m)
    BY Delivered
  <2>2. F(f)
    BY <2>1 DEF IsDelivered
  <2> QED
    BY <2>2
<1>2. after = CHOOSE f : F(f)
  BY DEF after
<1>3. F(after)
  BY <1>1, <1>2, Zenon
<1>4. IsDelivered(after, d, s, i, step.t, step.out, m)
  <2> HIDE DEF after
  <2> QED
    BY <1>3 DEF IsDelivered
<1>5. Deliver(d, s, i, step) = after[m]
  BY DEF Deliver
<1> QED
  BY <1>4, <1>5

(* What each callback keeps, from the step of the transport on, the        *)
(* delivery keeps.                                                         *)
LEMMA DeliverKeeps ==
    ASSUME NEW P, NEW d, NEW s, NEW i, NEW step, step.out \in Seq(Outs),
           [d EXCEPT !.transports[i] = step.t] \in P,
           \A x \in P : \A what \in Outs : Callback(x, s, i, step.t, what) \in P
    PROVE  Deliver(d, s, i, step) \in P
<1> DEFINE t == step.t
           out == step.out
           m == Len(out)
<1>1. m \in Nat /\ \A k \in 1..m : out[k] \in Outs
  OBVIOUS
<1>2. PICK f : /\ IsDelivered(f, d, s, i, t, out, m)
               /\ Deliver(d, s, i, step) = f[m]
  BY <1>1, DeliverUnfold
<1> HIDE DEF m, out
<1>6. \A k \in 0..m : f[k] = IF k = 0 THEN [d EXCEPT !.transports[i] = t]
                            ELSE Callback(f[k - 1], s, i, t, out[k])
  BY <1>2 DEF IsDelivered
<1>7. f[0] = [d EXCEPT !.transports[i] = t]
  <2>1. 0 \in 0..m
    BY <1>1
  <2> QED
    BY <1>6, <2>1, Zenon
<1>8. ASSUME NEW k \in 0..m, k + 1 <= m
      PROVE  f[k + 1] = Callback(f[k], s, i, t, out[k + 1])
  <2>1. k + 1 \in 0..m /\ k + 1 # 0 /\ (k + 1) - 1 = k
    BY <1>1, <1>8
  <2> QED
    BY <1>6, <2>1
<1> DEFINE S == {k \in Nat : k <= m => f[k] \in P}
<1>3. 0 \in S
  BY <1>7
<1>4. ASSUME NEW k \in S PROVE k + 1 \in S
  <2>1. CASE k + 1 <= m
    <3>1. f[k] \in P /\ k \in 0..m /\ k + 1 \in 1..m
      BY <1>1, <2>1
    <3>2. f[k + 1] = Callback(f[k], s, i, t, out[k + 1])
      BY <1>8, <2>1, <3>1
    <3> QED
      BY <1>1, <3>1, <3>2
  <2> QED
    BY <2>1
<1> HIDE DEF S
<1>5. S = Nat
  BY <1>3, <1>4, Induction DEF S
<1> QED
  BY <1>1, <1>2, <1>5 DEF S

(* A step of the transport at place i, delivered, keeps the shape. *)
LEMMA DeliverOk ==
    ASSUME NEW s \in ScenarioRecords, NEW d, Fits(d, s),
           NEW i \in DOMAIN d.transports, d.transports[i] # Absent,
           NEW step, StepOk(step, s.transports[i], d.contextId),
           NEW e, e = Deliver(d, s, i, step)
    PROVE  /\ Fits(e, s)
           /\ e.state = d.state /\ e.contextId = d.contextId
           /\ e.authToken = d.authToken
           /\ DOMAIN e.transports = DOMAIN d.transports
<1> DEFINE P == {x \in Connections :
                    /\ Fits(x, s)
                    /\ x.state = d.state /\ x.contextId = d.contextId
                    /\ x.authToken = d.authToken
                    /\ DOMAIN x.transports = DOMAIN d.transports}
           b == [d EXCEPT !.transports[i] = step.t]
<1>1. step.out \in Seq(Outs) /\ Ok(step.t, s.transports[i], d.contextId)
  BY DEF StepOk
<1>2. b \in P
  <2> DEFINE u == step.t
  <2>1. b = [d EXCEPT !.transports[i] = u] /\ Ok(u, s.transports[i], d.contextId)
    BY <1>1
  <2> HIDE DEF b, u
  <2>2. /\ Shape(b, s) /\ DOMAIN b.transports = DOMAIN d.transports
        /\ b.state = d.state /\ b.authToken = d.authToken
        /\ b.contextId = d.contextId /\ b.promise = d.promise
    BY <2>1, PutOk DEF Fits
  <2> QED
    BY <2>2 DEF Fits, Standing, Shape
<1>3. ASSUME NEW x \in P, NEW what \in Outs
      PROVE  Callback(x, s, i, step.t, what) \in P
  <2> DEFINE y == Callback(x, s, i, step.t, what)
  <2>1. /\ Fits(y, s)
        /\ y.state = x.state /\ y.contextId = x.contextId
        /\ y.authToken = x.authToken
        /\ DOMAIN y.transports = DOMAIN x.transports
    BY CallbackOk
  <2> HIDE DEF y
  <2> QED
    BY <2>1 DEF Fits, Shape, y
<1> HIDE DEF P, b
<1>4. e \in P
  BY <1>1, <1>2, <1>3, DeliverKeeps DEF b
<1> QED
  BY <1>4 DEF P

(* The user answers with a context the connection has had.                 *)
LEMMA AnswerOk ==
    ASSUME scenario \in ScenarioRecords, Fits(c, scenario), NEW i
    PROVE  Answer(i) \in WsAnswers(c.contextId)
<1> DEFINE u == /\ i = c.tranportIndex /\ Hears(c)
                /\ c.promise.told # "RECONNECTING"
<1>1. u \in BOOLEAN
  OBVIOUS
<1>2. Answer(i) = [updates |-> u, token |-> c.authToken, context |-> c.contextId]
  BY DEF Answer
<1>3. c.authToken \in Nat /\ c.contextId \in Nat /\ c.contextId \in 0..c.contextId
  BY DEF Fits, Shape, Connections
<1> HIDE DEF u
<1> QED
  BY <1>1, <1>2, <1>3 DEF WsAnswers

(* What every action of a transport is. *)
Acted(i) ==
    /\ \E step : /\ StepOk(step, scenario.transports[i], c.contextId)
                 /\ c' = Deliver(c, scenario, i, step)
    /\ scenario' = scenario /\ budget' \in 0..MaxEvents
    /\ \/ authorized' = authorized
       \/ \E context \in 0..MaxContexts : authorized' = authorized \cup {context}

(* What every action does to the rest.                                     *)
Frame == scenario' = scenario /\ budget' \in 0..MaxEvents

(* An event, and none, keep the scenario and the bound of events.          *)
LEMMA FrameOk ==
    ASSUME budget \in 0..MaxEvents
    PROVE  /\ NoEvent => Frame
           /\ \A kinds : Event(kinds) => Frame
<1>1. NoEvent => Frame
  BY DEF NoEvent, Frame
<1>2. ASSUME NEW kinds, Event(kinds) PROVE Frame
  <2>1. budget > 0 /\ budget' = budget - 1 /\ scenario' = scenario
    BY <1>2 DEF Event
  <2>2. budget - 1 \in 0..MaxEvents
    BY <2>1, BoundsAssumption
  <2> QED
    BY <2>1, <2>2 DEF Frame
<1> QED
  BY <1>1, <1>2

(* A step of the shape that is delivered.                                  *)
LEMMA Did ==
    ASSUME NEW i, NEW step, StepOk(step, scenario.transports[i], c.contextId),
           Acts(i, step), Frame
    PROVE  Acted(i)
BY DEF Acts, Frame, Acted

(* A transport that is there has the kind of its place.                    *)
LEMMA PlaceIs ==
    ASSUME scenario \in ScenarioRecords, Fits(c, scenario),
           NEW i \in DOMAIN c.transports, c.transports[i] # Absent
    PROVE  /\ Ok(c.transports[i], scenario.transports[i], c.contextId)
           /\ c.transports[i].kind = scenario.transports[i]
           /\ c.contextId \in Nat
           /\ Is(c.transports[i], Ws!Kind) => WsOk(c.transports[i], c.contextId)
           /\ Is(c.transports[i], Core!Kind) => CoreOk(c.transports[i])
           /\ Is(c.transports[i], Signalr!Kind) => SignalrOk(c.transports[i])
<1>1. Ok(c.transports[i], scenario.transports[i], c.contextId) /\ c.contextId \in Nat
  BY DEF Fits, Shape, PlaceOk, Connections
<1> QED
  BY <1>1, KindOf DEF Is

(* A place where no transport was made is of no kind.                      *)
LEMMA AbsentKind == Absent.kind \notin Kinds
BY DEF Absent, Kinds, Ws!Kind, Core!Kind, Signalr!Kind

(* Whatever a websocket transport does by itself is such a step.           *)
LEMMA WsActsOk ==
    ASSUME scenario \in ScenarioRecords, Fits(c, scenario), budget \in 0..MaxEvents,
           NEW i \in DOMAIN c.transports, WebsocketActs(i)
    PROVE  c.transports[i] # Absent /\ Acted(i)
<1> DEFINE t == c.transports[i]
           n == c.contextId
<1>1. Is(t, Ws!Kind) /\ t # Absent
  BY AbsentKind DEF WebsocketActs, Is, Kinds
<1>2. WsOk(t, n) /\ n \in Nat /\ scenario.transports[i] = Ws!Kind
  BY <1>1, PlaceIs DEF Is
<1>3. ASSUME NEW step, WsStep(step, n)
      PROVE  StepOk(step, scenario.transports[i], n)
  BY <1>2, <1>3 DEF StepOk, WsStep, Ok
<1>4. \A which \in Sockets(i) : which \in 0..Len(t.leaked)
  BY DEF Sockets
<1>5. \A which : Phase(i, which) = Ws!SocketAt(t, which).phase
  BY DEF Phase
<1>6. ASSUME NEW which, Phase(i, which) \in {"opening", "open"}
      PROVE  which = 0 => t.socket # Ws!NoSocket
  BY <1>5, <1>6 DEF Ws!SocketAt, Ws!NoSocket
<1> HIDE DEF t, n
<1>7. CASE \E which \in Sockets(i) : SocketOpens(i, which)
  <2>1. PICK which \in Sockets(i) : SocketOpens(i, which)
    BY <1>7
  <2>2. WsStep(Ws!handleSocketOpen(t, which), n)
    BY <1>2, <1>4, <1>6, <2>1, WsSocketOpen DEF SocketOpens
  <2> QED
    BY <1>1, <1>3, <2>1, <2>2, Did, FrameOk DEF SocketOpens, t, n
<1>8. CASE \E which \in Sockets(i) : \E frame \in Ws!Frames : SocketReceives(i, which, frame)
  <2>1. PICK which \in Sockets(i), frame \in Ws!Frames : SocketReceives(i, which, frame)
    BY <1>8
  <2>2. WsStep(Ws!handleSocketMessage(t, frame), n)
    BY <1>2, WsMessage
  <2>3. Frame
    BY <2>1, FrameOk DEF SocketReceives
  <2> QED
    BY <1>1, <1>3, <2>1, <2>2, <2>3, Did DEF SocketReceives, t, n
<1>9. CASE \E which \in Sockets(i) : \E code \in {"tokenExpired", "other"} :
              SocketCloses(i, which, code)
  <2>1. PICK which \in Sockets(i), code \in {"tokenExpired", "other"} :
              SocketCloses(i, which, code)
    BY <1>9
  <2>2. WsStep(Ws!handleSocketClose(t, which, code, Answer(i)), n)
    BY <1>2, <1>4, <1>6, <2>1, WsClose, AnswerOk DEF SocketCloses, n
  <2>3. Frame
    BY <2>1, FrameOk DEF SocketCloses
  <2> QED
    BY <1>1, <1>3, <2>1, <2>2, <2>3, Did DEF SocketCloses, t, n
<1>10. CASE ReconnectTimeout(i)
  <2>1. t.reconnectCount < DEFAULT_RECONNECT_LIMIT
    BY <1>2, <1>10 DEF ReconnectTimeout, WsOk, WsWithin, t
  <2>2. WsStep(Ws!restartConnection(t), n)
    BY <1>2, <2>1, WsRestart
  <2> QED
    BY <1>1, <1>3, <1>10, <2>2, Did, FrameOk DEF ReconnectTimeout, t, n
<1>11. CASE FiveSecondsPass(i)
  <2>1. WsStep(Ws!Step(Ws!Forget(t), <<>>), n)
    <3>1. WsOk(Ws!Forget(t), n)
      BY <1>2, <1>11, WsForget DEF FiveSecondsPass, t
    <3> QED
      BY <3>1, OutsType DEF WsStep, Ws!Step
  <2> QED
    BY <1>1, <1>3, <1>11, <2>1, Did, FrameOk DEF FiveSecondsPass, t, n
<1>12. CASE \E k \in DOMAIN t.authorizing : AuthorizeSucceeds(i, k)
  <2>1. PICK k \in DOMAIN t.authorizing : AuthorizeSucceeds(i, k)
    BY <1>12
  <2>2. WsStep(Ws!Authorized(t, k, Answer(i)), n)
    BY <1>2, WsAuthorized, AnswerOk DEF n
  <2>3. t.authorizing[k].contextId \in 0..MaxContexts
    <3>1. t.authorizing[k] \in Ws!Authorizations /\ t.authorizing[k].contextId <= n
      BY <1>2 DEF WsOk, WsWithin, Ws!Transports
    <3>2. n <= MaxContexts
      BY DEF Fits, Shape, n
    <3> QED
      BY <1>2, <3>1, <3>2, BoundsAssumption DEF Ws!Authorizations
  <2>4. Frame
    BY <2>1, FrameOk DEF AuthorizeSucceeds
  <2>5. StepOk(Ws!Authorized(t, k, Answer(i)), scenario.transports[i], n)
    BY <1>3, <2>2
  <2> QED
    BY <1>1, <2>1, <2>3, <2>4, <2>5 DEF AuthorizeSucceeds, Acted, Frame, t, n
<1>13. CASE \E k \in DOMAIN t.authorizing : \E isNetworkError \in BOOLEAN :
               AuthorizeFails(i, k, isNetworkError)
  <2>1. PICK k \in DOMAIN t.authorizing, isNetworkError \in BOOLEAN :
               AuthorizeFails(i, k, isNetworkError)
    BY <1>13
  <2>2. WsStep(Ws!AuthorizeFails(t, k, isNetworkError), n)
    BY <1>2, WsAuthorizeFails
  <2>3. Frame
    BY <2>1, FrameOk DEF AuthorizeFails
  <2> QED
    BY <1>1, <1>3, <2>1, <2>2, <2>3, Did DEF AuthorizeFails, t, n
<1> QED
  BY <1>7, <1>8, <1>9, <1>10, <1>11, <1>12, <1>13 DEF WebsocketActs, t

(* The steps a SignalR Core transport makes by itself, and when, but for   *)
(* the break of its link.                                                  *)
CoreMakes(t, step, events) ==
    \/ t.hub = "connecting" /\ step \in {Core!Started(t), Core!StartFails(t)}
    \/ /\ t.hub \in {"disconnecting", "connected", "reconnecting"}
       /\ step = Core!handleConnectionClosure(t)
    \/ t.hub = "reconnecting" /\ Core!MayRetry(t) /\ step = Core!Retries(t)
    \/ t.hub = "reconnecting" /\ step = Core!onreconnected(t)
    \/ t.cancels > 0 /\ step = Core!StreamCancelled(t)
    \/ t.closes > 0 /\ step = Core!CloseAnswered(t)
    \/ /\ t.hub = "connected" /\ t.streaming
       /\ \E parses \in BOOLEAN : /\ ~parses => "BadMessage" \in events
                                  /\ step = Core!handleNextMessage(t, parses)
    \/ /\ t.hub = "connected" /\ t.streaming /\ "StreamEnds" \in events
       /\ step \in {Core!StreamCompletes(t), Core!handleMessageStreamError(t)}
    \/ /\ t.hub = "connected" /\ t.renewals # <<>>
       /\ \E status : /\ status # "success" => "Renewal" \in events
                      /\ step = Core!RenewAnswered(t, status)

(* The steps of a hub keep its shape.                                      *)
LEMMA CoreMakesOk ==
    ASSUME NEW t, CoreOk(t), NEW events, NEW step, CoreMakes(t, step, events)
    PROVE  CoreStep(step)
<1>1. /\ CoreStep(Core!Started(t)) /\ CoreStep(Core!StartFails(t))
      /\ CoreStep(Core!handleConnectionClosure(t))
      /\ t.cancels > 0 => CoreStep(Core!StreamCancelled(t))
      /\ t.closes > 0 => CoreStep(Core!CloseAnswered(t))
  BY CoreStarted, CoreClosure, CoreStops
<1>2. ASSUME t.hub # "none"
      PROVE  /\ CoreStep(Core!onreconnecting(t)) /\ CoreStep(Core!onreconnected(t))
             /\ Core!MayRetry(t) => CoreStep(Core!Retries(t))
             /\ \A parses \in BOOLEAN : CoreStep(Core!handleNextMessage(t, parses))
             /\ CoreStep(Core!StreamCompletes(t))
             /\ CoreStep(Core!handleMessageStreamError(t))
             /\ t.renewals # <<>> => \A status : CoreStep(Core!RenewAnswered(t, status))
  BY <1>2, CoreReconnects, CoreStream, CoreAnswered DEF Core!MayRetry
<1> QED
  BY <1>1, <1>2 DEF CoreMakes

(* A hub makes a step, or its link breaks while it may be stopped.         *)
CoreActed(i) ==
    LET t == c.transports[i]
    IN  /\ \/ \E step : /\ CoreMakes(t, step, scenario.events)
                        /\ StepOk(step, scenario.transports[i], c.contextId)
                        /\ c' = Deliver(c, scenario, i, step)
           \/ LET step == Core!onreconnecting(t)
              IN  /\ t.hub = "connected" /\ Core!MayRetry(t)
                  /\ StepOk(step, scenario.transports[i], c.contextId)
                  /\ c' = Deliver(Overtake(c, t.isDisconnecting), scenario, i, step)
        /\ Frame /\ authorized' = authorized

(* Whatever a SignalR Core transport does by itself is such a step.        *)
LEMMA CoreActsOk ==
    ASSUME scenario \in ScenarioRecords, Fits(c, scenario), budget \in 0..MaxEvents,
           NEW i \in DOMAIN c.transports, CoreActs(i)
    PROVE  /\ c.transports[i] # Absent /\ CoreOk(c.transports[i])
           /\ Is(c.transports[i], Core!Kind)
           /\ scenario.transports[i] = Core!Kind
           /\ CoreActed(i)
<1> DEFINE t == c.transports[i]
           events == scenario.events
<1>1. Is(t, Core!Kind) /\ t # Absent
  BY AbsentKind DEF CoreActs, Is, Kinds
<1>2. CoreOk(t) /\ scenario.transports[i] = Core!Kind
  BY <1>1, PlaceIs DEF Is
<1>3. ASSUME NEW step, CoreMakes(t, step, events)
      PROVE  StepOk(step, scenario.transports[i], c.contextId)
  BY <1>2, <1>3, CoreMakesOk DEF StepOk, CoreStep, Ok
<1>5. ASSUME NEW step, CoreMakes(t, step, events), Acts(i, step), Frame
      PROVE  CoreActed(i)
  BY <1>3, <1>5 DEF CoreActed, Acts
<1> HIDE DEF t, events
<1>7. ASSUME HubStarts(i) PROVE CoreActed(i)
  <2>2. CoreMakes(t, Core!Started(t), events)
    BY <1>7 DEF HubStarts, HubIs, CoreMakes, t
  <2> QED
    BY <1>5, <1>7, <2>2, FrameOk DEF HubStarts, t
<1>8. ASSUME HubStartFails(i) PROVE CoreActed(i)
  <2>1. Frame
    BY <1>8, FrameOk DEF HubStartFails
  <2>2. CoreMakes(t, Core!StartFails(t), events)
    BY <1>8 DEF HubStartFails, HubIs, CoreMakes, t
  <2> QED
    BY <1>5, <1>8, <2>1, <2>2 DEF HubStartFails, t
<1>9. ASSUME HubCloses(i) PROVE CoreActed(i)
  <2>1. Frame
    BY <1>9, FrameOk DEF HubCloses
  <2>2. CoreMakes(t, Core!handleConnectionClosure(t), events)
    BY <1>9 DEF HubCloses, HubIs, CoreMakes, t
  <2> QED
    BY <1>5, <1>9, <2>1, <2>2 DEF HubCloses, t
<1>10. ASSUME HubBreaks(i) PROVE CoreActed(i)
  <2>1. Frame /\ authorized' = authorized
    BY <1>10, FrameOk DEF HubBreaks
  <2>2. t.hub = "connected" /\ Core!MayRetry(t)
    BY <1>10 DEF HubBreaks, HubIs, t
  <2>3. c' = Deliver(Overtake(c, t.isDisconnecting), scenario, i, Core!onreconnecting(t))
    BY <1>10 DEF HubBreaks, t
  <2>5. StepOk(Core!onreconnecting(t), scenario.transports[i], c.contextId)
    BY <1>2, <2>2, CoreReconnects DEF StepOk, CoreStep, Ok
  <2> QED
    BY <1>1, <1>2, <2>1, <2>2, <2>3, <2>5, Zenon DEF CoreActed, t
<1>11. ASSUME HubRetries(i) PROVE CoreActed(i)
  <2>1. Frame
    BY <1>11, FrameOk DEF HubRetries
  <2>2. CoreMakes(t, Core!Retries(t), events)
    BY <1>11 DEF HubRetries, HubIs, CoreMakes, t
  <2> QED
    BY <1>5, <1>11, <2>1, <2>2 DEF HubRetries, t
<1>12. ASSUME HubReconnects(i) PROVE CoreActed(i)
  <2>1. Frame
    BY <1>12, FrameOk DEF HubReconnects
  <2>2. CoreMakes(t, Core!onreconnected(t), events)
    BY <1>12 DEF HubReconnects, HubIs, CoreMakes, t
  <2> QED
    BY <1>5, <1>12, <2>1, <2>2 DEF HubReconnects, t
<1>13. ASSUME HubStops(i) PROVE CoreActed(i)
  <2>1. Frame
    BY <1>13, FrameOk DEF HubStops
  <2>3. ASSUME t.cancels > 0 /\ Acts(i, Core!StreamCancelled(t)) PROVE CoreActed(i)
    BY <1>5, <2>1, <2>3 DEF CoreMakes
  <2>4. ASSUME t.closes > 0 /\ Acts(i, Core!CloseAnswered(t)) PROVE CoreActed(i)
    BY <1>5, <2>1, <2>4 DEF CoreMakes
  <2> QED
    BY <1>13, <2>3, <2>4 DEF HubStops, t
<1>14. ASSUME \E parses \in BOOLEAN : HubReceives(i, parses) PROVE CoreActed(i)
  <2>1. PICK parses \in BOOLEAN : HubReceives(i, parses)
    BY <1>14
  <2>2. Frame
    BY <2>1, FrameOk DEF HubReceives
  <2>3. ~parses => "BadMessage" \in events
    BY <2>1 DEF HubReceives, Event, events
  <2>4. t.hub = "connected" /\ t.streaming
    BY <2>1 DEF HubReceives, Streaming, HubIs, t
  <2>5. CoreMakes(t, Core!handleNextMessage(t, parses), events)
    BY <2>3, <2>4 DEF CoreMakes
  <2> QED
    BY <1>5, <2>1, <2>2, <2>5 DEF HubReceives, t
<1>15. ASSUME StreamEnds(i) PROVE CoreActed(i)
  <2>1. Frame
    BY <1>15, FrameOk DEF StreamEnds
  <2>2. t.hub = "connected" /\ t.streaming /\ "StreamEnds" \in events
    BY <1>15 DEF StreamEnds, Streaming, HubIs, Event, t, events
  <2>3. /\ CoreMakes(t, Core!StreamCompletes(t), events)
        /\ CoreMakes(t, Core!handleMessageStreamError(t), events)
    BY <2>2 DEF CoreMakes
  <2> QED
    BY <1>5, <1>15, <2>1, <2>3 DEF StreamEnds, t
<1>16. ASSUME \E status \in Core!RenewAnswers : RenewAnswered(i, status) PROVE CoreActed(i)
  <2>1. PICK status \in Core!RenewAnswers : RenewAnswered(i, status)
    BY <1>16
  <2>2. Frame
    BY <2>1, FrameOk DEF RenewAnswered
  <2>3. status # "success" => "Renewal" \in events
    BY <2>1 DEF RenewAnswered, Event, events
  <2>4. t.hub = "connected" /\ t.renewals # <<>>
    BY <2>1 DEF RenewAnswered, HubIs, t
  <2>5. CoreMakes(t, Core!RenewAnswered(t, status), events)
    BY <2>3, <2>4 DEF CoreMakes
  <2> QED
    BY <1>5, <2>1, <2>2, <2>5 DEF RenewAnswered, t
<1>17. CoreActed(i)
  BY <1>7, <1>8, <1>9, <1>10, <1>11, <1>12, <1>13, <1>14, <1>15, <1>16 DEF CoreActs
<1> QED
  BY <1>1, <1>2, <1>17 DEF t

(* Whatever the library does by itself is such a step.                     *)
LEMMA LibraryActsOk ==
    ASSUME scenario \in ScenarioRecords, Fits(c, scenario), budget \in 0..MaxEvents,
           NEW i \in DOMAIN c.transports, LibraryActs(i)
    PROVE  c.transports[i] # Absent /\ Acted(i)
<1> DEFINE t == c.transports[i]
           n == c.contextId
           l == t.connection
<1>1. Is(t, Signalr!Kind) /\ t # Absent
  BY AbsentKind DEF LibraryActs, Is, Kinds
<1>2. SignalrOk(t) /\ n \in Nat /\ scenario.transports[i] = Signalr!Kind
  BY <1>1, PlaceIs DEF Is
<1>3. LibraryOk(l) /\ Lib(i) = l /\ l \in Library!Connections
  BY <1>2 DEF SignalrOk, LibraryOk, Lib
<1>4. ASSUME NEW step, SignalrStep(step), Acts(i, step), Frame
      PROVE  Acted(i)
  <2>1. StepOk(step, scenario.transports[i], n)
    BY <1>2, <1>4 DEF StepOk, SignalrStep, Ok
  <2> QED
    BY <1>4, <2>1, Did
<1>5. ASSUME NEW step, LibraryStep(step), LibraryDoes(i, step), Frame
      PROVE  Acted(i)
  <2>1. SignalrStep(Signalr!Does(t, step))
    BY <1>2, <1>5, SignalrDoes
  <2> QED
    BY <1>4, <1>5, <2>1 DEF LibraryDoes
<1> HIDE DEF t, n, l
<1>6. CASE \E answer \in Library!NegotiateAnswers : Negotiated(i, answer)
  <2>1. PICK answer : Negotiated(i, answer)
    BY <1>6
  <2>2. Frame
    BY <2>1, FrameOk DEF Negotiated
  <2>3. LibraryStep(Library!Negotiated(l, answer))
    BY <1>3, <2>1, LibraryNegotiated DEF Negotiated
  <2> QED
    BY <1>1, <1>3, <1>5, <2>1, <2>2, <2>3 DEF Negotiated, t
<1>7. CASE TransportTried(i)
  <2>1. Frame
    BY <1>7, FrameOk DEF TransportTried
  <2>2. LibraryStep(Library!onSuccess(l)) /\ LibraryStep(Library!onFailed(l))
    BY <1>3, <1>7, LibraryTried DEF TransportTried
  <2> QED
    BY <1>1, <1>3, <1>5, <1>7, <2>1, <2>2 DEF TransportTried, t
<1>8. ASSUME Library!isConnectedOrReconnecting(l), NEW expired \in BOOLEAN
      PROVE  /\ LibraryStep(Library!SocketCloses(l, expired))
             /\ LibraryStep(Library!PollFails(l, expired))
             /\ LibraryStep(Library!checkIfAlive(l, expired))
             /\ LibraryStep(Library!ReconnectTimeout(l, expired))
             /\ LibraryStep(Library!Reconnected(l))
  BY <1>3, <1>8, LibraryChanges
<1>9. l.state \in {"connected", "reconnecting"} => Library!isConnectedOrReconnecting(l)
  BY DEF Library!isConnectedOrReconnecting
<1>10. CASE \E expired \in BOOLEAN : LibraryLinkDrops(i, expired)
  <2>1. PICK expired \in BOOLEAN : LibraryLinkDrops(i, expired)
    BY <1>10
  <2>2. Frame
    BY <2>1, FrameOk DEF LibraryLinkDrops
  <2>3. /\ LibraryStep(Library!SocketCloses(l, expired))
        /\ LibraryStep(Library!PollFails(l, expired))
    BY <1>3, <1>8, <2>1 DEF LibraryLinkDrops
  <2> QED
    BY <1>1, <1>3, <1>5, <2>1, <2>2, <2>3 DEF LibraryLinkDrops, t
<1>11. CASE \E expired \in BOOLEAN : LibrarySilent(i, expired)
  <2>1. PICK expired \in BOOLEAN : LibrarySilent(i, expired)
    BY <1>11
  <2>2. Frame
    BY <2>1, FrameOk DEF LibrarySilent
  <2>3. l.state = "connected"
    BY <1>3, <2>1 DEF LibrarySilent
  <2>4. LibraryStep(Library!checkIfAlive(l, expired))
    BY <1>8, <1>9, <2>3
  <2> QED
    BY <1>1, <1>3, <1>5, <2>1, <2>2, <2>4 DEF LibrarySilent, t
<1>12. CASE \E expired \in BOOLEAN : LibraryReconnectTimeout(i, expired)
  <2>1. PICK expired \in BOOLEAN : LibraryReconnectTimeout(i, expired)
    BY <1>12
  <2>2. Frame
    BY <2>1, FrameOk DEF LibraryReconnectTimeout
  <2>3. l.state \in {"connected", "reconnecting"}
    <3>1. l.reconnectTimeout
      BY <1>3, <2>1 DEF LibraryReconnectTimeout
    <3> QED
      BY <1>3, <3>1 DEF LibraryOk, Library!New, Library!Connections,
                        Library!connectionStates
  <2>4. LibraryStep(Library!ReconnectTimeout(l, expired))
    BY <1>8, <1>9, <2>3
  <2> QED
    BY <1>1, <1>3, <1>5, <2>1, <2>2, <2>4 DEF LibraryReconnectTimeout, t
<1>13. CASE LibraryReconnects(i)
  <2>1. l.state = "reconnecting"
    BY <1>3, <1>13 DEF LibraryReconnects
  <2>2. LibraryStep(Library!Reconnected(l))
    BY <1>8, <1>9, <2>1
  <2>3. Frame
    BY <1>13, FrameOk DEF LibraryReconnects
  <2> QED
    BY <1>1, <1>3, <1>5, <1>13, <2>2, <2>3 DEF LibraryReconnects, t
<1>14. CASE LibraryStops(i)
  <2>1. Frame
    BY <1>14, FrameOk DEF LibraryStops
  <2> QED
    BY <1>1, <1>3, <1>5, <1>14, <2>1, LibraryStopped DEF LibraryStops, t
<1>15. CASE LibraryError(i)
  <2>1. Frame
    BY <1>15, FrameOk DEF LibraryError
  <2>2. SignalrStep(Signalr!handleError(t, TRUE))
    <3>1. 0 \in Nat
      OBVIOUS
    <3> QED
      BY <1>2, <3>1, SignalrMethods
  <2> QED
    BY <1>1, <1>4, <1>15, <2>1, <2>2 DEF LibraryError, t
<1> QED
  BY <1>6, <1>7, <1>10, <1>11, <1>12, <1>13, <1>14, <1>15 DEF LibraryActs

-----------------------------------------------------------------------------
(* The steps of the user. *)
LEMMA AsksType ==
    ASSUME NEW k \in Contract!Promises
    PROVE  /\ Contract!Start(k) \in Contract!Promises
           /\ Contract!Stop(k) \in Contract!Promises
           /\ Contract!Dispose(k) \in Contract!Promises
           /\ Contract!Start(k).asked = "started" /\ Contract!Stop(k).asked = "stopped"
           /\ Contract!Dispose(k).asked = "disposed"
           /\ Contract!Start(k).told = k.told /\ Contract!Start(k).late = k.late
           /\ Contract!Stop(k).told = k.told /\ Contract!Stop(k).late = k.late
           /\ Contract!Dispose(k).told = k.told /\ Contract!Dispose(k).late = k.late
BY DEF Contract!Promises, Contract!Asked, Contract!Start, Contract!Stop, Contract!Dispose

(* The state and the promise of the connection become others.              *)
With(d, state, k) == [d EXCEPT !.state = state, !.promise = k]

(* A connection with what was asked of it recorded keeps the shape.        *)
LEMMA AskedFor ==
    ASSUME NEW s \in ScenarioRecords, NEW d, Shape(d, s),
           NEW k \in Contract!Promises, NEW x \in {"started", "stopped", "disposed"},
           k.asked = x, NEW e, e = With(d, x, k)
    PROVE  /\ Fits(e, s) /\ e.state = x /\ e.promise = k
           /\ e.transports = d.transports
           /\ e.tranportIndex = d.tranportIndex
           /\ e.authToken = d.authToken /\ e.contextId = d.contextId
           /\ e.rejected = d.rejected
<1>1. d \in Connections /\ d.contextId \in Nat /\ d.contextId <= MaxContexts
  BY DEF Shape, Connections
<1>2. /\ e \in Connections /\ e.state = x /\ e.promise = k
      /\ e.transports = d.transports
      /\ e.tranportIndex = d.tranportIndex
      /\ e.authToken = d.authToken /\ e.contextId = d.contextId
      /\ e.rejected = d.rejected
  BY <1>1 DEF Connections, With
<1>3. e.contextId \in d.contextId..MaxContexts
  BY <1>1, <1>2, BoundsAssumption
<1>4. Shape(e, s)
  BY <1>2, <1>3, ShapeSame
<1>5. Standing(e)
  BY <1>2 DEF Standing, StateOf
<1> QED
  BY <1>2, <1>4, <1>5 DEF Fits

(* The connection the user has just asked to start, before it starts. *)
Begun == [Asked(Overtake(c, StartsAgain), c.authToken, c.contextId + 1)
              EXCEPT !.state = "started", !.promise = Contract!Start(@)]

(* A start is the query given, and then the start of the transport.        *)
LEMMA BegunOk ==
    ASSUME scenario \in ScenarioRecords, Fits(c, scenario), UserStarts
    PROVE  /\ Fits(Begun, scenario) /\ Begun.state = "started"
           /\ Begun.promise = Contract!Start(Cut(c.promise, StartsAgain))
           /\ HasTransport(Begun) /\ Begun.tranportIndex = c.tranportIndex
           /\ Begun.authToken = c.authToken /\ Begun.contextId = c.contextId + 1
           /\ Begun.rejected = c.rejected
           /\ DOMAIN Begun.transports = DOMAIN c.transports
           /\ \A j \in DOMAIN c.transports :
                 j # c.tranportIndex => Begun.transports[j] = c.transports[j]
           /\ Current(Begun) = Queried(Current(c), c.authToken, c.contextId + 1)
           /\ c' = Deliver(Begun, scenario, c.tranportIndex, Start(Current(Begun)))
           /\ StepOk(Start(Current(Begun)), scenario.transports[c.tranportIndex],
                     Begun.contextId)
           /\ c.tranportIndex \in DOMAIN Begun.transports
           /\ Current(Begun) # Absent
<1> DEFINE b == Overtake(c, StartsAgain)
           d == Asked(b, c.authToken, c.contextId + 1)
           k == Contract!Start(d.promise)
           e == Begun
<1>1. /\ c.authToken \in Nat /\ c.contextId \in Nat /\ Shape(c, scenario)
      /\ c.promise \in Contract!Promises
  BY DEF Fits, Shape, Connections
<1>2. c.contextId < MaxContexts /\ HasTransport(c)
  BY DEF UserStarts
<1>3. /\ Shape(b, scenario) /\ b.transports = c.transports
      /\ b.promise = Cut(c.promise, StartsAgain)
      /\ b.state = c.state /\ b.tranportIndex = c.tranportIndex
      /\ b.authToken = c.authToken /\ b.contextId = c.contextId
      /\ b.rejected = c.rejected
  BY <1>1, OvertakeOk DEF Cut
<1>4. HasTransport(b) /\ Current(b) = Current(c)
  BY <1>2, <1>3 DEF HasTransport, Current
<1> HIDE DEF b
<1>5. /\ Shape(d, scenario) /\ d.tranportIndex = b.tranportIndex
      /\ d.authToken = c.authToken /\ d.contextId = c.contextId + 1
      /\ d.promise = b.promise /\ d.rejected = b.rejected
      /\ DOMAIN d.transports = DOMAIN b.transports
      /\ \A j \in DOMAIN b.transports :
            j # b.tranportIndex => d.transports[j] = b.transports[j]
      /\ HasTransport(d)
      /\ Current(d) = Queried(Current(b), c.authToken, c.contextId + 1)
  <2> DEFINE n == c.contextId + 1
  <2>1. n \in b.contextId..MaxContexts
    BY <1>1, <1>2, <1>3, BoundsAssumption
  <2>2. d = Asked(b, c.authToken, n)
    OBVIOUS
  <2> HIDE DEF d, n
  <2>3. /\ Shape(d, scenario) /\ d.tranportIndex = b.tranportIndex
        /\ d.authToken = c.authToken /\ d.contextId = n
        /\ d.promise = b.promise /\ d.rejected = b.rejected
        /\ DOMAIN d.transports = DOMAIN b.transports
        /\ \A j \in DOMAIN b.transports :
              j # b.tranportIndex => d.transports[j] = b.transports[j]
        /\ HasTransport(d)
        /\ Current(d) = Queried(Current(b), c.authToken, n)
    BY <1>1, <1>3, <1>4, <2>1, <2>2, AskOk
  <2> QED
    BY <2>3 DEF n
<1> HIDE DEF d
<1>6. k \in Contract!Promises /\ k.asked = "started"
  <2>1. d.promise \in Contract!Promises
    BY <1>5 DEF Shape, Connections
  <2> QED
    BY <2>1, AsksType
<1>7. e = [d EXCEPT !.state = k.asked, !.promise = k]
  BY <1>6 DEF Begun, d, b
<1>8. c' = Deliver(e, scenario, e.tranportIndex, Start(Current(e)))
  BY DEF UserStarts, Begun, Asked
<1> HIDE DEF k, e
<1>9. /\ Fits(e, scenario) /\ e.state = "started" /\ e.promise = k
      /\ e.transports = d.transports
      /\ e.tranportIndex = d.tranportIndex
      /\ e.authToken = d.authToken /\ e.contextId = d.contextId
      /\ e.rejected = d.rejected
  <2>1. Shape(d, scenario) /\ e = With(d, "started", k)
    BY <1>5, <1>6, <1>7 DEF With
  <2>2. /\ Fits(e, scenario) /\ e.state = "started" /\ e.promise = k
        /\ e.transports = d.transports
        /\ e.tranportIndex = d.tranportIndex
        /\ e.authToken = d.authToken /\ e.contextId = d.contextId
        /\ e.rejected = d.rejected
    BY <1>6, <2>1, AskedFor
  <2> QED
    BY <1>6, <2>2
<1>10. HasTransport(e) /\ Current(e) = Current(d)
  BY <1>5, <1>9 DEF HasTransport, Current
<1>11. e.promise = Contract!Start(Cut(c.promise, StartsAgain))
  BY <1>3, <1>5, <1>9 DEF k
<1>12. /\ e.tranportIndex \in DOMAIN e.transports /\ Current(e) # Absent
       /\ StepOk(Start(Current(e)), scenario.transports[e.tranportIndex], e.contextId)
  <2>1. Shape(e, scenario) /\ e.contextId \in Nat
    BY <1>9 DEF Fits, Shape, Connections
  <2>2. /\ e.tranportIndex \in DOMAIN e.transports /\ Current(e) # Absent
        /\ Ok(Current(e), scenario.transports[e.tranportIndex], e.contextId)
    BY <1>10, <2>1, CurrentOk
  <2> QED
    BY <2>1, <2>2, StartOk
<1>13. Current(e) = Queried(Current(c), c.authToken, c.contextId + 1)
  BY <1>4, <1>5, <1>10
<1> QED
  BY <1>3, <1>5, <1>8, <1>9, <1>10, <1>11, <1>12, <1>13 DEF e

(* The user starts the connection.                                         *)
LEMMA UserStartsOk ==
    ASSUME scenario \in ScenarioRecords, Fits(c, scenario), budget \in 0..MaxEvents,
           UserStarts
    PROVE  Fits(c', scenario) /\ Frame /\ authorized' = authorized
<1> DEFINE e == Begun
           step == Start(Current(e))
           i == c.tranportIndex
<1>1. /\ Fits(e, scenario) /\ i \in DOMAIN e.transports
      /\ e.transports[i] # Absent /\ c' = Deliver(e, scenario, i, step)
      /\ StepOk(step, scenario.transports[i], e.contextId)
  BY BegunOk DEF Current
<1> HIDE DEF e, step, i
<1>2. Fits(c', scenario)
  BY <1>1, DeliverOk
<1>3. Frame
  BY FrameOk DEF UserStarts
<1> QED
  BY <1>2, <1>3 DEF UserStarts

(* The connection the user has just stopped, before its transport is told. *)
Stopped == [Overtake(c, Lingers(Stop(Current(c)).t))
                EXCEPT !.state = "stopped", !.promise = Contract!Stop(@)]

(* A stop is recorded, then the transport stopped.                         *)
LEMMA StoppedOk ==
    ASSUME scenario \in ScenarioRecords, Fits(c, scenario), UserStops
    PROVE  /\ Fits(Stopped, scenario) /\ Stopped.state = "stopped"
           /\ Stopped.promise =
                 Contract!Stop(Cut(c.promise, Lingers(Stop(Current(c)).t)))
           /\ HasTransport(c) /\ Stopped.transports = c.transports
           /\ Stopped.tranportIndex = c.tranportIndex
           /\ Stopped.authToken = c.authToken /\ Stopped.contextId = c.contextId
           /\ Stopped.rejected = c.rejected
           /\ c' = Deliver(Stopped, scenario, c.tranportIndex, Stop(Current(c)))
           /\ StepOk(Stop(Current(c)), scenario.transports[c.tranportIndex],
                     c.contextId)
           /\ c.tranportIndex \in DOMAIN c.transports
           /\ Current(c) # Absent
<1> DEFINE lingers == Lingers(Stop(Current(c)).t)
           b == Overtake(c, lingers)
           k == Contract!Stop(b.promise)
           e == Stopped
<1>1. /\ c.contextId \in Nat /\ Shape(c, scenario) /\ HasTransport(c)
  BY DEF Fits, Shape, Connections, UserStops
<1>2. /\ Shape(b, scenario) /\ b.transports = c.transports
      /\ b.promise = Cut(c.promise, lingers)
      /\ b.state = c.state /\ b.tranportIndex = c.tranportIndex
      /\ b.authToken = c.authToken /\ b.contextId = c.contextId
      /\ b.rejected = c.rejected
  BY <1>1, OvertakeOk DEF Cut
<1>3. e = With(b, "stopped", k)
  BY DEF Stopped, With
<1>4. c' = Deliver(e, scenario, e.tranportIndex, Stop(Current(c)))
  BY DEF UserStops, Stopped
<1> HIDE DEF b, e
<1>5. k \in Contract!Promises /\ k.asked = "stopped"
  <2>1. b.promise \in Contract!Promises
    BY <1>2 DEF Shape, Connections
  <2> QED
    BY <2>1, AsksType
<1>6. k = Contract!Stop(Cut(c.promise, lingers))
  BY <1>2
<1> HIDE DEF k
<1>7. /\ Fits(e, scenario) /\ e.state = "stopped" /\ e.promise = k
      /\ e.transports = b.transports
      /\ e.tranportIndex = b.tranportIndex
      /\ e.authToken = b.authToken /\ e.contextId = b.contextId
      /\ e.rejected = b.rejected
  <2>1. Shape(b, scenario)
    BY <1>2
  <2> QED
    BY <1>3, <1>5, <2>1, AskedFor
<1>8. /\ c.tranportIndex \in DOMAIN c.transports /\ Current(c) # Absent
      /\ StepOk(Stop(Current(c)), scenario.transports[c.tranportIndex], c.contextId)
  <2>1. /\ c.tranportIndex \in DOMAIN c.transports /\ Current(c) # Absent
        /\ Ok(Current(c), scenario.transports[c.tranportIndex], c.contextId)
    BY <1>1, CurrentOk
  <2> QED
    BY <1>1, <2>1, StopOk
<1> QED
  BY <1>1, <1>2, <1>4, <1>6, <1>7, <1>8 DEF e

(* The user stops the connection.                                          *)
LEMMA UserStopsOk ==
    ASSUME scenario \in ScenarioRecords, Fits(c, scenario), budget \in 0..MaxEvents,
           UserStops
    PROVE  Fits(c', scenario) /\ Frame /\ authorized' = authorized
<1> DEFINE e == Stopped
           step == Stop(Current(c))
           i == c.tranportIndex
<1>1. /\ Fits(e, scenario) /\ i \in DOMAIN e.transports
      /\ e.transports[i] # Absent /\ c' = Deliver(e, scenario, i, step)
      /\ StepOk(step, scenario.transports[i], e.contextId)
  BY StoppedOk DEF Current
<1> HIDE DEF e, step, i
<1>2. Fits(c', scenario)
  BY <1>1, DeliverOk
<1>3. Frame
  BY FrameOk DEF UserStops
<1> QED
  BY <1>2, <1>3 DEF UserStops

(* A dispose changes the promise and the state only.                       *)
LEMMA UserDisposesOk ==
    ASSUME scenario \in ScenarioRecords, Fits(c, scenario), budget \in 0..MaxEvents,
           UserDisposes
    PROVE  /\ Fits(c', scenario) /\ Frame /\ authorized' = authorized
           /\ c'.promise = Contract!Dispose(Cut(c.promise, StartsAgain))
           /\ c'.state = "disposed" /\ c'.transports = c.transports
           /\ c'.tranportIndex = c.tranportIndex
           /\ c'.authToken = c.authToken /\ c'.contextId = c.contextId
           /\ c'.rejected = c.rejected
<1> DEFINE b == Overtake(c, StartsAgain)
           k == Contract!Dispose(b.promise)
<1>1. Shape(c, scenario)
  BY DEF Fits
<1>2. /\ Shape(b, scenario) /\ b.transports = c.transports
      /\ b.promise = Cut(c.promise, StartsAgain)
      /\ b.state = c.state /\ b.tranportIndex = c.tranportIndex
      /\ b.authToken = c.authToken /\ b.contextId = c.contextId
      /\ b.rejected = c.rejected
  BY <1>1, OvertakeOk DEF Cut
<1>3. c' = With(b, "disposed", k)
  BY DEF UserDisposes, With
<1> HIDE DEF b
<1>5. k \in Contract!Promises /\ k.asked = "disposed"
  <2>1. b.promise \in Contract!Promises
    BY <1>2 DEF Shape, Connections
  <2> QED
    BY <2>1, AsksType
<1>6. k = Contract!Dispose(Cut(c.promise, StartsAgain))
  BY <1>2
<1> HIDE DEF k
<1>7. /\ Fits(c', scenario) /\ c'.state = "disposed" /\ c'.promise = k
      /\ c'.transports = b.transports
      /\ c'.tranportIndex = b.tranportIndex
      /\ c'.authToken = b.authToken /\ c'.contextId = b.contextId
      /\ c'.rejected = b.rejected
  <2>1. Shape(b, scenario)
    BY <1>2
  <2> QED
    BY <1>3, <1>5, <2>1, AskedFor
<1>8. Frame /\ authorized' = authorized
  BY FrameOk DEF UserDisposes
<1> QED
  BY <1>2, <1>6, <1>7, <1>8

(* The query is given again, and the new token is to be authorised. *)
Renewed(d, token, context) == AskQuery(d, token, context, TRUE)
Requeried(t, token, context) == UpdateQuery(t, token, context, TRUE).t

(* What Renewed changes.                                                   *)
LEMMA RenewedOk ==
    ASSUME NEW s \in ScenarioRecords, NEW d, Shape(d, s), NEW token \in Nat,
           NEW context \in d.contextId..MaxContexts,
           NEW e, e = Renewed(d, token, context)
    PROVE  /\ Shape(e, s)
           /\ e.state = d.state /\ e.tranportIndex = d.tranportIndex
           /\ e.authToken = token /\ e.contextId = context
           /\ e.promise = d.promise /\ e.rejected = d.rejected
           /\ DOMAIN e.transports = DOMAIN d.transports
           /\ \A j \in DOMAIN d.transports :
                 j # d.tranportIndex => e.transports[j] = d.transports[j]
           /\ HasTransport(e) <=> HasTransport(d)
           /\ HasTransport(d) => Current(e) = Requeried(Current(d), token, context)
           /\ ~HasTransport(d) => e.transports = d.transports
<1>1. PICK yes : yes = TRUE
  OBVIOUS
<1>2. e = AskQuery(d, token, context, yes)
  BY <1>1, Zenon DEF Renewed
<1>3. yes \in BOOLEAN
  BY <1>1
<1>4. UpdateQuery(Current(d), token, context, yes).t = Requeried(Current(d), token, context)
  BY <1>1, Zenon DEF Requeried
<1> QED
  BY <1>2, <1>3, <1>4, AskQueryOk

(* A new token is given to the current transport.                          *)
LEMMA UserGetsTokenOk ==
    ASSUME scenario \in ScenarioRecords, Fits(c, scenario), budget \in 0..MaxEvents,
           UserGetsToken
    PROVE  /\ Fits(c', scenario) /\ Frame /\ authorized' = authorized
           /\ c'.state = c.state /\ c'.promise = c.promise
           /\ c'.tranportIndex = c.tranportIndex
           /\ c'.authToken = c.authToken + 1 /\ c'.contextId = c.contextId
           /\ c'.rejected = FALSE
           /\ DOMAIN c'.transports = DOMAIN c.transports
           /\ \A j \in DOMAIN c.transports :
                 j # c.tranportIndex => c'.transports[j] = c.transports[j]
           /\ HasTransport(c') <=> HasTransport(c)
           /\ HasTransport(c) =>
                 Current(c') = Requeried(Current(c), c.authToken + 1, c.contextId)
           /\ ~HasTransport(c) => c'.transports = c.transports
<1> DEFINE token == c.authToken + 1
           d == Renewed(c, token, c.contextId)
<1>1. /\ token \in Nat /\ c.contextId \in Nat /\ Shape(c, scenario)
      /\ c.contextId \in c.contextId..MaxContexts
  BY BoundsAssumption DEF Fits, Shape, Connections
<1>2. c' = [d EXCEPT !.rejected = FALSE]
  BY DEF UserGetsToken, Renewed
<1> HIDE DEF token
<1>3. /\ Shape(d, scenario)
      /\ d.state = c.state /\ d.tranportIndex = c.tranportIndex
      /\ d.authToken = token /\ d.contextId = c.contextId
      /\ d.promise = c.promise /\ d.rejected = c.rejected
      /\ DOMAIN d.transports = DOMAIN c.transports
      /\ \A j \in DOMAIN c.transports :
            j # c.tranportIndex => d.transports[j] = c.transports[j]
      /\ HasTransport(d) <=> HasTransport(c)
      /\ HasTransport(c) => Current(d) = Requeried(Current(c), token, c.contextId)
      /\ ~HasTransport(c) => d.transports = c.transports
  BY <1>1, RenewedOk
<1> HIDE DEF d
<1>4. d \in Connections
  BY <1>3 DEF Shape
<1>5. /\ c' \in Connections /\ c'.transports = d.transports
      /\ c'.state = d.state /\ c'.tranportIndex = d.tranportIndex
      /\ c'.authToken = d.authToken /\ c'.contextId = d.contextId
      /\ c'.promise = d.promise /\ c'.rejected = FALSE
  BY <1>2, <1>4 DEF Connections
<1>6. Shape(c', scenario)
  <2>1. c'.contextId \in d.contextId..MaxContexts
    BY <1>1, <1>3, <1>5
  <2> QED
    BY <1>3, <1>5, <2>1, ShapeSame
<1>7. Fits(c', scenario)
  BY <1>3, <1>5, <1>6 DEF Fits, Standing
<1>8. (HasTransport(c') <=> HasTransport(d)) /\ Current(c') = Current(d)
  BY <1>5 DEF HasTransport, Current
<1>9. Frame
  <2>1. NoEvent \/ \E kinds : Event(kinds)
    BY DEF UserGetsToken
  <2> QED
    BY <2>1, FrameOk
<1>10. authorized' = authorized
  BY DEF UserGetsToken
<1> QED
  BY <1>3, <1>5, <1>7, <1>8, <1>9, <1>10 DEF token

(* What the user reports is a step of the current transport.               *)
LEMMA UserReportsOk ==
    ASSUME scenario \in ScenarioRecords, Fits(c, scenario), budget \in 0..MaxEvents,
           NEW what, UserReports(what)
    PROVE  /\ c.tranportIndex \in DOMAIN c.transports
           /\ Current(c) # Absent /\ Acted(c.tranportIndex)
<1> DEFINE t == Current(c)
           i == c.tranportIndex
           n == c.contextId
           step == IF what = "orphan" THEN Ws!onOrphanFound(t, Answer(i))
                   ELSE Ws!onSubscribeNetworkError(t, Answer(i))
<1>1. HasTransport(c) /\ t.kind = Ws!Kind /\ Shape(c, scenario) /\ n \in Nat
  BY DEF UserReports, Fits, Shape, Connections
<1>2. i \in DOMAIN c.transports /\ t # Absent /\ Ok(t, scenario.transports[i], n)
  BY <1>1, CurrentOk
<1>3. WsOk(t, n) /\ scenario.transports[i] = Ws!Kind
  BY <1>1, <1>2, KindOf
<1>4. WsStep(step, n)
  BY <1>1, <1>3, WsReports, AnswerOk
<1>5. StepOk(step, scenario.transports[i], n)
  BY <1>3, <1>4 DEF StepOk, WsStep, Ok
<1>6. Frame
  BY FrameOk DEF UserReports
<1>7. c' = Deliver(c, scenario, i, step) /\ authorized' = authorized
  BY DEF UserReports
<1> HIDE DEF step
<1> QED
  BY <1>2, <1>5, <1>6, <1>7 DEF Acted, Frame

-----------------------------------------------------------------------------
(* The invariant.                                                          *)
Inv == /\ Fits(c, scenario)
       /\ authorized \subseteq 0..MaxContexts
       /\ scenario \in Scenarios
       /\ budget \in 0..MaxEvents

(* Such a step keeps the invariant.                                        *)
LEMMA ActedOk ==
    ASSUME Inv, NEW i \in DOMAIN c.transports, c.transports[i] # Absent, Acted(i)
    PROVE  Inv'
<1>1. scenario \in ScenarioRecords
  BY ScenariosAssumption DEF Inv
<1>2. PICK step : /\ StepOk(step, scenario.transports[i], c.contextId)
                  /\ c' = Deliver(c, scenario, i, step)
  BY DEF Acted
<1>3. Fits(c', scenario)
  BY <1>1, <1>2, DeliverOk DEF Inv
<1>4. authorized' \subseteq 0..MaxContexts
  BY DEF Acted, Inv
<1> QED
  BY <1>3, <1>4 DEF Acted, Inv

(* So does one that may overtake what is under way.                        *)
LEMMA BrokenOk ==
    ASSUME Inv, NEW i \in DOMAIN c.transports, c.transports[i] # Absent,
           NEW condition, NEW step,
           StepOk(step, scenario.transports[i], c.contextId),
           c' = Deliver(Overtake(c, condition), scenario, i, step),
           Frame, authorized' = authorized
    PROVE  Inv'
<1> DEFINE d == Overtake(c, condition)
           k == [c.promise EXCEPT !.late = TRUE]
<1>1. scenario \in ScenarioRecords /\ Shape(c, scenario) /\ Standing(c)
      /\ c.promise \in Contract!Promises
  BY ScenariosAssumption DEF Inv, Fits, Shape, Connections
<1>2. d = c \/ d = [c EXCEPT !.promise = k]
  BY DEF Overtake
<1>3. k \in Contract!Promises /\ k.asked = c.promise.asked
  BY <1>1 DEF Contract!Promises
<1> HIDE DEF d, k
<1>4. /\ Shape(d, scenario) /\ d.transports = c.transports
      /\ d.contextId = c.contextId /\ d.state = c.state
      /\ d.promise.asked = c.promise.asked
  BY <1>1, <1>2, <1>3, PromiseOk
<1>5. Fits(d, scenario)
  BY <1>1, <1>4 DEF Fits, Standing
<1>6. Fits(c', scenario)
  BY <1>1, <1>4, <1>5, DeliverOk DEF d
<1> QED
  BY <1>6 DEF Frame, Inv

(* The invariant holds at first.                                           *)
LEMMA InitInv ==
    ASSUME Init
    PROVE  Inv
<1>1. scenario \in ScenarioRecords
  BY ScenariosAssumption DEF Init
<1>2. Fits(c, scenario)
  BY <1>1, NewConnectionOk DEF Init
<1> QED
  BY <1>2, BoundsAssumption DEF Init, Inv

(* Every step keeps the invariant.                                         *)
LEMMA NextInv ==
    ASSUME Inv, [Next]_vars
    PROVE  Inv'
<1>1. scenario \in ScenarioRecords /\ Fits(c, scenario) /\ budget \in 0..MaxEvents
  BY ScenariosAssumption DEF Inv
<1>2. CASE UserStarts
  BY <1>1, <1>2, UserStartsOk DEF Inv, Frame
<1>3. CASE UserStops
  BY <1>1, <1>3, UserStopsOk DEF Inv, Frame
<1>4. CASE UserDisposes
  BY <1>1, <1>4, UserDisposesOk DEF Inv, Frame
<1>5. CASE UserGetsToken
  <2>1. Fits(c', scenario) /\ Frame /\ authorized' = authorized
    BY <1>1, <1>5, UserGetsTokenOk
  <2> QED
    BY <2>1 DEF Inv, Frame
<1>6. CASE \E what \in {"orphan", "networkError"} : UserReports(what)
  BY <1>1, <1>6, UserReportsOk, ActedOk DEF Current
<1>7. CASE \E i \in DOMAIN c.transports :
               WebsocketActs(i) \/ CoreActs(i) \/ LibraryActs(i)
  <2>1. PICK i \in DOMAIN c.transports :
               WebsocketActs(i) \/ CoreActs(i) \/ LibraryActs(i)
    BY <1>7
  <2>2. CASE WebsocketActs(i)
    BY <1>1, <2>2, WsActsOk, ActedOk
  <2>3. CASE LibraryActs(i)
    BY <1>1, <2>3, LibraryActsOk, ActedOk
  <2>4. CASE CoreActs(i)
    <3> DEFINE t == c.transports[i]
    <3>1. t # Absent /\ CoreActed(i)
      BY <1>1, <2>4, CoreActsOk
    <3>2. PICK step : /\ StepOk(step, scenario.transports[i], c.contextId)
                      /\ \/ c' = Deliver(c, scenario, i, step)
                         \/ c' = Deliver(Overtake(c, t.isDisconnecting),
                                         scenario, i, step)
      BY <3>1 DEF CoreActed
    <3>3. Frame /\ authorized' = authorized
      BY <3>1 DEF CoreActed
    <3>4. CASE c' = Deliver(c, scenario, i, step)
      <4>1. Acted(i)
        BY <3>2, <3>3, <3>4 DEF Acted, Frame
      <4> QED
        BY <3>1, <4>1, ActedOk
    <3>5. CASE c' = Deliver(Overtake(c, t.isDisconnecting), scenario, i, step)
      BY <3>1, <3>2, <3>3, <3>5, BrokenOk
    <3> QED
      BY <3>2, <3>4, <3>5
  <2> QED
    BY <2>1, <2>2, <2>3, <2>4
<1>8. CASE UNCHANGED vars
  BY <1>8 DEF vars, Inv
<1> QED
  BY <1>2, <1>3, <1>4, <1>5, <1>6, <1>7, <1>8 DEF Next, User

(* The connection, the transports with all they have under way and the     *)
(* promise have their types in every reachable state: no counter runs over *)
(* its limit, no callback leaves a transport that is none.                 *)
THEOREM TypeCorrect == Spec => []TypeOK
<1>1. Init => Inv
  BY InitInv
<1>2. Inv /\ [Next]_vars => Inv'
  BY NextInv
<1>3. Inv => TypeOK
  BY DEF Inv, Fits, Shape, TypeOK
<1> QED
  BY <1>1, <1>2, <1>3, PTL DEF Spec

(***************************************************************************)
(* 3. The session of a SignalR Core hub                                    *)
(***************************************************************************)

(* What the steps of a hub do, field by field. *)
Kept(u, t) ==
    /\ u.kind = t.kind /\ u.works = t.works
    /\ u.contextId = t.contextId /\ u.authToken = t.authToken

(* The hub t comes up as u with the token in its session, or asks for a    *)
(* renewal.                                                                *)
CoreConnects(u, t, token) ==
    /\ Kept(u, t) /\ u.hub = "connected" /\ u.state = "CONNECTED"
    /\ u.isDisconnecting = t.isDisconnecting
    /\ u.hasTransportError = t.hasTransportError
    /\ u.hasMessage = t.hasMessage
    /\ u.cancels = t.cancels /\ u.closes = t.closes
    /\ u.messageStream /\ u.streaming
    /\ u.sessionToken = token
    /\ \/ u.renewals = t.renewals /\ token = t.authToken
       \/ u.renewals = Append(t.renewals, t.authToken)

(* A hub that has come up asks for a renewal unless its session has the    *)
(* token.                                                                  *)
LEMMA ConnectedIs ==
    ASSUME NEW t, CoreOk(t), t.hub = "connected", NEW out, t.sessionToken = t.lastUsedToken
    PROVE  /\ CoreConnects(Core!Connected(t, out).t, t, t.lastUsedToken)
           /\ Core!Connected(t, out).out = Append(out, "CONNECTED")
<1> DEFINE m == [t EXCEPT !.messageStream = TRUE, !.streaming = TRUE]
           u == [m EXCEPT !.state = "CONNECTED"]
           v == [u EXCEPT !.renewals = Append(@, u.authToken)]
           x == IF t.lastUsedToken # t.authToken THEN Core!renewSession(u) ELSE u
<1>1. t \in Core!Transports
  BY DEF CoreOk
<1>2. /\ u \in Core!Transports
      /\ Kept(u, t) /\ u.hub = "connected" /\ u.state = "CONNECTED"
      /\ u.isDisconnecting = t.isDisconnecting
      /\ u.hasTransportError = t.hasTransportError
      /\ u.hasMessage = t.hasMessage
      /\ u.cancels = t.cancels /\ u.closes = t.closes
      /\ u.messageStream /\ u.streaming
      /\ u.sessionToken = t.sessionToken /\ u.renewals = t.renewals
  BY <1>1 DEF Core!Transports, Core!States, Kept
<1>3. Core!createMessageStream(t) = m
  BY DEF Core!createMessageStream
<1>4. Core!Connected(t, out) = [t |-> x, out |-> Append(out, "CONNECTED")]
  BY <1>3 DEF Core!Connected, Core!Step
<1> HIDE DEF u
<1>5. Core!renewSession(u) = v
  BY <1>2 DEF Core!renewSession
<1>6. /\ Kept(v, u) /\ v.hub = u.hub /\ v.state = u.state
      /\ v.isDisconnecting = u.isDisconnecting
      /\ v.hasTransportError = u.hasTransportError
      /\ v.hasMessage = u.hasMessage
      /\ v.cancels = u.cancels /\ v.closes = u.closes
      /\ v.messageStream = u.messageStream /\ v.streaming = u.streaming
      /\ v.sessionToken = u.sessionToken /\ v.renewals = Append(u.renewals, u.authToken)
  BY <1>2 DEF Core!Transports, Kept
<1> HIDE DEF v
<1>7. CoreConnects(x, t, t.lastUsedToken)
  BY <1>2, <1>5, <1>6 DEF CoreConnects, Kept
<1> QED
  BY <1>4, <1>7

(* A start that is fulfilled: the hub is being stopped already, or is up.  *)
LEMMA StartedIs ==
    ASSUME NEW t, CoreOk(t)
    PROVE  LET step == Core!Started(t)
           IN  \/ /\ t.isDisconnecting /\ step.out = <<>>
                  /\ Kept(step.t, t) /\ step.t.hub = "connected"
                  /\ step.t.isDisconnecting
                  /\ step.t.hasTransportError = t.hasTransportError
                  /\ step.t.hasMessage = t.hasMessage
                  /\ step.t.cancels = t.cancels /\ step.t.closes = t.closes
                  /\ step.t.messageStream = t.messageStream
                  /\ step.t.streaming = t.streaming
                  /\ step.t.renewals = t.renewals
               \/ /\ ~t.isDisconnecting
                  /\ step.out = Append(<<"started">>, "CONNECTED")
                  /\ CoreConnects(step.t, t, t.lastUsedToken)
<1> DEFINE u == [t EXCEPT !.hub = "connected", !.sessionToken = t.lastUsedToken]
<1>1. /\ Core!Started(t) = IF t.isDisconnecting THEN [t |-> u, out |-> <<>>]
                           ELSE Core!Connected(u, <<"started">>)
  BY DEF Core!Started, Core!Step
<1>2. /\ CoreOk(u) /\ Kept(u, t) /\ u.hub = "connected"
      /\ u.isDisconnecting = t.isDisconnecting
      /\ u.hasTransportError = t.hasTransportError
      /\ u.hasMessage = t.hasMessage
      /\ u.cancels = t.cancels /\ u.closes = t.closes
      /\ u.messageStream = t.messageStream /\ u.streaming = t.streaming
      /\ u.renewals = t.renewals /\ u.sessionToken = u.lastUsedToken
      /\ u.lastUsedToken = t.lastUsedToken
  BY DEF CoreOk, Core!Transports, Core!Hubs, Kept
<1> HIDE DEF u
<1>3. /\ CoreConnects(Core!Connected(u, <<"started">>).t, u, u.lastUsedToken)
      /\ Core!Connected(u, <<"started">>).out = Append(<<"started">>, "CONNECTED")
  BY <1>2, ConnectedIs
<1>4. CASE t.isDisconnecting
  <2> DEFINE step == Core!Started(t)
  <2>1. step.t = u /\ step.out = <<>>
    BY <1>1, <1>4
  <2> HIDE DEF step
  <2>2. u.isDisconnecting
    BY <1>2, <1>4
  <2>3. step.t.isDisconnecting
    BY <2>1, <2>2
  <2>4. /\ t.isDisconnecting /\ step.out = <<>>
        /\ Kept(step.t, t) /\ step.t.hub = "connected"
        /\ step.t.hasTransportError = t.hasTransportError
        /\ step.t.hasMessage = t.hasMessage
        /\ step.t.cancels = t.cancels /\ step.t.closes = t.closes
        /\ step.t.messageStream = t.messageStream
        /\ step.t.streaming = t.streaming
        /\ step.t.renewals = t.renewals
    BY <1>2, <1>4, <2>1
  <2> QED
    BY <2>3, <2>4 DEF step
<1>5. CASE ~t.isDisconnecting
  <2>1. CoreConnects(Core!Connected(u, <<"started">>).t, t, t.lastUsedToken)
    BY <1>2, <1>3 DEF CoreConnects, Kept
  <2> QED
    BY <1>1, <1>3, <1>5, <2>1
<1> QED
  BY <1>4, <1>5

(* A reconnect that succeeds.                                              *)
LEMMA ReconnectedIs ==
    ASSUME NEW t, CoreOk(t)
    PROVE  /\ Core!onreconnected(t).out = Append(<<>>, "CONNECTED")
           /\ CoreConnects(Core!onreconnected(t).t, t, t.lastUsedToken)
<1> DEFINE u == [t EXCEPT !.hub = "connected", !.retries = 0,
                          !.sessionToken = t.lastUsedToken]
<1>1. Core!onreconnected(t) = Core!Connected(u, <<>>)
  BY DEF Core!onreconnected
<1>2. /\ CoreOk(u) /\ Kept(u, t) /\ u.hub = "connected"
      /\ u.isDisconnecting = t.isDisconnecting
      /\ u.hasTransportError = t.hasTransportError
      /\ u.hasMessage = t.hasMessage
      /\ u.cancels = t.cancels /\ u.closes = t.closes
      /\ u.renewals = t.renewals /\ u.sessionToken = u.lastUsedToken
      /\ u.lastUsedToken = t.lastUsedToken
  <2>1. 0 \in 0..MaxRetries
    BY TransportsAssumption
  <2> QED
    BY <2>1 DEF CoreOk, Core!Transports, Core!Hubs, Kept
<1> HIDE DEF u
<1>3. /\ CoreConnects(Core!Connected(u, <<>>).t, u, u.lastUsedToken)
      /\ Core!Connected(u, <<>>).out = Append(<<>>, "CONNECTED")
  BY <1>2, ConnectedIs
<1>4. CoreConnects(Core!Connected(u, <<>>).t, t, t.lastUsedToken)
  BY <1>2, <1>3 DEF CoreConnects, Kept
<1> QED
  BY <1>1, <1>3, <1>4

(* A start that is rejected.                                               *)
LEMMA StartFailsIs ==
    ASSUME NEW t, CoreOk(t)
    PROVE  /\ Core!StartFails(t).out = <<"fail">>
           /\ Kept(Core!StartFails(t).t, t) /\ Core!StartFails(t).t.hub = "failed"
BY DEF CoreOk, Core!Transports, Kept, Core!StartFails, Core!Step

(* A hub that closes.                                                      *)
LEMMA ClosureIs ==
    ASSUME NEW t, CoreOk(t)
    PROVE  LET step == Core!handleConnectionClosure(t)
           IN  /\ step.t.hub = "none" /\ Kept(step.t, t)
               /\ step.out = IF t.hasTransportError THEN <<"fail">>
                             ELSE <<"DISCONNECTED">>
<1> DEFINE u == [t EXCEPT !.hub = "none",
                          !.messageStream = FALSE,
                          !.streaming = FALSE,
                          !.hasMessage = FALSE,
                          !.isDisconnecting = FALSE,
                          !.hasStreamingStarted = FALSE,
                          !.hasTransportError = FALSE,
                          !.retries = 0,
                          !.cancels = 0, !.closes = 0,
                          !.renewals = <<>>]
           v == [u EXCEPT !.state = "DISCONNECTED"]
<1>1. Core!handleConnectionClosure(t) =
         IF t.hasTransportError THEN [t |-> u, out |-> <<"fail">>]
         ELSE [t |-> v, out |-> <<"DISCONNECTED">>]
  BY DEF Core!handleConnectionClosure, Core!SetState, Core!Step
<1>2. t \in Core!Transports
  BY DEF CoreOk
<1>3. u.hub = "none" /\ Kept(u, t) /\ v.hub = u.hub /\ Kept(v, u)
  BY <1>2 DEF Core!Transports, Kept
<1> HIDE DEF u, v
<1> QED
  BY <1>1, <1>3 DEF Kept

(* A link that breaks.                                                     *)
LEMMA ReconnectingIs ==
    ASSUME NEW t, CoreOk(t)
    PROVE  LET step == Core!onreconnecting(t)
           IN  /\ step.t.hub = IF t.closes > 0 THEN "disconnecting" ELSE "reconnecting"
               /\ Kept(step.t, t)
               /\ step.out = <<"RECONNECTING">> /\ step.t.state = "RECONNECTING"
               /\ step.t.isDisconnecting = t.isDisconnecting
               /\ step.t.hasTransportError = t.hasTransportError
               /\ step.t.hasMessage = t.hasMessage
               /\ step.t.cancels = 0 /\ step.t.closes = 0
               /\ step.t.messageStream = t.messageStream
               /\ ~step.t.streaming /\ step.t.renewals = <<>>
<1> DEFINE h == IF t.closes > 0 THEN "disconnecting" ELSE "reconnecting"
           u == [t EXCEPT !.hub = h, !.lastUsedToken = t.authToken,
                          !.streaming = FALSE, !.retries = 1,
                          !.cancels = 0, !.closes = 0, !.renewals = <<>>]
           v == [u EXCEPT !.state = "RECONNECTING"]
<1>1. Core!onreconnecting(t) = [t |-> v, out |-> <<"RECONNECTING">>]
  BY DEF Core!onreconnecting, Core!SetState, Core!Step
<1>2. t \in Core!Transports
  BY DEF CoreOk
<1>3. /\ v.hub = h /\ Kept(v, t) /\ v.state = "RECONNECTING"
      /\ v.isDisconnecting = t.isDisconnecting
      /\ v.hasTransportError = t.hasTransportError
      /\ v.hasMessage = t.hasMessage
      /\ v.cancels = 0 /\ v.closes = 0
      /\ v.messageStream = t.messageStream
      /\ ~v.streaming /\ v.renewals = <<>>
  BY <1>2 DEF Core!Transports, Kept
<1> HIDE DEF v
<1> QED
  BY <1>1, <1>3

(* A step that only concerns the counts of the stop and the stream. *)
CoreSame(u, t) ==
    /\ Kept(u, t) /\ u.state = t.state
    /\ u.renewals = t.renewals /\ u.sessionToken = t.sessionToken

(* A further try.                                                          *)
LEMMA RetriesIs ==
    ASSUME NEW t, CoreOk(t)
    PROVE  LET step == Core!Retries(t)
           IN  /\ CoreSame(step.t, t) /\ step.out = <<>> /\ step.t.hub = t.hub
               /\ step.t.isDisconnecting = t.isDisconnecting
               /\ step.t.hasTransportError = t.hasTransportError
               /\ step.t.hasMessage = t.hasMessage
               /\ step.t.cancels = t.cancels /\ step.t.closes = t.closes
               /\ step.t.messageStream = t.messageStream
               /\ step.t.streaming = t.streaming
BY DEF CoreOk, Core!Transports, Kept, CoreSame, Core!Retries, Core!Step

(* The stream has been cancelled.                                          *)
LEMMA CancelledIs ==
    ASSUME NEW t, CoreOk(t)
    PROVE  LET step == Core!StreamCancelled(t)
           IN  /\ CoreSame(step.t, t) /\ step.out = <<>> /\ step.t.hub = t.hub
               /\ step.t.isDisconnecting = t.isDisconnecting
               /\ step.t.hasTransportError = t.hasTransportError
               /\ step.t.hasMessage = t.hasMessage
               /\ step.t.cancels = t.cancels - 1 /\ step.t.closes = t.closes + 1
               /\ step.t.messageStream = t.messageStream
               /\ ~step.t.streaming
BY DEF CoreOk, Core!Transports, Kept, CoreSame, Core!StreamCancelled, Core!Step

(* CloseConnection has been answered.                                      *)
LEMMA CloseAnsweredIs ==
    ASSUME NEW t, CoreOk(t)
    PROVE  LET step == Core!CloseAnswered(t)
           IN  /\ CoreSame(step.t, t)
               /\ step.t.hub = CASE t.hub = "connecting" -> "failed"
                                 [] t.hub \in {"connected", "reconnecting"} -> "disconnecting"
                                 [] OTHER -> t.hub
               /\ step.out = IF t.hub = "connecting" THEN <<"fail">> ELSE <<>>
               /\ step.t.isDisconnecting = t.isDisconnecting
               /\ step.t.hasTransportError = t.hasTransportError
               /\ step.t.hasMessage = t.hasMessage
               /\ step.t.cancels = t.cancels /\ step.t.closes = t.closes - 1
               /\ step.t.messageStream = t.messageStream
               /\ step.t.streaming = t.streaming
<1> DEFINE u == [t EXCEPT !.closes = @ - 1]
           v == [u EXCEPT !.hub = "failed"]
           w == [u EXCEPT !.hub = "disconnecting"]
<1>1. t \in Core!Transports
  BY DEF CoreOk
<1>2. Core!CloseAnswered(t) =
         CASE t.hub = "connecting" -> [t |-> v, out |-> <<"fail">>]
           [] t.hub \in {"connected", "reconnecting"} -> [t |-> w, out |-> <<>>]
           [] OTHER -> [t |-> u, out |-> <<>>]
  BY DEF Core!CloseAnswered, Core!StartFails, Core!Step
<1>3. /\ CoreSame(u, t) /\ u.hub = t.hub
      /\ u.isDisconnecting = t.isDisconnecting
      /\ u.hasTransportError = t.hasTransportError /\ u.hasMessage = t.hasMessage
      /\ u.cancels = t.cancels /\ u.closes = t.closes - 1
      /\ u.messageStream = t.messageStream /\ u.streaming = t.streaming
  BY <1>1 DEF Core!Transports, CoreSame, Kept
<1>4. /\ CoreSame(v, t) /\ v.hub = "failed"
      /\ v.isDisconnecting = t.isDisconnecting
      /\ v.hasTransportError = t.hasTransportError /\ v.hasMessage = t.hasMessage
      /\ v.cancels = t.cancels /\ v.closes = t.closes - 1
      /\ v.messageStream = t.messageStream /\ v.streaming = t.streaming
  BY <1>1 DEF Core!Transports, CoreSame, Kept
<1>5. /\ CoreSame(w, t) /\ w.hub = "disconnecting"
      /\ w.isDisconnecting = t.isDisconnecting
      /\ w.hasTransportError = t.hasTransportError /\ w.hasMessage = t.hasMessage
      /\ w.cancels = t.cancels /\ w.closes = t.closes - 1
      /\ w.messageStream = t.messageStream /\ w.streaming = t.streaming
  BY <1>1 DEF Core!Transports, CoreSame, Kept
<1> HIDE DEF u, v, w
<1>6. CASE t.hub = "connecting"
  BY <1>2, <1>4, <1>6
<1>7. CASE t.hub \in {"connected", "reconnecting"}
  BY <1>2, <1>5, <1>7
<1>8. CASE t.hub \notin {"connecting", "connected", "reconnecting"}
  BY <1>2, <1>3, <1>8
<1> QED
  BY <1>6, <1>7, <1>8

(* The hub u is t, to be stopped. *)
CoreHalts(u, t) ==
    /\ CoreSame(u, t) /\ u.hub = t.hub
    /\ u.isDisconnecting /\ u.cancels + u.closes > 0
    /\ u.hasMessage = t.hasMessage
    /\ u.messageStream = t.messageStream /\ u.streaming = t.streaming

(* stop of a hub: the chain of stop is under way, unless its link is down. *)
LEMMA StopIs ==
    ASSUME NEW t, CoreOk(t), t.hub # "none", NEW error \in BOOLEAN,
           NEW u, u = Core!stop(t, error)
    PROVE  /\ CoreSame(u, t) /\ u.hub = t.hub /\ u.isDisconnecting
           /\ u.hasTransportError => t.hasTransportError \/ error
           /\ u.hasMessage = t.hasMessage
           /\ u.messageStream = t.messageStream /\ u.streaming = t.streaming
           /\ u.cancels + u.closes >= t.cancels + t.closes
           /\ t.hub \in {"connecting", "connected"} /\ (t.messageStream => t.hub = "connected")
                => u.cancels + u.closes > 0
<1> DEFINE e == t.hasTransportError \/ error
           a == IF t.messageStream /\ t.hub = "connected" THEN t.cancels + 1 ELSE t.cancels
           b == IF t.messageStream THEN t.closes ELSE t.closes + 1
<1>1. t \in Core!Transports /\ t.cancels \in Nat /\ t.closes \in Nat
  BY DEF CoreOk, Core!Transports
<1>2. u = [t EXCEPT !.isDisconnecting = TRUE, !.hasTransportError = e,
                    !.cancels = a, !.closes = b]
  BY DEF Core!stop
<1>3. e => t.hasTransportError \/ error
  OBVIOUS
<1>4. /\ a \in Nat /\ b \in Nat /\ a >= t.cancels /\ b >= t.closes
      /\ t.hub \in {"connecting", "connected"} /\ (t.messageStream => t.hub = "connected")
            => a + b > 0
  BY <1>1
<1> HIDE DEF a, b, e
<1>5. /\ CoreSame(u, t) /\ u.hub = t.hub /\ u.isDisconnecting
      /\ u.hasMessage = t.hasMessage
      /\ u.messageStream = t.messageStream /\ u.streaming = t.streaming
      /\ u.cancels = a /\ u.closes = b /\ u.hasTransportError = e
  BY <1>1, <1>2 DEF Core!Transports, CoreSame, Kept
<1> QED
  BY <1>1, <1>3, <1>4, <1>5

(* A hub that is up is told to stop: the chain of stop is under way. *)
LEMMA HaltIs ==
    ASSUME NEW t, CoreOk(t), t.hub = "connected"
    PROVE  /\ CoreHalts(Core!stop(t, FALSE), t)
           /\ Core!stop(t, FALSE).hasTransportError => t.hasTransportError
           /\ CoreHalts(Core!stop(t, TRUE), t)
<1> DEFINE e == t.hasTransportError \/ FALSE
           a == IF t.messageStream /\ t.hub = "connected" THEN t.cancels + 1 ELSE t.cancels
           b == IF t.messageStream THEN t.closes ELSE t.closes + 1
           u == [t EXCEPT !.isDisconnecting = TRUE, !.hasTransportError = e,
                          !.cancels = a, !.closes = b]
           v == [t EXCEPT !.isDisconnecting = TRUE,
                          !.hasTransportError = t.hasTransportError \/ TRUE,
                          !.cancels = a, !.closes = b]
<1>1. t \in Core!Transports /\ t.cancels \in Nat /\ t.closes \in Nat
  BY DEF CoreOk, Core!Transports
<1>2. Core!stop(t, FALSE) = u /\ Core!stop(t, TRUE) = v
  BY DEF Core!stop
<1>3. e => t.hasTransportError
  OBVIOUS
<1>4. a \in Nat /\ b \in Nat /\ a + b > 0
  BY <1>1
<1> HIDE DEF a, b, e
<1>5. CoreHalts(u, t) /\ u.hasTransportError = e
  BY <1>1, <1>4 DEF Core!Transports, CoreHalts, CoreSame, Kept
<1>6. CoreHalts(v, t)
  BY <1>1, <1>4 DEF Core!Transports, CoreHalts, CoreSame, Kept
<1> HIDE DEF u, v
<1> QED
  BY <1>2, <1>3, <1>5, <1>6

(* A message: it is read, or else the hub is stopped.                      *)
LEMMA ReadsIs ==
    ASSUME NEW t, CoreOk(t), t.hub = "connected", NEW parses \in BOOLEAN,
           NEW step, step = Core!handleNextMessage(t, parses)
    PROVE  \/ /\ parses /\ step.out = <<"received">>
              /\ CoreSame(step.t, t) /\ step.t.hub = t.hub
              /\ step.t.isDisconnecting = t.isDisconnecting
              /\ step.t.hasTransportError = t.hasTransportError
              /\ step.t.cancels = t.cancels /\ step.t.closes = t.closes
              /\ step.t.messageStream = t.messageStream
              /\ step.t.streaming = t.streaming
           \/ ~parses /\ step.out = <<>> /\ CoreHalts(step.t, t)
<1> DEFINE u == [t EXCEPT !.hasStreamingStarted = TRUE]
           v == [u EXCEPT !.hasMessage = TRUE]
<1>1. /\ CoreOk(u) /\ CoreSame(u, t) /\ u.hub = t.hub
      /\ u.isDisconnecting = t.isDisconnecting
      /\ u.hasTransportError = t.hasTransportError
      /\ u.hasMessage = t.hasMessage
      /\ u.cancels = t.cancels /\ u.closes = t.closes
      /\ u.messageStream = t.messageStream /\ u.streaming = t.streaming
  BY DEF CoreOk, Core!Transports, CoreSame, Kept
<1>2. step = IF parses THEN [t |-> v, out |-> <<"received">>]
             ELSE [t |-> Core!stop(u, TRUE), out |-> <<>>]
  BY DEF Core!handleNextMessage, Core!Step
<1> HIDE DEF u
<1>3. CASE parses
  <2>1. /\ CoreSame(v, u) /\ v.hub = u.hub
        /\ v.isDisconnecting = u.isDisconnecting
        /\ v.hasTransportError = u.hasTransportError
        /\ v.cancels = u.cancels /\ v.closes = u.closes
        /\ v.messageStream = u.messageStream /\ v.streaming = u.streaming
    BY <1>1 DEF CoreOk, Core!Transports, CoreSame, Kept
  <2> HIDE DEF v
  <2>2. step.t = v /\ step.out = <<"received">>
    BY <1>2, <1>3
  <2> QED
    BY <1>1, <1>3, <2>1, <2>2 DEF CoreSame, Kept
<1>4. CASE ~parses
  <2>1. step.t = Core!stop(u, TRUE) /\ step.out = <<>>
    BY <1>2, <1>4
  <2>2. CoreHalts(Core!stop(u, TRUE), u)
    BY <1>1, HaltIs
  <2> QED
    BY <1>1, <1>4, <2>1, <2>2 DEF CoreHalts, CoreSame, Kept
<1> QED
  BY <1>3, <1>4

(* The stream is over: the hub is stopped, or stays up without it. *)
CoreSilent(u, t) ==
    /\ CoreSame(u, t) /\ u.hub = t.hub /\ u.hasMessage = t.hasMessage /\ ~u.streaming
    /\ u.hasTransportError => t.hasTransportError
    /\ \/ u.isDisconnecting /\ u.cancels + u.closes > 0
       \/ /\ u.isDisconnecting = t.isDisconnecting
          /\ u.cancels = t.cancels /\ u.closes = t.closes
          /\ u.messageStream = t.messageStream

(* A stream that is over.                                                  *)
LEMMA StreamEndsIs ==
    ASSUME NEW t, CoreOk(t), t.hub = "connected",
           NEW step \in {Core!StreamCompletes(t), Core!handleMessageStreamError(t)}
    PROVE  step.out = <<>> /\ CoreSilent(step.t, t)
<1> DEFINE u == [t EXCEPT !.streaming = FALSE]
           v == [u EXCEPT !.messageStream = FALSE]
           w == [t EXCEPT !.streaming = FALSE, !.messageStream = FALSE]
<1>1. /\ CoreOk(u) /\ CoreSame(u, t) /\ u.hub = t.hub /\ ~u.streaming
      /\ u.isDisconnecting = t.isDisconnecting
      /\ u.hasTransportError = t.hasTransportError
      /\ u.hasMessage = t.hasMessage
      /\ u.cancels = t.cancels /\ u.closes = t.closes
      /\ u.messageStream = t.messageStream
  BY DEF CoreOk, Core!Transports, CoreSame, Kept
<1>2. /\ CoreOk(w) /\ CoreSame(w, t) /\ w.hub = t.hub /\ ~w.streaming
      /\ w.hasTransportError = t.hasTransportError
      /\ w.hasMessage = t.hasMessage
  BY DEF CoreOk, Core!Transports, CoreSame, Kept
<1>3. v = w
  BY DEF CoreOk, Core!Transports
<1>4. \/ step = [t |-> u, out |-> <<>>]
      \/ step = [t |-> Core!stop(w, FALSE), out |-> <<>>]
  BY <1>3 DEF Core!StreamCompletes, Core!handleMessageStreamError, Core!Step
<1> HIDE DEF u, v, w
<1>5. CASE step = [t |-> u, out |-> <<>>]
  BY <1>1, <1>5 DEF CoreSilent
<1>6. CASE step = [t |-> Core!stop(w, FALSE), out |-> <<>>]
  <2>1. /\ CoreHalts(Core!stop(w, FALSE), w)
        /\ Core!stop(w, FALSE).hasTransportError => w.hasTransportError
    BY <1>2, HaltIs
  <2>2. step.t = Core!stop(w, FALSE) /\ step.out = <<>>
    BY <1>6
  <2>3. step.t.streaming = w.streaming
    BY <2>1, <2>2 DEF CoreHalts
  <2>4. ~step.t.streaming
    BY <1>2, <2>3
  <2> QED
    BY <1>2, <2>1, <2>2, <2>4 DEF CoreSilent, CoreHalts, CoreSame, Kept
<1> QED
  BY <1>4, <1>5, <1>6

(* Only the renewals of the session change. *)
CoreStill(u, t) ==
    /\ Kept(u, t) /\ u.state = t.state /\ u.hub = t.hub
    /\ u.isDisconnecting = t.isDisconnecting
    /\ u.hasTransportError = t.hasTransportError
    /\ u.hasMessage = t.hasMessage
    /\ u.cancels = t.cancels /\ u.closes = t.closes
    /\ u.messageStream = t.messageStream /\ u.streaming = t.streaming

(* The hub is told to stop, whatever becomes of its renewals. *)
CoreEnds(u, t) ==
    /\ Kept(u, t) /\ u.state = t.state /\ u.hub = t.hub
    /\ u.isDisconnecting /\ u.cancels + u.closes > 0
    /\ u.hasMessage = t.hasMessage
    /\ u.messageStream = t.messageStream /\ u.streaming = t.streaming

(* What an answer to a renewal may lead to.                                *)
LEMMA RenewIs ==
    ASSUME NEW t, CoreOk(t), t.hub = "connected", t.renewals # <<>>, NEW status,
           NEW step, step = Core!RenewAnswered(t, status)
    PROVE  \/ /\ CoreStill(step.t, t) /\ step.out = <<>>
              /\ step.t.renewals = Tail(t.renewals)
              /\ step.t.sessionToken = Head(t.renewals)
           \/ /\ CoreStill(step.t, t)
              /\ step.out = IF t.authToken = Head(t.renewals)
                            THEN <<"unauthorized">> ELSE <<>>
              /\ step.t.renewals = Tail(t.renewals)
              /\ step.t.sessionToken = t.sessionToken
           \/ /\ CoreStill(step.t, t) /\ step.out = <<>>
              /\ step.t.renewals = IF t.state = "CONNECTED"
                                   THEN Append(Tail(t.renewals), t.authToken)
                                   ELSE Tail(t.renewals)
              /\ step.t.sessionToken = t.sessionToken
           \/ CoreEnds(step.t, t) /\ step.out = <<>> /\ status # "success"
<1> DEFINE token == Head(t.renewals)
           rest == Tail(t.renewals)
           u == [t EXCEPT !.renewals = rest]
           v == [u EXCEPT !.sessionToken = token]
           w == [u EXCEPT !.renewals = Append(@, u.authToken)]
           out == IF t.authToken = token THEN <<"unauthorized">> ELSE <<>>
           a == Core!stop(u, FALSE)
           b == Core!stop(u, TRUE)
           r == Core!renewSession(u)
<1>1. t \in Core!Transports /\ rest \in Seq(Nat) /\ token \in Nat
  BY DEF CoreOk, Core!Transports
<1>2. step = CASE status = "success" -> [t |-> v, out |-> <<>>]
               [] status = "invalidToken" -> [t |-> u, out |-> out]
               [] status = "sessionNotFound" -> [t |-> a, out |-> <<>>]
               [] status = "unknown" -> [t |-> b, out |-> <<>>]
               [] OTHER -> [t |-> r, out |-> <<>>]
  BY DEF Core!RenewAnswered, Core!Step
<1> HIDE DEF token, rest, out
<1>3. /\ CoreOk(u) /\ CoreStill(u, t) /\ u.renewals = rest
      /\ u.sessionToken = t.sessionToken /\ u.hub = "connected"
  BY <1>1 DEF CoreOk, Core!Transports, CoreStill, Kept
<1>4. CoreStill(v, t) /\ v.renewals = rest /\ v.sessionToken = token
  BY <1>1 DEF Core!Transports, CoreStill, Kept
<1>5. CoreStill(w, t) /\ w.renewals = Append(rest, t.authToken)
      /\ w.sessionToken = t.sessionToken
  BY <1>1 DEF Core!Transports, CoreStill, Kept
<1>6. r = IF t.state = "CONNECTED" THEN w ELSE u
  BY <1>1, <1>3 DEF Core!renewSession, CoreStill
<1> HIDE DEF u, v, w
<1>7. CoreHalts(Core!stop(u, FALSE), u) /\ CoreHalts(Core!stop(u, TRUE), u)
  BY <1>3, HaltIs
<1>8. CoreEnds(a, t) /\ CoreEnds(b, t)
  BY <1>3, <1>7 DEF CoreHalts, CoreSame, CoreStill, CoreEnds, Kept
<1> HIDE DEF a, b, r
<1>9. CASE status = "success"
  BY <1>2, <1>4, <1>9 DEF token, rest
<1>10. CASE status = "invalidToken"
  BY <1>2, <1>3, <1>10 DEF token, rest, out
<1>11. CASE status \in {"sessionNotFound", "unknown"}
  <2>1. step.out = <<>> /\ step.t \in {a, b}
    BY <1>2, <1>11
  <2> QED
    BY <1>8, <1>11, <2>1
<1>12. CASE status \notin {"success", "invalidToken", "sessionNotFound", "unknown"}
  <2>1. step.out = <<>> /\ step.t = IF t.state = "CONNECTED" THEN w ELSE u
    BY <1>2, <1>6, <1>12
  <2> QED
    BY <1>3, <1>5, <2>1 DEF rest
<1> QED
  BY <1>9, <1>10, <1>11, <1>12

(* What holds of the hub t of a connection d that has not been disposed    *)
(* of, and that is true also between a rejection and its callback.         *)
Bound(t, d) ==
    /\ t.hub # "none" => t.authToken = d.authToken
    /\ t.hub \in {"connecting", "reconnecting"} =>
          t.renewals = <<>> /\ t.state # "CONNECTED"
    /\ t.hub = "connected" /\ ~t.isDisconnecting =>
          /\ t.state = "CONNECTED"
          /\ t.renewals # <<>> => t.renewals[Len(t.renewals)] = t.authToken

(* With no renewal in flight, the session has the token or it was rejected. *)
Sess(t, d) ==
    /\ Bound(t, d)
    /\ t.hub = "connected" /\ ~t.isDisconnecting /\ t.renewals = <<>> =>
          d.rejected \/ t.sessionToken = t.authToken

(* What holds of the current hub.                                          *)
Session(d) ==
    d.state # "disposed" /\ HasTransport(d) /\ Is(Current(d), Core!Kind)
        => Sess(Current(d), d)

(* A hub that comes up has the token, or a renewal for it in flight.       *)
LEMMA SessConnects ==
    ASSUME NEW t, CoreOk(t), t.hub \in {"connecting", "reconnecting"}, NEW d, Sess(t, d),
           NEW u, CoreConnects(u, t, t.lastUsedToken)
    PROVE  Sess(u, d)
<1>1. t.renewals = <<>> /\ t.authToken = d.authToken
  BY DEF Sess, Bound
<1>2. /\ u.hub = "connected" /\ u.state = "CONNECTED" /\ u.authToken = t.authToken
      /\ u.sessionToken = t.lastUsedToken
      /\ \/ u.renewals = <<>> /\ t.lastUsedToken = t.authToken
         \/ u.renewals = Append(<<>>, t.authToken)
  BY <1>1 DEF CoreConnects, Kept
<1>3. Append(<<>>, t.authToken) # <<>>
      /\ Append(<<>>, t.authToken)[Len(Append(<<>>, t.authToken))] = t.authToken
  OBVIOUS
<1> QED
  BY <1>1, <1>2, <1>3 DEF Sess, Bound

(* A step that leaves session and renewals alone.                          *)
LEMMA SessSame ==
    ASSUME NEW t, NEW d, Sess(t, d), NEW u, CoreSame(u, t),
           \/ u.hub = t.hub /\ (u.isDisconnecting \/ u.isDisconnecting = t.isDisconnecting)
           \/ u.hub \in {"failed", "disconnecting"} /\ t.hub # "none"
    PROVE  Sess(u, d)
BY DEF Sess, Bound, CoreSame, Kept

(* The first element of a sequence, and the others.                        *)
LEMMA TailIs ==
    ASSUME NEW S, NEW q \in Seq(S), q # <<>>
    PROVE  /\ Len(q) \in Nat \ {0} /\ Tail(q) \in Seq(S) /\ Len(Tail(q)) = Len(q) - 1
           /\ Head(q) = q[1]
           /\ Tail(q) # <<>> => Tail(q)[Len(Tail(q))] = q[Len(q)]
           /\ Tail(q) = <<>> => Head(q) = q[Len(q)]
<1>1. /\ Len(q) \in Nat \ {0} /\ Tail(q) \in Seq(S) /\ Len(Tail(q)) = Len(q) - 1
      /\ Head(q) = q[1]
  OBVIOUS
<1>2. \A i \in 1..Len(Tail(q)) : Tail(q)[i] = q[i + 1]
  OBVIOUS
<1>3. ASSUME Tail(q) # <<>> PROVE Len(Tail(q)) \in 1..Len(Tail(q))
  <2>1. Len(Tail(q)) # 0
    BY <1>1, <1>3
  <2> QED
    BY <1>1, <2>1
<1>4. Tail(q) # <<>> => Tail(q)[Len(Tail(q))] = q[Len(q)]
  BY <1>1, <1>2, <1>3
<1>5. ASSUME Tail(q) = <<>> PROVE Head(q) = q[Len(q)]
  <2> DEFINE r == Tail(q)
             n == Len(q)
  <2>0. r = <<>> /\ Len(r) = n - 1 /\ n \in Nat
    BY <1>1, <1>5
  <2> HIDE DEF r, n
  <2>1. Len(r) = 0
    BY <2>0
  <2>2. n = 1
    BY <2>0, <2>1
  <2> QED
    BY <1>1, <2>2 DEF n
<1> QED
  BY <1>1, <1>4, <1>5

(* The last element of a sequence that was appended to.                    *)
LEMMA AppendIs ==
    ASSUME NEW S, NEW q \in Seq(S), NEW x \in S
    PROVE  Append(q, x) # <<>> /\ Append(q, x)[Len(Append(q, x))] = x
<1>1. Len(Append(q, x)) = Len(q) + 1 /\ Len(q) \in Nat
  OBVIOUS
<1>2. Append(q, x)[Len(q) + 1] = x
  OBVIOUS
<1>3. Append(q, x) # <<>>
  BY <1>1
<1> QED
  BY <1>1, <1>2, <1>3

(* The answer to a renewal keeps what was said of the session, or tells of *)
(* the rejection.                                                          *)
LEMMA SessRenews ==
    ASSUME NEW t, CoreOk(t), t.hub = "connected", t.renewals # <<>>, NEW d, Sess(t, d),
           NEW status, NEW step, step = Core!RenewAnswered(t, status)
    PROVE  Bound(step.t, d) /\ (Sess(step.t, d) \/ step.out = <<"unauthorized">>)
<1> DEFINE u == step.t
           rest == Tail(t.renewals)
           m == Len(t.renewals)
<1>1. /\ t.renewals \in Seq(Nat) /\ rest \in Seq(Nat) /\ m \in Nat \ {0}
      /\ Len(rest) = m - 1 /\ Head(t.renewals) = t.renewals[1]
      /\ rest # <<>> => rest[Len(rest)] = t.renewals[m]
      /\ rest = <<>> => Head(t.renewals) = t.renewals[m]
  <2>1. t.renewals \in Seq(Nat)
    BY DEF CoreOk, Core!Transports
  <2> QED
    BY <2>1, TailIs
<1>2. /\ Append(rest, t.authToken) # <<>>
      /\ Append(rest, t.authToken)[Len(Append(rest, t.authToken))] = t.authToken
  <2>1. rest \in Seq(Nat) /\ t.authToken \in Nat
    BY <1>1 DEF CoreOk, Core!Transports
  <2> HIDE DEF rest
  <2> QED
    BY <2>1, AppendIs
<1>3. t.authToken = d.authToken
      /\ (~t.isDisconnecting => t.state = "CONNECTED" /\ t.renewals[m] = t.authToken)
  BY DEF Sess, Bound
<1> HIDE DEF rest, m
<1>4. CASE /\ CoreStill(u, t) /\ step.out = <<>>
           /\ u.renewals = rest /\ u.sessionToken = Head(t.renewals)
  BY <1>1, <1>3, <1>4 DEF Sess, Bound, CoreStill, Kept
<1>5. CASE /\ CoreStill(u, t)
           /\ step.out = IF t.authToken = Head(t.renewals)
                         THEN <<"unauthorized">> ELSE <<>>
           /\ u.renewals = rest
  <2>1. Bound(u, d)
    BY <1>1, <1>3, <1>5 DEF Bound, CoreStill, Kept
  <2>2. CASE t.authToken = Head(t.renewals)
    BY <1>5, <2>1, <2>2
  <2>3. CASE t.authToken # Head(t.renewals)
    BY <1>1, <1>3, <1>5, <2>1, <2>3 DEF Sess, CoreStill, Kept
  <2> QED
    BY <2>2, <2>3
<1>6. CASE /\ CoreStill(u, t)
           /\ u.renewals = IF t.state = "CONNECTED"
                           THEN Append(rest, t.authToken) ELSE rest
  BY <1>1, <1>2, <1>3, <1>6 DEF Sess, Bound, CoreStill, Kept
<1>7. CASE CoreEnds(u, t)
  BY <1>3, <1>7 DEF Sess, Bound, CoreEnds, Kept
<1> QED
  BY <1>4, <1>5, <1>6, <1>7, RenewIs DEF rest

(* So does each step a hub makes.                                          *)
LEMMA SessMakes ==
    ASSUME NEW t, CoreOk(t), NEW d, Sess(t, d), NEW events, NEW step,
           CoreMakes(t, step, events)
    PROVE  Bound(step.t, d) /\ (Sess(step.t, d) \/ step.out = <<"unauthorized">>)
<1>0. ASSUME Sess(step.t, d) PROVE Bound(step.t, d)
  BY <1>0 DEF Sess
<1>1. CASE t.hub = "connecting" /\ step = Core!Started(t)
  <2>1. CASE t.isDisconnecting
    <3>1. /\ Kept(step.t, t) /\ step.t.hub = "connected" /\ step.t.isDisconnecting
      BY <1>1, <2>1, StartedIs
    <3> QED
      BY <1>1, <3>1 DEF Sess, Bound, Kept
  <2>2. CASE ~t.isDisconnecting
    <3>1. CoreConnects(step.t, t, t.lastUsedToken)
      BY <1>1, <2>2, StartedIs
    <3> QED
      BY <1>0, <1>1, <3>1, SessConnects
  <2> QED
    BY <2>1, <2>2
<1>2. CASE t.hub = "connecting" /\ step = Core!StartFails(t)
  <2>1. Kept(step.t, t) /\ step.t.hub = "failed"
    BY <1>2, StartFailsIs
  <2> QED
    BY <1>2, <2>1 DEF Sess, Bound, Kept
<1>3. CASE step = Core!handleConnectionClosure(t)
  <2>1. step.t.hub = "none"
    BY <1>3, ClosureIs
  <2> QED
    BY <2>1 DEF Sess, Bound
<1>4. CASE step = Core!Retries(t)
  BY <1>0, <1>4, RetriesIs, SessSame
<1>5. CASE t.hub = "reconnecting" /\ step = Core!onreconnected(t)
  BY <1>0, <1>5, ReconnectedIs, SessConnects
<1>6. CASE step = Core!StreamCancelled(t)
  BY <1>0, <1>6, CancelledIs, SessSame
<1>7. CASE t.closes > 0 /\ step = Core!CloseAnswered(t)
  <2>1. /\ CoreSame(step.t, t)
        /\ step.t.isDisconnecting = t.isDisconnecting
        /\ step.t.hub = CASE t.hub = "connecting" -> "failed"
                           [] t.hub \in {"connected", "reconnecting"} -> "disconnecting"
                           [] OTHER -> t.hub
    BY <1>7, CloseAnsweredIs
  <2>2. \/ step.t.hub = t.hub
        \/ t.hub # "none" /\ step.t.hub \in {"failed", "disconnecting"}
    BY <2>1
  <2> QED
    BY <1>0, <2>1, <2>2, SessSame
<1>8. CASE /\ t.hub = "connected"
           /\ \E parses \in BOOLEAN : step = Core!handleNextMessage(t, parses)
  <2>1. CoreSame(step.t, t) /\ step.t.hub = t.hub
        /\ (step.t.isDisconnecting \/ step.t.isDisconnecting = t.isDisconnecting)
    BY <1>8, ReadsIs DEF CoreHalts
  <2> QED
    BY <1>0, <2>1, SessSame
<1>9. CASE /\ t.hub = "connected"
           /\ step \in {Core!StreamCompletes(t), Core!handleMessageStreamError(t)}
  <2>1. CoreSame(step.t, t) /\ step.t.hub = t.hub
        /\ (step.t.isDisconnecting \/ step.t.isDisconnecting = t.isDisconnecting)
    BY <1>9, StreamEndsIs DEF CoreSilent
  <2> QED
    BY <1>0, <2>1, SessSame
<1>10. CASE /\ t.hub = "connected" /\ t.renewals # <<>>
            /\ \E status : step = Core!RenewAnswered(t, status)
  BY <1>10, SessRenews
<1> QED
  BY <1>1, <1>2, <1>3, <1>4, <1>5, <1>6, <1>7, <1>8, <1>9, <1>10 DEF CoreMakes

(* A hub is given a query.                                                 *)
LEMMA CoreQueried ==
    ASSUME NEW t, CoreOk(t), NEW token \in Nat, NEW context \in Nat,
           NEW u, u = Queried(t, token, context)
    PROVE  /\ u.kind = t.kind /\ u.hub = t.hub /\ u.state = t.state
           /\ u.authToken = token /\ u.contextId = context
           /\ u.isDisconnecting = t.isDisconnecting
           /\ u.hasTransportError = t.hasTransportError
           /\ u.hasMessage = t.hasMessage
           /\ u.cancels = t.cancels /\ u.closes = t.closes
           /\ u.messageStream = t.messageStream /\ u.streaming = t.streaming
           /\ u.renewals = t.renewals /\ u.sessionToken = t.sessionToken
           /\ u.works = t.works
<1> DEFINE v == [t EXCEPT !.contextId = context, !.authToken = token]
<1>1. t \in Core!Transports
  BY DEF CoreOk
<1>2. t.kind = Core!Kind /\ Core!Kind # Ws!Kind
  BY <1>1 DEF Core!Transports, Core!Kind, Ws!Kind
<1>3. u = v
  BY <1>2 DEF Queried, UpdateQuery, Core!updateQuery, Core!Step
<1> QED
  BY <1>1, <1>3 DEF Core!Transports

(* A hub is given a query with a new token.                                *)
LEMMA CoreRequeried ==
    ASSUME NEW t, CoreOk(t), NEW token \in Nat, NEW context \in Nat,
           NEW u, u = Requeried(t, token, context)
    PROVE  /\ u.kind = t.kind /\ u.hub = t.hub /\ u.state = t.state
           /\ u.authToken = token /\ u.contextId = context
           /\ u.isDisconnecting = t.isDisconnecting
           /\ u.hasTransportError = t.hasTransportError
           /\ u.hasMessage = t.hasMessage
           /\ u.cancels = t.cancels /\ u.closes = t.closes
           /\ u.messageStream = t.messageStream /\ u.streaming = t.streaming
           /\ u.sessionToken = t.sessionToken /\ u.works = t.works
           /\ u.renewals = IF t.hub = "none" \/ t.state # "CONNECTED" THEN t.renewals
                           ELSE Append(t.renewals, token)
<1> DEFINE v == [t EXCEPT !.contextId = context, !.authToken = token]
           w == [v EXCEPT !.renewals = Append(@, v.authToken)]
<1>1. t \in Core!Transports
  BY DEF CoreOk
<1>2. t.kind = Core!Kind /\ Core!Kind # Ws!Kind
  BY <1>1 DEF Core!Transports, Core!Kind, Ws!Kind
<1>3. u = Core!renewSession(v)
  BY <1>2 DEF Requeried, UpdateQuery, Core!updateQuery, Core!Step
<1>4. u = IF v.hub = "none" \/ v.state # "CONNECTED" THEN v ELSE w
  BY <1>3 DEF Core!renewSession
<1>5. /\ v \in Core!Transports
      /\ v.kind = t.kind /\ v.hub = t.hub /\ v.state = t.state
      /\ v.authToken = token /\ v.contextId = context
      /\ v.isDisconnecting = t.isDisconnecting
      /\ v.hasTransportError = t.hasTransportError
      /\ v.hasMessage = t.hasMessage
      /\ v.cancels = t.cancels /\ v.closes = t.closes
      /\ v.messageStream = t.messageStream /\ v.streaming = t.streaming
      /\ v.sessionToken = t.sessionToken /\ v.works = t.works
      /\ v.renewals = t.renewals
  BY <1>1 DEF Core!Transports
<1> HIDE DEF v
<1>6. /\ w.kind = v.kind /\ w.hub = v.hub /\ w.state = v.state
      /\ w.authToken = v.authToken /\ w.contextId = v.contextId
      /\ w.isDisconnecting = v.isDisconnecting
      /\ w.hasTransportError = v.hasTransportError
      /\ w.hasMessage = v.hasMessage
      /\ w.cancels = v.cancels /\ w.closes = v.closes
      /\ w.messageStream = v.messageStream /\ w.streaming = v.streaming
      /\ w.sessionToken = v.sessionToken /\ w.works = v.works
      /\ w.renewals = Append(v.renewals, v.authToken)
  BY <1>5 DEF Core!Transports
<1> HIDE DEF w
<1> QED
  BY <1>4, <1>5, <1>6

(* The start of a hub. *)
LEMMA CoreStartIs ==
    ASSUME NEW t, CoreOk(t), NEW step, step = Start(t)
    PROVE  \/ t.hub # "none" /\ step.t = t /\ step.out = <<>>
           \/ t.hub = "none" /\ ~t.works /\ step.t = t /\ step.out = <<"fail">>
           \/ /\ t.hub = "none" /\ t.works /\ step.out = <<"CONNECTING">>
              /\ step.t.hub = "connecting" /\ step.t.state = "CONNECTING"
              /\ Kept(step.t, t)
              /\ step.t.isDisconnecting = t.isDisconnecting
              /\ step.t.hasTransportError = t.hasTransportError
              /\ step.t.hasMessage = t.hasMessage
              /\ step.t.cancels = t.cancels /\ step.t.closes = t.closes
              /\ step.t.messageStream = t.messageStream
              /\ step.t.streaming = t.streaming
              /\ step.t.renewals = t.renewals
<1> DEFINE v == [t EXCEPT !.hub = "connecting", !.hubContext = t.contextId,
                          !.lastUsedToken = t.authToken]
           w == [v EXCEPT !.state = "CONNECTING"]
<1>1. t \in Core!Transports
  BY DEF CoreOk
<1>2. t.kind = Core!Kind /\ Core!Kind # Ws!Kind
  BY <1>1 DEF Core!Transports, Core!Kind, Ws!Kind
<1>3. step = IF t.hub # "none" THEN [t |-> t, out |-> <<>>]
             ELSE IF ~t.works THEN [t |-> t, out |-> <<"fail">>]
             ELSE [t |-> w, out |-> <<"CONNECTING">>]
  BY <1>2 DEF Start, Core!start, Core!SetState, Core!Step
<1>4. /\ w.hub = "connecting" /\ w.state = "CONNECTING" /\ Kept(w, t)
      /\ w.isDisconnecting = t.isDisconnecting
      /\ w.hasTransportError = t.hasTransportError
      /\ w.hasMessage = t.hasMessage
      /\ w.cancels = t.cancels /\ w.closes = t.closes
      /\ w.messageStream = t.messageStream /\ w.streaming = t.streaming
      /\ w.renewals = t.renewals
  BY <1>1 DEF Core!Transports, Kept
<1> HIDE DEF w
<1>5. CASE t.hub # "none"
  BY <1>3, <1>5
<1>6. CASE t.hub = "none" /\ ~t.works
  BY <1>3, <1>6
<1>7. CASE t.hub = "none" /\ t.works
  BY <1>3, <1>4, <1>7
<1> QED
  BY <1>5, <1>6, <1>7

(* The hub of a transport that was just made, and started. *)
LEMMA CoreNewIs ==
    ASSUME NEW works \in BOOLEAN
    PROVE  LET t == Core!New(works)
           IN  /\ CoreOk(t) /\ t.kind = Core!Kind /\ t.hub = "none"
               /\ t.works = works /\ t.renewals = <<>>
               /\ t.state = "DISCONNECTED"
<1>1. 0 \in 0..MaxRetries
  BY TransportsAssumption
<1> QED
  BY <1>1 DEF Core!New, CoreOk, Core!Transports, Core!Hubs, Core!States

(* A query keeps the shape.                                                *)
LEMMA QueriedOk ==
    ASSUME NEW n \in Nat, NEW t, NEW kind, Ok(t, kind, n), NEW token \in Nat
    PROVE  Ok(Queried(t, token, n), kind, n)
<1>1. PICK no : no = FALSE
  OBVIOUS
<1>2. no \in BOOLEAN
  BY <1>1
<1>3. n \in 0..n
  OBVIOUS
<1>4. StepOk(UpdateQuery(t, token, n, no), kind, n)
  BY <1>2, <1>3, UpdateQueryOk
<1>5. UpdateQuery(t, token, n, no).t = Queried(t, token, n)
  BY <1>1, Zenon DEF Queried
<1> QED
  BY <1>4, <1>5 DEF StepOk

(* A transport that replaces another has no session to be wrong about.     *)
LEMMA ReplacedSession ==
    ASSUME NEW s \in ScenarioRecords, NEW d, NEW e, NEW k, Replaces(e, d, s, k),
           Shape(e, s), e.authToken = d.authToken, e.contextId = d.contextId
    PROVE  Session(e)
<1> DEFINE kind == s.transports[e.tranportIndex]
           works == kind \in s.working
           new == NewTransport(s, kind)
           u == Queried(new, d.authToken, d.contextId)
           step == Start(u)
<1>1. /\ HasTransport(e) /\ d.authToken \in Nat /\ d.contextId \in Nat
      /\ Current(e).kind = kind
      /\ \/ Current(e) = new
         \/ Current(e) = step.t
  <2>1. HasTransport(e) /\ e \in Connections
    BY DEF Replaces, Shape
  <2>2. Ok(Current(e), kind, e.contextId)
    BY <2>1, CurrentOk
  <2>3. Current(e).kind = kind
    BY <2>2, KindOf
  <2> QED
    BY <2>1, <2>3 DEF Replaces, Connections
<1>2. CASE kind # Core!Kind
  BY <1>1, <1>2 DEF Session, Is
<1>3. CASE kind = Core!Kind
  <2>1. works \in BOOLEAN /\ new = Core!New(works)
    BY <1>3 DEF NewTransport, Core!Kind, Ws!Kind
  <2> HIDE DEF works, new
  <2>2. CoreOk(new) /\ new.hub = "none" /\ new.renewals = <<>>
    BY <2>1, CoreNewIs
  <2>3. u.hub = "none" /\ u.authToken = d.authToken /\ u.renewals = <<>>
    BY <1>1, <2>2, CoreQueried
  <2>4. CoreOk(u)
    <3>1. Ok(new, kind, d.contextId)
      BY <1>3, <2>2 DEF Ok
    <3>2. Ok(u, kind, d.contextId)
      BY <1>1, <3>1, QueriedOk
    <3> QED
      BY <1>3, <3>2 DEF Ok, Core!Kind, Ws!Kind, Signalr!Kind
  <2> HIDE DEF u
  <2>5. \/ step.t.hub = "none"
        \/ /\ step.t.hub = "connecting" /\ step.t.state = "CONNECTING"
           /\ step.t.authToken = d.authToken /\ step.t.renewals = <<>>
    BY <2>3, <2>4, CoreStartIs DEF Kept
  <2> HIDE DEF step
  <2>6. Sess(Current(e), e)
    BY <1>1, <2>2, <2>5 DEF Sess, Bound
  <2> QED
    BY <2>6 DEF Session
<1> QED
  BY <1>2, <1>3

(* The callbacks of a transport keep what is said of the session.          *)
LEMMA CallbackSession ==
    ASSUME NEW s \in ScenarioRecords, NEW d, Fits(d, s), Session(d), NEW i, NEW from,
           NEW what \in Outs, NEW e, e = Callback(d, s, i, from, what)
    PROVE  Session(e)
<1>0. Shape(d, s) /\ d \in Connections /\ d.authToken \in Nat /\ d.contextId \in Nat
  BY DEF Fits, Shape, Connections
<1>1. CASE what \in Contract!States
  <2>1. e = Report(d, i, what)
    BY <1>1 DEF Callback, Contract!States
  <2>2. /\ Shape(e, s) /\ e.state = d.state /\ e.tranportIndex = d.tranportIndex
        /\ e.authToken = d.authToken /\ e.rejected = d.rejected
        /\ DOMAIN e.transports = DOMAIN d.transports
        /\ \/ e.transports = d.transports
           \/ /\ HasTransport(d)
              /\ Current(e) = Queried(Current(d), d.authToken, d.contextId)
    BY <1>0, <1>1, <2>1, ReportOk
  <2>3. CASE e.transports = d.transports
    BY <2>2, <2>3 DEF Session, Sess, Bound, HasTransport, Current
  <2>4. CASE /\ HasTransport(d) /\ Is(Current(e), Core!Kind) /\ HasTransport(e)
             /\ d.state # "disposed"
             /\ Current(e) = Queried(Current(d), d.authToken, d.contextId)
    <3> DEFINE t == Current(d)
               u == Current(e)
               kind == s.transports[d.tranportIndex]
    <3>1. Ok(t, kind, d.contextId)
      BY <1>0, <2>4, CurrentOk
    <3>2. Ok(u, kind, e.contextId)
      BY <2>2, <2>4, CurrentOk
    <3>3. kind = Core!Kind
      BY <2>4, <3>2, KindOf DEF Is
    <3>4. CoreOk(t) /\ Is(t, Core!Kind)
      BY <3>1, <3>3, KindOf DEF Is
    <3>5. Sess(t, d)
      BY <2>4, <3>4 DEF Session
    <3>6. /\ u.hub = t.hub /\ u.state = t.state /\ u.authToken = d.authToken
          /\ u.isDisconnecting = t.isDisconnecting
          /\ u.renewals = t.renewals /\ u.sessionToken = t.sessionToken
      BY <1>0, <2>4, <3>4, CoreQueried
    <3> HIDE DEF t, u
    <3>7. Sess(u, e)
      BY <2>2, <3>5, <3>6 DEF Sess, Bound
    <3> QED
      BY <3>7 DEF Session, u
  <2> QED
    BY <2>2, <2>3, <2>4 DEF Session
<1>2. CASE what = "fail"
  <2>1. e = onTransportFail(d, s, from)
    BY <1>2 DEF Callback, Contract!States
  <2>2. /\ Shape(e, s) /\ e.authToken = d.authToken /\ e.contextId = d.contextId
        /\ \/ ~HasTransport(e)
           \/ Replaces(e, d, s, Cut(d.promise, Lingers(from)))
    BY <1>0, <2>1, FailOk
  <2>3. CASE ~HasTransport(e)
    BY <2>3 DEF Session
  <2>4. CASE Replaces(e, d, s, Cut(d.promise, Lingers(from)))
    BY <2>2, <2>4, ReplacedSession
  <2> QED
    BY <2>2, <2>3, <2>4
<1>3. CASE what = "unauthorized"
  <2> DEFINE r == d.rejected \/ Hears(d)
  <2>1. e = [d EXCEPT !.rejected = r]
    BY <1>3 DEF Callback, Contract!States
  <2>2. d.rejected => r
    OBVIOUS
  <2> HIDE DEF r
  <2>3. /\ e.transports = d.transports /\ e.state = d.state
        /\ e.tranportIndex = d.tranportIndex /\ e.authToken = d.authToken
        /\ e.rejected = r
    BY <1>0, <2>1 DEF Connections
  <2> QED
    BY <2>2, <2>3 DEF Session, Sess, Bound, HasTransport, Current
<1>4. CASE what \notin Contract!States \cup {"fail", "unauthorized"}
  BY <1>4 DEF Callback
<1> QED
  BY <1>1, <1>2, <1>3, <1>4

(* So does their delivery.                                                 *)
LEMMA DeliverSession ==
    ASSUME NEW s \in ScenarioRecords, NEW d, Fits(d, s),
           NEW i \in DOMAIN d.transports, d.transports[i] # Absent,
           NEW step, StepOk(step, s.transports[i], d.contextId),
           Session([d EXCEPT !.transports[i] = step.t])
    PROVE  Session(Deliver(d, s, i, step))
<1> DEFINE b == [d EXCEPT !.transports[i] = step.t]
           P == {x \in Connections : Fits(x, s) /\ Session(x)}
<1>1. step.out \in Seq(Outs) /\ Ok(step.t, s.transports[i], d.contextId)
  BY DEF StepOk
<1>2. /\ Shape(b, s) /\ b.state = d.state /\ b.contextId = d.contextId
      /\ b.promise = d.promise
  BY <1>1, PutOk DEF Fits
<1>3. Fits(b, s)
  BY <1>2 DEF Fits, Standing
<1>4. b \in P
  BY <1>3 DEF Fits, Shape
<1>5. ASSUME NEW x \in P, NEW what \in Outs
      PROVE  Callback(x, s, i, step.t, what) \in P
  <2>1. Fits(x, s) /\ Session(x)
    OBVIOUS
  <2>2. Fits(Callback(x, s, i, step.t, what), s)
    BY <2>1, CallbackOk
  <2>3. Session(Callback(x, s, i, step.t, what))
    BY <2>1, CallbackSession
  <2> QED
    BY <2>2, <2>3 DEF Fits, Shape
<1> HIDE DEF P
<1>6. Deliver(d, s, i, step) \in P
  BY <1>1, <1>4, <1>5, DeliverKeeps
<1> QED
  BY <1>6 DEF P

(* The step of a transport that is not the current one, or that is no hub, *)
(* is not about the session.                                               *)
LEMMA OtherSession ==
    ASSUME NEW s \in ScenarioRecords, NEW d, Fits(d, s), Session(d),
           NEW i \in DOMAIN d.transports, d.transports[i] # Absent,
           NEW step, StepOk(step, s.transports[i], d.contextId),
           i # d.tranportIndex \/ s.transports[i] # Core!Kind
    PROVE  Session(Deliver(d, s, i, step))
<1> DEFINE b == [d EXCEPT !.transports[i] = step.t]
<1>1. Ok(step.t, s.transports[i], d.contextId)
  BY DEF StepOk
<1>2. /\ Shape(b, s) /\ b.transports[i] = step.t
      /\ \A j \in DOMAIN d.transports : j # i => b.transports[j] = d.transports[j]
      /\ DOMAIN b.transports = DOMAIN d.transports
      /\ b.state = d.state /\ b.tranportIndex = d.tranportIndex
      /\ b.authToken = d.authToken /\ b.rejected = d.rejected
  BY <1>1, PutOk DEF Fits
<1>3. step.t.kind = s.transports[i]
  BY <1>1, KindOf
<1>4. HasTransport(b) => b.tranportIndex \in DOMAIN d.transports
  BY <1>2, CurrentOk
<1>5. HasTransport(b) => HasTransport(d)
  BY <1>2 DEF HasTransport, Shape, Fits
<1> HIDE DEF b
<1>6. Session(b)
  BY <1>2, <1>3, <1>4, <1>5 DEF Session, Sess, Bound, Current, Is
<1> QED
  BY <1>6, DeliverSession DEF b

(* The step of the current hub. *)
LEMMA CurrentSession ==
    ASSUME NEW s \in ScenarioRecords, NEW d, Fits(d, s), HasTransport(d),
           NEW i, i = d.tranportIndex,
           NEW step, StepOk(step, s.transports[i], d.contextId),
           d.state # "disposed" => Sess(step.t, d)
    PROVE  Session(Deliver(d, s, i, step))
<1> DEFINE b == [d EXCEPT !.transports[i] = step.t]
<1>1. /\ Ok(step.t, s.transports[i], d.contextId) /\ i \in DOMAIN d.transports
      /\ d.transports[i] # Absent
  BY CurrentOk DEF StepOk, Fits, Current
<1>2. /\ Shape(b, s) /\ b.transports[i] = step.t
      /\ b.state = d.state /\ b.tranportIndex = d.tranportIndex
      /\ b.authToken = d.authToken /\ b.rejected = d.rejected
  BY <1>1, PutOk DEF Fits
<1> HIDE DEF b
<1>3. Session(b)
  BY <1>2 DEF Session, Sess, Bound, Current
<1> QED
  BY <1>1, <1>3, DeliverSession DEF b

(* What the user does keeps it.                                            *)
LEMMA UserSession ==
    ASSUME scenario \in ScenarioRecords, Fits(c, scenario), budget \in 0..MaxEvents,
           Session(c),
           UserStarts \/ UserStops \/ UserDisposes \/ UserGetsToken
    PROVE  Session(c')
<1>0. /\ c.authToken \in Nat /\ c.contextId \in Nat /\ c.contextId + 1 \in Nat
      /\ Shape(c, scenario) /\ c \in Connections
  BY DEF Fits, Shape, Connections
<1> DEFINE i == c.tranportIndex
           kind == scenario.transports[i]
           t == Current(c)
<1>1. CASE UserStarts
  <2> DEFINE e == Begun
             u == Current(e)
             step == Start(u)
  <2>1. /\ Fits(e, scenario) /\ HasTransport(e) /\ e.tranportIndex = i
        /\ e.authToken = c.authToken /\ e.rejected = c.rejected
        /\ u = Queried(t, c.authToken, c.contextId + 1)
        /\ c' = Deliver(e, scenario, i, step)
        /\ StepOk(step, kind, e.contextId)
    BY <1>1, BegunOk
  <2>2. HasTransport(c) /\ c.state # "disposed"
    BY <1>1 DEF UserStarts
  <2>3. Ok(t, kind, c.contextId) /\ Ok(u, kind, e.contextId)
    BY <1>0, <2>1, <2>2, CurrentOk DEF Fits
  <2>4. CASE kind # Core!Kind
    <3>1. i \in DOMAIN e.transports /\ e.transports[i] # Absent
      BY <2>1, CurrentOk DEF Fits, Current
    <3>2. Session(e)
      BY <2>3, <2>4, KindOf DEF Session, Is
    <3> HIDE DEF e, step, i
    <3> QED
      BY <2>1, <2>4, <3>1, <3>2, OtherSession
  <2>5. CASE kind = Core!Kind
    <3>1. CoreOk(t) /\ Is(t, Core!Kind) /\ CoreOk(u)
      BY <2>3, <2>5, KindOf DEF Is
    <3>2. Sess(t, c)
      BY <2>2, <3>1 DEF Session
    <3>3. /\ u.hub = t.hub /\ u.state = t.state /\ u.authToken = c.authToken
          /\ u.isDisconnecting = t.isDisconnecting
          /\ u.renewals = t.renewals /\ u.sessionToken = t.sessionToken
      BY <1>0, <2>1, <3>1, CoreQueried
    <3>4. u.hub = "none" => u.renewals = <<>>
      BY <3>1 DEF CoreOk
    <3> HIDE DEF u, t
    <3>5. Sess(u, e)
      BY <2>1, <3>2, <3>3 DEF Sess, Bound
    <3>6. \/ step.t = u
          \/ /\ u.hub = "none" /\ step.t.hub = "connecting"
             /\ step.t.state = "CONNECTING" /\ Kept(step.t, u)
             /\ step.t.renewals = u.renewals
      BY <3>1, CoreStartIs
    <3> HIDE DEF e, step
    <3>7. Sess(step.t, e)
      BY <2>1, <3>3, <3>4, <3>5, <3>6 DEF Sess, Bound, Kept
    <3> HIDE DEF i
    <3> QED
      BY <2>1, <3>7, CurrentSession
  <2> QED
    BY <2>4, <2>5
<1>2. CASE UserStops
  <2> DEFINE e == Stopped
             step == Stop(t)
  <2>1. /\ Fits(e, scenario) /\ e.transports = c.transports /\ e.tranportIndex = i
        /\ e.authToken = c.authToken /\ e.rejected = c.rejected
        /\ e.contextId = c.contextId /\ HasTransport(c)
        /\ c' = Deliver(e, scenario, i, step)
        /\ StepOk(step, kind, e.contextId)
        /\ i \in DOMAIN c.transports /\ t # Absent
    BY <1>2, StoppedOk
  <2>2. HasTransport(e) /\ Current(e) = t /\ c.state # "disposed"
    BY <1>2, <2>1 DEF HasTransport, Current, UserStops, Fits, Standing, StateOf
  <2>3. Ok(t, kind, c.contextId)
    BY <1>0, <2>1, CurrentOk
  <2>4. CASE kind # Core!Kind
    <3>1. i \in DOMAIN e.transports /\ e.transports[i] # Absent
      BY <2>1 DEF Current
    <3>2. Session(e)
      BY <2>2, <2>3, <2>4, KindOf DEF Session, Is
    <3> HIDE DEF e, step, i
    <3> QED
      BY <2>1, <2>4, <3>1, <3>2, OtherSession
  <2>5. CASE kind = Core!Kind
    <3>1. CoreOk(t) /\ Is(t, Core!Kind) /\ Sess(t, c)
      BY <2>1, <2>2, <2>3, <2>5, KindOf DEF Is, Session
    <3>2. \/ step.t = t
          \/ /\ CoreSame(step.t, t) /\ step.t.hub = t.hub /\ step.t.isDisconnecting
      <4>1. Core!Kind # Ws!Kind
        BY DEF Core!Kind, Ws!Kind
      <4>2. step.t = Core!stop(t, FALSE)
        BY <3>1, <4>1 DEF Stop, Is, Core!Step
      <4>3. PICK no : no = FALSE
        OBVIOUS
      <4>4. step.t = Core!stop(t, no) /\ no \in BOOLEAN
        BY <4>2, <4>3, Zenon
      <4>5. CASE t.hub = "none"
        BY <4>4, <4>5 DEF Core!stop
      <4>6. CASE t.hub # "none"
        BY <3>1, <4>4, <4>6, StopIs
      <4> QED
        BY <4>5, <4>6
    <3> HIDE DEF e, step, t
    <3>3. Sess(step.t, c)
      BY <3>1, <3>2, SessSame
    <3>4. Sess(step.t, e)
      BY <2>1, <3>3 DEF Sess, Bound
    <3> HIDE DEF i
    <3> QED
      BY <2>1, <2>2, <3>4, CurrentSession
  <2> QED
    BY <2>4, <2>5
<1>3. CASE UserDisposes
  <2>1. c'.state = "disposed"
    BY <1>3, UserDisposesOk
  <2> QED
    BY <2>1 DEF Session
<1>4. CASE UserGetsToken
  <2> DEFINE token == c.authToken + 1
             u == Current(c')
  <2>1. /\ Fits(c', scenario) /\ c'.state = c.state /\ c'.tranportIndex = i
        /\ c'.authToken = token
        /\ HasTransport(c') <=> HasTransport(c)
        /\ HasTransport(c) => u = Requeried(t, token, c.contextId)
    BY <1>4, UserGetsTokenOk
  <2>2. CASE HasTransport(c) /\ kind = Core!Kind
    <3>1. Ok(t, kind, c.contextId) /\ token \in Nat /\ c.state # "disposed"
      BY <1>0, <1>4, <2>2, CurrentOk DEF UserGetsToken
    <3>2. CoreOk(t) /\ Is(t, Core!Kind)
      BY <2>2, <3>1, KindOf DEF Is
    <3>3. Sess(t, c)
      BY <2>2, <3>1, <3>2 DEF Session
    <3> HIDE DEF token
    <3>4. /\ u.hub = t.hub /\ u.state = t.state /\ u.authToken = token
          /\ u.isDisconnecting = t.isDisconnecting
          /\ u.renewals = IF t.hub = "none" \/ t.state # "CONNECTED" THEN t.renewals
                          ELSE Append(t.renewals, token)
      BY <1>0, <2>1, <2>2, <3>1, <3>2, CoreRequeried
    <3>5. /\ Append(t.renewals, token) # <<>>
          /\ Append(t.renewals, token)[Len(Append(t.renewals, token))] = token
      <4>1. t.renewals \in Seq(Nat)
        BY <3>2 DEF CoreOk, Core!Transports
      <4> QED
        BY <3>1, <4>1, AppendIs
    <3> HIDE DEF u, t
    <3>6. Sess(u, c')
      BY <2>1, <3>3, <3>4, <3>5 DEF Sess, Bound
    <3> QED
      BY <3>6 DEF Session, u
  <2>3. CASE HasTransport(c) /\ kind # Core!Kind
    <3>1. Ok(u, kind, c'.contextId)
      BY <2>1, <2>3, CurrentOk DEF Fits
    <3> QED
      BY <2>3, <3>1, KindOf DEF Session, Is
  <2>4. CASE ~HasTransport(c)
    BY <2>1, <2>4 DEF Session
  <2> QED
    BY <2>2, <2>3, <2>4
<1> QED
  BY <1>1, <1>2, <1>3, <1>4

(* The deliveries of no, one and two callbacks. *)
Put(d, i, t) == [d EXCEPT !.transports[i] = t]

Chained(f, d, s, i, step, m) ==
    /\ Deliver(d, s, i, step) = f[m] /\ f[0] = Put(d, i, step.t)
    /\ \A k \in 0..m : k # 0 =>
          f[k] = Callback(f[k - 1], s, i, step.t, step.out[k])

(* There are such callbacks.                                               *)
LEMMA DeliverSteps ==
    ASSUME NEW d, NEW s, NEW i, NEW step, NEW m \in Nat, Len(step.out) = m
    PROVE  \E f : Chained(f, d, s, i, step, m)
<1> DEFINE t == step.t
           out == step.out
<1>1. PICK f : /\ IsDelivered(f, d, s, i, t, out, m)
               /\ Deliver(d, s, i, step) = f[m]
  BY DeliverUnfold
<1> HIDE DEF t, out
<1>2. \A k \in 0..m : f[k] = IF k = 0 THEN [d EXCEPT !.transports[i] = t]
                            ELSE Callback(f[k - 1], s, i, t, out[k])
  BY <1>1 DEF IsDelivered
<1>3. f[0] = Put(d, i, t)
  BY <1>2 DEF Put
<1>4. \A k \in 0..m : k # 0 => f[k] = Callback(f[k - 1], s, i, t, out[k])
  BY <1>2
<1>5. Chained(f, d, s, i, step, m)
  BY <1>1, <1>3, <1>4 DEF t, out, Chained
<1> QED
  BY <1>5

(* Nothing is told.                                                        *)
LEMMA DeliverNone ==
    ASSUME NEW d, NEW s, NEW i, NEW step, step.out = <<>>
    PROVE  Deliver(d, s, i, step) = Put(d, i, step.t)
<1>1. PICK m \in Nat : m = 0
  OBVIOUS
<1>2. Len(step.out) = m
  BY <1>1
<1>3. PICK f : Chained(f, d, s, i, step, m)
  BY <1>2, DeliverSteps
<1> QED
  BY <1>1, <1>3 DEF Chained

(* One thing is told.                                                      *)
LEMMA DeliverOne ==
    ASSUME NEW d, NEW s, NEW i, NEW step, NEW what, step.out = <<what>>
    PROVE  Deliver(d, s, i, step) = Callback(Put(d, i, step.t), s, i, step.t, what)
<1>1. PICK m \in Nat : m = 1
  OBVIOUS
<1>2. Len(step.out) = m /\ step.out[1] = what
  BY <1>1
<1>3. PICK f : Chained(f, d, s, i, step, m)
  BY <1>2, DeliverSteps
<1>4. 1 \in 0..m /\ 1 - 1 = 0
  BY <1>1
<1>5. f[1] = Callback(f[0], s, i, step.t, step.out[1])
  BY <1>3, <1>4 DEF Chained
<1> QED
  BY <1>1, <1>2, <1>3, <1>5 DEF Chained

(* Two things are told.                                                    *)
LEMMA DeliverTwo ==
    ASSUME NEW d, NEW s, NEW i, NEW step, NEW one, NEW two, step.out = <<one, two>>
    PROVE  Deliver(d, s, i, step) =
              Callback(Callback(Put(d, i, step.t), s, i, step.t, one), s, i, step.t, two)
<1>1. PICK m \in Nat : m = 2
  OBVIOUS
<1>2. Len(step.out) = m /\ step.out[1] = one /\ step.out[2] = two
  BY <1>1
<1>3. PICK f : Chained(f, d, s, i, step, m)
  BY <1>2, DeliverSteps
<1>4. 1 \in 0..m /\ 1 - 1 = 0 /\ 2 \in 0..m /\ 2 - 1 = 1
  BY <1>1
<1>5. /\ f[1] = Callback(f[0], s, i, step.t, step.out[1])
      /\ f[2] = Callback(f[1], s, i, step.t, step.out[2])
  BY <1>3, <1>4 DEF Chained
<1> QED
  BY <1>1, <1>2, <1>3, <1>5 DEF Chained

(* What a hub does keeps what is said of the session.                      *)
LEMMA CoreSession ==
    ASSUME scenario \in ScenarioRecords, Fits(c, scenario), budget \in 0..MaxEvents,
           Session(c), NEW i \in DOMAIN c.transports, CoreActs(i)
    PROVE  Session(c')
<1> DEFINE t == c.transports[i]
           kind == scenario.transports[i]
<1>1. t # Absent /\ CoreOk(t) /\ Is(t, Core!Kind) /\ CoreActed(i)
  BY CoreActsOk
<1>2. i = c.tranportIndex => HasTransport(c) /\ t = Current(c)
  BY DEF HasTransport, Current, Fits, Shape, Connections
<1>3. i = c.tranportIndex /\ c.state # "disposed" => Sess(t, c)
  BY <1>1, <1>2 DEF Session
<1>4. Shape(c, scenario) /\ c \in Connections
  BY DEF Fits, Shape
<1>5. ASSUME NEW step, CoreMakes(t, step, scenario.events),
             StepOk(step, kind, c.contextId), c' = Deliver(c, scenario, i, step)
      PROVE  Session(c')
  <2>1. CASE i # c.tranportIndex
    BY <1>1, <1>5, <2>1, OtherSession
  <2>2. CASE i = c.tranportIndex /\ (c.state = "disposed" \/ Sess(step.t, c))
    <3>1. HasTransport(c)
      BY <1>2, <2>2
    <3> HIDE DEF t, kind
    <3> QED
      BY <1>5, <2>2, <3>1, CurrentSession DEF kind
  <2>3. CASE i = c.tranportIndex /\ c.state # "disposed" /\ ~Sess(step.t, c)
    <3>1. Bound(step.t, c) /\ step.out = <<"unauthorized">>
      BY <1>1, <1>3, <1>5, <2>3, SessMakes
    <3> DEFINE b == [c EXCEPT !.transports[i] = step.t]
               r == b.rejected \/ Hears(b)
               e == [b EXCEPT !.rejected = r]
    <3>2. Ok(step.t, kind, c.contextId)
      BY <1>5 DEF StepOk
    <3>3. /\ Shape(b, scenario) /\ b.transports[i] = step.t
          /\ b.state = c.state /\ b.tranportIndex = c.tranportIndex
          /\ b.authToken = c.authToken
      BY <1>1, <1>4, <3>2, PutOk
    <3>4. c' = Callback(b, scenario, i, step.t, "unauthorized")
      <4>1. Deliver(c, scenario, i, step)
               = Callback(Put(c, i, step.t), scenario, i, step.t, "unauthorized")
        BY <3>1, DeliverOne
      <4> QED
        BY <1>5, <4>1 DEF Put
    <3>5. c' = e
      BY <3>4 DEF Callback, Contract!States
    <3> HIDE DEF b
    <3>6. r /\ b \in Connections
      BY <2>3, <3>3 DEF Hears, Shape
    <3> HIDE DEF r
    <3>7. /\ e.transports = b.transports /\ e.tranportIndex = b.tranportIndex
          /\ e.authToken = b.authToken /\ e.rejected = r /\ e.state = b.state
      BY <3>6 DEF Connections
    <3> HIDE DEF e
    <3>8. Sess(Current(e), e)
      BY <2>3, <3>1, <3>3, <3>6, <3>7 DEF Sess, Bound, Current
    <3> QED
      BY <3>5, <3>8 DEF Session
  <2> QED
    BY <2>1, <2>2, <2>3
<1>6. ASSUME t.hub = "connected", NEW step, step = Core!onreconnecting(t),
             StepOk(step, kind, c.contextId),
             c' = Deliver(Overtake(c, t.isDisconnecting), scenario, i, step)
      PROVE  Session(c')
  <2> DEFINE d == Overtake(c, t.isDisconnecting)
  <2>1. /\ Shape(d, scenario) /\ d.transports = c.transports
        /\ d.state = c.state /\ d.tranportIndex = c.tranportIndex
        /\ d.authToken = c.authToken /\ d.contextId = c.contextId
        /\ d.rejected = c.rejected /\ (Standing(c) => Standing(d))
    <3> DEFINE k == [c.promise EXCEPT !.late = TRUE]
    <3>1. d = c \/ d = [c EXCEPT !.promise = k]
      BY DEF Overtake
    <3>2. k \in Contract!Promises /\ k.asked = c.promise.asked
      BY <1>4 DEF Contract!Promises, Connections
    <3> HIDE DEF d, k
    <3> QED
      BY <1>4, <3>1, <3>2, PromiseOk DEF Standing
  <2>2. Fits(d, scenario)
    BY <2>1 DEF Fits
  <2>3. c' = Deliver(d, scenario, i, step)
    BY <1>6
  <2> HIDE DEF d
  <2>4. CASE i # c.tranportIndex
    <3>1. Session(d)
      BY <2>1 DEF Session, Sess, Bound, HasTransport, Current
    <3> QED
      BY <1>1, <1>6, <2>1, <2>2, <2>3, <2>4, <3>1, OtherSession
  <2>5. CASE i = c.tranportIndex
    <3>1. /\ step.t.hub \in {"disconnecting", "reconnecting"} /\ Kept(step.t, t)
          /\ step.t.state = "RECONNECTING" /\ step.t.renewals = <<>>
      BY <1>1, <1>6, ReconnectingIs
    <3>2. HasTransport(d)
      BY <1>2, <2>1, <2>5 DEF HasTransport
    <3> HIDE DEF t
    <3>3. d.state # "disposed" => Sess(step.t, d)
      BY <1>3, <1>6, <2>1, <2>5, <3>1 DEF Sess, Bound, Kept
    <3> QED
      BY <1>6, <2>1, <2>2, <2>3, <2>5, <3>2, <3>3, CurrentSession
  <2> QED
    BY <2>4, <2>5
<1> QED
  BY <1>1, <1>5, <1>6 DEF CoreActed

(* Every step keeps it.                                                    *)
LEMMA SessionStep ==
    ASSUME Inv, Session(c), [Next]_vars
    PROVE  Session(c')
<1>1. scenario \in ScenarioRecords /\ Fits(c, scenario) /\ budget \in 0..MaxEvents
  BY ScenariosAssumption DEF Inv
<1>2. CASE UserStarts \/ UserStops \/ UserDisposes \/ UserGetsToken
  BY <1>1, <1>2, UserSession
<1>3. ASSUME NEW i \in DOMAIN c.transports, c.transports[i] # Absent,
             c.transports[i].kind # Core!Kind, Acted(i)
      PROVE  Session(c')
  <2>1. scenario.transports[i] # Core!Kind
    BY <1>1, <1>3, PlaceIs
  <2> QED
    BY <1>1, <1>3, <2>1, OtherSession DEF Acted
<1>4. CASE \E what \in {"orphan", "networkError"} : UserReports(what)
  <2>1. /\ c.tranportIndex \in DOMAIN c.transports
        /\ Current(c) # Absent /\ Acted(c.tranportIndex)
    BY <1>1, <1>4, UserReportsOk
  <2>2. Current(c).kind # Core!Kind
    BY <1>4 DEF UserReports, Ws!Kind, Core!Kind
  <2> QED
    BY <1>3, <2>1, <2>2 DEF Current
<1>5. CASE \E i \in DOMAIN c.transports :
               WebsocketActs(i) \/ CoreActs(i) \/ LibraryActs(i)
  <2>1. PICK i \in DOMAIN c.transports :
               WebsocketActs(i) \/ CoreActs(i) \/ LibraryActs(i)
    BY <1>5
  <2>2. CASE WebsocketActs(i)
    <3>1. c.transports[i] # Absent /\ Acted(i)
      BY <1>1, <2>2, WsActsOk
    <3>2. c.transports[i].kind # Core!Kind
      BY <2>2 DEF WebsocketActs, Is, Ws!Kind, Core!Kind
    <3> QED
      BY <1>3, <3>1, <3>2
  <2>3. CASE LibraryActs(i)
    <3>1. c.transports[i] # Absent /\ Acted(i)
      BY <1>1, <2>3, LibraryActsOk
    <3>2. c.transports[i].kind # Core!Kind
      BY <2>3 DEF LibraryActs, Is, Signalr!Kind, Core!Kind
    <3> QED
      BY <1>3, <3>1, <3>2
  <2>4. CASE CoreActs(i)
    BY <1>1, <2>4, CoreSession
  <2> QED
    BY <2>1, <2>2, <2>3, <2>4
<1>6. CASE UNCHANGED vars
  BY <1>6 DEF vars
<1> QED
  BY <1>2, <1>4, <1>5, <1>6 DEF Next, User

(* It holds at first.                                                      *)
LEMMA SessionInit ==
    ASSUME Init
    PROVE  Session(c)
<1> DEFINE kind == scenario.transports[c.tranportIndex]
           works == kind \in scenario.working
<1>1. scenario \in ScenarioRecords /\ Shape(c, scenario) /\ IsNew(c, scenario)
  BY ScenariosAssumption, NewConnectionOk DEF Init, Fits
<1>2. CASE HasTransport(c) /\ Is(Current(c), Core!Kind)
  <2>1. Ok(Current(c), kind, c.contextId) /\ Current(c) = NewTransport(scenario, kind)
    BY <1>1, <1>2, CurrentOk DEF IsNew
  <2>2. kind = Core!Kind
    BY <1>2, <2>1, KindOf DEF Is
  <2>3. works \in BOOLEAN /\ Current(c) = Core!New(works)
    BY <2>1, <2>2 DEF NewTransport, Core!Kind, Ws!Kind
  <2> HIDE DEF works
  <2>4. Current(c).hub = "none"
    BY <2>3, CoreNewIs
  <2> QED
    BY <2>4 DEF Session, Sess, Bound
<1>3. CASE ~(HasTransport(c) /\ Is(Current(c), Core!Kind))
  BY <1>3 DEF Session
<1> QED
  BY <1>2, <1>3

(* A hub whose renewals have all been answered has the token of the moment *)
(* in its session, or the user has been told that it is not accepted:      *)
(* whether the token came while the hub was connecting, connected or       *)
(* reconnecting, and in whatever order the renewals were sent, answered    *)
(* and repeated.                                                           *)
THEOREM SessionHasToken == Spec => []SessionToken
<1>1. Init => Inv /\ Session(c)
  BY InitInv, SessionInit
<1>2. Inv /\ Session(c) /\ [Next]_vars => Inv' /\ Session(c)'
  <2>1. ASSUME Inv, Session(c), [Next]_vars PROVE Session(c')
    BY <2>1, SessionStep
  <2>2. Session(c)' = Session(c')
    BY DEF Session, Sess, Bound, HasTransport, Current, Is
  <2> QED
    BY <2>1, <2>2, NextInv
<1>3. Inv /\ Session(c) => SessionToken
  BY DEF Session, Sess, Bound, SessionToken
<1> QED
  BY <1>1, <1>2, <1>3, PTL DEF Spec
-----------------------------------------------------------------------------
(***************************************************************************)
(* 4. What agrees with what was told                                       *)
(***************************************************************************)
(* A transport the connection has left, or that was never made: it holds   *)
(* nothing and nothing of it is under way.                                 *)
Left(t) ==
    \/ t = Absent
    \/ /\ Is(t, Ws!Kind)
       /\ t.authorizing = <<>> /\ ~t.reconnectTimeout
       /\ t.socket = Ws!NoSocket /\ t.leaked = <<>>
    \/ Is(t, Core!Kind) /\ t.hub \in {"none", "failed"}

(* The kinds of events that excuse what would otherwise be wrong: new      *)
(* tokens, and what may be told of a connection after its stop.            *)
Tokens(s) == "Token" \in s.events \/ "TokenDown" \in s.events
Excused(s) == \/ "StopEarly" \in s.events \/ "BadMessage" \in s.events
              \/ "Renewal" \in s.events \/ "TokenDown" \in s.events

(* Websockets: the authorisations in flight. *)
Starts(t, k) == t.authorizing[k].starts > 0
NoStart(t) == \A k \in DOMAIN t.authorizing : ~Starts(t, k)

(* A request in flight is for a context the connection has had; the one    *)
(* that counts is the last, and it starts the connection or is not         *)
(* superseded.                                                             *)
Requested(t, a, d) ==
    /\ a.contextId \in 1..d.contextId /\ a.authToken \in 0..d.authToken
    /\ a.starts \in {0, 1}
    /\ a.current \/ Ws!superseded(t, a)
    /\ a.current => a.starts > 0 \/ ~Ws!superseded(t, a)

(* At most one request counts, and the promise is pending just then; at    *)
(* most one starts the connection.                                         *)
Authorizings(t, d) ==
    /\ t.leaked = <<>> /\ t.contextId \in {0, d.contextId}
    /\ t.authorizePromise = "pending"
           <=> \E k \in DOMAIN t.authorizing : t.authorizing[k].current
    /\ \A k \in DOMAIN t.authorizing : Requested(t, t.authorizing[k], d)
    /\ \A j, k \in DOMAIN t.authorizing :
          /\ t.authorizing[j].current /\ t.authorizing[k].current => j = k
          /\ Starts(t, j) /\ Starts(t, k) => j = k

(* The phases of a websocket transport: not started, or its start is lost; *)
(* started, and waiting for its authorisation; with a socket that is being *)
(* opened; that is open, or closed as its token has expired; and waiting   *)
(* to reconnect.                                                           *)
Fresh(t) ==
    /\ t.socket = Ws!NoSocket /\ ~t.reconnectTimeout
    /\ ~t.hasBeenConnected /\ ~t.isReconnectPending /\ t.lastMessageId = 0

(* Not started: nothing of it is there. If the user believes that it is    *)
(* started, its start was lost; if the user stopped it before anything was *)
(* told, no request is left.                                               *)
Idle(t, d, s) ==
    /\ Fresh(t) /\ NoStart(t)
    /\ t.startLost <=> d.promise.asked = "started"
    /\ t.authorizePromise = "rejected" => t.startLost
    /\ d.promise.asked = "created" => t.authorizing = <<>>
    /\ \/ d.promise.asked = "started" \/ "TokenDown" \in s.events
       \/ d.promise.told \notin {"none", "DISCONNECTED"}
       \/ t.authorizePromise = "none"

(* Its start waits for the authorisation of the context.                   *)
Starting(t, d, s) ==
    /\ Fresh(t) /\ t.query.message = 0
    /\ \E k \in DOMAIN t.authorizing :
          Starts(t, k) /\ (Tokens(s) \/ t.authorizing[k].contextId = d.contextId)

(* It is opening a socket that names the context and the last message, and *)
(* the user was told CONNECTING, or RECONNECTING if it had one before.     *)
Opening(t, d) ==
    /\ t.socket.phase = "opening" /\ ~t.reconnectTimeout
    /\ \/ d.promise.told = "RECONNECTING"
       \/ d.promise.told = "CONNECTING" /\ ~t.hasBeenConnected /\ ~t.isReconnectPending
    /\ t.query.message = t.lastMessageId
    /\ t.socket.query.context = d.contextId
    /\ t.socket.query.message = t.lastMessageId

(* A request for a new token is in flight.                                 *)
Renews(t) == \E k \in DOMAIN t.authorizing :
                 t.authorizing[k].current /\ t.authorizing[k].renews

(* It has its socket, or lost it as the token was not accepted and waits   *)
(* for another.                                                            *)
Open(t, d) ==
    /\ t.hasBeenConnected /\ ~t.reconnectTimeout
    /\ d.promise.told = "CONNECTED"
    /\ \/ t.socket.phase = "open"
       \/ /\ t.socket.phase = "closed" /\ t.isReconnectPending
          /\ d.rejected \/ Renews(t)

(* It waits for the timer of its reconnect.                                *)
Waiting(t, d) ==
    /\ t.socket = Ws!NoSocket /\ t.reconnectTimeout
    /\ t.hasBeenConnected
    /\ d.promise.told = "RECONNECTING"
    /\ t.query.message = t.lastMessageId

(* Started: what holds in each of the phases but the first. *)
Wanted(t, d) ==
    /\ d.promise.asked = "started" /\ ~t.startLost
    /\ t.query.context = d.contextId /\ t.contextId = d.contextId
    /\ t.authToken = d.authToken

(* It has an authorised context, and no start is in flight.                *)
Made(t, d, s, A) ==
    /\ t.works /\ NoStart(t)
    /\ Tokens(s) \/ d.contextId \in A

Linking(t, d) == Opening(t, d) \/ Open(t, d) \/ Waiting(t, d)

(* One of these it is, whatever is in flight.                              *)
WsAgrees(t, d, s, A) ==
    /\ Authorizings(t, d)
    /\ \/ Idle(t, d, s)
       \/ Wanted(t, d) /\ Starting(t, d, s)
       \/ Wanted(t, d) /\ Made(t, d, s, A) /\ Linking(t, d)

(* SignalR Core. *)
CoreAgrees(t, d, s) ==
    LET k == d.promise
    IN
    /\ t.hub # "none" => k.asked = "started" \/ (k.asked = "stopped" /\ t.isDisconnecting)
    /\ t.hub = "none" => k.asked # "started"
    /\ t.hub # "failed"
    /\ t.hub \in {"connecting", "connected"} /\ t.isDisconnecting => t.cancels + t.closes > 0
    /\ t.cancels + t.closes > 0 => t.isDisconnecting
    /\ t.hasTransportError => "BadMessage" \in s.events \/ "Renewal" \in s.events
    /\ t.hub = "connecting" =>
         /\ k.told = "CONNECTING"
         /\ ~t.streaming /\ ~t.messageStream /\ ~t.hasMessage /\ ~t.hasTransportError
         /\ t.isDisconnecting => k.asked = "stopped" /\ "StopEarly" \in s.events
    /\ t.hub \in {"connected", "disconnecting"} =>
         \/ k.told = "CONNECTED"
         \/ /\ k.told = "CONNECTING" /\ k.asked = "stopped" /\ t.isDisconnecting
            /\ ~t.streaming /\ ~t.hasMessage /\ "StopEarly" \in s.events
    /\ t.hub = "connected" /\ ~t.isDisconnecting => t.streaming \/ "StreamEnds" \in s.events
    /\ t.hub = "disconnecting" => t.isDisconnecting
    /\ t.hub = "reconnecting" => k.told = "RECONNECTING" /\ ~t.isDisconnecting

(* Legacy SignalR. *)
LibraryAgrees(l, d, s) ==
    /\ l.state # "disconnected" <=> d.promise.asked = "started"
    /\ l.state # "disconnected" => d.promise.told = Signalr!mapConnectionState(l.state)
    /\ l.state = "connecting" =>
          l.negotiating \/ l.transport # 0 \/ "ProtocolMismatch" \in s.events

(* The current transport agrees; and once it has nothing, a connection     *)
(* that was stopped has told so.                                           *)
TransportAgrees(t, d, s, A) ==
    /\ Is(t, Ws!Kind) => WsAgrees(t, d, s, A)
    /\ Is(t, Core!Kind) => CoreAgrees(t, d, s)
    /\ Is(t, Signalr!Kind) => LibraryAgrees(t.connection, d, s)
    /\ d.promise.asked = "stopped" /\ (Is(t, Core!Kind) => t.hub = "none") =>
          d.promise.told \in {"none", "DISCONNECTED"} \/ Excused(s)

(* What was told fits what was asked, with or without a transport. *)
Says(d) ==
    LET k == d.promise
    IN  /\ k.told = "exhausted" <=> ~HasTransport(d)
        /\ k.asked = "started" => HasTransport(d)
        /\ k.asked = "created" => k.told \in {"none", "exhausted"}
        /\ k.asked = "down" => k.told \in {"DISCONNECTED", "exhausted"}
        /\ k.asked = "disposed" => k.told \in {"none", "DISCONNECTED", "exhausted"}
        /\ k.asked \in {"started", "down", "stopped"} => d.contextId # 0

(* The transports that came before the current one were left.              *)
AllLeft(d) == \A i \in DOMAIN d.transports :
                  i < d.tranportIndex => Left(d.transports[i])

(* The parts of the agreement.                                             *)
Agrees(d, s, A) ==
    /\ AllLeft(d) /\ Says(d)
    /\ HasTransport(d) => TransportAgrees(Current(d), d, s, A)
-----------------------------------------------------------------------------
(***************************************************************************)
(* 5. The steps of the contract                                            *)
(***************************************************************************)
(* The contract allows a step from k to p. *)
Goes(k, p) ==
    \E x \in Contract!Asks(k) : \E once \in Contract!Reports(x) :
        \E after \in {once} \cup (IF once.told = "FAILED"
                                  THEN Contract!Reports(once) ELSE {}) :
            \/ p = after
            \/ p = [after EXCEPT !.late = TRUE] /\ Contract!Overtakes(k, after)

(* The promise k, once it is late.                                         *)
LateOf(k) == [k EXCEPT !.late = TRUE]

(* Such a step is one of the contract's own.                               *)
LEMMA GoesNext ==
    ASSUME Goes(c.promise, c'.promise)
    PROVE  Contract!Next
<1>1. PICK x \in Contract!Asks(c.promise) : \E once \in Contract!Reports(x) :
         \E after \in {once} \cup (IF once.told = "FAILED"
                                   THEN Contract!Reports(once) ELSE {}) :
             \/ c'.promise = after
             \/ /\ c'.promise = [after EXCEPT !.late = TRUE]
                /\ Contract!Overtakes(c.promise, after)
  BY DEF Goes
<1> QED
  BY <1>1 DEF Contract!Next

(* Telling a promise a state.                                              *)
LEMMA TellIs ==
    ASSUME NEW k \in Contract!Promises, NEW state \in Contract!States
    PROVE  /\ Contract!Tell(k, state) \in Contract!Promises
           /\ Contract!Tell(k, state).told = state
           /\ Contract!Tell(k, state).late = k.late
           /\ Contract!Tell(k, state).asked =
                 IF state \in {"DISCONNECTED", "exhausted"}
                 THEN IF k.asked = "started" THEN "down" ELSE k.asked
                 ELSE IF k.asked = "down" THEN "started" ELSE k.asked
BY DEF Contract!Tell, Contract!Promises, Contract!Asked, Contract!States

(* Only the last report of a step counts. *)
LEMMA TellTwice ==
    ASSUME NEW k \in Contract!Promises, NEW one \in Contract!States,
           NEW two \in Contract!States
    PROVE  Contract!Tell(Contract!Tell(k, one), two) = Contract!Tell(k, two)
BY DEF Contract!Tell, Contract!Promises, Contract!Asked, Contract!States

(* Told once more of what it was told last, a promise is the same.         *)
LEMMA TellSame ==
    ASSUME NEW k \in Contract!Promises, k.told \in Contract!States,
           k.told = "CONNECTING" \/ k.told = "RECONNECTING", k.asked # "down"
    PROVE  Contract!Tell(k, k.told) = k
BY DEF Contract!Tell, Contract!Promises, Contract!Asked, Contract!States

(* A promise made late.                                                    *)
LEMMA LateIs ==
    ASSUME NEW k \in Contract!Promises
    PROVE  /\ LateOf(k) \in Contract!Promises /\ LateOf(k).late
           /\ LateOf(k).asked = k.asked /\ LateOf(k).told = k.told
           /\ k.late => LateOf(k) = k
BY DEF LateOf, Contract!Promises

(* What is asked for changes neither what was told nor whether it is late. *)
LEMMA AsksIs ==
    ASSUME NEW k \in Contract!Promises, NEW x \in Contract!Asks(k)
    PROVE  x \in Contract!Promises /\ x.told = k.told /\ x.late = k.late
BY DEF Contract!Asks, Contract!Stop, Contract!Start, Contract!Dispose,
       Contract!Promises, Contract!Asked

(* Nothing need be asked for, and nothing reported.                        *)
LEMMA Itself ==
    ASSUME NEW k
    PROVE  k \in Contract!Asks(k) /\ k \in Contract!Reports(k)
BY DEF Contract!Asks, Contract!Reports

(* A step with one report at most.                                         *)
LEMMA GoesOne ==
    ASSUME NEW k, NEW x \in Contract!Asks(k), NEW p \in Contract!Reports(x)
    PROVE  /\ Goes(k, p)
           /\ Contract!Overtakes(k, p) => Goes(k, LateOf(p))
BY DEF Goes, LateOf

(* A step with the failure of a transport and the report of the next.      *)
LEMMA GoesTwo ==
    ASSUME NEW k, NEW x \in Contract!Asks(k), NEW once \in Contract!Reports(x),
           once.told = "FAILED", NEW p \in Contract!Reports(once)
    PROVE  /\ Goes(k, p)
           /\ Contract!Overtakes(k, p) => Goes(k, LateOf(p))
BY DEF Goes, LateOf

(* What may be told is a report.                                           *)
LEMMA TellAllowed ==
    ASSUME NEW k, NEW state \in Contract!States, Contract!MayTell(k, state)
    PROVE  Contract!Tell(k, state) \in Contract!Reports(k)
BY DEF Contract!Reports

(* What a started connection may report. *)
LEMMA StartedTells ==
    ASSUME NEW k \in Contract!Promises, k.asked = "started", ~k.late,
           k.told # "exhausted"
    PROVE  /\ \A state \in {"CONNECTING", "FAILED", "exhausted"} :
                 k.told # state => Contract!MayTell(k, state)
           /\ Contract!MayTell(k, "FAILED")
           /\ k.told \notin {"CONNECTED", "RECONNECTING"} =>
                 Contract!MayTell(k, "CONNECTING")
           /\ k.told \in {"CONNECTING", "CONNECTED", "RECONNECTING"} =>
                 \A state \in {"CONNECTED", "RECONNECTING", "DISCONNECTED"} :
                    k.told # state => Contract!MayTell(k, state)
BY DEF Contract!MayTell, Contract!Follows, Contract!States, Contract!Promises

(* Where a connection stands after its transport has failed, at k.         *)
Aftermath(k) ==
    {k, Contract!Tell(k, "exhausted")} \cup
        (IF StateOf(k.asked) = "started" THEN {Contract!Tell(k, "CONNECTING")} ELSE {})

(* A transport fails, and says so first, or nobody hears it. *)
LEMMA GoesFailed ==
    ASSUME NEW k \in Contract!Promises, NEW x \in Contract!Asks(k), ~x.late,
           x.told # "exhausted", x.asked # "created",
           NEW once, \/ once = Contract!Tell(x, "FAILED") /\ x.asked # "disposed"
                     \/ once = x /\ x.asked # "down",
           NEW p \in Aftermath(once)
    PROVE  /\ Goes(k, p)
           /\ once = Contract!Tell(x, "FAILED") \/ x.asked = "disposed" => Goes(k, LateOf(p))
<1>1. x \in Contract!Promises /\ x.told = k.told
  BY AsksIs
<1>2. {"FAILED", "CONNECTING", "exhausted"} \subseteq Contract!States
  BY DEF Contract!States
<1>3. CASE once = Contract!Tell(x, "FAILED") /\ x.asked # "disposed"
  <2>1. Contract!MayTell(x, "FAILED")
    <3>1. CASE x.asked = "started"
      BY <1>1, <3>1, StartedTells
    <3>2. CASE x.asked # "started"
      BY <1>1, <1>3, <3>2 DEF Contract!MayTell, Contract!Promises, Contract!Asked
    <3> QED
      BY <3>1, <3>2
  <2>2. once \in Contract!Reports(x)
    BY <1>2, <1>3, <2>1, TellAllowed
  <2>3. /\ once \in Contract!Promises /\ once.told = "FAILED" /\ ~once.late
        /\ once.asked = IF x.asked = "down" THEN "started" ELSE x.asked
    <3>1. "FAILED" \in Contract!States /\ "FAILED" \notin {"DISCONNECTED", "exhausted"}
      BY <1>2
    <3>2. /\ once \in Contract!Promises /\ once.told = "FAILED"
          /\ once.late = x.late
      BY <1>1, <1>3, <3>1, TellIs
    <3>3. once.asked = IF x.asked = "down" THEN "started" ELSE x.asked
      BY <1>1, <1>3, <3>1, TellIs
    <3> QED
      BY <3>2, <3>3
  <2>4. once.asked \in {"started", "stopped"}
    BY <1>1, <1>3, <2>3 DEF Contract!Promises, Contract!Asked
  <2>5. p \in Contract!Reports(once)
    <3>1. CASE p = once
      BY <3>1, Itself
    <3>2. CASE p = Contract!Tell(once, "exhausted")
      <4>1. Contract!MayTell(once, "exhausted")
        <5>1. CASE once.asked = "started"
          BY <2>3, <5>1, StartedTells
        <5>2. CASE once.asked = "stopped"
          BY <2>3, <5>2 DEF Contract!MayTell
        <5> QED
          BY <2>4, <5>1, <5>2
      <4> QED
        BY <1>2, <3>2, <4>1, TellAllowed
    <3>3. CASE p = Contract!Tell(once, "CONNECTING") /\ StateOf(once.asked) = "started"
      <4>1. once.asked = "started"
        BY <2>4, <3>3 DEF StateOf
      <4>2. Contract!MayTell(once, "CONNECTING")
        BY <2>3, <4>1, StartedTells
      <4> QED
        BY <1>2, <3>3, <4>2, TellAllowed
    <3> QED
      BY <3>1, <3>2, <3>3 DEF Aftermath
  <2>6. p.told \in {"FAILED", "CONNECTING", "exhausted"}
    <3>1. p \in {once, Contract!Tell(once, "exhausted"), Contract!Tell(once, "CONNECTING")}
      BY DEF Aftermath
    <3>2. Contract!Tell(once, "exhausted").told = "exhausted"
      BY <1>2, <2>3, TellIs
    <3>3. Contract!Tell(once, "CONNECTING").told = "CONNECTING"
      BY <1>2, <2>3, TellIs
    <3> QED
      BY <2>3, <3>1, <3>2, <3>3
  <2>7. Contract!Overtakes(k, p)
    BY <1>1, <2>6 DEF Contract!Overtakes, Contract!MayStart
  <2> QED
    BY <2>2, <2>3, <2>5, <2>7, GoesTwo
<1>4. CASE once = x /\ x.asked # "down" /\ ~(once = Contract!Tell(x, "FAILED") /\ x.asked # "disposed")
  <2>1. x.asked \in {"started", "stopped", "disposed"}
    BY <1>1, <1>4 DEF Contract!Promises, Contract!Asked
  <2>2. p \in Contract!Reports(x)
    <3>1. CASE p = x
      BY <3>1, Itself
    <3>2. CASE p = Contract!Tell(x, "exhausted")
      <4>1. Contract!MayTell(x, "exhausted")
        <5>1. CASE x.asked = "started"
          BY <1>1, <5>1, StartedTells
        <5>2. CASE x.asked # "started"
          BY <2>1, <5>2 DEF Contract!MayTell
        <5> QED
          BY <5>1, <5>2
      <4> QED
        BY <1>2, <3>2, <4>1, TellAllowed
    <3>3. CASE p = Contract!Tell(x, "CONNECTING") /\ StateOf(x.asked) = "started"
      <4>1. x.asked = "started"
        BY <2>1, <3>3 DEF StateOf
      <4>2. p \in Contract!Reports(x)
        <5>1. CASE x.told \in {"CONNECTED", "RECONNECTING"}
          <6>1. Contract!MayTell(x, "CONNECTING")
            BY <1>1, <4>1, <5>1, StartedTells
          <6> QED
            BY <1>2, <3>3, <6>1, TellAllowed
        <5>2. CASE x.told \notin {"CONNECTED", "RECONNECTING"}
          <6>1. Contract!MayTell(x, "CONNECTING")
            BY <1>1, <4>1, <5>2, StartedTells
          <6> QED
            BY <1>2, <3>3, <6>1, TellAllowed
        <5> QED
          BY <5>1, <5>2
      <4> QED
        BY <4>2
    <3> QED
      BY <1>4, <3>1, <3>2, <3>3 DEF Aftermath
  <2>3. x.asked = "disposed" => Contract!Overtakes(k, p)
    <3>1. ASSUME x.asked = "disposed" PROVE p.asked = "disposed"
      <4>1. p \in {x, Contract!Tell(x, "exhausted")}
        BY <1>4, <3>1 DEF Aftermath, StateOf
      <4>2. Contract!Tell(x, "exhausted").asked = "disposed"
        BY <1>1, <1>2, <3>1, TellIs
      <4> QED
        BY <3>1, <4>1, <4>2
    <3> QED
      BY <3>1 DEF Contract!Overtakes, Contract!MayStart
  <2> QED
    BY <1>4, <2>2, <2>3, GoesOne
<1> QED
  BY <1>3, <1>4

(* Once the connection is late it may report what it likes, unless it is   *)
(* disposed of.                                                            *)
LateReports(k) ==
    IF k.asked = "disposed" THEN {k, Contract!Tell(k, "exhausted")}
    ELSE {k} \cup {Contract!Tell(k, state) : state \in Contract!States}

(* The contract allows all of that in one step.                            *)
LEMMA LateReported ==
    ASSUME NEW k \in Contract!Promises, k.late
    PROVE  LateReports(k) \subseteq Contract!Reports(k)
<1>1. "exhausted" \in Contract!States
  BY DEF Contract!States
<1>2. CASE k.asked = "disposed"
  <2>1. Contract!MayTell(k, "exhausted")
    BY <1>2 DEF Contract!MayTell
  <2> QED
    BY <1>1, <1>2, <2>1, TellAllowed, Itself DEF LateReports
<1>3. CASE k.asked # "disposed"
  <2>1. \A state \in Contract!States : Contract!MayTell(k, state)
    BY <1>3 DEF Contract!MayTell
  <2> QED
    BY <1>3, <2>1, TellAllowed, Itself DEF LateReports
<1> QED
  BY <1>2, <1>3

(* More reports of what is late make no difference but the last.           *)
LEMMA LateTells ==
    ASSUME NEW k \in Contract!Promises, NEW p \in LateReports(k),
           NEW state \in Contract!States,
           p.asked # "disposed" \/ state = "exhausted"
    PROVE  Contract!Tell(p, state) \in LateReports(k)
<1>1. "exhausted" \in Contract!States
  BY DEF Contract!States
<1>2. k.asked = "disposed" => p.asked = "disposed"
  BY <1>1, TellIs DEF LateReports
<1>3. Contract!Tell(p, state) = Contract!Tell(k, state)
  BY <1>1, TellTwice DEF LateReports
<1> QED
  BY <1>2, <1>3 DEF LateReports

(* What is late stays late.                                                *)
LEMMA LateStays ==
    ASSUME NEW k \in Contract!Promises, k.late, NEW p \in LateReports(k)
    PROVE  p \in Contract!Promises /\ p.late
BY TellIs DEF LateReports, Contract!States

-----------------------------------------------------------------------------
(***************************************************************************)
(* 6. Deliveries                                                           *)
(***************************************************************************)
(* The current transport becomes t, and the promise k. *)
Moves(e, d, t, k) ==
    /\ e.promise = k /\ e.state = d.state /\ e.tranportIndex = d.tranportIndex
    /\ e.authToken = d.authToken /\ e.contextId = d.contextId
    /\ d.rejected => e.rejected
    /\ DOMAIN e.transports = DOMAIN d.transports
    /\ \A j \in DOMAIN d.transports :
          j # d.tranportIndex => e.transports[j] = d.transports[j]
    /\ HasTransport(e) /\ Current(e) = t

(* Putting t in the place of the current transport.                        *)
LEMMA PutMoves ==
    ASSUME NEW s \in ScenarioRecords, NEW d, Shape(d, s), HasTransport(d),
           NEW t, Ok(t, s.transports[d.tranportIndex], d.contextId),
           NEW e, e = Put(d, d.tranportIndex, t)
    PROVE  Shape(e, s) /\ Moves(e, d, t, d.promise)
<1>1. d.tranportIndex \in DOMAIN d.transports /\ Current(d) # Absent
  BY CurrentOk
<1>2. d.transports[d.tranportIndex] # Absent
  BY <1>1 DEF Current
<1>3. /\ Shape(e, s) /\ e.transports[d.tranportIndex] = t
      /\ \A j \in DOMAIN d.transports :
            j # d.tranportIndex => e.transports[j] = d.transports[j]
      /\ DOMAIN e.transports = DOMAIN d.transports
      /\ e.state = d.state /\ e.tranportIndex = d.tranportIndex
      /\ e.authToken = d.authToken /\ e.contextId = d.contextId
      /\ e.promise = d.promise /\ e.rejected = d.rejected
  BY <1>1, <1>2, PutOk DEF Put
<1>4. HasTransport(e)
  <2>1. Len(e.transports) = Len(s.transports) /\ Len(d.transports) = Len(s.transports)
    BY <1>3 DEF Shape
  <2> QED
    BY <1>3, <2>1 DEF HasTransport
<1> QED
  BY <1>3, <1>4 DEF Moves, Current

(* What the callbacks of the current transport do. *)
Said(d, state) == [d EXCEPT !.promise = Contract!Tell(@, state)]

(* The callbacks of the current transport that report a state or a         *)
(* failure.                                                                *)
LEMMA CallbackIs ==
    ASSUME NEW s, NEW d, NEW i, i = d.tranportIndex, NEW from, NEW what
    PROVE  /\ what \in Contract!States /\ Hears(d) =>
                 Callback(d, s, i, from, what) = Said(d, what)
           /\ what = "fail" => Callback(d, s, i, from, what) = onTransportFail(d, s, from)
           /\ what \in Contract!States /\ ~Hears(d) => Callback(d, s, i, from, what) = d
<1>1. ASSUME what \in Contract!States PROVE Callback(d, s, i, from, what) = Report(d, i, what)
  BY <1>1 DEF Callback, Contract!States
<1>2. what \in Contract!States /\ Hears(d) => Callback(d, s, i, from, what) = Said(d, what)
  BY <1>1 DEF Report, Said
<1>3. what \in Contract!States /\ ~Hears(d) => Callback(d, s, i, from, what) = d
  BY <1>1 DEF Report
<1>5. what = "fail" => Callback(d, s, i, from, what) = onTransportFail(d, s, from)
  BY DEF Callback, Contract!States
<1> QED
  BY <1>2, <1>3, <1>5

(* The callbacks that the connection makes nothing of.                     *)
LEMMA CallbackQuiet ==
    ASSUME NEW s, NEW d, NEW i, NEW from
    PROVE  /\ Callback(d, s, i, from, "started") = d
           /\ Callback(d, s, i, from, "received") = d
BY DEF Callback, Contract!States

(* A report once the current transport is t.                               *)
LEMMA SaidMoves ==
    ASSUME NEW s \in ScenarioRecords, NEW d, NEW e, Shape(e, s), NEW t, NEW k,
           Moves(e, d, t, k), NEW state \in Contract!States,
           NEW f, f = Said(e, state)
    PROVE  Shape(f, s) /\ Moves(f, d, t, Contract!Tell(k, state))
<1>1. e.promise = k /\ k \in Contract!Promises
  BY DEF Moves, Shape, Connections
<1>2. Contract!Tell(k, state) \in Contract!Promises
  BY <1>1, TellType
<1>3. f = [e EXCEPT !.promise = Contract!Tell(k, state)]
  BY <1>1 DEF Said
<1>4. /\ Shape(f, s) /\ f.promise = Contract!Tell(k, state)
      /\ f.transports = e.transports
      /\ f.state = e.state /\ f.tranportIndex = e.tranportIndex
      /\ f.authToken = e.authToken /\ f.contextId = e.contextId
      /\ f.rejected = e.rejected
  BY <1>2, <1>3, PromiseOk
<1> QED
  BY <1>4 DEF Moves, HasTransport, Current

(* A step of the current transport that tells nothing, ... *)
LEMMA MovesSilent ==
    ASSUME NEW s \in ScenarioRecords, NEW d, Shape(d, s), HasTransport(d),
           NEW i, i = d.tranportIndex,
           NEW step, Ok(step.t, s.transports[i], d.contextId),
           \/ step.out = <<>> \/ step.out = <<"received">>
    PROVE  Moves(Deliver(d, s, i, step), d, step.t, d.promise)
<1> DEFINE e == Put(d, i, step.t)
<1>0. Shape(e, s) /\ Moves(e, d, step.t, d.promise)
  BY PutMoves
<1>1. Shape(e, s) /\ Moves(e, d, step.t, d.promise) /\ i = e.tranportIndex
  BY <1>0 DEF Moves
<1>2. CASE step.out = <<>>
  BY <1>1, <1>2, DeliverNone
<1>3. CASE step.out = <<"received">>
  <2>1. Deliver(d, s, i, step) = Callback(e, s, i, step.t, "received")
    BY <1>3, DeliverOne
  <2> HIDE DEF e
  <2>2. Callback(e, s, i, step.t, "received") = e
    BY CallbackQuiet
  <2> QED
    BY <1>1, <2>1, <2>2
<1> QED
  BY <1>2, <1>3

(* ... that its token is rejected, ... *)
LEMMA MovesUnauthorized ==
    ASSUME NEW s \in ScenarioRecords, NEW d, Shape(d, s), HasTransport(d),
           NEW i, i = d.tranportIndex,
           NEW step, Ok(step.t, s.transports[i], d.contextId),
           step.out = <<"unauthorized">>
    PROVE  /\ Moves(Deliver(d, s, i, step), d, step.t, d.promise)
           /\ Hears(d) => Deliver(d, s, i, step).rejected
<1> DEFINE e == Put(d, i, step.t)
<1>1. Shape(e, s) /\ Moves(e, d, step.t, d.promise) /\ i = e.tranportIndex
  BY PutMoves DEF Moves
<1>2. Deliver(d, s, i, step) = Callback(e, s, i, step.t, "unauthorized")
  BY DeliverOne
<1>3. e \in Connections /\ (Hears(e) <=> Hears(d))
  BY <1>1 DEF Shape, Moves, Hears
<1> HIDE DEF e
<1> DEFINE r == e.rejected \/ Hears(e)
<1>4. Callback(e, s, i, step.t, "unauthorized") = [e EXCEPT !.rejected = r]
  BY DEF Callback, Contract!States
<1>5. (e.rejected => r) /\ (Hears(e) => r)
  OBVIOUS
<1> HIDE DEF r
<1> DEFINE f == [e EXCEPT !.rejected = r]
<1>6. /\ f.rejected = r /\ f.promise = e.promise /\ f.state = e.state
      /\ f.tranportIndex = e.tranportIndex /\ f.authToken = e.authToken
      /\ f.contextId = e.contextId /\ f.transports = e.transports
  BY <1>3 DEF Connections
<1> HIDE DEF f
<1>7. Moves(f, d, step.t, d.promise)
  BY <1>1, <1>5, <1>6 DEF Moves, HasTransport, Current
<1> QED
  BY <1>2, <1>3, <1>4, <1>5, <1>6, <1>7 DEF f

(* ... and one that reports a state. *)
LEMMA MovesTold ==
    ASSUME NEW s \in ScenarioRecords, NEW d, Shape(d, s), HasTransport(d), Hears(d),
           NEW i, i = d.tranportIndex,
           NEW step, Ok(step.t, s.transports[i], d.contextId),
           NEW state \in Contract!States,
           \/ step.out = <<state>> \/ step.out = <<"started", state>>
           \/ step.out = <<state, "started">>
    PROVE  Moves(Deliver(d, s, i, step), d, step.t, Contract!Tell(d.promise, state))
<1> DEFINE e == Put(d, i, step.t)
           f == Said(e, state)
<1>1. Shape(e, s) /\ Moves(e, d, step.t, d.promise) /\ i = e.tranportIndex /\ Hears(e)
  BY PutMoves DEF Moves, Hears
<1>2. /\ step.out = <<state>> =>
            Deliver(d, s, i, step) = Callback(e, s, i, step.t, state)
      /\ step.out = <<"started", state>> => Deliver(d, s, i, step) =
            Callback(Callback(e, s, i, step.t, "started"), s, i, step.t, state)
      /\ step.out = <<state, "started">> => Deliver(d, s, i, step) =
            Callback(Callback(e, s, i, step.t, state), s, i, step.t, "started")
  BY DeliverOne, DeliverTwo
<1> HIDE DEF e
<1>3. Shape(f, s) /\ Moves(f, d, step.t, Contract!Tell(d.promise, state))
  BY <1>1, SaidMoves
<1>4. f.tranportIndex = i
  BY <1>3 DEF Moves
<1> HIDE DEF f
<1>5. Callback(e, s, i, step.t, "started") = e /\ Callback(f, s, i, step.t, "started") = f
  BY CallbackQuiet
<1>6. Callback(e, s, i, step.t, state) = f
  BY <1>1, CallbackIs DEF f
<1> QED
  BY <1>2, <1>3, <1>5, <1>6

-----------------------------------------------------------------------------
(***************************************************************************)
(* 7. Websockets                                                           *)
(***************************************************************************)
(* What Authorizings says rests on the authorisation's part of a transport;*)
(* the phases on the rest.                                                 *)
SameAuth(u, t) ==
    /\ u.leaked = t.leaked /\ u.contextId = t.contextId /\ u.authToken = t.authToken
    /\ u.authorizePromise = t.authorizePromise /\ u.authorizing = t.authorizing

SameLink(u, t) ==
    /\ u.kind = t.kind /\ u.works = t.works /\ u.socket = t.socket
    /\ u.hasBeenConnected = t.hasBeenConnected
    /\ u.isReconnectPending = t.isReconnectPending
    /\ u.reconnectTimeout = t.reconnectTimeout
    /\ u.lastMessageId = t.lastMessageId

(* They stand as they are while the transport's part of them does,         *)
(* whatever the connection is told.                                        *)
LEMMA AuthorizingsSame ==
    ASSUME NEW t, NEW d, Authorizings(t, d), NEW u, SameAuth(u, t), NEW e,
           e.contextId = d.contextId, e.authToken = d.authToken
    PROVE  /\ Authorizings(u, e) /\ (NoStart(t) <=> NoStart(u))
           /\ \A k : Starts(u, k) <=> Starts(t, k)
           /\ Renews(t) => Renews(u)
BY DEF Authorizings, SameAuth, NoStart, Starts, Renews, Requested, Ws!superseded

(* The request that Authorize appends: for a start, or for a new token. *)
Asking(u, t, starts) ==
    \/ starts = 1 /\ u = Ws!Authorize(t, 1, FALSE)
    \/ starts = 0 /\ u = Ws!Authorize(t, 0, TRUE)

(* What Authorize adds: one authorisation, the last and the current one.   *)
LEMMA AuthorizeIs ==
    ASSUME NEW n \in Nat, NEW t, WsOk(t, n),
           NEW starts \in {0, 1}, NEW u, Asking(u, t, starts)
    PROVE  LET m == Len(t.authorizing)
               a == u.authorizing
           IN  /\ m \in Nat /\ DOMAIN t.authorizing = 1..m
               /\ DOMAIN a = 1..m + 1
               /\ \A k \in 1..m :
                     /\ a[k].contextId = t.authorizing[k].contextId
                     /\ a[k].authToken = t.authorizing[k].authToken
                     /\ a[k].starts = t.authorizing[k].starts
                     /\ ~a[k].current
               /\ a[m + 1].contextId = t.contextId /\ a[m + 1].authToken = t.authToken
               /\ a[m + 1].starts = starts /\ (starts = 0 => a[m + 1].renews)
               /\ a[m + 1].current
               /\ u.authorizePromise = "pending"
               /\ SameLink(u, t) /\ u.leaked = t.leaked /\ u.query = t.query
               /\ u.startLost = t.startLost
               /\ u.contextId = t.contextId /\ u.authToken = t.authToken
<1>0. PICK renews \in BOOLEAN : /\ u = Ws!Authorize(t, starts, renews)
                                /\ starts = 0 => renews
  <2>1. starts # 0 => u = Ws!Authorize(t, starts, FALSE)
    BY DEF Asking
  <2>2. starts = 0 => u = Ws!Authorize(t, starts, TRUE)
    BY DEF Asking
  <2>3. FALSE \in BOOLEAN /\ TRUE \in BOOLEAN
    OBVIOUS
  <2> QED
    BY <2>1, <2>2, <2>3, Zenon
<1> DEFINE b == [contextId |-> t.contextId, authToken |-> t.authToken,
                 starts |-> starts, renews |-> renews, current |-> TRUE]
           r == Ws!NoneCurrent(t)
           q == Append(r, b)
           m == Len(t.authorizing)
<1>1. b \in Ws!Authorizations
  BY DEF WsOk, WsWithin, Ws!Transports, Ws!Authorizations
<1>2. /\ r \in Seq(Ws!Authorizations) /\ Len(r) = m
      /\ \A k \in DOMAIN t.authorizing :
            /\ r[k].contextId = t.authorizing[k].contextId
            /\ r[k].authToken = t.authorizing[k].authToken
            /\ r[k].starts = t.authorizing[k].starts
            /\ ~r[k].current
  BY WsNoneCurrent
<1>3. t.authorizing \in Seq(Ws!Authorizations)
  BY DEF WsOk, Ws!Transports
<1>4. m \in Nat /\ DOMAIN t.authorizing = 1..m
  BY <1>3
<1>5. u = [t EXCEPT !.authorizePromise = "pending", !.authorizing = q]
  BY <1>0 DEF Ws!Authorize
<1>6. /\ b.contextId = t.contextId /\ b.authToken = t.authToken /\ b.starts = starts
      /\ (starts = 0 => b.renews) /\ b.current
  BY <1>0
<1> HIDE DEF b, r, m
<1>7. /\ DOMAIN q = 1..m + 1 /\ q[m + 1] = b
      /\ \A k \in 1..m : q[k] = r[k]
  BY <1>1, <1>2, <1>4
<1> HIDE DEF q
<1>8. /\ u.authorizing = q /\ u.authorizePromise = "pending"
      /\ SameLink(u, t) /\ u.leaked = t.leaked /\ u.query = t.query
      /\ u.startLost = t.startLost
      /\ u.contextId = t.contextId /\ u.authToken = t.authToken
  BY <1>5 DEF WsOk, Ws!Transports, SameLink
<1> QED
  BY <1>2, <1>4, <1>6, <1>7, <1>8 DEF m

(* A request for what no other is in flight for. *)
LEMMA AuthorizeAgrees ==
    ASSUME NEW n \in Nat, NEW t, WsOk(t, n), NEW d,
           d.contextId \in Nat, d.authToken \in Nat,
           t.leaked = <<>>, t.contextId = d.contextId, t.contextId # 0,
           t.authToken \in 0..d.authToken,
           \A k \in DOMAIN t.authorizing :
              /\ t.authorizing[k].contextId \in 1..d.contextId
              /\ t.authorizing[k].authToken \in 0..d.authToken
              /\ t.authorizing[k].starts \in {0, 1}
              /\ Ws!superseded(t, t.authorizing[k]),
           \A j, k \in DOMAIN t.authorizing : Starts(t, j) /\ Starts(t, k) => j = k,
           NEW starts \in {0, 1}, starts = 1 => NoStart(t),
           NEW u, Asking(u, t, starts)
    PROVE  /\ Authorizings(u, d) /\ u.authorizePromise = "pending"
           /\ SameLink(u, t) /\ u.query = t.query /\ u.startLost = t.startLost
           /\ u.contextId = t.contextId /\ u.authToken = t.authToken
           /\ u.leaked = t.leaked
           /\ starts = 0 => /\ NoStart(t) => NoStart(u)
                            /\ \A k \in DOMAIN t.authorizing : Starts(t, k) =>
                                  /\ k \in DOMAIN u.authorizing /\ Starts(u, k)
                                  /\ u.authorizing[k].contextId =
                                        t.authorizing[k].contextId
           /\ starts = 1 => \E k \in DOMAIN u.authorizing :
                               Starts(u, k) /\ u.authorizing[k].contextId = d.contextId
           /\ starts = 0 => Renews(u)
<1> DEFINE m == Len(t.authorizing)
           a == u.authorizing
<1>1. /\ m \in Nat /\ DOMAIN t.authorizing = 1..m
      /\ DOMAIN a = 1..m + 1
      /\ \A k \in 1..m :
            /\ a[k].contextId = t.authorizing[k].contextId
            /\ a[k].authToken = t.authorizing[k].authToken
            /\ a[k].starts = t.authorizing[k].starts
            /\ ~a[k].current
      /\ a[m + 1].contextId = t.contextId /\ a[m + 1].authToken = t.authToken
      /\ a[m + 1].starts = starts /\ (starts = 0 => a[m + 1].renews)
      /\ a[m + 1].current
      /\ u.authorizePromise = "pending"
      /\ SameLink(u, t) /\ u.leaked = t.leaked /\ u.query = t.query
      /\ u.startLost = t.startLost
      /\ u.contextId = t.contextId /\ u.authToken = t.authToken
  BY AuthorizeIs
<1> HIDE DEF m, a
<1>2. \A k \in 1..m + 1 : k \in 1..m \/ k = m + 1
  BY <1>1
<1>3. m + 1 \in 1..m + 1 /\ \A k \in 1..m : k \in 1..m + 1 /\ k # m + 1
  BY <1>1
<1>4. ASSUME NEW k \in 1..m
      PROVE  (Starts(u, k) <=> Starts(t, k)) /\ Ws!superseded(u, a[k])
  <2>1. /\ a[k].contextId = t.authorizing[k].contextId
        /\ a[k].authToken = t.authorizing[k].authToken
        /\ a[k].starts = t.authorizing[k].starts
    BY <1>1
  <2>2. Starts(u, k) <=> Starts(t, k)
    BY <2>1 DEF Starts, a
  <2>3. Ws!superseded(t, t.authorizing[k])
    BY <1>1
  <2>4. Ws!superseded(u, a[k])
    BY <1>1, <2>1, <2>3 DEF Ws!superseded
  <2> QED
    BY <2>2, <2>4
<1>5. (Starts(u, m + 1) <=> starts = 1) /\ ~Ws!superseded(u, a[m + 1])
  BY <1>1 DEF Starts, Ws!superseded, a
<1>6. Authorizings(u, d)
  <2>1. ASSUME NEW k \in DOMAIN a PROVE Requested(u, a[k], d)
    <3>1. CASE k \in 1..m
      BY <1>1, <1>4, <3>1 DEF Requested
    <3>2. CASE k = m + 1
      BY <1>1, <1>5, <3>2 DEF Requested
    <3> QED
      BY <1>1, <1>2, <2>1, <3>1, <3>2
  <2>2. ASSUME NEW j \in DOMAIN a, NEW k \in DOMAIN a,
               \/ a[j].current /\ a[k].current
               \/ Starts(u, j) /\ Starts(u, k)
        PROVE  j = k
    <3>1. ASSUME j \in 1..m, k \in 1..m PROVE j = k
      BY <1>1, <1>4, <2>2, <3>1
    <3>2. ASSUME j \in 1..m, k = m + 1 PROVE FALSE
      BY <1>1, <1>4, <1>5, <2>2, <3>2 DEF NoStart
    <3>3. ASSUME k \in 1..m, j = m + 1 PROVE FALSE
      BY <1>1, <1>4, <1>5, <2>2, <3>3 DEF NoStart
    <3> QED
      BY <1>1, <1>2, <2>2, <3>1, <3>2, <3>3
  <2>3. \E k \in DOMAIN a : a[k].current
    BY <1>1, <1>3
  <2> QED
    BY <1>1, <2>1, <2>2, <2>3 DEF Authorizings, a
<1>7. starts = 0 => /\ NoStart(t) => NoStart(u)
                    /\ \A k \in DOMAIN t.authorizing : Starts(t, k) =>
                          /\ k \in DOMAIN u.authorizing /\ Starts(u, k)
                          /\ u.authorizing[k].contextId = t.authorizing[k].contextId
  BY <1>1, <1>2, <1>3, <1>4, <1>5 DEF NoStart, a
<1>8. starts = 1 => \E k \in DOMAIN u.authorizing :
                       Starts(u, k) /\ u.authorizing[k].contextId = d.contextId
  BY <1>1, <1>3, <1>5 DEF a
<1>9. starts = 0 => Renews(u)
  BY <1>1, <1>3 DEF Renews, a
<1> QED
  BY <1>1, <1>6, <1>7, <1>8, <1>9

(* A request that is settled is in flight no more. *)
LEMMA SettleAgrees ==
    ASSUME NEW n \in Nat, NEW t, WsOk(t, n), NEW d, Authorizings(t, d),
           NEW i \in DOMAIN t.authorizing, NEW how \in {"resolved", "rejected"},
           NEW u, u = Ws!Settle(t, i, how)
    PROVE  /\ Authorizings(u, d) /\ SameLink(u, t)
           /\ u.query = t.query /\ u.startLost = t.startLost
           /\ u.contextId = t.contextId /\ u.authToken = t.authToken
           /\ u.leaked = <<>>
           /\ u.authorizePromise = IF t.authorizing[i].current THEN how
                                   ELSE t.authorizePromise
           /\ NoStart(t) => NoStart(u)
           /\ Starts(t, i) => NoStart(u)
           /\ \A j \in DOMAIN t.authorizing : j # i /\ Starts(t, j) =>
                 \E k \in DOMAIN u.authorizing :
                    Starts(u, k) /\ u.authorizing[k].contextId = t.authorizing[j].contextId
           /\ Renews(t) /\ ~(t.authorizing[i].current /\ t.authorizing[i].renews) =>
                 Renews(u)
<1> DEFINE a == t.authorizing
           q == Ws!RemoveAt(a, i)
           p == IF a[i].current THEN how ELSE t.authorizePromise
           At(k) == IF k < i THEN k ELSE k + 1
<1>1. a \in Seq(Ws!Authorizations)
  BY DEF WsOk, Ws!Transports
<1>2. /\ q \in Seq(Ws!Authorizations) /\ Len(q) = Len(a) - 1
      /\ \A k \in DOMAIN q : At(k) \in DOMAIN a /\ q[k] = a[At(k)]
  BY <1>1, RemoveAtType
<1>3. u = [t EXCEPT !.authorizePromise = p, !.authorizing = q]
  BY DEF Ws!Settle
<1> HIDE DEF q, p
<1>4. /\ u.authorizing = q /\ u.authorizePromise = p /\ SameLink(u, t)
      /\ u.query = t.query /\ u.startLost = t.startLost
      /\ u.contextId = t.contextId /\ u.authToken = t.authToken
      /\ u.leaked = t.leaked
  BY <1>3 DEF WsOk, Ws!Transports, SameLink
<1>5. Len(a) \in Nat /\ DOMAIN a = 1..Len(a) /\ DOMAIN q = 1..Len(a) - 1 /\ i \in 1..Len(a)
  BY <1>1, <1>2
<1>6. \A k \in DOMAIN q : At(k) # i /\ At(k) \in DOMAIN a
  BY <1>2, <1>5
<1>7. \A j, k \in DOMAIN q : At(j) = At(k) => j = k
  BY <1>5
<1>8. ASSUME NEW j \in DOMAIN a, j # i PROVE \E k \in DOMAIN q : At(k) = j
  <2>1. CASE j < i
    BY <1>5, <1>8, <2>1
  <2>2. CASE ~(j < i)
    <3>1. j - 1 \in DOMAIN q /\ At(j - 1) = j
      BY <1>5, <1>8, <2>2
    <3> QED
      BY <3>1
  <2> QED
    BY <2>1, <2>2
<1>9. \A k \in DOMAIN q : q[k] = a[At(k)]
  BY <1>2
<1>10. /\ t.leaked = <<>> /\ t.contextId \in {0, d.contextId}
       /\ t.authorizePromise = "pending" <=> \E k \in DOMAIN a : a[k].current
       /\ \A k \in DOMAIN a : Requested(t, a[k], d)
       /\ \A j, k \in DOMAIN a : /\ a[j].current /\ a[k].current => j = k
                                 /\ Starts(t, j) /\ Starts(t, k) => j = k
  BY DEF Authorizings
<1> HIDE DEF At, a
<1>11. \A k \in DOMAIN q : Starts(u, k) <=> Starts(t, At(k))
  BY <1>4, <1>9 DEF Starts, a
<1>12. Authorizings(u, d)
  <2>1. \A k \in DOMAIN q : Requested(u, q[k], d)
    BY <1>4, <1>6, <1>9, <1>10 DEF Requested, Ws!superseded
  <2>2. \A j, k \in DOMAIN q : /\ q[j].current /\ q[k].current => j = k
                               /\ Starts(u, j) /\ Starts(u, k) => j = k
    BY <1>6, <1>7, <1>9, <1>10, <1>11
  <2>3. p = "pending" <=> \E k \in DOMAIN q : q[k].current
    <3>1. CASE a[i].current
      <4>1. p # "pending"
        BY <3>1 DEF p, a
      <4>2. \A k \in DOMAIN q : ~q[k].current
        BY <1>6, <1>9, <1>10, <3>1 DEF a
      <4> QED
        BY <4>1, <4>2
    <3>2. CASE ~a[i].current
      <4>1. p = t.authorizePromise
        BY <3>2 DEF p, a
      <4>2. (\E k \in DOMAIN q : q[k].current) <=> (\E k \in DOMAIN a : a[k].current)
        BY <1>6, <1>8, <1>9, <3>2
      <4> QED
        BY <1>10, <4>1, <4>2
    <3> QED
      BY <3>1, <3>2
  <2> QED
    BY <1>4, <1>10, <2>1, <2>2, <2>3 DEF Authorizings
<1>13. NoStart(t) => NoStart(u)
  BY <1>4, <1>6, <1>11 DEF NoStart, a
<1>14. Starts(t, i) => NoStart(u)
  BY <1>4, <1>6, <1>10, <1>11 DEF NoStart, a
<1>15. \A j \in DOMAIN a : j # i /\ Starts(t, j) =>
          \E k \in DOMAIN u.authorizing :
             Starts(u, k) /\ u.authorizing[k].contextId = a[j].contextId
  BY <1>4, <1>8, <1>9, <1>11
<1>16. Renews(t) /\ ~(a[i].current /\ a[i].renews) => Renews(u)
  <2>1. ASSUME Renews(t), ~(a[i].current /\ a[i].renews) PROVE Renews(u)
    <3>1. PICK j \in DOMAIN a : a[j].current /\ a[j].renews
      BY <2>1 DEF Renews, a
    <3>2. j # i
      BY <2>1, <3>1
    <3>3. PICK k \in DOMAIN q : At(k) = j
      BY <1>8, <3>2
    <3> QED
      BY <1>4, <1>9, <3>1, <3>3 DEF Renews
  <2> QED
    BY <2>1
<1> QED
  BY <1>4, <1>10, <1>12, <1>13, <1>14, <1>15, <1>16 DEF p, a

(* A request that is sent again was the authorizePromise already. *)
Resent(t, i) ==
    [t EXCEPT !.authorizePromise = "pending",
              !.authorizing = [k \in DOMAIN @ |-> [@[k] EXCEPT !.current = k = i]]]

(* An authorisation that is sent again stands as before.                   *)
LEMMA ResendIs ==
    ASSUME NEW n \in Nat, NEW t, WsOk(t, n), NEW d, Authorizings(t, d),
           NEW i \in DOMAIN t.authorizing, ~Ws!superseded(t, t.authorizing[i]),
           NEW u, u = Resent(t, i)
    PROVE  /\ SameAuth(u, t) /\ SameLink(u, t)
           /\ u.query = t.query /\ u.startLost = t.startLost
<1> DEFINE a == t.authorizing
           q == [k \in DOMAIN a |-> [a[k] EXCEPT !.current = k = i]]
<1>1. a \in Seq(Ws!Authorizations)
  BY DEF WsOk, Ws!Transports
<1>2. a[i].current /\ t.authorizePromise = "pending"
  BY DEF Authorizings, Requested
<1>3. ASSUME NEW k \in DOMAIN a PROVE q[k] = a[k]
  <2>1. a[k].current <=> k = i
    BY <1>2 DEF Authorizings
  <2>2. a[k] \in Ws!Authorizations
    BY <1>1
  <2>3. a[k].current \in BOOLEAN
    BY <2>2 DEF Ws!Authorizations
  <2>4. a[k].current = (k = i)
    BY <2>1, <2>3
  <2>5. [a[k] EXCEPT !.current = a[k].current] = a[k]
    BY <2>2 DEF Ws!Authorizations
  <2> QED
    BY <2>4, <2>5
<1>4. q = a
  <2>1. a = [k \in DOMAIN a |-> a[k]]
    BY <1>1
  <2>2. q = [k \in DOMAIN q |-> q[k]] /\ DOMAIN q = DOMAIN a
    OBVIOUS
  <2> HIDE DEF q, a
  <2> QED
    BY <1>3, <2>1, <2>2
<1>5. u = [t EXCEPT !.authorizePromise = "pending", !.authorizing = q]
  BY DEF Resent
<1> HIDE DEF q
<1>6. /\ u.authorizing = q /\ u.authorizePromise = "pending" /\ SameLink(u, t)
      /\ u.query = t.query /\ u.startLost = t.startLost
      /\ u.contextId = t.contextId /\ u.authToken = t.authToken
      /\ u.leaked = t.leaked
  BY <1>5 DEF WsOk, Ws!Transports, SameLink
<1> QED
  BY <1>2, <1>4, <1>6 DEF SameAuth

(* A start waits for the request there is. *)
LEMMA AddStartAgrees ==
    ASSUME NEW n \in Nat, NEW t, WsOk(t, n), NEW d,
           t.leaked = <<>>, t.contextId = d.contextId,
           t.authorizePromise = "pending", NoStart(t),
           \E k \in DOMAIN t.authorizing : t.authorizing[k].current,
           \A k \in DOMAIN t.authorizing :
              /\ t.authorizing[k].contextId \in 1..d.contextId
              /\ t.authorizing[k].authToken \in 0..d.authToken
              /\ t.authorizing[k].starts \in {0, 1}
              /\ Ws!superseded(t, t.authorizing[k]),
           \A j, k \in DOMAIN t.authorizing :
              t.authorizing[j].current /\ t.authorizing[k].current => j = k,
           NEW u, u = Ws!AddStart(t)
    PROVE  /\ Authorizings(u, d) /\ SameLink(u, t)
           /\ u.query = t.query /\ u.startLost = t.startLost
           /\ u.contextId = t.contextId /\ u.authToken = t.authToken
           /\ \E k \in DOMAIN u.authorizing : Starts(u, k)
<1> DEFINE a == t.authorizing
           Added(b) == IF b.current THEN [b EXCEPT !.starts = @ + 1] ELSE b
           q == [k \in DOMAIN a |-> Added(a[k])]
<1>1. a \in Seq(Ws!Authorizations)
  BY DEF WsOk, Ws!Transports
<1>2. u = [t EXCEPT !.authorizing = q]
  BY DEF Ws!AddStart
<1>3. ASSUME NEW k \in DOMAIN a
      PROVE  /\ q[k].contextId = a[k].contextId /\ q[k].authToken = a[k].authToken
             /\ q[k].current <=> a[k].current
             /\ q[k].starts = IF a[k].current THEN 1 ELSE 0
  <2>1. a[k] \in Ws!Authorizations /\ a[k].starts = 0
    BY <1>1 DEF NoStart, Starts
  <2>2. CASE a[k].current
    <3>1. q[k] = [a[k] EXCEPT !.starts = a[k].starts + 1]
      BY <2>2
    <3> QED
      BY <2>1, <2>2, <3>1 DEF Ws!Authorizations
  <2>3. CASE ~a[k].current
    BY <2>1, <2>3
  <2> QED
    BY <2>2, <2>3
<1>4. DOMAIN q = DOMAIN a
  OBVIOUS
<1> HIDE DEF q
<1>5. /\ u.authorizing = q /\ u.authorizePromise = t.authorizePromise /\ SameLink(u, t)
      /\ u.query = t.query /\ u.startLost = t.startLost
      /\ u.contextId = t.contextId /\ u.authToken = t.authToken
      /\ u.leaked = t.leaked
  BY <1>2 DEF WsOk, Ws!Transports, SameLink
<1>6. \A k \in DOMAIN a : Starts(u, k) <=> a[k].current
  BY <1>3, <1>5 DEF Starts
<1>7. \A k \in DOMAIN a : Requested(u, q[k], d)
  BY <1>3, <1>5 DEF Requested, Ws!superseded
<1> QED
  BY <1>3, <1>4, <1>5, <1>6, <1>7 DEF Authorizings

(* setQuery changes the query, and what an authorisation is for.           *)
LEMMA SetQueryIs ==
    ASSUME NEW n \in Nat, NEW t, WsOk(t, n), NEW token \in Nat, NEW context \in 0..n,
           NEW u, u = Ws!setQuery(t, token, context)
    PROVE  /\ WsOk(u, n) /\ SameLink(u, t) /\ u.startLost = t.startLost
           /\ u.contextId = context /\ u.authToken = token
           /\ u.query.context = context /\ u.query.message = t.lastMessageId
           /\ u.leaked = t.leaked /\ u.authorizePromise = t.authorizePromise
           /\ u.authorizing = t.authorizing
<1>1. WsOk(u, n)
  BY WsSetQuery
<1>2. t \in Ws!Transports
  BY DEF WsOk
<1> QED
  BY <1>1, <1>2 DEF Ws!setQuery, Ws!Transports, SameLink

(* The query of a websocket transport is asked for without authorisation.  *)
LEMMA WsQueried ==
    ASSUME NEW n \in Nat, NEW t, WsOk(t, n), NEW token \in Nat, NEW context \in 0..n
    PROVE  Queried(t, token, context) = Ws!setQuery(t, token, context)
<1>1. t.kind = Ws!Kind /\ Ws!Kind # Core!Kind
  BY DEF WsOk, Ws!Transports, Ws!Kind, Core!Kind
<1> QED
  BY <1>1 DEF Queried, UpdateQuery, Ws!updateQuery, Ws!Step

(* A query with forceAuth asks for an authorisation.                       *)
LEMMA WsRequeried ==
    ASSUME NEW n \in Nat, NEW t, WsOk(t, n), NEW token \in Nat, NEW context \in 0..n
    PROVE  Asking(Requeried(t, token, context), Ws!setQuery(t, token, context), 0)
<1>1. t.kind = Ws!Kind /\ Ws!Kind # Core!Kind
  BY DEF WsOk, Ws!Transports, Ws!Kind, Core!Kind
<1>2. PICK yes : yes = TRUE
  OBVIOUS
<1>3. UpdateQuery(t, token, context, yes).t = Ws!Authorize(Ws!setQuery(t, token, context), 0, yes)
  BY <1>1, <1>2 DEF UpdateQuery, Ws!updateQuery, Ws!Step
<1> QED
  BY <1>2, <1>3, Zenon DEF Asking, Requeried

(* A new websocket transport.                                              *)
LEMMA WsNewIs ==
    ASSUME NEW works \in BOOLEAN, NEW n \in Nat, NEW t, t = Ws!New(works)
    PROVE  /\ WsOk(t, n) /\ Fresh(t) /\ t.authorizing = <<>> /\ t.leaked = <<>>
           /\ t.contextId = 0 /\ t.authToken = 0 /\ ~t.startLost
           /\ t.authorizePromise = "none" /\ t.works = works /\ t.kind = Ws!Kind
<1>1. 0 \in 0..DEFAULT_RECONNECT_LIMIT
  BY TransportsAssumption
<1>2. t \in Ws!Transports
  BY <1>1 DEF Ws!New, Ws!Transports, Ws!NoQuery, Ws!Queries
<1>3. /\ Fresh(t) /\ t.authorizing = <<>> /\ t.leaked = <<>>
      /\ t.contextId = 0 /\ t.authToken = 0 /\ ~t.startLost
      /\ t.authorizePromise = "none" /\ t.works = works /\ t.kind = Ws!Kind
  BY DEF Ws!New, Fresh
<1>4. WsWithin(t, n)
  BY <1>3 DEF WsWithin, Fresh
<1> QED
  BY <1>2, <1>3, <1>4 DEF WsOk

(* A transport that was just made and is not to be started. *)
LEMMA NewAgrees ==
    ASSUME NEW s \in ScenarioRecords, NEW kind \in Kinds, NEW t, t = NewTransport(s, kind),
           NEW d, d.promise \in Contract!Promises, d.promise.asked # "started",
           d.promise.asked = "stopped" => Excused(s), NEW A
    PROVE  TransportAgrees(t, d, s, A)
<1> DEFINE works == kind \in s.working
<1>1. works \in BOOLEAN
  OBVIOUS
<1>2. \/ t = Ws!New(works) /\ kind = Ws!Kind
      \/ t = Core!New(works) /\ kind = Core!Kind
      \/ t = Signalr!New /\ kind = Signalr!Kind
  BY DEF NewTransport, Kinds, Ws!Kind, Core!Kind, Signalr!Kind
<1> HIDE DEF works
<1>3. CASE t = Ws!New(works) /\ kind = Ws!Kind
  <2>1. /\ Fresh(t) /\ t.authorizing = <<>> /\ t.leaked = <<>>
        /\ t.contextId = 0 /\ t.authToken = 0 /\ ~t.startLost
        /\ t.authorizePromise = "none" /\ t.kind = Ws!Kind
    <3>1. 0 \in Nat
      OBVIOUS
    <3> QED
      BY <1>1, <1>3, <3>1, WsNewIs
  <2>2. WsAgrees(t, d, s, A)
    BY <2>1 DEF WsAgrees, Authorizings, Idle, NoStart
  <2> QED
    BY <2>1, <2>2 DEF TransportAgrees, Is, Ws!Kind, Core!Kind, Signalr!Kind
<1>4. CASE t = Core!New(works) /\ kind = Core!Kind
  <2>1. /\ CoreOk(t) /\ t.hub = "none" /\ t.kind = Core!Kind
    BY <1>1, <1>4, CoreNewIs
  <2>2. CoreAgrees(t, d, s)
    BY <2>1 DEF CoreAgrees, CoreOk
  <2> QED
    BY <2>1, <2>2 DEF TransportAgrees, Is, Ws!Kind, Core!Kind, Signalr!Kind
<1>5. CASE t = Signalr!New /\ kind = Signalr!Kind
  <2>1. t.kind = Signalr!Kind /\ t.connection.state = "disconnected"
    BY <1>5 DEF Signalr!New, Signalr!Library!New
  <2>2. LibraryAgrees(t.connection, d, s)
    BY <2>1 DEF LibraryAgrees
  <2> QED
    BY <2>1, <2>2 DEF TransportAgrees, Is, Ws!Kind, Core!Kind, Signalr!Kind
<1> QED
  BY <1>2, <1>3, <1>4, <1>5

-----------------------------------------------------------------------------
(***************************************************************************)
(* 8. Where a step leads                                                   *)
(***************************************************************************)
(* The contract allows what was told, and what is agrees with it. *)
Lands(k, e, s, A) == Goes(k, e.promise) /\ (e.promise.late \/ Agrees(e, s, A))

(* What a connection that was stopped has told last. *)
Rests(d, s) == d.promise.asked = "stopped" =>
                   d.promise.told \in {"none", "DISCONNECTED"} \/ Excused(s)

(* TransportAgrees, kind by kind.                                          *)
LEMMA AgreesOf ==
    ASSUME NEW t, NEW d, NEW s, NEW A
    PROVE  /\ t.kind = Ws!Kind =>
                 (TransportAgrees(t, d, s, A) <=> WsAgrees(t, d, s, A) /\ Rests(d, s))
           /\ t.kind = Core!Kind =>
                 (TransportAgrees(t, d, s, A) <=>
                     CoreAgrees(t, d, s) /\ (t.hub = "none" => Rests(d, s)))
           /\ t.kind = Signalr!Kind =>
                 (TransportAgrees(t, d, s, A) <=>
                     LibraryAgrees(t.connection, d, s) /\ Rests(d, s))
BY DEF TransportAgrees, Rests, Is, Ws!Kind, Core!Kind, Signalr!Kind

(* What the transport of a connection is to agree with. *)
Knows(e, d, k) ==
    /\ e.promise = k /\ e.contextId = d.contextId /\ e.authToken = d.authToken
    /\ d.rejected => e.rejected

(* A step of the current transport leaves context and token.               *)
LEMMA MovesKnows ==
    ASSUME NEW e, NEW d, NEW t, NEW k, Moves(e, d, t, k)
    PROVE  Knows(e, d, k)
BY DEF Moves, Knows

(* The states that a transport reports of itself.                          *)
Reported == {"CONNECTING", "CONNECTED", "RECONNECTING", "DISCONNECTED"}

(* The current transport makes a step, of which one report comes at most.  *)
LEMMA Landed ==
    ASSUME NEW s \in ScenarioRecords, NEW d, Shape(d, s), HasTransport(d),
           AllLeft(d), Says(d), NEW k \in Contract!Promises, d.promise \in Contract!Asks(k),
           NEW t, NEW e, NEW A, TransportAgrees(t, e, s, A),
           \/ Moves(e, d, t, d.promise)
           \/ /\ d.promise.asked \in {"started", "stopped"}
              /\ \E state \in Reported : /\ Contract!MayTell(d.promise, state)
                                         /\ Moves(e, d, t, Contract!Tell(d.promise, state))
    PROVE  Lands(k, e, s, A)
<1>1. d.promise \in Contract!Promises
  BY DEF Shape, Connections
<1>2. /\ DOMAIN e.transports = DOMAIN d.transports
      /\ e.tranportIndex = d.tranportIndex /\ e.contextId = d.contextId
      /\ HasTransport(e) /\ Current(e) = t
      /\ \A j \in DOMAIN d.transports : j # d.tranportIndex => e.transports[j] = d.transports[j]
  BY DEF Moves
<1>3. d.tranportIndex \in Int
  BY DEF Shape, Connections
<1>4. AllLeft(e)
  BY <1>2, <1>3 DEF AllLeft
<1>5. CASE Moves(e, d, t, d.promise)
  <2>1. e.promise = d.promise
    BY <1>5 DEF Moves
  <2>2. Goes(k, e.promise)
    <3>1. e.promise \in Contract!Reports(d.promise)
      BY <2>1, Itself
    <3> QED
      BY <3>1, GoesOne
  <2>3. Says(e)
    BY <1>2, <2>1 DEF Says
  <2> QED
    BY <1>2, <1>4, <2>2, <2>3 DEF Lands, Agrees
<1>6. ASSUME d.promise.asked \in {"started", "stopped"},
             NEW state \in Reported, Contract!MayTell(d.promise, state),
             Moves(e, d, t, Contract!Tell(d.promise, state))
      PROVE  Lands(k, e, s, A)
  <2>1. state \in Contract!States /\ state # "exhausted"
    BY DEF Reported, Contract!States
  <2>2. e.promise = Contract!Tell(d.promise, state)
    BY <1>6 DEF Moves
  <2>3. Goes(k, e.promise)
    <3>1. e.promise \in Contract!Reports(d.promise)
      BY <1>6, <2>1, <2>2, TellAllowed
    <3> QED
      BY <3>1, GoesOne
  <2>4. /\ e.promise.told = state
        /\ e.promise.asked = IF state = "DISCONNECTED" /\ d.promise.asked = "started"
                             THEN "down" ELSE d.promise.asked
    BY <1>1, <1>6, <2>1, <2>2, TellIs
  <2>5. Says(e)
    BY <1>2, <1>6, <2>1, <2>4 DEF Says
  <2> QED
    BY <1>2, <1>4, <2>3, <2>5 DEF Lands, Agrees
<1> QED
  BY <1>5, <1>6

-----------------------------------------------------------------------------
(***************************************************************************)
(* 9. The sockets of a websocket transport                                 *)
(***************************************************************************)
(* All but the socket and the timer is the same. *)
SameLife(u, t) ==
    /\ u.kind = t.kind /\ u.works = t.works /\ u.query = t.query
    /\ u.hasBeenConnected = t.hasBeenConnected
    /\ u.isReconnectPending = t.isReconnectPending
    /\ u.lastMessageId = t.lastMessageId /\ u.startLost = t.startLost

(* A transport that fails holds nothing, or lingers. *)
Gone(t) == Lingers(t) \/ Left(t)

(* A websocket transport without sockets is gone, whatever is under way.   *)
LEMMA GoneIs ==
    ASSUME NEW t, t.kind = Ws!Kind, t.socket = Ws!NoSocket, t.leaked = <<>>
    PROVE  Gone(t)
BY DEF Gone, Lingers, Left, Is

(* destroySocket closes the socket, and that is all.                       *)
LEMMA DestroyIs ==
    ASSUME NEW n \in Nat, NEW t, WsOk(t, n), NEW u, u = Ws!destroySocket(t)
    PROVE  /\ WsOk(u, n) /\ SameAuth(u, t) /\ SameLife(u, t)
           /\ u.socket = Ws!NoSocket /\ u.reconnectTimeout = t.reconnectTimeout
           /\ u.reconnectCount = t.reconnectCount
<1>1. WsOk(u, n)
  BY WsDestroy
<1>2. t \in Ws!Transports
  BY DEF WsOk
<1> QED
  BY <1>1, <1>2 DEF Ws!destroySocket, Ws!Transports, SameAuth, SameLife

(* handleFailure reports FAILED, fails, and leaves no socket.              *)
LEMMA FailureIs ==
    ASSUME NEW n \in Nat, NEW t, WsOk(t, n), NEW step, step = Ws!handleFailure(t)
    PROVE  /\ step.out = <<"FAILED", "fail">> /\ WsOk(step.t, n)
           /\ t.leaked = <<>> => Gone(step.t)
<1> DEFINE u == Ws!destroySocket(t)
<1>1. /\ WsOk(u, n) /\ SameAuth(u, t) /\ u.socket = Ws!NoSocket
  BY DestroyIs
<1>2. step.out = <<"FAILED", "fail">> /\ step.t = u
  BY DEF Ws!handleFailure, Ws!Step
<1> HIDE DEF u
<1>3. u.kind = Ws!Kind
  BY <1>1 DEF WsOk, Ws!Transports
<1> QED
  BY <1>1, <1>2, <1>3, GoneIs DEF SameAuth

(* createSocket opens a socket with the query of the moment, or fails if   *)
(* the browser cannot make it.                                             *)
LEMMA CreateIs ==
    ASSUME NEW n \in Nat, NEW t, WsOk(t, n), ~Ws!IsLive(t.socket),
           NEW step, step = Ws!createSocket(t)
    PROVE  /\ SameAuth(step.t, t) /\ SameLife(step.t, t) /\ WsOk(step.t, n)
           /\ step.t.reconnectTimeout = t.reconnectTimeout
           /\ t.works => /\ step.out = <<>>
                         /\ step.t.socket = [phase |-> "opening", query |-> t.query]
           /\ ~t.works => step.out = <<"FAILED", "fail">> /\ step.t.socket = Ws!NoSocket
<1>1. t \in Ws!Transports
  BY DEF WsOk
<1>2. WsOk(step.t, n)
  BY WsCreate DEF WsStep
<1>3. CASE ~t.works
  <2> DEFINE u == Ws!destroySocket(t)
  <2>1. step.t = u /\ step.out = <<"FAILED", "fail">>
    BY <1>3 DEF Ws!createSocket, Ws!handleFailure, Ws!Step
  <2>2. /\ SameAuth(u, t) /\ SameLife(u, t)
        /\ u.socket = Ws!NoSocket /\ u.reconnectTimeout = t.reconnectTimeout
    BY DestroyIs
  <2> HIDE DEF u
  <2> QED
    BY <1>2, <1>3, <2>1, <2>2
<1>4. CASE t.works
  <2> DEFINE u == [t EXCEPT !.socket = [phase |-> "opening", query |-> t.query],
                            !.leaked = t.leaked]
  <2>1. step.t = u /\ step.out = <<>>
    BY <1>4 DEF Ws!createSocket, Ws!Step
  <2>2. /\ SameAuth(u, t) /\ SameLife(u, t)
        /\ u.socket = [phase |-> "opening", query |-> t.query]
        /\ u.reconnectTimeout = t.reconnectTimeout
    BY <1>1 DEF Ws!Transports, SameAuth, SameLife
  <2> HIDE DEF u
  <2> QED
    BY <1>2, <1>4, <2>1, <2>2
<1> QED
  BY <1>3, <1>4

(* What a start reports whose socket cannot be made.                       *)
LEMMA TwoAndTwo ==
    <<"started", "CONNECTING">> \o <<"FAILED", "fail">>
        = <<"started", "CONNECTING", "FAILED", "fail">>
<1> DEFINE a == <<"started", "CONNECTING">>
           b == <<"FAILED", "fail">>
           p == a \o b
           q == <<"started", "CONNECTING", "FAILED", "fail">>
<1>1. a \in Seq(Outs) /\ b \in Seq(Outs) /\ Len(a) = 2 /\ Len(b) = 2
  BY OutsType
<1>2. p \in Seq(Outs) /\ q \in Seq(Outs) /\ Len(p) = 4 /\ Len(q) = 4
  BY <1>1
<1>3. \A k \in 1..4 : p[k] = q[k]
  <2>1. \A k \in 1..4 : k = 1 \/ k = 2 \/ k = 3 \/ k = 4
    OBVIOUS
  <2>2. p[1] = a[1] /\ p[2] = a[2] /\ p[3] = b[1] /\ p[4] = b[2]
    BY <1>1
  <2> QED
    BY <2>1, <2>2
<1> HIDE DEF p, q
<1>4. p = q
  BY <1>2, <1>3
<1> QED
  BY <1>4 DEF p, q

(* The start once the context is authorised.                               *)
LEMMA ConnectsIs ==
    ASSUME NEW n \in Nat, NEW t, WsOk(t, n), ~Ws!IsLive(t.socket),
           NEW step, step = Ws!Connects(t)
    PROVE  /\ SameAuth(step.t, t) /\ SameLife(step.t, t) /\ WsOk(step.t, n)
           /\ step.t.reconnectTimeout = t.reconnectTimeout
           /\ t.works => /\ step.out = <<"started", "CONNECTING">>
                         /\ step.t.socket = [phase |-> "opening", query |-> t.query]
           /\ ~t.works => /\ step.out = <<"started", "CONNECTING", "FAILED", "fail">>
                          /\ step.t.socket = Ws!NoSocket
<1> DEFINE s == Ws!createSocket(t)
<1>1. /\ SameAuth(s.t, t) /\ SameLife(s.t, t) /\ WsOk(s.t, n)
      /\ s.t.reconnectTimeout = t.reconnectTimeout
      /\ t.works => /\ s.out = <<>>
                    /\ s.t.socket = [phase |-> "opening", query |-> t.query]
      /\ ~t.works => s.out = <<"FAILED", "fail">> /\ s.t.socket = Ws!NoSocket
  BY CreateIs
<1>2. PICK x, o : s = [t |-> x, out |-> o]
  BY DEF Ws!createSocket, Ws!handleFailure, Ws!Step
<1>3. step = Ws!After(<<"started", "CONNECTING">>, s)
  BY DEF Ws!Connects
<1> HIDE DEF s
<1>4. s.t = x /\ s.out = o
  BY <1>2
<1>5. step.t = x /\ step.out = <<"started", "CONNECTING">> \o o
  BY <1>2, <1>3 DEF Ws!After
<1>6. o = <<>> => step.out = <<"started", "CONNECTING">>
  BY <1>5
<1>7. o = <<"FAILED", "fail">> => step.out = <<"started", "CONNECTING", "FAILED", "fail">>
  BY <1>5, TwoAndTwo
<1> QED
  BY <1>1, <1>4, <1>5, <1>6, <1>7

-----------------------------------------------------------------------------
(***************************************************************************)
(* 10. A transport fails                                                   *)
(***************************************************************************)
LEMMA DeliverFour ==
    ASSUME NEW d, NEW s, NEW i, NEW step, NEW one, NEW two, NEW three, NEW four,
           step.out = <<one, two, three, four>>
    PROVE  Deliver(d, s, i, step) =
              Callback(Callback(Callback(Callback(Put(d, i, step.t), s, i, step.t, one),
                                         s, i, step.t, two),
                                s, i, step.t, three),
                       s, i, step.t, four)
<1>1. PICK m \in Nat : m = 4
  OBVIOUS
<1>2. /\ Len(step.out) = m /\ step.out[1] = one /\ step.out[2] = two
      /\ step.out[3] = three /\ step.out[4] = four
  BY <1>1
<1>3. PICK f : Chained(f, d, s, i, step, m)
  BY <1>2, DeliverSteps
<1>4. /\ 1 \in 0..m /\ 1 - 1 = 0 /\ 2 \in 0..m /\ 2 - 1 = 1
      /\ 3 \in 0..m /\ 3 - 1 = 2 /\ 4 \in 0..m /\ 4 - 1 = 3
  BY <1>1
<1>5. /\ f[1] = Callback(f[0], s, i, step.t, step.out[1])
      /\ f[2] = Callback(f[1], s, i, step.t, step.out[2])
      /\ f[3] = Callback(f[2], s, i, step.t, step.out[3])
      /\ f[4] = Callback(f[3], s, i, step.t, step.out[4])
  BY <1>3, <1>4 DEF Chained
<1> QED
  BY <1>1, <1>2, <1>3, <1>5 DEF Chained

(* What a transport tells when it fails, and what is heard of it. *)
Fails(out) == \/ out = <<"fail">> \/ out = <<"FAILED", "fail">>
              \/ out = <<"started", "CONNECTING", "FAILED", "fail">>

HeardFailing(d, out) ==
    IF out = <<"fail">> \/ ~Hears(d) THEN d.promise ELSE Contract!Tell(d.promise, "FAILED")

(* The delivery of a step that fails is onTransportFail, after the reports *)
(* that came before.                                                       *)
LEMMA Failing ==
    ASSUME NEW s \in ScenarioRecords, NEW d, Shape(d, s), HasTransport(d),
           NEW i, i = d.tranportIndex,
           NEW step, Ok(step.t, s.transports[i], d.contextId), Fails(step.out)
    PROVE  \E e : /\ Shape(e, s) /\ Moves(e, d, step.t, HeardFailing(d, step.out))
                  /\ Deliver(d, s, i, step) = onTransportFail(e, s, step.t)
<1> DEFINE e == Put(d, i, step.t)
<1>1. Shape(e, s) /\ Moves(e, d, step.t, d.promise) /\ i = e.tranportIndex
  BY PutMoves DEF Moves
<1>2. Hears(e) <=> Hears(d)
  BY <1>1 DEF Moves, Hears
<1>3. /\ step.out = <<"fail">> =>
            Deliver(d, s, i, step) = Callback(e, s, i, step.t, "fail")
      /\ step.out = <<"FAILED", "fail">> => Deliver(d, s, i, step) =
            Callback(Callback(e, s, i, step.t, "FAILED"), s, i, step.t, "fail")
      /\ step.out = <<"started", "CONNECTING", "FAILED", "fail">> =>
            Deliver(d, s, i, step) =
              Callback(Callback(Callback(Callback(e, s, i, step.t, "started"),
                                         s, i, step.t, "CONNECTING"),
                                s, i, step.t, "FAILED"),
                       s, i, step.t, "fail")
  BY DeliverOne, DeliverTwo, DeliverFour
<1> HIDE DEF e
<1>4. /\ \A x : i = x.tranportIndex =>
            Callback(x, s, i, step.t, "fail") = onTransportFail(x, s, step.t)
      /\ Callback(e, s, i, step.t, "started") = e
  BY CallbackIs, CallbackQuiet
<1>5. {"FAILED", "CONNECTING"} \subseteq Contract!States
  BY DEF Contract!States
<1>6. CASE step.out = <<"fail">>
  <2>1. HeardFailing(d, step.out) = d.promise
    BY <1>6 DEF HeardFailing
  <2> QED
    BY <1>1, <1>3, <1>4, <1>6, <2>1
<1>7. CASE ~Hears(d) /\ step.out # <<"fail">>
  <2>1. /\ Callback(e, s, i, step.t, "FAILED") = e
        /\ Callback(e, s, i, step.t, "CONNECTING") = e
    BY <1>1, <1>2, <1>5, <1>7, CallbackIs
  <2>2. HeardFailing(d, step.out) = d.promise
    BY <1>7 DEF HeardFailing
  <2> QED
    BY <1>1, <1>3, <1>4, <1>7, <2>1, <2>2 DEF Fails
<1>8. CASE Hears(d) /\ step.out # <<"fail">>
  <2> DEFINE f == Said(e, "FAILED")
             g == Said(e, "CONNECTING")
             h == Said(g, "FAILED")
  <2>1. /\ Shape(f, s) /\ Moves(f, d, step.t, Contract!Tell(d.promise, "FAILED"))
        /\ Shape(g, s) /\ Moves(g, d, step.t, Contract!Tell(d.promise, "CONNECTING"))
    BY <1>1, <1>5, SaidMoves
  <2>2. HeardFailing(d, step.out) = Contract!Tell(d.promise, "FAILED")
    BY <1>8 DEF HeardFailing
  <2>3. Callback(e, s, i, step.t, "FAILED") = f /\ Callback(e, s, i, step.t, "CONNECTING") = g
    BY <1>1, <1>2, <1>5, <1>8, CallbackIs
  <2>4. f.tranportIndex = i
    BY <2>1 DEF Moves
  <2>5. g.tranportIndex = i /\ Hears(g)
    BY <1>8, <2>1 DEF Moves, Hears
  <2> HIDE DEF f, g
  <2>6. Shape(h, s) /\ Moves(h, d, step.t, Contract!Tell(d.promise, "FAILED"))
    <3>1. /\ Shape(h, s)
          /\ Moves(h, d, step.t, Contract!Tell(Contract!Tell(d.promise, "CONNECTING"), "FAILED"))
      BY <1>5, <2>1, SaidMoves
    <3>2. d.promise \in Contract!Promises
      BY DEF Shape, Connections
    <3> QED
      BY <1>5, <3>1, <3>2, TellTwice
  <2>7. Callback(g, s, i, step.t, "FAILED") = h
    BY <1>5, <2>5, CallbackIs
  <2>8. h.tranportIndex = i
    BY <2>6 DEF Moves
  <2> HIDE DEF h
  <2>9. CASE step.out = <<"FAILED", "fail">>
    BY <1>3, <1>4, <2>1, <2>2, <2>3, <2>4, <2>9
  <2>10. CASE step.out = <<"started", "CONNECTING", "FAILED", "fail">>
    BY <1>3, <1>4, <2>2, <2>3, <2>6, <2>7, <2>8, <2>10
  <2> QED
    BY <1>8, <2>9, <2>10 DEF Fails
<1> QED
  BY <1>6, <1>7, <1>8

-----------------------------------------------------------------------------
(***************************************************************************)
(* 11. The outcome of a step of the current transport                      *)
(***************************************************************************)
(* The transport agrees with the connection once the promise is k. *)
Fitting(t, d, k, s, A) == \A e : Knows(e, d, k) => TransportAgrees(t, e, s, A)

(* A step of which one state is reported.                                  *)
Tells(out, state) ==
    out = <<state>> \/ out = <<"started", state>> \/ out = <<state, "started">>

(* It is one the contract allows, and the transport agrees with it.        *)
Told(step, d, s, A) ==
    /\ d.promise.asked \in {"started", "stopped"}
    /\ \E state \in Reported :
          /\ Tells(step.out, state)
          /\ \/ Contract!MayTell(d.promise, state)
             \/ Contract!Tell(d.promise, state) = d.promise
          /\ Fitting(step.t, d, Contract!Tell(d.promise, state), s, A)

(* The server does not accept the token: the connection knows then.        *)
Rejects(step, d, s, A) ==
    /\ step.out = <<"unauthorized">>
    /\ \A e : Knows(e, d, d.promise) /\ (Hears(d) => e.rejected) =>
                  TransportAgrees(step.t, e, s, A)

(* The transport has failed, and nothing of it is left.                    *)
Failed(step, d, s) ==
    /\ Gone(step.t) /\ d.promise.asked # "created"
    /\ d.promise.asked = "stopped" => Excused(s)
    /\ \/ step.out = <<"FAILED", "fail">>
       \/ /\ step.out = <<"started", "CONNECTING", "FAILED", "fail">>
          /\ d.promise.asked = "started"
       \/ step.out = <<"fail">> /\ ~Lingers(step.t) /\ d.promise.asked # "down"

(* Nothing is reported of it.                                              *)
Silent(step, d, s, A) ==
    /\ step.out = <<>> \/ step.out = <<"received">>
    /\ Fitting(step.t, d, d.promise, s, A)

(* A step of the current transport comes to one of these.                  *)
Outcome(step, d, s, A) ==
    \/ Silent(step, d, s, A) \/ Told(step, d, s, A)
    \/ Rejects(step, d, s, A) \/ Failed(step, d, s)

(* The starts. *)
LEMMA CoreStarts ==
    ASSUME NEW t, CoreOk(t), t.hub = "none", t.works, NEW d, d.promise \in Contract!Promises,
           d.promise.asked = "started", NEW s, NEW A, NEW step, step = Start(t)
    PROVE  /\ step.out = <<"CONNECTING">>
           /\ Fitting(step.t, d, Contract!Tell(d.promise, "CONNECTING"), s, A)
<1>1. /\ step.out = <<"CONNECTING">>
      /\ step.t.hub = "connecting" /\ Kept(step.t, t)
      /\ step.t.isDisconnecting = t.isDisconnecting
      /\ step.t.hasTransportError = t.hasTransportError
      /\ step.t.hasMessage = t.hasMessage
      /\ step.t.cancels = t.cancels /\ step.t.closes = t.closes
      /\ step.t.messageStream = t.messageStream
      /\ step.t.streaming = t.streaming
  BY CoreStartIs
<1>2. /\ ~t.isDisconnecting /\ ~t.hasTransportError
      /\ ~t.messageStream /\ ~t.streaming /\ ~t.hasMessage
      /\ t.cancels = 0 /\ t.closes = 0 /\ t.kind = Core!Kind
  BY DEF CoreOk, Core!Transports
<1>3. step.t.kind = Core!Kind
  BY <1>1, <1>2 DEF Kept
<1> DEFINE k == Contract!Tell(d.promise, "CONNECTING")
<1>4. k.asked = "started" /\ k.told = "CONNECTING"
  BY TellIs DEF Contract!States
<1> HIDE DEF k
<1>5. ASSUME NEW e, Knows(e, d, k) PROVE TransportAgrees(step.t, e, s, A)
  <2>1. e.promise = k
    BY <1>5 DEF Knows
  <2>2. CoreAgrees(step.t, e, s)
    BY <1>1, <1>2, <1>4, <2>1 DEF CoreAgrees
  <2> QED
    BY <1>1, <1>3, <2>2, AgreesOf
<1> QED
  BY <1>1, <1>5 DEF Fitting, k

(* The start of the library's connection reports CONNECTING, and agrees.   *)
LEMMA LibraryStarts ==
    ASSUME NEW t, SignalrOk(t), t.connection.state = "disconnected",
           NEW d, d.promise \in Contract!Promises,
           d.promise.asked = "started", NEW s, NEW A, NEW step, step = Start(t)
    PROVE  /\ step.out = <<"CONNECTING">>
           /\ Fitting(step.t, d, Contract!Tell(d.promise, "CONNECTING"), s, A)
<1>1. t \in Signalr!Transports /\ t.kind = Signalr!Kind /\ t.connection \in Library!Connections
  BY DEF SignalrOk, Signalr!Transports, LibraryOk
<1> DEFINE l == [t.connection EXCEPT !.negotiating = TRUE, !.state = "connecting"]
<1>2. step = Signalr!start(t)
  BY <1>1 DEF Start, Ws!Kind, Core!Kind, Signalr!Kind
<1>3. Signalr!Library!start(t.connection) = [t |-> l, out |-> <<"connecting">>]
  <2>1. [[t.connection EXCEPT !.negotiating = TRUE] EXCEPT !.state = "connecting"] = l
    BY <1>1 DEF Library!Connections
  <2>2. [t.connection EXCEPT !.negotiating = TRUE].state = "disconnected"
    BY <1>1 DEF Library!Connections
  <2> QED
    BY <2>1, <2>2 DEF Signalr!Library!start, Signalr!Library!changeState, Signalr!Library!Step
<1>4. l.state = "connecting" /\ l.negotiating
  BY <1>1 DEF Library!Connections
<1> HIDE DEF l
<1>5. step.t.connection = l /\ step.t.kind = Signalr!Kind
  BY <1>1, <1>2, <1>3 DEF Signalr!start, Signalr!Does, Signalr!Step, Signalr!Transports
<1>6. step.out = <<"CONNECTING">>
  <2> DEFINE out == <<"connecting">>
  <2>1. step.out = [i \in DOMAIN out |-> Signalr!Heard(out[i])]
    BY <1>2, <1>3 DEF Signalr!start, Signalr!Does, Signalr!Step
  <2>2. Signalr!Heard("connecting") = "CONNECTING"
    BY DEF Signalr!Heard, Signalr!mapConnectionState, Signalr!Library!connectionStates
  <2> QED
    BY <2>1, <2>2
<1> DEFINE k == Contract!Tell(d.promise, "CONNECTING")
<1>7. k.asked = "started" /\ k.told = "CONNECTING"
  BY TellIs DEF Contract!States
<1> HIDE DEF k
<1>8. ASSUME NEW e, Knows(e, d, k) PROVE TransportAgrees(step.t, e, s, A)
  <2>1. e.promise = k
    BY <1>8 DEF Knows
  <2>2. LibraryAgrees(step.t.connection, e, s)
    BY <1>4, <1>5, <1>7, <2>1 DEF LibraryAgrees, Signalr!mapConnectionState
  <2>3. Rests(e, s)
    BY <1>7, <2>1 DEF Rests
  <2> QED
    BY <1>5, <2>2, <2>3, AgreesOf
<1> QED
  BY <1>6, <1>8 DEF Fitting, k

(* A transport whose authorisation is there connects. *)
LEMMA ConnectsAgrees ==
    ASSUME NEW d, d.contextId \in Nat, d.promise \in Contract!Promises,
           d.promise.asked = "started", Contract!MayTell(d.promise, "CONNECTING"),
           NEW v, WsOk(v, d.contextId), Fresh(v), ~v.startLost,
           Authorizings(v, d), NoStart(v),
           v.contextId = d.contextId, v.authToken = d.authToken,
           v.query.context = d.contextId, v.query.message = 0,
           NEW s, NEW A, Tokens(s) \/ d.contextId \in A,
           NEW step, step = Ws!Connects(v)
    PROVE  Outcome(step, d, s, A)
<1> DEFINE u == step.t
           k == Contract!Tell(d.promise, "CONNECTING")
<1>1. v.kind = Ws!Kind /\ v.works \in BOOLEAN
  BY DEF WsOk, Ws!Transports
<1>2. ~Ws!IsLive(v.socket) /\ v.leaked = <<>>
  BY DEF Fresh, Ws!IsLive, Ws!NoSocket, Authorizings
<1>3. /\ SameAuth(u, v) /\ SameLife(u, v)
      /\ u.reconnectTimeout = v.reconnectTimeout
      /\ v.works => /\ step.out = <<"started", "CONNECTING">>
                    /\ u.socket = [phase |-> "opening", query |-> v.query]
      /\ ~v.works => /\ step.out = <<"started", "CONNECTING", "FAILED", "fail">>
                     /\ u.socket = Ws!NoSocket
  BY <1>2, ConnectsIs
<1> HIDE DEF u
<1>4. u.kind = Ws!Kind
  BY <1>1, <1>3 DEF SameLife
<1>5. CASE ~v.works
  <2>1. Gone(u)
    BY <1>2, <1>3, <1>4, <1>5, GoneIs DEF SameAuth
  <2> QED
    BY <1>3, <1>5, <2>1 DEF Outcome, Failed, u
<1>6. CASE v.works
  <2>1. k.asked = "started" /\ k.told = "CONNECTING"
    BY TellIs DEF Contract!States
  <2> HIDE DEF k
  <2>2. ASSUME NEW e, Knows(e, d, k) PROVE TransportAgrees(u, e, s, A)
    <3>1. e.promise = k /\ e.contextId = d.contextId /\ e.authToken = d.authToken
      BY <2>2 DEF Knows
    <3>2. Authorizings(u, e) /\ NoStart(u)
      BY <1>3, <3>1, AuthorizingsSame
    <3>3. u.socket.phase = "opening" /\ u.socket.query = v.query
      BY <1>3, <1>6
    <3>4. Opening(u, e)
      BY <1>3, <2>1, <3>1, <3>3 DEF Opening, Fresh, SameLife
    <3>5. Wanted(u, e) /\ Made(u, e, s, A)
      BY <1>3, <1>6, <2>1, <3>1, <3>2 DEF Wanted, Made, SameLife, SameAuth
    <3>6. WsAgrees(u, e, s, A)
      BY <3>2, <3>4, <3>5 DEF WsAgrees, Linking
    <3>7. Rests(e, s)
      BY <2>1, <3>1 DEF Rests
    <3> QED
      BY <1>4, <3>6, <3>7, AgreesOf
  <2>3. Fitting(u, d, k, s, A)
    BY <2>2 DEF Fitting
  <2>4. Told(step, d, s, A)
    BY <1>3, <1>6, <2>3 DEF Told, Tells, Reported, u, k
  <2> QED
    BY <2>4 DEF Outcome
<1> QED
  BY <1>1, <1>5, <1>6

(* A transport that has its query and is to start. *)
Ready(v, d, s) ==
    /\ Fresh(v) /\ ~v.startLost /\ NoStart(v) /\ v.leaked = <<>>
    /\ v.contextId = d.contextId /\ v.contextId # 0 /\ v.authToken = d.authToken
    /\ v.query.context = d.contextId /\ v.query.message = 0
    /\ v.authorizePromise # "rejected"
    /\ v.authorizePromise = "pending"
           <=> \E k \in DOMAIN v.authorizing : v.authorizing[k].current
    /\ \A k \in DOMAIN v.authorizing :
          /\ v.authorizing[k].contextId \in 1..d.contextId
          /\ v.authorizing[k].authToken \in 0..d.authToken
          /\ v.authorizing[k].starts \in {0, 1}
          /\ Ws!superseded(v, v.authorizing[k])
    /\ \A j, k \in DOMAIN v.authorizing :
          v.authorizing[j].current /\ v.authorizing[k].current => j = k
    /\ v.authorizePromise = "none" \/ Tokens(s)

(* The authorisation of a transport waits for its answer. *)
LEMMA StartingAgrees ==
    ASSUME NEW d, d.promise.asked = "started",
           NEW v, Fresh(v), ~v.startLost, v.kind = Ws!Kind,
           Authorizings(v, d), v.contextId = d.contextId, v.authToken = d.authToken,
           v.query.context = d.contextId, v.query.message = 0, NEW s, NEW A,
           \E k \in DOMAIN v.authorizing :
              Starts(v, k) /\ (Tokens(s) \/ v.authorizing[k].contextId = d.contextId)
    PROVE  Fitting(v, d, d.promise, s, A)
<1>1. ASSUME NEW e, Knows(e, d, d.promise) PROVE TransportAgrees(v, e, s, A)
  <2>1. e.promise = d.promise /\ e.contextId = d.contextId /\ e.authToken = d.authToken
    BY <1>1 DEF Knows
  <2>2. Authorizings(v, e)
    BY <2>1, AuthorizingsSame DEF SameAuth
  <2>3. Wanted(v, e) /\ Starting(v, e, s)
    BY <2>1 DEF Wanted, Starting
  <2>4. WsAgrees(v, e, s, A) /\ Rests(e, s)
    BY <2>1, <2>2, <2>3 DEF WsAgrees, Rests
  <2> QED
    BY <2>4, AgreesOf
<1> QED
  BY <1>1 DEF Fitting

(* The start of a transport that is ready connects, or waits for the       *)
(* authorisation.                                                          *)
LEMMA ReadyStarts ==
    ASSUME NEW d, d.contextId \in Nat, d.authToken \in Nat, d.promise \in Contract!Promises,
           d.promise.asked = "started", Contract!MayTell(d.promise, "CONNECTING"),
           NEW s, NEW v, WsOk(v, d.contextId), Ready(v, d, s), NEW A,
           NEW step, step = Start(v)
    PROVE  /\ Outcome(step, d, s, A)
           /\ v.authorizePromise = "none" => Silent(step, d, s, A)
<1>1. v.kind = Ws!Kind /\ v \in Ws!Transports /\ v.socket = Ws!NoSocket /\ Ws!Kind # Core!Kind
  BY DEF WsOk, Ws!Transports, Ready, Fresh, Ws!Kind, Core!Kind
<1>2. step = Ws!start(v)
  BY <1>1 DEF Start
<1>3. v.authorizePromise \in {"none", "pending", "resolved"}
  BY <1>1 DEF Ws!Transports, Ready
<1>4. CASE v.authorizePromise = "none"
  <2> DEFINE u == Ws!Authorize(v, 1, FALSE)
  <2>1. step.t = u /\ step.out = <<>>
    BY <1>1, <1>2, <1>4 DEF Ws!start, Ws!Step, Ws!Authorize
  <2>2. Asking(u, v, 1)
    BY DEF Asking
  <2> HIDE DEF u
  <2>3. /\ Authorizings(u, d) /\ SameLink(u, v) /\ u.query = v.query
        /\ u.startLost = v.startLost
        /\ u.contextId = v.contextId /\ u.authToken = v.authToken
        /\ \E k \in DOMAIN u.authorizing :
              Starts(u, k) /\ u.authorizing[k].contextId = d.contextId
    <3>1. 1 \in {0, 1} /\ v.authToken \in 0..d.authToken
      BY DEF Ready
    <3>2. \A j, k \in DOMAIN v.authorizing : Starts(v, j) /\ Starts(v, k) => j = k
      BY DEF Ready, NoStart
    <3> QED
      BY <2>2, <3>1, <3>2, AuthorizeAgrees DEF Ready
  <2>4. Fresh(u) /\ u.kind = Ws!Kind
    BY <1>1, <2>3 DEF Ready, Fresh, SameLink
  <2>5. Fitting(u, d, d.promise, s, A)
    BY <2>3, <2>4, StartingAgrees DEF Ready
  <2> QED
    BY <2>1, <2>5 DEF Outcome, Silent
<1>5. CASE v.authorizePromise = "pending"
  <2> DEFINE u == Ws!AddStart(v)
  <2>1. step.t = u /\ step.out = <<>>
    BY <1>1, <1>2, <1>5 DEF Ws!start, Ws!Step
  <2> HIDE DEF u
  <2>2. /\ Authorizings(u, d) /\ SameLink(u, v)
        /\ u.query = v.query /\ u.startLost = v.startLost
        /\ u.contextId = v.contextId /\ u.authToken = v.authToken
        /\ \E k \in DOMAIN u.authorizing : Starts(u, k)
    BY <1>5, AddStartAgrees DEF Ready, u
  <2>3. Fresh(u) /\ u.kind = Ws!Kind
    BY <1>1, <2>2 DEF Ready, Fresh, SameLink
  <2>4. Tokens(s)
    BY <1>5 DEF Ready
  <2>5. Fitting(u, d, d.promise, s, A)
    BY <2>2, <2>3, <2>4, StartingAgrees DEF Ready
  <2> QED
    BY <1>5, <2>1, <2>5 DEF Outcome, Silent
<1>6. CASE v.authorizePromise = "resolved"
  <2>1. step = Ws!Connects(v)
    BY <1>1, <1>2, <1>6 DEF Ws!start
  <2>2. Authorizings(v, d)
    BY <1>6 DEF Ready, Authorizings, Requested, NoStart
  <2>3. Tokens(s)
    BY <1>6 DEF Ready
  <2> QED
    BY <1>6, <2>1, <2>2, <2>3, ConnectsAgrees DEF Ready
<1> QED
  BY <1>3, <1>4, <1>5, <1>6

-----------------------------------------------------------------------------
(***************************************************************************)
(* 12. Outcomes are allowed, and lead to agreement                         *)
(***************************************************************************)
(* What a new transport reports first when it is started, and that it      *)
(* agrees.                                                                 *)
LEMMA Replaced ==
    ASSUME NEW s \in ScenarioRecords, NEW d, NEW e, Shape(e, s), NEW k \in Contract!Promises,
           Replaces(e, d, s, k), d.state = "started", k.asked = "started",
           k.told # "exhausted",
           e.authToken = d.authToken, e.contextId = d.contextId, d.contextId # 0, NEW A
    PROVE  /\ e.promise \in {k, Contract!Tell(k, "CONNECTING")}
           /\ ~k.late => TransportAgrees(Current(e), e, s, A)
<1> DEFINE kind == s.transports[e.tranportIndex]
           works == kind \in s.working
           new == NewTransport(s, kind)
           u == Queried(new, d.authToken, d.contextId)
           step == Start(u)
           l == [k EXCEPT !.late = FALSE]
           f == [e EXCEPT !.promise = l]
<1>1. /\ kind \in Kinds /\ Current(e) = step.t
      /\ kind = Core!Kind => works
      /\ e.promise = IF step.out # <<>> /\ step.out[1] \in Contract!States
                     THEN Contract!Tell(k, step.out[1]) ELSE k
  BY DEF Replaces
<1>2. /\ d.authToken \in Nat /\ d.contextId \in Nat /\ e \in Connections
      /\ e.tranportIndex \in Nat
  BY DEF Shape, Connections
<1>3. works \in BOOLEAN
  OBVIOUS
<1>4. /\ l \in Contract!Promises /\ l.asked = "started" /\ ~l.late /\ l.told = k.told
      /\ ~k.late => l = k
  BY DEF Contract!Promises
<1>5. f.promise = l /\ f.contextId = e.contextId /\ f.authToken = e.authToken
  BY <1>2 DEF Connections
<1>6. Contract!MayTell(l, "CONNECTING") \/ l.told = "CONNECTING"
  BY <1>4, StartedTells
<1>7. "CONNECTING" \in Contract!States /\ Contract!Tell(k, "CONNECTING") \in Contract!Promises
  BY TellIs DEF Contract!States
<1>8. \/ kind = Ws!Kind /\ new = Ws!New(works)
      \/ kind = Core!Kind /\ new = Core!New(works)
      \/ kind = Signalr!Kind /\ new = Signalr!New
  BY <1>1 DEF NewTransport, Kinds, Ws!Kind, Core!Kind, Signalr!Kind
<1> HIDE DEF works, new
<1>9. CASE kind = Ws!Kind /\ new = Ws!New(works)
  <2>1. /\ WsOk(new, d.contextId) /\ Fresh(new) /\ new.authorizing = <<>>
        /\ new.leaked = <<>> /\ ~new.startLost /\ new.authorizePromise = "none"
        /\ new.kind = Ws!Kind
    BY <1>2, <1>3, <1>9, WsNewIs
  <2>2. d.contextId \in 0..d.contextId
    BY <1>2
  <2>3. u = Ws!setQuery(new, d.authToken, d.contextId)
    BY <1>2, <2>1, <2>2, WsQueried
  <2> HIDE DEF u
  <2>4. /\ WsOk(u, d.contextId) /\ SameLink(u, new) /\ u.startLost = new.startLost
        /\ u.contextId = d.contextId /\ u.authToken = d.authToken
        /\ u.query.context = d.contextId /\ u.query.message = new.lastMessageId
        /\ u.leaked = new.leaked /\ u.authorizePromise = new.authorizePromise
        /\ u.authorizing = new.authorizing
    BY <1>2, <2>1, <2>2, <2>3, SetQueryIs
  <2>5. Ready(u, f, s)
    BY <1>5, <2>1, <2>4 DEF Ready, Fresh, SameLink, NoStart
  <2>6. Silent(step, f, s, A)
    <3>1. CASE Contract!MayTell(l, "CONNECTING")
      BY <1>2, <1>4, <1>5, <2>1, <2>4, <2>5, <3>1, ReadyStarts
    <3>2. CASE l.told = "CONNECTING"
      <4>1. Contract!MayTell(l, "CONNECTING")
        BY <1>4, <3>2, StartedTells
      <4> QED
        BY <3>1, <4>1
    <3> QED
      BY <1>6, <3>1, <3>2
  <2>7. step.out = <<>> \/ step.out = <<"received">>
    BY <2>6 DEF Silent
  <2> HIDE DEF step
  <2>8. e.promise = k
    BY <1>1, <2>7 DEF Contract!States
  <2>9. ASSUME ~k.late PROVE TransportAgrees(Current(e), e, s, A)
    <3>1. Knows(e, f, f.promise)
      <4>1. f.rejected = e.rejected
        BY <1>2 DEF Connections
      <4> QED
        BY <1>4, <1>5, <2>8, <2>9, <4>1 DEF Knows
    <3> QED
      BY <1>1, <2>6, <3>1 DEF Silent, Fitting
  <2> QED
    BY <2>8, <2>9
<1>10. ASSUME step.out = <<"CONNECTING">>,
              Fitting(step.t, f, Contract!Tell(f.promise, "CONNECTING"), s, A)
       PROVE  /\ e.promise \in {k, Contract!Tell(k, "CONNECTING")}
              /\ ~k.late => TransportAgrees(Current(e), e, s, A)
  <2> HIDE DEF step
  <2>1. step.out # <<>> /\ step.out[1] = "CONNECTING"
    BY <1>10
  <2>2. e.promise = Contract!Tell(k, "CONNECTING")
    BY <1>1, <1>7, <2>1
  <2>3. ASSUME ~k.late PROVE TransportAgrees(Current(e), e, s, A)
    <3>1. f.rejected = e.rejected
      BY <1>2 DEF Connections
    <3>2. Knows(e, f, Contract!Tell(f.promise, "CONNECTING"))
      BY <1>4, <1>5, <2>2, <2>3, <3>1 DEF Knows
    <3> QED
      BY <1>1, <1>10, <3>2 DEF Fitting
  <2> QED
    BY <2>2, <2>3
<1>11. CASE kind = Core!Kind /\ new = Core!New(works)
  <2>1. /\ CoreOk(new) /\ new.hub = "none" /\ new.works /\ new.kind = Core!Kind
    BY <1>1, <1>3, <1>11, CoreNewIs
  <2>2. u.hub = "none" /\ u.works = new.works /\ u.kind = Core!Kind
    <3>1. CoreOk(new)
      BY <2>1
    <3>2. u.hub = new.hub /\ u.kind = new.kind
      BY <1>2, <3>1, CoreQueried
    <3>3. u.works = new.works
      BY <1>2, <3>1, CoreQueried
    <3> QED
      BY <2>1, <3>2, <3>3
  <2>3. CoreOk(u)
    <3>1. Ok(new, kind, d.contextId)
      BY <1>11, <2>1 DEF Ok
    <3>2. Ok(u, kind, d.contextId)
      BY <1>2, <3>1, QueriedOk
    <3> QED
      BY <2>2, <3>2, KindOf
  <2> HIDE DEF u
  <2>4. /\ step.out = <<"CONNECTING">>
        /\ Fitting(step.t, f, Contract!Tell(f.promise, "CONNECTING"), s, A)
    BY <1>4, <1>5, <2>1, <2>2, <2>3, CoreStarts
  <2> QED
    BY <1>10, <2>4
<1>12. CASE kind = Signalr!Kind /\ new = Signalr!New
  <2>1. /\ Ok(new, kind, d.contextId) /\ new.kind = Signalr!Kind
        /\ new \in Signalr!Transports
    <3>1. Ok(new, kind, d.contextId)
      BY <1>1, <1>2, NewOk DEF new
    <3> QED
      BY <1>12, <3>1, KindOf DEF SignalrOk
  <2>2. Ok(u, kind, d.contextId)
    BY <1>2, <2>1, QueriedOk
  <2>3. u = [new EXCEPT !.contextId = d.contextId, !.authToken = d.authToken]
    BY <2>1 DEF Queried, UpdateQuery, Signalr!updateQuery, Signalr!Step, Ws!Kind, Core!Kind,
                Signalr!Kind
  <2>4. u.connection = new.connection /\ u.kind = Signalr!Kind
    BY <2>1, <2>3 DEF Signalr!Transports
  <2>5. u.connection.state = "disconnected"
    BY <1>12, <2>4 DEF Signalr!New, Signalr!Library!New
  <2>6. SignalrOk(u)
    BY <2>2, <2>4, KindOf
  <2> HIDE DEF u
  <2>7. /\ step.out = <<"CONNECTING">>
        /\ Fitting(step.t, f, Contract!Tell(f.promise, "CONNECTING"), s, A)
    BY <1>4, <1>5, <2>5, <2>6, LibraryStarts
  <2> QED
    BY <1>10, <2>7
<1> QED
  BY <1>8, <1>9, <1>11, <1>12

(* Late or not, a promise is told the same.                                *)
LEMMA TellLate ==
    ASSUME NEW k \in Contract!Promises, NEW state \in Contract!States
    PROVE  Contract!Tell(LateOf(k), state) = LateOf(Contract!Tell(k, state))
BY DEF Contract!Tell, LateOf, Contract!Promises, Contract!Asked, Contract!States

(* Cut makes a promise late, or leaves it.                                 *)
LEMMA CutIs ==
    ASSUME NEW k
    PROVE  /\ Cut(k, TRUE) = LateOf(k) /\ Cut(k, FALSE) = k
           /\ \A condition : Cut(k, condition) = IF condition THEN LateOf(k) ELSE k
BY DEF Cut, LateOf

(* A transport has failed: the next takes its place, or none is left. *)
LEMMA FailLands ==
    ASSUME NEW s \in ScenarioRecords, NEW d, Fits(d, s), HasTransport(d), AllLeft(d), Says(d),
           ~d.promise.late, NEW k \in Contract!Promises, d.promise \in Contract!Asks(k),
           NEW step, Failed(step, d, s), NEW A,
           NEW e, Shape(e, s), Moves(e, d, step.t, HeardFailing(d, step.out)),
           NEW f, f = onTransportFail(e, s, step.t)
    PROVE  Lands(k, f, s, A)
<1> DEFINE x == d.promise
           once == HeardFailing(d, step.out)
           lingers == Lingers(step.t)
           cut == Cut(once, lingers)
<1>1. /\ x \in Contract!Promises /\ d \in Connections /\ d.tranportIndex \in Nat
      /\ d.state = StateOf(x.asked) /\ (Hears(d) <=> x.asked # "disposed")
  BY DEF Fits, Shape, Connections, Standing, Hears, StateOf, Contract!Promises, Contract!Asked
<1>2. /\ x.told # "exhausted" /\ x.asked # "created"
      /\ x.asked = "disposed" => x.told \in {"none", "DISCONNECTED"}
      /\ x.asked \in {"started", "down", "stopped"} => d.contextId # 0
  BY DEF Says, Failed
<1>3. {"FAILED", "CONNECTING", "exhausted"} \subseteq Contract!States
  BY DEF Contract!States
<1>4. \/ once = Contract!Tell(x, "FAILED") /\ x.asked # "disposed"
      \/ once = x /\ x.asked # "down"
  BY <1>1 DEF HeardFailing, Failed
<1>5. /\ once \in Contract!Promises /\ ~once.late
      /\ once.asked = IF x.asked = "down" THEN "started" ELSE x.asked
      /\ once.told = "FAILED" \/ once.told = x.told
      /\ x.asked = "disposed" => once = x
  <2>1. CASE once = Contract!Tell(x, "FAILED") /\ x.asked # "disposed"
    <3>0. "FAILED" \in Contract!States /\ "FAILED" \notin {"DISCONNECTED", "exhausted"}
      BY <1>3
    <3>1. /\ once \in Contract!Promises /\ once.late = x.late
          /\ once.told = "FAILED"
      BY <1>1, <3>0, <2>1, TellIs
    <3>2. once.asked = IF x.asked = "down" THEN "started" ELSE x.asked
      BY <1>1, <3>0, <2>1, TellIs
    <3> QED
      BY <2>1, <3>1, <3>2
  <2>2. CASE once = x /\ x.asked # "down"
    BY <1>1, <2>2
  <2> QED
    BY <1>4, <2>1, <2>2
<1>6. lingers => once = Contract!Tell(x, "FAILED") \/ x.asked = "disposed"
  BY <1>4, <1>1 DEF Failed, HeardFailing
<1>7. ASSUME NEW p \in Aftermath(once)
      PROVE  Goes(k, p) /\ (lingers => Goes(k, LateOf(p)))
  BY <1>2, <1>4, <1>6, <1>7, GoesFailed
<1>8. /\ e.promise = once /\ e.state = d.state /\ e.tranportIndex = d.tranportIndex
      /\ e.authToken = d.authToken /\ e.contextId = d.contextId
      /\ DOMAIN e.transports = DOMAIN d.transports
      /\ \A j \in DOMAIN d.transports :
            j # d.tranportIndex => e.transports[j] = d.transports[j]
      /\ HasTransport(e) /\ Current(e) = step.t
  BY DEF Moves
<1> HIDE DEF once
<1>9. /\ Shape(f, s) /\ f.state = e.state /\ f.authToken = e.authToken
      /\ f.contextId = e.contextId
      /\ DOMAIN f.transports = DOMAIN e.transports
      /\ \A j \in DOMAIN e.transports :
            j # f.tranportIndex => f.transports[j] = e.transports[j]
      /\ f.tranportIndex > e.tranportIndex
      /\ \/ ~HasTransport(f) /\ f.promise = Contract!Tell(cut, "exhausted")
         \/ Replaces(f, e, s, cut)
  BY <1>8, FailOk
<1> HIDE DEF lingers
<1>10. cut = IF lingers THEN LateOf(once) ELSE once
  BY CutIs
<1>11. /\ cut \in Contract!Promises /\ (cut.late <=> lingers) /\ cut.asked = once.asked
       /\ cut.told = once.told
  <2>1. CASE lingers
    BY <1>5, <1>10, <2>1, LateIs
  <2>2. CASE ~lingers
    BY <1>5, <1>10, <2>2
  <2> QED
    BY <2>1, <2>2
<1> HIDE DEF cut
<1>12. f.tranportIndex \in Nat /\ e.tranportIndex \in Nat
  BY <1>1, <1>8, <1>9 DEF Shape, Connections
<1>13. ~lingers => AllLeft(f)
  <2>1. SUFFICES ASSUME ~lingers, NEW j \in DOMAIN f.transports, j < f.tranportIndex
                 PROVE  Left(f.transports[j])
    BY DEF AllLeft
  <2>2. j \in DOMAIN d.transports /\ f.transports[j] = e.transports[j] /\ j \in Int
    BY <1>8, <1>9, <1>12, <2>1 DEF Shape, Connections
  <2>3. CASE j < d.tranportIndex
    BY <1>8, <1>12, <2>2, <2>3 DEF AllLeft
  <2>4. CASE j = d.tranportIndex
    <3>1. Left(step.t)
      BY <2>1 DEF lingers, Failed, Gone
    <3> QED
      BY <1>8, <2>2, <2>4, <3>1 DEF Current
  <2>5. CASE j > d.tranportIndex
    <3>1. e.transports[j] = Absent
      BY <1>8, <2>2, <2>5 DEF Shape
    <3> QED
      BY <2>2, <3>1 DEF Left
  <2> QED
    BY <1>1, <2>2, <2>3, <2>4, <2>5
<1>14. CASE ~HasTransport(f) /\ f.promise = Contract!Tell(cut, "exhausted")
  <2> DEFINE p == Contract!Tell(once, "exhausted")
  <2>1. p \in Aftermath(once)
    BY DEF Aftermath
  <2>2. p \in Contract!Promises /\ p.told = "exhausted"
        /\ p.asked = IF once.asked = "started" THEN "down" ELSE once.asked
    BY <1>3, <1>5, TellIs
  <2> HIDE DEF p
  <2>3. f.promise = IF lingers THEN LateOf(p) ELSE p
    BY <1>3, <1>5, <1>10, <1>14, TellLate DEF p
  <2>4. CASE lingers
    <3>1. f.promise.late
      BY <2>2, <2>3, <2>4, LateIs
    <3> QED
      BY <1>7, <2>1, <2>3, <2>4, <3>1 DEF Lands
  <2>5. CASE ~lingers
    <3>1. Says(f)
      BY <1>2, <1>5, <1>8, <1>9, <1>14, <2>2, <2>3, <2>5 DEF Says
    <3> QED
      BY <1>7, <1>13, <1>14, <2>1, <2>3, <2>5, <3>1 DEF Lands, Agrees
  <2> QED
    BY <2>4, <2>5
<1>15. CASE Replaces(f, e, s, cut)
  <2>1. HasTransport(f) /\ s.transports[f.tranportIndex] \in Kinds
    BY <1>15 DEF Replaces
  <2>2. CASE e.state = "started"
    <3>1. x.asked \in {"started", "down"}
      BY <1>1, <1>8, <2>2 DEF StateOf
    <3>2. once.asked = "started" /\ e.contextId # 0
      BY <1>2, <1>5, <1>8, <3>1
    <3>3. /\ f.promise \in {cut, Contract!Tell(cut, "CONNECTING")}
          /\ ~cut.late => TransportAgrees(Current(f), f, s, A)
      BY <1>2, <1>5, <1>9, <1>11, <1>15, <2>2, <3>2, Replaced
    <3>4. PICK p \in Aftermath(once) : f.promise = IF lingers THEN LateOf(p) ELSE p
      <4>1. once \in Aftermath(once) /\ Contract!Tell(once, "CONNECTING") \in Aftermath(once)
        BY <3>2 DEF Aftermath, StateOf
      <4>2. Contract!Tell(LateOf(once), "CONNECTING") = LateOf(Contract!Tell(once, "CONNECTING"))
        BY <1>3, <1>5, TellLate
      <4> QED
        BY <1>10, <3>3, <4>1, <4>2
    <3>5. CASE lingers
      <4>1. p \in Contract!Promises
        BY <1>3, <1>5, TellIs DEF Aftermath
      <4>2. f.promise.late
        BY <3>4, <3>5, <4>1, LateIs
      <4> QED
        BY <1>7, <3>4, <3>5, <4>2 DEF Lands
    <3>6. CASE ~lingers
      <4>1. f.promise.asked = "started" /\ f.promise.told # "exhausted"
        <5>0. once \in Contract!Promises /\ once.asked = "started"
              /\ "CONNECTING" \in Contract!States
          BY <1>3, <1>5, <3>2
        <5>1. /\ Contract!Tell(once, "CONNECTING").asked = "started"
              /\ Contract!Tell(once, "CONNECTING").told = "CONNECTING"
          BY <5>0, TellIs
        <5>2. cut = once
          BY <1>10, <3>6
        <5> QED
          BY <1>2, <1>5, <3>2, <3>3, <5>1, <5>2
      <4>2. Says(f)
        BY <1>8, <1>9, <2>1, <3>2, <4>1 DEF Says
      <4> QED
        BY <1>7, <1>11, <1>13, <3>3, <3>4, <3>6, <4>2 DEF Lands, Agrees
    <3> QED
      BY <3>5, <3>6
  <2>3. CASE e.state # "started"
    <3>1. f.promise = cut /\ Current(f) = NewTransport(s, s.transports[f.tranportIndex])
      BY <1>15, <2>3 DEF Replaces
    <3>2. x.asked \in {"stopped", "disposed"}
      BY <1>1, <1>2, <1>8, <2>3 DEF StateOf, Contract!Promises, Contract!Asked
    <3>3. once \in Aftermath(once)
      BY DEF Aftermath
    <3>4. CASE lingers
      <4>1. f.promise.late
        BY <1>11, <3>1, <3>4
      <4> QED
        BY <1>7, <1>10, <3>1, <3>3, <3>4, <4>1 DEF Lands
    <3>5. CASE ~lingers
      <4>1. f.promise = once
        BY <1>10, <3>1, <3>5
      <4>2. Says(f)
        BY <1>2, <1>5, <1>8, <1>9, <2>1, <3>2, <4>1 DEF Says
      <4>3. x.asked = "stopped" => Excused(s)
        BY DEF Failed
      <4>4. TransportAgrees(Current(f), f, s, A)
        BY <1>5, <2>1, <3>1, <3>2, <4>1, <4>3, NewAgrees
      <4> QED
        BY <1>7, <1>13, <3>3, <3>5, <4>1, <4>2, <4>4 DEF Lands, Agrees
    <3> QED
      BY <3>4, <3>5
  <2> QED
    BY <2>2, <2>3
<1> QED
  BY <1>9, <1>14, <1>15

(* Whatever the step of the current transport comes to. *)
LEMMA OutcomeLands ==
    ASSUME NEW s \in ScenarioRecords, NEW d, Fits(d, s), HasTransport(d), AllLeft(d), Says(d),
           ~d.promise.late, NEW k \in Contract!Promises, d.promise \in Contract!Asks(k),
           NEW i, i = d.tranportIndex,
           NEW step, Ok(step.t, s.transports[i], d.contextId),
           NEW A, Outcome(step, d, s, A)
    PROVE  Lands(k, Deliver(d, s, i, step), s, A)
<1> DEFINE e == Deliver(d, s, i, step)
<1>1. Shape(d, s) /\ d.promise \in Contract!Promises
  BY DEF Fits, Shape, Connections
<1>2. CASE Silent(step, d, s, A)
  <2>1. Moves(e, d, step.t, d.promise)
    BY <1>1, <1>2, MovesSilent DEF Silent
  <2>2. TransportAgrees(step.t, e, s, A)
    BY <1>2, <2>1, MovesKnows DEF Silent, Fitting
  <2> HIDE DEF e
  <2>3. Lands(k, e, s, A)
    BY <1>1, <2>1, <2>2, Landed
  <2> QED
    BY <2>3 DEF e
<1>3. CASE Told(step, d, s, A)
  <2>1. PICK state \in Reported :
           /\ Tells(step.out, state)
           /\ \/ Contract!MayTell(d.promise, state)
              \/ Contract!Tell(d.promise, state) = d.promise
           /\ Fitting(step.t, d, Contract!Tell(d.promise, state), s, A)
    BY <1>3 DEF Told
  <2>2. Hears(d) /\ state \in Contract!States /\ d.promise.asked \in {"started", "stopped"}
    BY <1>1, <1>3 DEF Told, Hears, Fits, Standing, StateOf, Reported, Contract!States
  <2>3. Moves(e, d, step.t, Contract!Tell(d.promise, state))
    BY <1>1, <2>1, <2>2, MovesTold DEF Tells
  <2>4. TransportAgrees(step.t, e, s, A)
    BY <2>1, <2>3, MovesKnows DEF Fitting
  <2> HIDE DEF e
  <2>5. Lands(k, e, s, A)
    <3>1. CASE Contract!MayTell(d.promise, state)
      <4>1. \/ Moves(e, d, step.t, d.promise)
            \/ /\ d.promise.asked \in {"started", "stopped"}
               /\ \E x \in Reported : /\ Contract!MayTell(d.promise, x)
                                      /\ Moves(e, d, step.t, Contract!Tell(d.promise, x))
        BY <2>2, <2>3, <3>1
      <4> QED
        BY <1>1, <2>4, <4>1, Landed
    <3>2. CASE Contract!Tell(d.promise, state) = d.promise
      <4>1. Moves(e, d, step.t, d.promise)
        BY <2>3, <3>2
      <4> QED
        BY <1>1, <2>4, <4>1, Landed
    <3> QED
      BY <2>1, <3>1, <3>2
  <2> QED
    BY <2>5 DEF e
<1>4. CASE Rejects(step, d, s, A)
  <2>1. Moves(e, d, step.t, d.promise) /\ (Hears(d) => e.rejected)
    BY <1>1, <1>4, MovesUnauthorized DEF Rejects
  <2>2. TransportAgrees(step.t, e, s, A)
    BY <1>4, <2>1, MovesKnows DEF Rejects
  <2> HIDE DEF e
  <2>3. Lands(k, e, s, A)
    BY <1>1, <2>1, <2>2, Landed
  <2> QED
    BY <2>3 DEF e
<1>5. CASE Failed(step, d, s)
  <2>1. Fails(step.out)
    BY <1>5 DEF Failed, Fails
  <2>2. PICK g : /\ Shape(g, s) /\ Moves(g, d, step.t, HeardFailing(d, step.out))
                 /\ e = onTransportFail(g, s, step.t)
    BY <1>1, <2>1, Failing
  <2> HIDE DEF e
  <2>3. Lands(k, e, s, A)
    BY <1>5, <2>2, FailLands
  <2> QED
    BY <2>3 DEF e
<1> QED
  BY <1>2, <1>3, <1>4, <1>5 DEF Outcome
=============================================================================
