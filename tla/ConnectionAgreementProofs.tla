---------------------- MODULE ConnectionAgreementProofs ----------------------
(***************************************************************************)
(* Connection keeps its contract, for any list of transports, any browser  *)
(* and server, and any number of contexts, tokens, messages and events.    *)
(*                                                                         *)
(* The inductive invariant is Agreement: what the transports hold - their  *)
(* sockets, hubs, timers and requests - agrees with what the user asked    *)
(* for and was told last.  The properties of the runs say this of one      *)
(* moment: a link there, all quiet, a socket being opened; the agreement   *)
(* says it of every phase in between.  It holds until the promise of the   *)
(* contract is late; from then on the contract allows what is told late,   *)
(* and section 6 shows that no more is told.                               *)
(*                                                                         *)
(* Each kind of step leads where the contract allows, and to agreement     *)
(* (Lands): the steps of the three kinds of transports (1, 3, 4), those of *)
(* a transport that was left (2), and those of the user (5).               *)
(***************************************************************************)
EXTENDS ConnectionProofs

(***************************************************************************)
(* 1. The steps of a websocket transport                                   *)
(***************************************************************************)
(* The transport t of d, before its step. *)
Stands(t, d, s, A) ==
    /\ d.contextId \in Nat /\ d.authToken \in Nat
    /\ d.promise \in Contract!Promises /\ ~d.promise.late
    /\ Says(d) /\ HasTransport(d) /\ (Hears(d) <=> d.promise.asked # "disposed")
    /\ TransportAgrees(t, d, s, A)

(* What agrees still does when the connection learns of a rejection, or    *)
(* the server authorises another context.                                  *)
LEMMA AgreesKnows ==
    ASSUME NEW t, NEW d, NEW s, NEW A, TransportAgrees(t, d, s, A),
           NEW e, Knows(e, d, d.promise), NEW B, A \subseteq B
    PROVE  TransportAgrees(t, e, s, B)
<1>1. /\ e.promise = d.promise /\ e.contextId = d.contextId /\ e.authToken = d.authToken
      /\ d.rejected => e.rejected
  BY DEF Knows
<1>2. ASSUME WsAgrees(t, d, s, A) PROVE WsAgrees(t, e, s, B)
  <2>1. Authorizings(t, e)
    BY <1>1, <1>2, AuthorizingsSame DEF WsAgrees, SameAuth
  <2>2. Idle(t, d, s) => Idle(t, e, s)
    BY <1>1 DEF Idle
  <2>3. Wanted(t, d) => Wanted(t, e)
    BY <1>1 DEF Wanted
  <2>4. Starting(t, d, s) => Starting(t, e, s)
    BY <1>1 DEF Starting
  <2>5. Made(t, d, s, A) => Made(t, e, s, B)
    BY <1>1 DEF Made
  <2>6. Linking(t, d) => Linking(t, e)
    BY <1>1 DEF Linking, Opening, Open, Waiting
  <2> QED
    BY <1>2, <2>1, <2>2, <2>3, <2>4, <2>5, <2>6 DEF WsAgrees
<1>3. CoreAgrees(t, d, s) => CoreAgrees(t, e, s)
  BY <1>1 DEF CoreAgrees
<1>4. LibraryAgrees(t.connection, d, s) => LibraryAgrees(t.connection, e, s)
  BY <1>1 DEF LibraryAgrees
<1> QED
  BY <1>1, <1>2, <1>3, <1>4 DEF TransportAgrees

(* The same, as an outcome needs it.                                       *)
LEMMA FitsKnown ==
    ASSUME NEW t, NEW d, NEW s, NEW A, TransportAgrees(t, d, s, A)
    PROVE  Fitting(t, d, d.promise, s, A)
BY AgreesKnows DEF Fitting

(* What agrees is the sockets, the authorisations and the query.           *)
LEMMA WsSameAgrees ==
    ASSUME NEW t, NEW d, NEW s, NEW A, WsAgrees(t, d, s, A), NEW u,
           SameAuth(u, t), SameLink(u, t), u.query = t.query, u.startLost = t.startLost
    PROVE  WsAgrees(u, d, s, A)
<1>1. /\ Authorizings(u, d) /\ (NoStart(t) <=> NoStart(u))
      /\ \A k : Starts(u, k) <=> Starts(t, k)
      /\ Renews(t) => Renews(u)
  BY AuthorizingsSame DEF WsAgrees
<1>2. Fresh(t) => Fresh(u)
  BY DEF Fresh, SameLink
<1>3. Idle(t, d, s) => Idle(u, d, s)
  BY <1>1, <1>2 DEF Idle, SameAuth
<1>4. Starting(t, d, s) => Starting(u, d, s)
  BY <1>1, <1>2 DEF Starting, SameAuth
<1>5. Wanted(t, d) => Wanted(u, d)
  BY DEF Wanted, SameAuth
<1>6. Made(t, d, s, A) => Made(u, d, s, A)
  BY <1>1 DEF Made, SameLink
<1>7. Linking(t, d) => Linking(u, d)
  BY <1>1 DEF Linking, Opening, Open, Waiting, SameLink
<1> QED
  BY <1>1, <1>3, <1>4, <1>5, <1>6, <1>7 DEF WsAgrees

(* A step that tells nothing, to a transport that agrees. *)
LEMMA WsSilent ==
    ASSUME NEW t, NEW d, NEW s, NEW A, Rests(d, s), NEW step, WsAgrees(step.t, d, s, A),
           step.t.kind = Ws!Kind, step.out = <<>> \/ step.out = <<"received">>
    PROVE  Outcome(step, d, s, A)
<1>1. TransportAgrees(step.t, d, s, A)
  BY AgreesOf
<1> QED
  BY <1>1, FitsKnown DEF Outcome, Silent

(* What is forgotten or remembered of the last five seconds. *)
LEMMA RememberIs ==
    ASSUME NEW n \in Nat, NEW t, WsOk(t, n), NEW event \in Ws!Events,
           NEW u, u = Ws!Remember(t, event)
    PROVE  /\ WsOk(u, n) /\ SameAuth(u, t) /\ SameLink(u, t) /\ u.query = t.query
           /\ u.startLost = t.startLost /\ u.reconnectCount = t.reconnectCount
<1>1. WsOk(u, n)
  BY WsRemember
<1>2. t \in Ws!Transports
  BY DEF WsOk
<1>3. PICK q : u = [t EXCEPT !.recent = q]
  BY DEF Ws!Remember
<1> QED
  BY <1>1, <1>2, <1>3 DEF Ws!Transports, SameAuth, SameLink

(* Forget touches recent only.                                             *)
LEMMA ForgetIs ==
    ASSUME NEW n \in Nat, NEW t, WsOk(t, n), NEW u, u = Ws!Forget(t)
    PROVE  /\ SameAuth(u, t) /\ SameLink(u, t) /\ u.query = t.query
           /\ u.startLost = t.startLost
<1>1. t \in Ws!Transports
  BY DEF WsOk
<1> QED
  BY <1>1 DEF Ws!Transports, SameAuth, SameLink, Ws!Forget

(* stop. *)
LEMMA WsStopIs ==
    ASSUME NEW n \in Nat, NEW t, WsOk(t, n), NEW step, step = Ws!stop(t)
    PROVE  LET u == step.t
           IN  /\ step.out = <<"DISCONNECTED">> /\ WsOk(u, n) /\ u.kind = t.kind
               /\ Fresh(u) /\ ~u.startLost /\ u.leaked = t.leaked
               /\ u.contextId = 0 /\ u.authToken = t.authToken
               /\ u.authorizePromise = "none" /\ DOMAIN u.authorizing = DOMAIN t.authorizing
               /\ \A k \in DOMAIN t.authorizing :
                     /\ u.authorizing[k].contextId = t.authorizing[k].contextId
                     /\ u.authorizing[k].authToken = t.authorizing[k].authToken
                     /\ u.authorizing[k].starts = t.authorizing[k].starts
                     /\ ~u.authorizing[k].current
               /\ t.authorizing = <<>> => u.authorizing = <<>>
<1> DEFINE w == Ws!destroySocket(t)
           a == Ws!NoneCurrent(t)
           r == IF "message" \in Ws!ToSet(w.recent) THEN <<"message">> ELSE <<>>
           u == [w EXCEPT !.reconnectTimeout = FALSE, !.contextId = 0,
                          !.lastMessageId = 0, !.authorizePromise = "none",
                          !.authorizing = a, !.startLost = FALSE,
                          !.reconnectCount = 0, !.hasBeenConnected = FALSE,
                          !.recent = r, !.isReconnectPending = FALSE]
<1>1. /\ a \in Seq(Ws!Authorizations) /\ DOMAIN a = DOMAIN t.authorizing
      /\ Len(a) = Len(t.authorizing)
      /\ \A k \in DOMAIN t.authorizing :
            /\ a[k].contextId = t.authorizing[k].contextId
            /\ a[k].authToken = t.authorizing[k].authToken
            /\ a[k].starts = t.authorizing[k].starts
            /\ ~a[k].current
  BY WsNoneCurrent
<1>2. WsOk(step.t, n)
  BY WsStop DEF WsStep
<1>3. WsOk(w, n) /\ SameAuth(w, t) /\ SameLife(w, t) /\ w.socket = Ws!NoSocket
  BY DestroyIs
<1> HIDE DEF a
<1>4. step.t = u /\ step.out = <<"DISCONNECTED">>
  BY DEF Ws!stop, Ws!Step, a
<1> HIDE DEF w, r
<1>5. w \in Ws!Transports /\ t \in Ws!Transports
  BY <1>3 DEF WsOk
<1>6. /\ u.kind = w.kind /\ ~u.reconnectTimeout /\ u.contextId = 0 /\ u.lastMessageId = 0
      /\ u.authorizePromise = "none" /\ u.authorizing = a /\ ~u.startLost
      /\ ~u.hasBeenConnected /\ ~u.isReconnectPending /\ u.socket = w.socket
      /\ u.leaked = w.leaked /\ u.authToken = w.authToken
  BY <1>5 DEF Ws!Transports
<1> HIDE DEF u
<1>7. t.authorizing = <<>> => a = <<>>
  BY <1>1
<1> QED
  BY <1>1, <1>2, <1>3, <1>4, <1>6, <1>7 DEF Fresh, SameAuth, SameLife

(* A transport that has stopped is idle. *)
LEMMA StopAgrees ==
    ASSUME NEW n \in Nat, NEW t, WsOk(t, n), NEW d, Authorizings(t, d), NoStart(t),
           NEW step, step = Ws!stop(t), NEW e, e.contextId >= d.contextId, e.contextId \in Nat,
           d.contextId \in Nat, e.authToken = d.authToken,
           e.promise.told = "DISCONNECTED", e.promise.asked \in {"down", "stopped"}, NEW s, NEW A
    PROVE  TransportAgrees(step.t, e, s, A)
<1> DEFINE u == step.t
<1>1. /\ u.kind = Ws!Kind
      /\ Fresh(u) /\ ~u.startLost /\ u.leaked = t.leaked
      /\ u.contextId = 0 /\ u.authorizePromise = "none"
      /\ DOMAIN u.authorizing = DOMAIN t.authorizing
      /\ \A k \in DOMAIN t.authorizing :
            /\ u.authorizing[k].contextId = t.authorizing[k].contextId
            /\ u.authorizing[k].authToken = t.authorizing[k].authToken
            /\ u.authorizing[k].starts = t.authorizing[k].starts
            /\ ~u.authorizing[k].current
  <2>1. t.kind = Ws!Kind
    BY DEF WsOk, Ws!Transports
  <2> QED
    BY <2>1, WsStopIs
<1> HIDE DEF u
<1>2. Authorizings(u, e)
  <2>1. ASSUME NEW k \in DOMAIN u.authorizing
        PROVE  Requested(u, u.authorizing[k], e)
    <3>1. Requested(t, t.authorizing[k], d)
      BY <1>1, <2>1 DEF Authorizings
    <3> QED
      BY <1>1, <2>1, <3>1 DEF Requested, Ws!superseded
  <2>2. \A j, k \in DOMAIN u.authorizing : Starts(u, j) /\ Starts(u, k) => j = k
    BY <1>1 DEF NoStart, Starts
  <2> QED
    BY <1>1, <2>1, <2>2 DEF Authorizings
<1>3. NoStart(u)
  BY <1>1 DEF NoStart, Starts
<1>4. Idle(u, e, s)
  BY <1>1, <1>3 DEF Idle
<1>5. WsAgrees(u, e, s, A) /\ Rests(e, s)
  BY <1>2, <1>4 DEF WsAgrees, Rests
<1> QED
  BY <1>1, <1>5, AgreesOf DEF u

(* reconnect, of a transport whose sockets can be made: it gives up and    *)
(* stops, opens a socket at once, or waits.                                *)
Updated(t, answer) == IF answer.updates THEN Ws!setQuery(t, answer.token, answer.context) ELSE t

(* The query the user gives when it is told RECONNECTING.                  *)
LEMMA UpdatedIs ==
    ASSUME NEW n \in Nat, NEW t, WsOk(t, n), NEW answer \in WsAnswers(n),
           NEW u, u = Updated(t, answer)
    PROVE  /\ WsOk(u, n) /\ SameLink(u, t) /\ u.startLost = t.startLost
           /\ u.leaked = t.leaked /\ u.authorizePromise = t.authorizePromise
           /\ u.authorizing = t.authorizing
           /\ answer.updates => /\ u.contextId = answer.context /\ u.authToken = answer.token
                                /\ u.query.context = answer.context
                                /\ u.query.message = t.lastMessageId
           /\ ~answer.updates => u = t
<1>1. CASE answer.updates
  <2>1. u = Ws!setQuery(t, answer.token, answer.context)
    BY <1>1 DEF Updated
  <2>2. answer.token \in Nat /\ answer.context \in 0..n
    BY DEF WsAnswers
  <2> QED
    BY <1>1, <2>1, <2>2, SetQueryIs
<1>2. CASE ~answer.updates
  <2>1. u = t
    BY <1>2 DEF Updated
  <2> QED
    BY <1>2, <2>1 DEF SameLink
<1> QED
  BY <1>1, <1>2

(* reconnect stops when the limit is reached, opens a socket at once, or   *)
(* sets the timer.                                                         *)
LEMMA ReconnectIs ==
    ASSUME NEW n \in Nat, NEW t, WsOk(t, n), t.works, NEW isImmediate \in BOOLEAN,
           NEW answer \in WsAnswers(n), NEW step, step = Ws!reconnect(t, isImmediate, answer)
    PROVE  \/ step = Ws!stop(t)
           \/ /\ step.out = <<"RECONNECTING">>
              /\ SameAuth(step.t, Updated(t, answer)) /\ SameLife(step.t, Updated(t, answer))
              /\ \/ /\ step.t.socket = [phase |-> "opening", query |-> step.t.query]
                    /\ ~step.t.reconnectTimeout
                 \/ /\ ~isImmediate /\ step.t.socket = Ws!NoSocket /\ step.t.reconnectTimeout
<1> DEFINE u == Updated(t, answer)
           d == Ws!destroySocket(u)
           down == [d EXCEPT !.reconnectTimeout = FALSE]
           w == [down EXCEPT !.reconnectTimeout = TRUE]
           x == [[down EXCEPT !.reconnectTimeout = FALSE] EXCEPT !.reconnectCount = @ + 1]
<1>1. CASE t.reconnectCount >= DEFAULT_RECONNECT_LIMIT
  BY <1>1 DEF Ws!reconnect
<1>2. CASE ~(t.reconnectCount >= DEFAULT_RECONNECT_LIMIT)
  <2>1. step = Ws!After(<<"RECONNECTING">>, IF isImmediate THEN Ws!restartConnection(down)
                                            ELSE Ws!Step(w, <<>>))
    BY <1>2 DEF Ws!reconnect, Updated
  <2>2. WsOk(u, n) /\ SameLink(u, t)
    BY UpdatedIs
  <2> HIDE DEF u
  <2>3. WsOk(d, n) /\ SameAuth(d, u) /\ SameLife(d, u) /\ d.socket = Ws!NoSocket
    BY <2>2, DestroyIs
  <2> HIDE DEF d
  <2>4. d \in Ws!Transports
    BY <2>3 DEF WsOk
  <2>5. /\ down \in Ws!Transports /\ SameAuth(down, u) /\ SameLife(down, u)
        /\ down.socket = Ws!NoSocket /\ ~down.reconnectTimeout
        /\ down.contextId = d.contextId /\ down.authorizing = d.authorizing
    BY <2>3, <2>4 DEF Ws!Transports, SameAuth, SameLife
  <2> HIDE DEF down
  <2>6. /\ SameAuth(w, u) /\ SameLife(w, u) /\ w.socket = Ws!NoSocket /\ w.reconnectTimeout
    BY <2>5 DEF Ws!Transports, SameAuth, SameLife
  <2>7. /\ SameAuth(x, u) /\ SameLife(x, u) /\ x.socket = Ws!NoSocket /\ ~x.reconnectTimeout
        /\ x.query = u.query /\ x.works
    <3>1. u.works
      BY <2>2 DEF SameLink
    <3> QED
      BY <2>5, <3>1 DEF Ws!Transports, SameAuth, SameLife
  <2>8. Ws!restartConnection(down) = Ws!createSocket(x)
    BY DEF Ws!restartConnection
  <2>9. CASE isImmediate
    <3>1. step = Ws!After(<<"RECONNECTING">>, Ws!createSocket(x))
      BY <2>1, <2>8, <2>9
    <3>2. WsOk(x, n)
      <4>1. t.reconnectCount \in Nat /\ DEFAULT_RECONNECT_LIMIT \in Nat
        BY TransportsAssumption DEF WsOk, Ws!Transports
      <4>2. down.reconnectCount = t.reconnectCount
        BY DEF down, d, u, Updated, Ws!setQuery, Ws!destroySocket, WsOk, Ws!Transports
      <4>3. /\ x.reconnectCount = down.reconnectCount + 1
            /\ x \in Ws!Transports /\ x.contextId = down.contextId
            /\ x.authorizing = down.authorizing /\ ~x.reconnectTimeout
        <5>1. down.reconnectCount + 1 \in 0..DEFAULT_RECONNECT_LIMIT
          BY <1>2, <4>1, <4>2
        <5> HIDE DEF down
        <5> QED
          BY <2>5, <5>1 DEF Ws!Transports
      <4> HIDE DEF x
      <4> QED
        BY <2>3, <2>5, <4>3 DEF WsOk, WsWithin
    <3> HIDE DEF x, w
    <3>3. ~Ws!IsLive(x.socket)
      BY <2>7 DEF Ws!IsLive, Ws!NoSocket
    <3> DEFINE cr == Ws!createSocket(x)
    <3>4. /\ SameAuth(cr.t, x) /\ SameLife(cr.t, x)
          /\ cr.t.reconnectTimeout = x.reconnectTimeout /\ cr.out = <<>>
          /\ cr.t.socket = [phase |-> "opening", query |-> x.query]
      BY <2>7, <3>2, <3>3, CreateIs
    <3>5. step.t = cr.t /\ step.out = <<"RECONNECTING">> \o cr.out
      BY <3>1 DEF Ws!After, Ws!createSocket, Ws!handleFailure, Ws!Step
    <3> HIDE DEF cr
    <3>6. step.out = <<"RECONNECTING">>
      <4>1. <<"RECONNECTING">> \o <<>> = <<"RECONNECTING">>
        OBVIOUS
      <4> QED
        BY <3>4, <3>5, <4>1
    <3>7. SameAuth(step.t, u) /\ SameLife(step.t, u)
      BY <2>7, <3>4, <3>5 DEF SameAuth, SameLife
    <3>8. /\ step.t.socket = [phase |-> "opening", query |-> step.t.query]
          /\ ~step.t.reconnectTimeout
      BY <2>7, <3>4, <3>5 DEF SameLife
    <3> QED
      BY <3>6, <3>7, <3>8 DEF u
  <2>10. CASE ~isImmediate
    <3> HIDE DEF x, w
    <3>1. step = Ws!After(<<"RECONNECTING">>, Ws!Step(w, <<>>))
      BY <2>1, <2>10
    <3>2. <<"RECONNECTING">> \o <<>> = <<"RECONNECTING">>
      OBVIOUS
    <3>3. step.t = w /\ step.out = <<"RECONNECTING">>
      BY <3>1, <3>2 DEF Ws!After, Ws!Step
    <3> QED
      BY <2>6, <2>10, <3>3 DEF u
  <2> QED
    BY <2>9, <2>10
<1> QED
  BY <1>1, <1>2

(* The reconnect of a transport that holds a link, or waits for one,       *)
(* agrees.                                                                 *)
LEMMA ReconnectAgrees ==
    ASSUME NEW d, d.contextId \in Nat, d.authToken \in Nat, d.promise \in Contract!Promises,
           ~d.promise.late, d.promise.told \in {"CONNECTING", "CONNECTED", "RECONNECTING"},
           NEW t, WsOk(t, d.contextId), NEW s, NEW A,
           Authorizings(t, d), Wanted(t, d), Made(t, d, s, A),
           NEW isImmediate \in BOOLEAN, isImmediate \/ t.hasBeenConnected,
           NEW answer \in WsAnswers(d.contextId),
           answer.token = d.authToken, answer.context = d.contextId,
           answer.updates \/ t.query.message = t.lastMessageId,
           NEW step, step = Ws!reconnect(t, isImmediate, answer)
    PROVE  Outcome(step, d, s, A)
<1>1. d.promise.asked = "started" /\ t.works /\ NoStart(t)
  BY DEF Wanted, Made
<1>2. /\ d.promise.told # "DISCONNECTED" => Contract!MayTell(d.promise, "DISCONNECTED")
      /\ d.promise.told # "RECONNECTING" => Contract!MayTell(d.promise, "RECONNECTING")
  BY <1>1, StartedTells
<1>3. CASE step = Ws!stop(t)
  <2> DEFINE k == Contract!Tell(d.promise, "DISCONNECTED")
  <2>1. step.out = <<"DISCONNECTED">>
    BY <1>3, WsStopIs
  <2>2. k.told = "DISCONNECTED" /\ k.asked = "down"
    <3>1. "DISCONNECTED" \in Contract!States /\ "DISCONNECTED" \in {"DISCONNECTED", "exhausted"}
      BY DEF Contract!States
    <3> QED
      BY <1>1, <3>1, TellIs
  <2> HIDE DEF k
  <2>3. Fitting(step.t, d, k, s, A)
    <3>1. ASSUME NEW e, Knows(e, d, k) PROVE TransportAgrees(step.t, e, s, A)
      <4>1. /\ e.contextId = d.contextId /\ e.authToken = d.authToken
            /\ e.promise.told = "DISCONNECTED" /\ e.promise.asked = "down"
        BY <2>2, <3>1 DEF Knows
      <4>2. e.contextId >= d.contextId
        BY <4>1
      <4> QED
        BY <1>1, <1>3, <4>1, <4>2, StopAgrees
    <3> QED
      BY <3>1 DEF Fitting
  <2>4. Contract!MayTell(d.promise, "DISCONNECTED")
    BY <1>2
  <2>5. Told(step, d, s, A)
    BY <1>1, <2>1, <2>3, <2>4 DEF Told, Tells, Reported, k
  <2> QED
    BY <2>5 DEF Outcome
<1>4. CASE /\ step.out = <<"RECONNECTING">>
           /\ SameAuth(step.t, Updated(t, answer)) /\ SameLife(step.t, Updated(t, answer))
           /\ \/ /\ step.t.socket = [phase |-> "opening", query |-> step.t.query]
                 /\ ~step.t.reconnectTimeout
              \/ /\ ~isImmediate /\ step.t.socket = Ws!NoSocket /\ step.t.reconnectTimeout
  <2> DEFINE k == Contract!Tell(d.promise, "RECONNECTING")
             u == step.t
             v == Updated(t, answer)
  <2>1. k.told = "RECONNECTING" /\ k.asked = "started"
    <3>1. "RECONNECTING" \in Contract!States /\ "RECONNECTING" \notin {"DISCONNECTED", "exhausted"}
      BY DEF Contract!States
    <3> QED
      BY <1>1, <3>1, TellIs
  <2>2. Contract!MayTell(d.promise, "RECONNECTING") \/ k = d.promise
    <3>1. CASE d.promise.told = "RECONNECTING"
      <4>1. Contract!Tell(d.promise, d.promise.told) = d.promise
        <5>1. d.promise.told \in Contract!States
          BY <3>1 DEF Contract!States
        <5> QED
          BY <1>1, <3>1, <5>1, TellSame
      <4> QED
        BY <3>1, <4>1
    <3> QED
      BY <1>2, <3>1
  <2> HIDE DEF k
  <2>3. /\ SameLink(v, t) /\ v.startLost = t.startLost /\ v.leaked = t.leaked
        /\ v.authorizePromise = t.authorizePromise /\ v.authorizing = t.authorizing
        /\ answer.updates => /\ v.contextId = d.contextId /\ v.authToken = d.authToken
                             /\ v.query.context = d.contextId
                             /\ v.query.message = t.lastMessageId
        /\ ~answer.updates => v = t
    BY UpdatedIs
  <2>4. /\ v.contextId = d.contextId /\ v.authToken = d.authToken
        /\ v.query.context = d.contextId /\ v.query.message = t.lastMessageId
        /\ t.contextId = d.contextId /\ t.authToken = d.authToken
    BY <2>3 DEF Wanted
  <2> HIDE DEF v
  <2>5. SameAuth(v, t)
    BY <2>3, <2>4 DEF SameAuth
  <2>6. SameAuth(u, t)
    BY <1>4, <2>5 DEF SameAuth, v
  <2>7. /\ u.kind = t.kind /\ u.works = t.works /\ u.query.context = d.contextId
        /\ u.query.message = u.lastMessageId
        /\ u.hasBeenConnected = t.hasBeenConnected /\ u.startLost = t.startLost
    BY <1>4, <2>3, <2>4 DEF SameLife, SameLink, v
  <2> HIDE DEF u
  <2>8. t.kind = Ws!Kind
    BY DEF WsOk, Ws!Transports
  <2>9. Fitting(u, d, k, s, A)
    <3>1. ASSUME NEW e, Knows(e, d, k) PROVE TransportAgrees(u, e, s, A)
      <4>1. /\ e.contextId = d.contextId /\ e.authToken = d.authToken
            /\ e.promise.told = "RECONNECTING" /\ e.promise.asked = "started"
        BY <2>1, <3>1 DEF Knows
      <4>2. Authorizings(u, e) /\ NoStart(u)
        BY <1>1, <2>6, <4>1, AuthorizingsSame
      <4>3. Wanted(u, e)
        BY <2>4, <2>6, <2>7, <4>1 DEF Wanted, SameAuth
      <4>4. Made(u, e, s, A)
        BY <2>7, <4>1, <4>2 DEF Made
      <4>5. Linking(u, e)
        <5>1. CASE u.socket = [phase |-> "opening", query |-> u.query] /\ ~u.reconnectTimeout
          <6>1. u.socket.phase = "opening" /\ u.socket.query = u.query
            BY <5>1
          <6> QED
            BY <2>7, <4>1, <5>1, <6>1 DEF Linking, Opening
        <5>2. CASE ~isImmediate /\ u.socket = Ws!NoSocket /\ u.reconnectTimeout
          BY <2>7, <4>1, <5>2 DEF Linking, Waiting
        <5> QED
          BY <1>4, <5>1, <5>2 DEF u
      <4>6. WsAgrees(u, e, s, A) /\ Rests(e, s)
        BY <4>1, <4>2, <4>3, <4>4, <4>5 DEF WsAgrees, Rests
      <4> QED
        BY <2>7, <2>8, <4>6, AgreesOf
    <3> QED
      BY <3>1 DEF Fitting
  <2>10. Told(step, d, s, A)
    BY <1>1, <1>4, <2>2, <2>9 DEF Told, Tells, Reported, k, u
  <2> QED
    BY <2>10 DEF Outcome
<1> QED
  BY <1>1, <1>3, <1>4, ReconnectIs

(* What is told of a started connection that is on its way. *)
Heard(e, d, state) ==
    /\ e.contextId = d.contextId /\ e.authToken = d.authToken /\ (d.rejected => e.rejected)
    /\ e.promise.told = state
    /\ state # "DISCONNECTED" => e.promise.asked = d.promise.asked
    /\ state = "DISCONNECTED" =>
          e.promise.asked = IF d.promise.asked = "started" THEN "down" ELSE d.promise.asked

(* What a connection is that was told a state.                             *)
LEMMA KnowsHeard ==
    ASSUME NEW d, d.promise \in Contract!Promises, d.promise.asked # "down",
           NEW state \in Reported, NEW e, Knows(e, d, Contract!Tell(d.promise, state))
    PROVE  Heard(e, d, state)
<1> DEFINE k == Contract!Tell(d.promise, state)
<1>1. state \in Contract!States /\ state # "exhausted"
  BY DEF Contract!States, Reported
<1>2. k.told = state
  BY <1>1, TellIs
<1>3. k.asked = IF state \in {"DISCONNECTED", "exhausted"}
                THEN IF d.promise.asked = "started" THEN "down" ELSE d.promise.asked
                ELSE IF d.promise.asked = "down" THEN "started" ELSE d.promise.asked
  BY <1>1, TellIs
<1>4. e.promise = k /\ e.contextId = d.contextId /\ e.authToken = d.authToken
      /\ (d.rejected => e.rejected)
  BY DEF Knows
<1> HIDE DEF k
<1> QED
  BY <1>1, <1>2, <1>3, <1>4 DEF Heard

(* A report that the contract allows is an outcome.                        *)
LEMMA HeardTold ==
    ASSUME NEW d, d.promise \in Contract!Promises, ~d.promise.late,
           NEW state \in Reported,
           \/ /\ d.promise.asked = "started"
              /\ d.promise.told \in {"CONNECTING", "CONNECTED", "RECONNECTING"}
              /\ state # "CONNECTING" /\ d.promise.told # state
           \/ /\ d.promise.asked = "stopped" /\ d.promise.told # "exhausted"
              /\ state = "DISCONNECTED",
           NEW s, NEW A, NEW step, Tells(step.out, state),
           \A e : Heard(e, d, state) => TransportAgrees(step.t, e, s, A)
    PROVE  Outcome(step, d, s, A)
<1>1. Contract!MayTell(d.promise, state)
  <2>1. CASE d.promise.asked = "started"
    <3>1. state \in {"CONNECTED", "RECONNECTING", "DISCONNECTED"} /\ d.promise.told # state
      BY <2>1 DEF Reported
    <3> QED
      BY <2>1, <3>1, StartedTells
  <2>2. CASE d.promise.asked = "stopped"
    BY <2>2 DEF Contract!MayTell
  <2> QED
    BY <2>1, <2>2
<1>2. Fitting(step.t, d, Contract!Tell(d.promise, state), s, A)
  BY KnowsHeard DEF Fitting
<1>3. d.promise.asked \in {"started", "stopped"}
  OBVIOUS
<1>4. Told(step, d, s, A)
  BY <1>1, <1>2, <1>3 DEF Told
<1> QED
  BY <1>4 DEF Outcome

(* What the parts of a websocket transport say of each other.              *)
LEMMA WsStands ==
    ASSUME NEW d, NEW t, NEW s, NEW A, Stands(t, d, s, A), WsOk(t, d.contextId)
    PROVE  /\ t.kind = Ws!Kind /\ WsAgrees(t, d, s, A) /\ Rests(d, s)
           /\ Authorizings(t, d) /\ t.leaked = <<>>
           /\ t.socket # Ws!NoSocket \/ t.reconnectTimeout =>
                 Wanted(t, d) /\ Made(t, d, s, A) /\ Linking(t, d)
           /\ t.socket.phase = "opening" => Opening(t, d)
           /\ t.socket.phase = "open" => Open(t, d)
           /\ t.reconnectTimeout => Waiting(t, d)
<1>1. t.kind = Ws!Kind
  BY DEF WsOk, Ws!Transports
<1>2. WsAgrees(t, d, s, A) /\ Rests(d, s)
  BY <1>1, AgreesOf DEF Stands
<1>3. t.socket # Ws!NoSocket \/ t.reconnectTimeout =>
                 Wanted(t, d) /\ Made(t, d, s, A) /\ Linking(t, d)
  BY <1>2 DEF WsAgrees, Idle, Starting, Fresh
<1>4. Ws!NoSocket.phase = "none"
  BY DEF Ws!NoSocket
<1>5. /\ t.socket.phase = "opening" => Opening(t, d)
      /\ t.socket.phase = "open" => Open(t, d)
      /\ t.reconnectTimeout => Waiting(t, d)
  BY <1>3, <1>4 DEF Linking, Opening, Open, Waiting
<1> QED
  BY <1>1, <1>2, <1>3, <1>5 DEF WsAgrees, Authorizings

(* The socket opens. *)
LEMMA OpensAgrees ==
    ASSUME NEW d, NEW t, NEW s, NEW A, Stands(t, d, s, A), WsOk(t, d.contextId),
           t.socket.phase = "opening", NEW step, step = Ws!handleSocketOpen(t, 0)
    PROVE  Outcome(step, d, s, A)
<1> DEFINE u == [t EXCEPT !.socket.phase = "open"]
           v == [u EXCEPT !.hasBeenConnected = TRUE, !.reconnectCount = 0]
<1>1. t \in Ws!Transports
  BY DEF WsOk
<1>2. t.socket \in Ws!Sockets
  BY <1>1 DEF Ws!Transports, Ws!NoSocket
<1>3. /\ u.socket.phase = "open" /\ u.socket.query = t.socket.query
      /\ u \in Ws!Transports /\ u.query = t.query /\ SameAuth(u, t)
      /\ u.kind = t.kind /\ u.works = t.works /\ u.lastMessageId = t.lastMessageId
      /\ u.reconnectTimeout = t.reconnectTimeout /\ u.startLost = t.startLost
  BY <1>1, <1>2 DEF Ws!Transports, Ws!Sockets, SameAuth
<1> HIDE DEF u
<1>4. u.socket # Ws!NoSocket
  BY <1>3 DEF Ws!NoSocket
<1>5. Ws!Opened(t, 0) = u
  BY DEF Ws!Opened, u
<1>6. step.t = v /\ step.out = <<"CONNECTED">>
  BY <1>4, <1>5 DEF Ws!handleSocketOpen, Ws!Step
<1>7. /\ v.socket = u.socket /\ v.query = u.query /\ SameAuth(v, u)
      /\ v.kind = u.kind /\ v.works = u.works /\ v.lastMessageId = u.lastMessageId
      /\ v.reconnectTimeout = u.reconnectTimeout /\ v.startLost = u.startLost
      /\ v.hasBeenConnected
  BY <1>3 DEF Ws!Transports, SameAuth
<1> HIDE DEF v
<1>8. /\ t.kind = Ws!Kind /\ Authorizings(t, d) /\ Wanted(t, d) /\ Made(t, d, s, A)
      /\ Opening(t, d)
  <2>1. t.socket # Ws!NoSocket
    BY DEF Ws!NoSocket
  <2> QED
    BY <2>1, WsStands
<1>9. SameAuth(v, t)
  BY <1>3, <1>7 DEF SameAuth
<1>10. ASSUME NEW e, Heard(e, d, "CONNECTED") PROVE TransportAgrees(v, e, s, A)
  <2>1. /\ e.contextId = d.contextId /\ e.authToken = d.authToken
        /\ e.promise.told = "CONNECTED" /\ e.promise.asked = "started"
    BY <1>8, <1>10 DEF Heard, Wanted
  <2>2. Authorizings(v, e) /\ NoStart(v)
    BY <1>8, <1>9, <2>1, AuthorizingsSame DEF Made
  <2>3. Wanted(v, e)
    BY <1>3, <1>7, <1>8, <2>1 DEF Wanted, SameAuth
  <2>4. Made(v, e, s, A)
    BY <1>3, <1>7, <1>8, <2>1, <2>2 DEF Made
  <2>5. Open(v, e)
    BY <1>3, <1>7, <1>8, <2>1 DEF Open, Opening
  <2>6. WsAgrees(v, e, s, A) /\ Rests(e, s)
    BY <2>1, <2>2, <2>3, <2>4, <2>5 DEF WsAgrees, Rests, Linking
  <2> QED
    BY <1>3, <1>7, <1>8, <2>6, AgreesOf
<1>11. d.promise.asked = "started" /\ d.promise.told \in {"CONNECTING", "RECONNECTING"}
  BY <1>8 DEF Wanted, Opening
<1>12. Tells(step.out, "CONNECTED") /\ "CONNECTED" \in Reported
  BY <1>6 DEF Tells, Reported
<1> QED
  BY <1>6, <1>10, <1>11, <1>12, HeardTold DEF Stands

(* A websocket fails. *)
LEMMA WsFailing ==
    ASSUME NEW d, NEW s, NEW A, d.promise.asked # "created",
           d.promise.asked = "stopped" => Excused(s),
           NEW n \in Nat, NEW u, WsOk(u, n), u.leaked = <<>>,
           NEW step, step = Ws!handleFailure(u)
    PROVE  Outcome(step, d, s, A)
BY FailureIs DEF Outcome, Failed

(* A message, on an open socket. *)
LEMMA ReceivesAgrees ==
    ASSUME NEW d, NEW t, NEW s, NEW A, Stands(t, d, s, A), WsOk(t, d.contextId),
           t.socket.phase = "open", NEW frame,
           NEW step, step = Ws!handleSocketMessage(t, frame)
    PROVE  Outcome(step, d, s, A)
<1> DEFINE u == Ws!Remember(t, "message")
           v == [u EXCEPT !.lastMessageId = @ + 1]
<1>1. /\ t.kind = Ws!Kind /\ WsAgrees(t, d, s, A) /\ Rests(d, s)
      /\ Authorizings(t, d) /\ t.leaked = <<>>
      /\ Wanted(t, d) /\ Made(t, d, s, A) /\ Open(t, d)
  <2>1. t.socket # Ws!NoSocket
    BY DEF Ws!NoSocket
  <2> QED
    BY <2>1, WsStands
<1>2. d.promise.asked = "started" /\ d.contextId \in Nat
  BY <1>1 DEF Wanted, Stands
<1>3. /\ WsOk(u, d.contextId) /\ SameAuth(u, t) /\ SameLink(u, t) /\ u.query = t.query
      /\ u.startLost = t.startLost
  <2>1. "message" \in Ws!Events
    BY DEF Ws!Events
  <2> QED
    BY <1>2, <2>1, RememberIs
<1>4. \/ step = [t |-> v, out |-> <<"received">>]
      \/ step = Ws!handleFailure(u)
      \/ step = [t |-> u, out |-> <<>>]
  BY DEF Ws!handleSocketMessage, Ws!Step
<1> HIDE DEF u
<1>5. CASE step = Ws!handleFailure(u)
  <2>1. u.leaked = <<>>
    BY <1>1, <1>3 DEF SameAuth
  <2> QED
    BY <1>2, <1>3, <1>5, <2>1, WsFailing
<1>6. CASE step = [t |-> u, out |-> <<>>]
  <2>1. WsAgrees(u, d, s, A) /\ u.kind = Ws!Kind
    BY <1>1, <1>3, WsSameAgrees DEF SameLink
  <2>2. step.t = u /\ step.out = <<>>
    BY <1>6
  <2> QED
    BY <1>1, <2>1, <2>2, WsSilent
<1>7. CASE step = [t |-> v, out |-> <<"received">>]
  <2>1. /\ SameAuth(v, u) /\ v.kind = u.kind /\ v.works = u.works /\ v.query = u.query
        /\ v.socket = u.socket /\ v.hasBeenConnected = u.hasBeenConnected
        /\ v.reconnectTimeout = u.reconnectTimeout /\ v.startLost = u.startLost
        /\ v.isReconnectPending = u.isReconnectPending
    BY <1>3 DEF WsOk, Ws!Transports, SameAuth
  <2>2. SameAuth(v, t)
    BY <1>3, <2>1 DEF SameAuth
  <2> HIDE DEF v
  <2>3. Authorizings(v, d) /\ NoStart(v) /\ (Renews(t) => Renews(v))
    BY <1>1, <2>2, AuthorizingsSame DEF Made
  <2>4. Wanted(v, d)
    BY <1>1, <1>3, <2>1 DEF Wanted, SameAuth
  <2>5. Made(v, d, s, A)
    BY <1>1, <1>3, <2>1, <2>3 DEF Made, SameLink
  <2>6. Open(v, d)
    BY <1>1, <1>3, <2>1, <2>3 DEF Open, SameLink
  <2>7. WsAgrees(v, d, s, A) /\ v.kind = Ws!Kind
    BY <1>1, <1>3, <2>1, <2>3, <2>4, <2>5, <2>6 DEF WsAgrees, Linking, SameLink
  <2>8. step.t = v /\ step.out = <<"received">>
    BY <1>7
  <2> QED
    BY <1>1, <2>7, <2>8, WsSilent
<1> QED
  BY <1>4, <1>5, <1>6, <1>7

(* The timer of a reconnect. *)
LEMMA TimeoutAgrees ==
    ASSUME NEW d, NEW t, NEW s, NEW A, Stands(t, d, s, A), WsOk(t, d.contextId),
           t.reconnectTimeout, NEW step, step = Ws!restartConnection(t)
    PROVE  Outcome(step, d, s, A)
<1> DEFINE x == [[t EXCEPT !.reconnectTimeout = FALSE] EXCEPT !.reconnectCount = @ + 1]
<1>1. /\ t.kind = Ws!Kind /\ Rests(d, s) /\ Authorizings(t, d)
      /\ Wanted(t, d) /\ Made(t, d, s, A) /\ Waiting(t, d)
  BY WsStands
<1>2. step = Ws!createSocket(x)
  BY DEF Ws!restartConnection
<1>3. d.contextId \in Nat
  BY DEF Stands
<1>4. t.reconnectCount + 1 \in 0..DEFAULT_RECONNECT_LIMIT
  BY TransportsAssumption DEF WsOk, WsWithin, Ws!Transports
<1>5. /\ x \in Ws!Transports /\ SameAuth(x, t) /\ SameLife(x, t) /\ ~x.reconnectTimeout
      /\ x.socket = t.socket
  BY <1>4 DEF WsOk, Ws!Transports, SameAuth, SameLife
<1> HIDE DEF x
<1>6. WsOk(x, d.contextId)
  BY <1>5 DEF WsOk, WsWithin, SameAuth
<1>7. x.works /\ ~Ws!IsLive(x.socket)
  BY <1>1, <1>5 DEF Made, Waiting, SameLife, Ws!IsLive, Ws!NoSocket
<1>8. /\ SameAuth(step.t, x) /\ SameLife(step.t, x) /\ step.out = <<>>
      /\ step.t.reconnectTimeout = x.reconnectTimeout
      /\ step.t.socket = [phase |-> "opening", query |-> x.query]
  BY <1>2, <1>3, <1>6, <1>7, CreateIs
<1> DEFINE u == step.t
<1>9. SameAuth(u, t) /\ SameLife(u, t) /\ ~u.reconnectTimeout
  BY <1>5, <1>8 DEF SameAuth, SameLife
<1>10. u.socket.phase = "opening" /\ u.socket.query = t.query
  BY <1>5, <1>8 DEF SameLife
<1> HIDE DEF u
<1>11. Authorizings(u, d) /\ NoStart(u)
  BY <1>1, <1>9, AuthorizingsSame DEF Made
<1>12. Wanted(u, d)
  BY <1>1, <1>9 DEF Wanted, SameAuth, SameLife
<1>13. Made(u, d, s, A)
  BY <1>1, <1>9, <1>11 DEF Made, SameLife
<1>14. Opening(u, d)
  BY <1>1, <1>9, <1>10 DEF Opening, Waiting, Wanted, SameLife
<1>15. WsAgrees(u, d, s, A) /\ u.kind = Ws!Kind
  BY <1>1, <1>9, <1>11, <1>12, <1>13, <1>14 DEF WsAgrees, Linking, SameLife
<1> QED
  BY <1>1, <1>8, <1>15, WsSilent DEF u

(* Five seconds pass. *)
LEMMA ForgetAgrees ==
    ASSUME NEW d, NEW t, NEW s, NEW A, Stands(t, d, s, A), WsOk(t, d.contextId),
           NEW step, step = Ws!Step(Ws!Forget(t), <<>>)
    PROVE  Outcome(step, d, s, A)
<1>1. step.t = Ws!Forget(t) /\ step.out = <<>>
  BY DEF Ws!Step
<1>2. t.kind = Ws!Kind /\ Rests(d, s) /\ WsAgrees(t, d, s, A) /\ d.contextId \in Nat
  BY WsStands DEF Stands
<1>3. /\ SameAuth(step.t, t) /\ SameLink(step.t, t) /\ step.t.query = t.query
      /\ step.t.startLost = t.startLost
  BY <1>1, <1>2, ForgetIs
<1>4. WsAgrees(step.t, d, s, A) /\ step.t.kind = Ws!Kind
  BY <1>2, <1>3, WsSameAgrees DEF SameLink
<1> QED
  BY <1>1, <1>2, <1>4, WsSilent

(* What the connection answers a transport that reconnects. *)
Answering(answer, d) ==
    /\ answer \in WsAnswers(d.contextId)
    /\ answer.token = d.authToken /\ answer.context = d.contextId
    /\ answer.updates <=> Hears(d) /\ d.promise.told # "RECONNECTING"

(* reconnect, of a transport that was on its way. *)
LEMMA LinkingReconnects ==
    ASSUME NEW d, NEW t, NEW s, NEW A, Stands(t, d, s, A), WsOk(t, d.contextId),
           t.socket # Ws!NoSocket \/ t.reconnectTimeout,
           NEW isImmediate \in BOOLEAN, isImmediate \/ t.hasBeenConnected,
           NEW u, WsOk(u, d.contextId), Authorizings(u, d), NoStart(u),
           u.kind = t.kind, u.works = t.works, u.query = t.query,
           u.contextId = t.contextId, u.authToken = t.authToken,
           u.hasBeenConnected = t.hasBeenConnected,
           u.lastMessageId = t.lastMessageId, u.startLost = t.startLost,
           NEW answer, Answering(answer, d),
           NEW step, step = Ws!reconnect(u, isImmediate, answer)
    PROVE  Outcome(step, d, s, A)
<1>1. /\ Authorizings(t, d) /\ Wanted(t, d) /\ Made(t, d, s, A) /\ Linking(t, d)
  BY WsStands
<1>2. Wanted(u, d) /\ Made(u, d, s, A)
  BY <1>1 DEF Wanted, Made
<1>3. d.promise.told \in {"CONNECTING", "CONNECTED", "RECONNECTING"}
  BY <1>1 DEF Linking, Opening, Open, Waiting
<1>4. Hears(d)
  BY <1>1 DEF Stands, Wanted
<1>5. answer.updates \/ u.query.message = u.lastMessageId
  BY <1>1, <1>4 DEF Answering, Linking, Opening, Open, Waiting
<1>6. isImmediate \/ u.hasBeenConnected
  OBVIOUS
<1> QED
  BY <1>2, <1>3, <1>5, <1>6, ReconnectAgrees DEF Answering, Stands

(* The socket closes. *)
LEMMA ClosesAgrees ==
    ASSUME NEW d, NEW t, NEW s, NEW A, Stands(t, d, s, A), WsOk(t, d.contextId),
           t.socket.phase \in {"opening", "open"}, NEW code,
           code = "tokenExpired" => t.socket.phase = "open",
           NEW answer, Answering(answer, d),
           NEW step, step = Ws!handleSocketClose(t, 0, code, answer)
    PROVE  Outcome(step, d, s, A)
<1> DEFINE u == [t EXCEPT !.socket.phase = "closed"]
           v == [u EXCEPT !.isReconnectPending = TRUE]
           b == u.reconnectCount = 0
<1>1. t \in Ws!Transports /\ t.socket # Ws!NoSocket
  BY DEF WsOk, Ws!NoSocket
<1>2. t.socket \in Ws!Sockets
  BY <1>1 DEF Ws!Transports
<1>3. /\ u.socket.phase = "closed" /\ u.socket.query = t.socket.query
      /\ u \in Ws!Transports /\ u.query = t.query /\ SameAuth(u, t)
      /\ u.kind = t.kind /\ u.works = t.works /\ u.lastMessageId = t.lastMessageId
      /\ u.startLost = t.startLost /\ u.reconnectCount = t.reconnectCount
  BY <1>1, <1>2 DEF Ws!Transports, Ws!Sockets, SameAuth
<1>4. /\ u.reconnectTimeout = t.reconnectTimeout
      /\ u.hasBeenConnected = t.hasBeenConnected
  BY <1>1, <1>2 DEF Ws!Transports
<1>5. u = Ws!Closed(t, 0)
  BY DEF Ws!Closed
<1> HIDE DEF u
<1>6. u.socket # Ws!NoSocket
  BY <1>3 DEF Ws!NoSocket
<1>7. \/ step = Ws!handleFailure(u)
      \/ code = "tokenExpired" /\ u.hasBeenConnected /\ step = Ws!Step(v, <<"unauthorized">>)
      \/ u.hasBeenConnected /\ step = Ws!reconnect(u, b, answer)
  BY <1>5, <1>6 DEF Ws!handleSocketClose
<1>8. /\ t.kind = Ws!Kind /\ Authorizings(t, d) /\ Wanted(t, d) /\ Made(t, d, s, A)
      /\ Linking(t, d) /\ (t.socket.phase = "open" => Open(t, d)) /\ Rests(d, s)
  BY <1>1, WsStands
<1>9. WsOk(u, d.contextId)
  BY <1>3, <1>4 DEF WsOk, WsWithin, SameAuth
<1>10. Authorizings(u, d) /\ NoStart(u) /\ (Renews(t) => Renews(u))
  BY <1>3, <1>8, AuthorizingsSame DEF Made
<1>11. CASE step = Ws!handleFailure(u)
  <2>1. u.leaked = <<>> /\ d.promise.asked = "started" /\ d.contextId \in Nat
    BY <1>8, <1>10 DEF Authorizings, Wanted, Stands
  <2> QED
    BY <1>9, <1>11, <2>1, WsFailing
<1>12. CASE u.hasBeenConnected /\ step = Ws!reconnect(u, b, answer)
  <2>1. b \in BOOLEAN
    OBVIOUS
  <2> HIDE DEF b
  <2>2. u.contextId = t.contextId /\ u.authToken = t.authToken
    BY <1>3 DEF SameAuth
  <2> QED
    BY <1>1, <1>3, <1>4, <1>9, <1>10, <1>12, <2>1, <2>2, LinkingReconnects
<1>13. CASE code = "tokenExpired" /\ u.hasBeenConnected /\ step = Ws!Step(v, <<"unauthorized">>)
  <2>1. step.t = v /\ step.out = <<"unauthorized">>
    <3> HIDE DEF v
    <3>1. step = [t |-> v, out |-> <<"unauthorized">>]
      BY <1>13 DEF Ws!Step
    <3> QED
      BY <3>1
  <2>2. /\ v.socket = u.socket /\ v.query = u.query /\ SameAuth(v, u)
        /\ v.kind = u.kind /\ v.works = u.works /\ v.lastMessageId = u.lastMessageId
        /\ v.startLost = u.startLost
    BY <1>3 DEF Ws!Transports, SameAuth
  <2>3. /\ v.reconnectTimeout = u.reconnectTimeout /\ v.hasBeenConnected /\ v.isReconnectPending
    BY <1>3, <1>13 DEF Ws!Transports
  <2> HIDE DEF v
  <2>4. Open(t, d) /\ Hears(d)
    BY <1>8, <1>13 DEF Wanted, Stands
  <2>5. SameAuth(v, t)
    BY <1>3, <2>2 DEF SameAuth
  <2>6. ASSUME NEW e, Knows(e, d, d.promise), e.rejected
        PROVE  TransportAgrees(v, e, s, A)
    <3>1. /\ e.contextId = d.contextId /\ e.authToken = d.authToken /\ e.promise = d.promise
      BY <2>6 DEF Knows
    <3>2. Authorizings(v, e) /\ NoStart(v)
      BY <1>8, <2>5, <3>1, AuthorizingsSame DEF Made
    <3>3. Wanted(v, e)
      BY <1>3, <1>8, <2>2, <2>5, <3>1 DEF Wanted, SameAuth
    <3>4. Made(v, e, s, A)
      BY <1>3, <1>8, <2>2, <3>1, <3>2 DEF Made
    <3>5. Open(v, e)
      BY <1>3, <1>4, <2>2, <2>3, <2>4, <2>6, <3>1 DEF Open
    <3>6. WsAgrees(v, e, s, A) /\ Rests(e, s)
      BY <1>8, <3>1, <3>2, <3>3, <3>4, <3>5 DEF WsAgrees, Rests, Linking
    <3> QED
      BY <1>3, <1>8, <2>2, <3>6, AgreesOf
  <2>7. Rejects(step, d, s, A)
    BY <2>1, <2>4, <2>6 DEF Rejects
  <2> QED
    BY <2>7 DEF Outcome
<1> QED
  BY <1>7, <1>11, <1>12, <1>13

(* The user tells the transport of an orphan or of a network error. *)
LEMMA ReportsAgree ==
    ASSUME NEW d, NEW t, NEW s, NEW A, Stands(t, d, s, A), WsOk(t, d.contextId),
           NEW answer, Answering(answer, d),
           NEW step, step \in {Ws!onOrphanFound(t, answer), Ws!onSubscribeNetworkError(t, answer)}
    PROVE  Outcome(step, d, s, A)
<1>1. /\ t.kind = Ws!Kind /\ WsAgrees(t, d, s, A) /\ Rests(d, s) /\ Authorizings(t, d)
      /\ d.contextId \in Nat
  BY WsStands DEF Stands
<1>2. PICK event \in Ws!Events : step = Ws!detectNetworkError(Ws!Remember(t, event), answer)
  <2>1. "orphan" \in Ws!Events /\ "networkError" \in Ws!Events
    BY DEF Ws!Events
  <2> QED
    BY <2>1 DEF Ws!onOrphanFound, Ws!onSubscribeNetworkError
<1> DEFINE u == Ws!Remember(t, event)
<1>3. /\ WsOk(u, d.contextId) /\ SameAuth(u, t) /\ SameLink(u, t) /\ u.query = t.query
      /\ u.startLost = t.startLost
  BY <1>1, RememberIs
<1> HIDE DEF u
<1>4. \/ u.socket # Ws!NoSocket /\ step = Ws!reconnect(u, TRUE, answer)
      \/ step = Ws!Step(u, <<>>)
  BY <1>2 DEF Ws!detectNetworkError, u
<1>5. CASE u.socket # Ws!NoSocket /\ step = Ws!reconnect(u, TRUE, answer)
  <2>1. t.socket # Ws!NoSocket
    BY <1>3, <1>5 DEF SameLink
  <2>2. Made(t, d, s, A)
    BY <2>1, WsStands
  <2>3. Authorizings(u, d) /\ NoStart(u)
    BY <1>1, <1>3, <2>2, AuthorizingsSame DEF Made
  <2>4. u.contextId = t.contextId /\ u.authToken = t.authToken
    BY <1>3 DEF SameAuth
  <2>5. /\ u.kind = t.kind /\ u.works = t.works /\ u.query = t.query
        /\ u.hasBeenConnected = t.hasBeenConnected
        /\ u.lastMessageId = t.lastMessageId /\ u.startLost = t.startLost
    BY <1>3 DEF SameLink
  <2>6. TRUE \in BOOLEAN
    OBVIOUS
  <2> QED
    BY <1>3, <1>5, <2>1, <2>3, <2>4, <2>5, <2>6, LinkingReconnects
<1>6. CASE step = Ws!Step(u, <<>>)
  <2>1. step.t = u /\ step.out = <<>>
    BY <1>6 DEF Ws!Step
  <2>2. WsAgrees(u, d, s, A) /\ u.kind = Ws!Kind
    BY <1>1, <1>3, WsSameAgrees DEF SameLink
  <2> QED
    BY <1>1, <2>1, <2>2, WsSilent
<1> QED
  BY <1>4, <1>5, <1>6

(* The outcome is a matter of the transport and its reports.               *)
LEMMA OutcomeSame ==
    ASSUME NEW d, NEW s, NEW A, NEW one, Outcome(one, d, s, A), NEW two,
           two.t = one.t, two.out = one.out
    PROVE  Outcome(two, d, s, A)
BY DEF Outcome, Silent, Told, Rejects, Failed

(* What an authorisation that is answered brings: the renewal it was sent  *)
(* for, and the start that waits for it.                                   *)
LEMMA AuthorizedIs ==
    ASSUME NEW n \in Nat, NEW t, WsOk(t, n), NEW i \in DOMAIN t.authorizing, NEW answer,
           t.authorizing[i].starts \in {0, 1}, NEW step, step = Ws!Authorized(t, i, answer)
    PROVE  LET renewed == WsRenewed(t, i, answer)
           IN  /\ t.authorizing[i].starts = 0 => step = renewed
               /\ t.authorizing[i].starts = 1 =>
                     step = Ws!After(renewed.out, Ws!Connects(renewed.t))
<1> DEFINE m == t.authorizing[i].starts
           renewed == WsRenewed(t, i, answer)
<1>1. m \in Nat
  OBVIOUS
<1>2. PICK f : IsServed(f, renewed, m) /\ step = f[m]
  BY <1>1, WsAuthorizedUnfold
<1> HIDE DEF renewed
<1>3. /\ f[0] = renewed
      /\ \A k \in 0..m : k + 1 <= m => f[k + 1] = Ws!After(f[k].out, Ws!Connects(f[k].t))
  BY <1>1, <1>2, ServedAt
<1>4. CASE m = 0
  BY <1>2, <1>3, <1>4 DEF renewed
<1>5. CASE m = 1
  <2>1. 0 \in 0..m /\ 0 + 1 <= m
    BY <1>5
  <2>2. f[0 + 1] = Ws!After(f[0].out, Ws!Connects(f[0].t))
    BY <1>3, <2>1
  <2> QED
    BY <1>2, <1>3, <1>5, <2>2 DEF renewed
<1> QED
  BY <1>4, <1>5

(* An authorisation succeeds. *)
LEMMA AuthorizedAgrees ==
    ASSUME NEW d, NEW t, NEW s, NEW A, Stands(t, d, s, A), WsOk(t, d.contextId),
           NEW i \in DOMAIN t.authorizing, NEW answer, Answering(answer, d),
           NEW B, B = A \cup {t.authorizing[i].contextId},
           NEW step, step = Ws!Authorized(t, i, answer)
    PROVE  Outcome(step, d, s, B)
<1> DEFINE a == t.authorizing[i]
           u == Ws!Settle(t, i, "resolved")
           v == [u EXCEPT !.isReconnectPending = FALSE]
           renewed == WsRenewed(t, i, answer)
<1>1. /\ t.kind = Ws!Kind /\ WsAgrees(t, d, s, A) /\ Rests(d, s) /\ Authorizings(t, d)
      /\ d.contextId \in Nat /\ A \subseteq B
  BY WsStands DEF Stands
<1>2. Requested(t, a, d)
  BY <1>1 DEF Authorizings
<1>3. a.starts \in {0, 1} /\ a.contextId \in B
  BY <1>2 DEF Requested
<1>4. /\ Authorizings(u, d) /\ SameLink(u, t)
      /\ u.query = t.query /\ u.startLost = t.startLost
      /\ u.contextId = t.contextId /\ u.authToken = t.authToken
      /\ u.leaked = <<>>
      /\ u.authorizePromise = IF a.current THEN "resolved" ELSE t.authorizePromise
      /\ NoStart(t) => NoStart(u)
      /\ Starts(t, i) => NoStart(u)
      /\ \A j \in DOMAIN t.authorizing : j # i /\ Starts(t, j) =>
            \E k \in DOMAIN u.authorizing :
               Starts(u, k) /\ u.authorizing[k].contextId = t.authorizing[j].contextId
      /\ Renews(t) /\ ~(a.current /\ a.renews) => Renews(u)
  <2>1. "resolved" \in {"resolved", "rejected"}
    OBVIOUS
  <2> QED
    BY <1>1, <2>1, SettleAgrees
<1>5. WsOk(u, d.contextId)
  BY <1>1, WsSettle
<1>6. /\ a.starts = 0 => step = renewed
      /\ a.starts = 1 => step = Ws!After(renewed.out, Ws!Connects(renewed.t))
  BY <1>1, <1>3, AuthorizedIs
<1>7. \/ a.renews /\ t.isReconnectPending /\ renewed = Ws!reconnect(v, TRUE, answer)
      \/ ~(a.renews /\ t.isReconnectPending) /\ renewed = Ws!Step(u, <<>>)
  <2>1. u.isReconnectPending <=> t.isReconnectPending
    BY <1>4 DEF SameLink
  <2> QED
    BY <2>1 DEF WsRenewed
<1> HIDE DEF u, renewed
<1>8. u.kind = Ws!Kind
  BY <1>1, <1>4 DEF SameLink
<1>9. renewed = Ws!Step(u, <<>>) => renewed.t = u /\ renewed.out = <<>>
  BY DEF Ws!Step
<1>10. Starts(t, i) <=> a.starts = 1
  BY <1>3 DEF Starts
<1>11. CASE Idle(t, d, s)
  <2>1. ~t.isReconnectPending /\ a.starts = 0
    BY <1>3, <1>10, <1>11 DEF Idle, Fresh, NoStart
  <2>2. step.t = u /\ step.out = <<>>
    BY <1>6, <1>7, <1>9, <2>1
  <2>3. Fresh(u) /\ NoStart(u)
    BY <1>4, <1>11 DEF Idle, Fresh, SameLink
  <2>4. a.current => t.authorizePromise = "pending"
    BY <1>1 DEF Authorizings
  <2>5. Idle(u, d, s)
    BY <1>4, <1>11, <2>3, <2>4 DEF Idle
  <2>6. WsAgrees(u, d, s, B)
    BY <1>4, <2>5 DEF WsAgrees
  <2> QED
    BY <1>1, <1>8, <2>2, <2>6, WsSilent
<1>12. CASE Wanted(t, d) /\ Starting(t, d, s)
  <2>1. renewed.t = u /\ renewed.out = <<>>
    BY <1>7, <1>9, <1>12 DEF Starting, Fresh
  <2>2. Fresh(u) /\ Wanted(u, d) /\ u.query.message = 0
    BY <1>4, <1>12 DEF Starting, Fresh, SameLink, Wanted
  <2>3. PICK k \in DOMAIN t.authorizing :
           Starts(t, k) /\ (Tokens(s) \/ t.authorizing[k].contextId = d.contextId)
    BY <1>12 DEF Starting
  <2>4. CASE a.starts = 1
    <3>1. k = i
      BY <1>1, <1>10, <2>3, <2>4 DEF Authorizings
    <3>2. Tokens(s) \/ d.contextId \in B
      BY <1>3, <2>3, <3>1
    <3>3. Contract!MayTell(d.promise, "CONNECTING")
      <4>1. d.promise \in Contract!Promises /\ ~d.promise.late /\ d.promise.asked = "started"
        BY <1>12 DEF Stands, Wanted
      <4>2. d.promise.told # "exhausted"
        BY DEF Stands, Says
      <4>3. d.promise.told # "CONNECTING" => Contract!MayTell(d.promise, "CONNECTING")
        BY <4>1, <4>2, StartedTells
      <4>4. d.promise.told \notin {"CONNECTED", "RECONNECTING"} =>
               Contract!MayTell(d.promise, "CONNECTING")
        BY <4>1, <4>2, StartedTells
      <4> QED
        BY <4>3, <4>4
    <3> DEFINE con == Ws!Connects(u)
    <3>4. Outcome(con, d, s, B)
      <4>1. /\ d.promise \in Contract!Promises /\ d.promise.asked = "started"
            /\ NoStart(u) /\ ~u.startLost
            /\ u.contextId = d.contextId /\ u.authToken = d.authToken
            /\ u.query.context = d.contextId
        BY <1>4, <1>10, <1>12, <2>4 DEF Stands, Wanted
      <4> QED
        BY <1>1, <1>4, <1>5, <2>2, <3>2, <3>3, <4>1, ConnectsAgrees
    <3>5. step = Ws!After(<<>>, con)
      BY <1>6, <2>1, <2>4
    <3>6. con.out \in Seq(Outs)
      BY <1>1, <1>5, WsConnects DEF WsStep
    <3>7. step.t = con.t /\ step.out = <<>> \o con.out
      BY <3>5 DEF Ws!Connects, Ws!After, Ws!createSocket, Ws!handleFailure, Ws!Step
    <3> HIDE DEF con
    <3>8. step.out = con.out
      BY <3>6, <3>7
    <3> QED
      BY <3>4, <3>7, <3>8, OutcomeSame
  <2>5. CASE a.starts = 0
    <3>1. step.t = u /\ step.out = <<>>
      BY <1>6, <2>1, <2>5
    <3>2. k # i
      BY <1>10, <2>3, <2>5
    <3>3. PICK j \in DOMAIN u.authorizing :
             Starts(u, j) /\ u.authorizing[j].contextId = t.authorizing[k].contextId
      BY <1>4, <2>3, <3>2
    <3>4. Starting(u, d, s)
      BY <2>2, <2>3, <3>3 DEF Starting
    <3>5. WsAgrees(u, d, s, B)
      BY <1>4, <2>2, <3>4 DEF WsAgrees
    <3> QED
      BY <1>1, <1>8, <3>1, <3>5, WsSilent
  <2> QED
    BY <1>3, <2>4, <2>5
<1>13. CASE Wanted(t, d) /\ Made(t, d, s, A) /\ Linking(t, d)
  <2>1. NoStart(t) /\ NoStart(u) /\ a.starts = 0
    BY <1>3, <1>4, <1>10, <1>13 DEF Made, NoStart
  <2>2. step = renewed
    BY <1>6, <2>1
  <2>3. Stands(t, d, s, B)
    <3>1. Knows(d, d, d.promise)
      BY DEF Knows
    <3>2. TransportAgrees(t, d, s, B)
      BY <1>1, <3>1, AgreesKnows DEF Stands
    <3> QED
      BY <3>2 DEF Stands
  <2>4. CASE renewed = Ws!reconnect(v, TRUE, answer)
    <3>1. /\ WsOk(v, d.contextId) /\ SameAuth(v, u)
          /\ v.kind = u.kind /\ v.works = u.works /\ v.query = u.query
          /\ v.contextId = u.contextId /\ v.authToken = u.authToken
          /\ v.lastMessageId = u.lastMessageId /\ v.startLost = u.startLost
      BY <1>5 DEF WsOk, WsWithin, Ws!Transports, SameAuth
    <3>2. v.hasBeenConnected = u.hasBeenConnected
      BY <1>5 DEF WsOk, Ws!Transports
    <3> HIDE DEF v
    <3>3. Authorizings(v, d) /\ NoStart(v)
      BY <1>4, <2>1, <3>1, AuthorizingsSame
    <3>4. t.socket # Ws!NoSocket \/ t.reconnectTimeout
      BY <1>13 DEF Linking, Opening, Open, Waiting, Ws!NoSocket
    <3>5. /\ v.kind = t.kind /\ v.works = t.works /\ v.query = t.query
          /\ v.contextId = t.contextId /\ v.authToken = t.authToken
          /\ v.hasBeenConnected = t.hasBeenConnected
          /\ v.lastMessageId = t.lastMessageId /\ v.startLost = t.startLost
      BY <1>4, <3>1, <3>2 DEF SameLink
    <3>6. TRUE \in BOOLEAN
      OBVIOUS
    <3> QED
      BY <2>2, <2>3, <2>4, <3>1, <3>3, <3>4, <3>5, <3>6, LinkingReconnects
  <2>5. CASE ~(a.renews /\ t.isReconnectPending) /\ renewed = Ws!Step(u, <<>>)
    <3>1. step.t = u /\ step.out = <<>>
      BY <1>9, <2>2, <2>5
    <3>2. Wanted(u, d)
      BY <1>4, <1>13 DEF Wanted
    <3>3. Made(u, d, s, B)
      BY <1>1, <1>4, <1>13, <2>1 DEF Made, SameLink
    <3>4. Linking(u, d)
      BY <1>4, <1>13, <2>5 DEF Linking, Opening, Open, Waiting, SameLink
    <3>5. WsAgrees(u, d, s, B)
      BY <1>4, <3>2, <3>3, <3>4 DEF WsAgrees
    <3> QED
      BY <1>1, <1>8, <3>1, <3>5, WsSilent
  <2> QED
    BY <1>7, <2>4, <2>5
<1> QED
  BY <1>1, <1>11, <1>12, <1>13 DEF WsAgrees

(* An authorisation fails. *)
LEMMA IgnoredAgrees ==
    ASSUME NEW d, NEW t, NEW s, NEW A, Stands(t, d, s, A), WsOk(t, d.contextId),
           NEW i \in DOMAIN t.authorizing, Ws!superseded(t, t.authorizing[i]),
           NEW step, step = Ws!Ignored(t, i)
    PROVE  Outcome(step, d, s, A)
<1> DEFINE a == t.authorizing[i]
           u == Ws!Settle(t, i, "rejected")
           lost == u.startLost \/ a.starts > 0
           v == [u EXCEPT !.startLost = lost]
<1>1. /\ t.kind = Ws!Kind /\ WsAgrees(t, d, s, A) /\ Rests(d, s) /\ Authorizings(t, d)
      /\ d.contextId \in Nat
  BY WsStands DEF Stands
<1>2. Requested(t, a, d)
  BY <1>1 DEF Authorizings
<1>3. /\ a.starts \in {0, 1} /\ (Starts(t, i) <=> a.starts = 1)
      /\ (a.current => a.starts = 1)
  BY <1>2 DEF Requested, Starts
<1>4. /\ Authorizings(u, d) /\ SameLink(u, t)
      /\ u.query = t.query /\ u.startLost = t.startLost
      /\ u.contextId = t.contextId /\ u.authToken = t.authToken
      /\ u.authorizePromise = IF a.current THEN "rejected" ELSE t.authorizePromise
      /\ NoStart(t) => NoStart(u)
      /\ Starts(t, i) => NoStart(u)
      /\ \A j \in DOMAIN t.authorizing : j # i /\ Starts(t, j) =>
            \E k \in DOMAIN u.authorizing :
               Starts(u, k) /\ u.authorizing[k].contextId = t.authorizing[j].contextId
      /\ Renews(t) /\ ~(a.current /\ a.renews) => Renews(u)
  <2>1. "rejected" \in {"resolved", "rejected"}
    OBVIOUS
  <2> QED
    BY <1>1, <2>1, SettleAgrees
<1>5. WsOk(u, d.contextId)
  BY <1>1, WsSettle
<1>6. step.t = v /\ step.out = <<>>
  BY DEF Ws!Ignored, Ws!Step
<1>7. /\ SameAuth(v, u) /\ SameLink(v, u) /\ v.query = u.query
  BY <1>5 DEF WsOk, Ws!Transports, SameAuth, SameLink
<1>8. v.startLost <=> t.startLost \/ a.starts = 1
  <2>1. v.startLost = lost
    BY <1>5 DEF WsOk, Ws!Transports
  <2>2. u.startLost <=> t.startLost
    BY <1>4
  <2>3. lost <=> t.startLost \/ a.starts = 1
    BY <1>3, <2>2
  <2> HIDE DEF lost
  <2> QED
    BY <2>1, <2>3
<1> HIDE DEF u, lost, v
<1>9. /\ Authorizings(v, d) /\ (NoStart(u) <=> NoStart(v))
      /\ \A k : Starts(v, k) <=> Starts(u, k)
      /\ Renews(u) => Renews(v)
  BY <1>4, <1>7, AuthorizingsSame
<1>10. SameLink(v, t) /\ v.query = t.query
  BY <1>4, <1>7 DEF SameLink
<1>11. v.contextId = t.contextId /\ v.authToken = t.authToken
  BY <1>4, <1>7 DEF SameAuth
<1>12. /\ DOMAIN v.authorizing = DOMAIN u.authorizing /\ v.authorizing = u.authorizing
       /\ v.authorizePromise = u.authorizePromise
  BY <1>7 DEF SameAuth
<1>13. WsAgrees(v, d, s, A)
  <2>1. CASE Idle(t, d, s)
    <3>1. ~Starts(t, i) /\ ~a.current
      BY <1>3, <2>1 DEF Idle, NoStart
    <3>2. Fresh(v) /\ NoStart(v)
      BY <1>4, <1>9, <1>10, <2>1 DEF Idle, Fresh, SameLink
    <3>3. Idle(v, d, s)
      BY <1>3, <1>4, <1>8, <1>12, <2>1, <3>1, <3>2 DEF Idle
    <3> QED
      BY <1>9, <3>3 DEF WsAgrees
  <2>2. CASE Wanted(t, d) /\ Starting(t, d, s)
    <3>1. Fresh(v) /\ v.query.message = 0
      BY <1>10, <2>2 DEF Starting, Fresh, SameLink
    <3>2. CASE a.starts = 1
      <4>1. v.startLost /\ NoStart(v) /\ d.promise.asked = "started"
        BY <1>3, <1>4, <1>8, <1>9, <2>2, <3>2 DEF Wanted
      <4>2. Idle(v, d, s)
        BY <3>1, <4>1 DEF Idle
      <4> QED
        BY <1>9, <4>2 DEF WsAgrees
    <3>3. CASE a.starts = 0
      <4>1. Wanted(v, d)
        BY <1>8, <1>10, <1>11, <2>2, <3>3 DEF Wanted
      <4>2. PICK k \in DOMAIN t.authorizing :
               Starts(t, k) /\ (Tokens(s) \/ t.authorizing[k].contextId = d.contextId)
        BY <2>2 DEF Starting
      <4>3. k # i
        BY <1>3, <3>3, <4>2
      <4>4. PICK j \in DOMAIN u.authorizing :
               Starts(u, j) /\ u.authorizing[j].contextId = t.authorizing[k].contextId
        BY <1>4, <4>2, <4>3
      <4>5. Starting(v, d, s)
        BY <1>9, <1>12, <3>1, <4>2, <4>4 DEF Starting
      <4> QED
        BY <1>9, <4>1, <4>5 DEF WsAgrees
    <3> QED
      BY <1>3, <3>2, <3>3
  <2>3. CASE Wanted(t, d) /\ Made(t, d, s, A) /\ Linking(t, d)
    <3>1. a.starts = 0 /\ ~a.current
      BY <1>3, <2>3 DEF Made, NoStart
    <3>2. Wanted(v, d)
      BY <1>8, <1>10, <1>11, <2>3, <3>1 DEF Wanted
    <3>3. Made(v, d, s, A)
      BY <1>4, <1>9, <1>10, <2>3 DEF Made, SameLink
    <3>4. Linking(v, d)
      BY <1>4, <1>9, <1>10, <2>3, <3>1 DEF Linking, Opening, Open, Waiting, SameLink
    <3> QED
      BY <1>9, <3>2, <3>3, <3>4 DEF WsAgrees
  <2> QED
    BY <1>1, <2>1, <2>2, <2>3 DEF WsAgrees
<1>14. v.kind = Ws!Kind
  BY <1>1, <1>10 DEF SameLink
<1> QED
  BY <1>1, <1>6, <1>13, <1>14, WsSilent

(* The failure of an authorisation: ignored, sent again or final.          *)
LEMMA AuthorizeFailsAgrees ==
    ASSUME NEW d, NEW t, NEW s, NEW A, Stands(t, d, s, A), WsOk(t, d.contextId),
           NEW i \in DOMAIN t.authorizing, NEW isNetworkError \in BOOLEAN,
           NEW step, step = Ws!AuthorizeFails(t, i, isNetworkError)
    PROVE  Outcome(step, d, s, A)
<1> DEFINE a == t.authorizing[i]
           u == Ws!Settle(t, i, "rejected")
           v == Resent(t, i)
<1>1. /\ t.kind = Ws!Kind /\ WsAgrees(t, d, s, A) /\ Rests(d, s) /\ Authorizings(t, d)
      /\ d.contextId \in Nat
  BY WsStands DEF Stands
<1>2. Requested(t, a, d)
  BY <1>1 DEF Authorizings
<1>3. CASE Ws!superseded(t, a)
  <2>1. step = Ws!Ignored(t, i)
    BY <1>3 DEF Ws!AuthorizeFails
  <2> QED
    BY <1>3, <2>1, IgnoredAgrees
<1>4. CASE ~Ws!superseded(t, a) /\ isNetworkError
  <2>1. step = Ws!Step(v, <<>>)
    BY <1>4 DEF Ws!AuthorizeFails, Resent
  <2>2. /\ SameAuth(v, t) /\ SameLink(v, t)
        /\ v.query = t.query /\ v.startLost = t.startLost
    BY <1>1, <1>4, ResendIs
  <2> HIDE DEF v
  <2>3. step.t = v /\ step.out = <<>>
    BY <2>1 DEF Ws!Step
  <2>4. WsAgrees(v, d, s, A) /\ v.kind = Ws!Kind
    BY <1>1, <2>2, WsSameAgrees DEF SameLink
  <2> QED
    BY <1>1, <2>3, <2>4, WsSilent
<1>5. CASE ~Ws!superseded(t, a) /\ ~isNetworkError
  <2>1. step = Ws!handleFailure(u)
    BY <1>5 DEF Ws!AuthorizeFails
  <2>2. WsOk(u, d.contextId)
    BY <1>1, WsSettle
  <2>3. u.leaked = <<>>
    <3>1. "rejected" \in {"resolved", "rejected"}
      OBVIOUS
    <3> QED
      BY <1>1, <3>1, SettleAgrees
  <2>4. a.current
    BY <1>2, <1>5 DEF Requested
  <2>5. t.authorizePromise = "pending"
    BY <1>1, <2>4 DEF Authorizings
  <2>6. d.promise.asked # "created"
    <3>1. t.authorizing # <<>>
      OBVIOUS
    <3> QED
      BY <1>1, <3>1 DEF WsAgrees, Idle, Wanted
  <2>7. d.promise.asked = "stopped" => Excused(s)
    BY <1>1, <2>5 DEF WsAgrees, Idle, Wanted, Rests, Excused
  <2> HIDE DEF u
  <2> QED
    BY <1>1, <2>1, <2>2, <2>3, <2>6, <2>7, WsFailing
<1> QED
  BY <1>3, <1>4, <1>5

(* The connection before a step. *)
Met == /\ scenario \in ScenarioRecords /\ Fits(c, scenario) /\ budget \in 0..MaxEvents
       /\ ~c.promise.late /\ Agrees(c, scenario, authorized)

(* Where a step finds the current transport.                               *)
LEMMA MetStands ==
    ASSUME Met
    PROVE  /\ c.contextId \in Nat /\ c.authToken \in Nat /\ c.promise \in Contract!Promises
           /\ Hears(c) <=> c.promise.asked # "disposed"
           /\ AllLeft(c) /\ Says(c)
           /\ HasTransport(c) => Stands(Current(c), c, scenario, authorized)
<1>1. c.contextId \in Nat /\ c.authToken \in Nat /\ c.promise \in Contract!Promises
  BY DEF Met, Fits, Shape, Connections
<1>2. Hears(c) <=> c.promise.asked # "disposed"
  BY DEF Met, Fits, Standing, Hears, StateOf
<1> QED
  BY <1>1, <1>2 DEF Met, Agrees, Stands

(* A step of the current transport. *)
LEMMA ActLands ==
    ASSUME Met, HasTransport(c), NEW i, i = c.tranportIndex,
           NEW step, StepOk(step, scenario.transports[i], c.contextId),
           c' = Deliver(c, scenario, i, step), NEW A, Outcome(step, c, scenario, A)
    PROVE  Lands(c.promise, c', scenario, A)
<1>1. AllLeft(c) /\ Says(c) /\ c.promise \in Contract!Promises
  BY MetStands
<1>2. c.promise \in Contract!Asks(c.promise)
  BY Itself
<1> QED
  BY <1>1, <1>2, OutcomeLands DEF Met, StepOk

(* Whatever a websocket transport does by itself, it is allowed and        *)
(* agrees.                                                                 *)
LEMMA WsActsLand ==
    ASSUME Met, HasTransport(c), NEW i, i = c.tranportIndex, WebsocketActs(i)
    PROVE  Lands(c.promise, c', scenario, authorized')
<1> DEFINE t == c.transports[i]
           n == c.contextId
           s == scenario
           A == authorized
<1>1. Is(t, Ws!Kind) /\ t # Absent
  BY AbsentKind DEF WebsocketActs, Is, Kinds
<1>2. /\ scenario \in ScenarioRecords /\ Fits(c, scenario)
      /\ i \in DOMAIN c.transports
  BY CurrentOk DEF Met, Fits
<1>3. WsOk(t, n) /\ n \in Nat /\ scenario.transports[i] = Ws!Kind
  BY <1>1, <1>2, PlaceIs DEF Is
<1>4. ASSUME NEW step, WsStep(step, n)
      PROVE  StepOk(step, scenario.transports[i], n)
  BY <1>3, <1>4 DEF StepOk, WsStep, Ok
<1>5. Stands(t, c, s, A) /\ t = Current(c)
  BY MetStands DEF Current
<1>6. t.leaked = <<>>
  BY <1>3, <1>5, WsStands
<1>7. \A which \in Sockets(i) : which = 0
  BY <1>6 DEF Sockets
<1>8. /\ Phase(i, 0) = t.socket.phase
      /\ Phase(i, 0) \in {"opening", "open"} => t.socket # Ws!NoSocket
  BY DEF Phase, Ws!SocketAt, Ws!NoSocket
<1>9. Answering(Answer(i), c)
  <2>1. Answer(i) \in WsAnswers(n)
    BY <1>2, AnswerOk
  <2>2. Answer(i).updates = (i = c.tranportIndex /\ Hears(c) /\ c.promise.told # "RECONNECTING")
    BY DEF Answer
  <2>3. Answer(i).token = c.authToken /\ Answer(i).context = c.contextId
    BY DEF Answer
  <2>4. Answer(i).updates <=> Hears(c) /\ c.promise.told # "RECONNECTING"
    BY <2>2
  <2> QED
    BY <2>1, <2>3, <2>4 DEF Answering
<1> DEFINE a == Answer(i)
<1>10. a \in WsAnswers(n)
  BY <1>2, AnswerOk
<1>11. ASSUME NEW step, WsStep(step, n), c' = Deliver(c, scenario, i, step),
              NEW B, Outcome(step, c, s, B)
       PROVE  Lands(c.promise, c', scenario, B)
  BY <1>4, <1>11, ActLands
<1>12. ASSUME NEW step, WsStep(step, n), Acts(i, step), Outcome(step, c, s, A)
       PROVE  Lands(c.promise, c', scenario, authorized')
  BY <1>11, <1>12 DEF Acts
<1> HIDE DEF t, n, a, s, A
<1>13. CASE \E which \in Sockets(i) : SocketOpens(i, which)
  <2>1. SocketOpens(i, 0)
    BY <1>7, <1>13
  <2> DEFINE step == Ws!handleSocketOpen(t, 0)
  <2>2. Acts(i, step) /\ t.socket.phase = "opening"
    BY <1>8, <2>1 DEF SocketOpens, t
  <2>3. WsStep(step, n)
    <3>1. 0 \in 0..Len(t.leaked) /\ t.socket # Ws!NoSocket
      BY <1>6, <1>8, <2>2
    <3> QED
      BY <1>3, <3>1, WsSocketOpen
  <2>4. Outcome(step, c, s, A)
    BY <1>3, <1>5, <2>2, OpensAgrees DEF n
  <2> QED
    BY <1>12, <2>2, <2>3, <2>4
<1>14. CASE \E which \in Sockets(i) : \E frame \in Ws!Frames : SocketReceives(i, which, frame)
  <2>1. PICK frame \in Ws!Frames : SocketReceives(i, 0, frame)
    BY <1>7, <1>14
  <2> DEFINE step == Ws!handleSocketMessage(t, frame)
  <2>2. Acts(i, step) /\ t.socket.phase = "open"
    BY <1>8, <2>1 DEF SocketReceives, t
  <2>3. WsStep(step, n)
    BY <1>3, WsMessage
  <2>4. Outcome(step, c, s, A)
    BY <1>3, <1>5, <2>2, ReceivesAgrees DEF n
  <2> QED
    BY <1>12, <2>2, <2>3, <2>4
<1>15. CASE \E which \in Sockets(i) : \E code \in {"tokenExpired", "other"} :
              SocketCloses(i, which, code)
  <2>1. PICK code \in {"tokenExpired", "other"} : SocketCloses(i, 0, code)
    BY <1>7, <1>15
  <2> DEFINE step == Ws!handleSocketClose(t, 0, code, a)
  <2>2. /\ Acts(i, step) /\ t.socket.phase \in {"opening", "open"}
        /\ code = "tokenExpired" => t.socket.phase = "open"
    BY <1>8, <2>1 DEF SocketCloses, t, a
  <2>3. WsStep(step, n)
    <3>1. 0 \in 0..Len(t.leaked) /\ t.socket # Ws!NoSocket
      BY <1>6, <1>8, <2>2
    <3> QED
      BY <1>3, <1>10, <3>1, WsClose
  <2>4. Outcome(step, c, s, A)
    BY <1>3, <1>5, <1>9, <2>2, ClosesAgrees DEF n, a
  <2> QED
    BY <1>12, <2>2, <2>3, <2>4
<1>16. CASE ReconnectTimeout(i)
  <2> DEFINE step == Ws!restartConnection(t)
  <2>1. Acts(i, step) /\ t.reconnectTimeout
    BY <1>16 DEF ReconnectTimeout, t
  <2>2. WsStep(step, n)
    BY <1>3, <2>1, WsRestart DEF WsOk, WsWithin
  <2>3. Outcome(step, c, s, A)
    BY <1>3, <1>5, <2>1, TimeoutAgrees DEF n
  <2> QED
    BY <1>12, <2>1, <2>2, <2>3
<1>17. CASE FiveSecondsPass(i)
  <2> DEFINE step == Ws!Step(Ws!Forget(t), <<>>)
  <2>1. Acts(i, step) /\ t.recent # <<>>
    BY <1>17 DEF FiveSecondsPass, t
  <2>2. WsStep(step, n)
    <3>1. WsOk(Ws!Forget(t), n)
      BY <1>3, <2>1, WsForget
    <3> QED
      BY <3>1, OutsType DEF WsStep, Ws!Step
  <2>3. Outcome(step, c, s, A)
    BY <1>3, <1>5, ForgetAgrees DEF n
  <2> QED
    BY <1>12, <2>1, <2>2, <2>3
<1>18. CASE \E k \in DOMAIN t.authorizing : AuthorizeSucceeds(i, k)
  <2>1. PICK k \in DOMAIN t.authorizing : AuthorizeSucceeds(i, k)
    BY <1>18
  <2> DEFINE step == Ws!Authorized(t, k, a)
  <2>2. /\ c' = Deliver(c, scenario, i, step)
        /\ authorized' = authorized \cup {t.authorizing[k].contextId}
    BY <2>1 DEF AuthorizeSucceeds, t, a
  <2>3. WsStep(step, n)
    BY <1>3, <1>10, WsAuthorized
  <2>4. Outcome(step, c, s, authorized')
    BY <1>3, <1>5, <1>9, <2>2, AuthorizedAgrees DEF n, a, A
  <2> QED
    BY <1>11, <2>2, <2>3, <2>4
<1>19. CASE \E k \in DOMAIN t.authorizing : \E isNetworkError \in BOOLEAN :
               AuthorizeFails(i, k, isNetworkError)
  <2>1. PICK k \in DOMAIN t.authorizing, isNetworkError \in BOOLEAN :
               AuthorizeFails(i, k, isNetworkError)
    BY <1>19
  <2> DEFINE step == Ws!AuthorizeFails(t, k, isNetworkError)
  <2>2. Acts(i, step)
    BY <2>1 DEF AuthorizeFails, t
  <2>3. WsStep(step, n)
    BY <1>3, WsAuthorizeFails
  <2>4. Outcome(step, c, s, A)
    BY <1>3, <1>5, AuthorizeFailsAgrees DEF n
  <2> QED
    BY <1>12, <2>2, <2>3, <2>4
<1> QED
  BY <1>13, <1>14, <1>15, <1>16, <1>17, <1>18, <1>19 DEF WebsocketActs, t

-----------------------------------------------------------------------------
(***************************************************************************)
(* 2. The steps of a transport that was left                               *)
(***************************************************************************)
LEMMA PutIs ==
    ASSUME NEW s \in ScenarioRecords, NEW d, Shape(d, s),
           NEW i \in DOMAIN d.transports, d.transports[i] # Absent,
           NEW u, Ok(u, s.transports[i], d.contextId), NEW e, e = Put(d, i, u)
    PROVE  /\ Shape(e, s) /\ e.transports[i] = u
           /\ \A j \in DOMAIN d.transports : j # i => e.transports[j] = d.transports[j]
           /\ DOMAIN e.transports = DOMAIN d.transports
           /\ e.state = d.state /\ e.tranportIndex = d.tranportIndex
           /\ e.authToken = d.authToken /\ e.contextId = d.contextId
           /\ e.promise = d.promise /\ e.rejected = d.rejected
BY PutOk DEF Put

(* A transport that was left and reports nothing changes nothing of it.    *)
LEMMA LeftLands ==
    ASSUME Met, NEW i \in DOMAIN c.transports, i < c.tranportIndex, c.transports[i] # Absent,
           NEW step, StepOk(step, scenario.transports[i], c.contextId), step.out = <<>>,
           Left(step.t), c' = Deliver(c, scenario, i, step)
    PROVE  Lands(c.promise, c', scenario, authorized)
<1>1. c' = Put(c, i, step.t)
  BY DeliverNone
<1>2. /\ c'.transports[i] = step.t
      /\ \A j \in DOMAIN c.transports : j # i => c'.transports[j] = c.transports[j]
      /\ DOMAIN c'.transports = DOMAIN c.transports
      /\ c'.tranportIndex = c.tranportIndex
      /\ c'.authToken = c.authToken /\ c'.contextId = c.contextId
      /\ c'.promise = c.promise /\ c'.rejected = c.rejected /\ Shape(c', scenario)
  <2>1. Shape(c, scenario) /\ scenario \in ScenarioRecords
    BY DEF Met, Fits
  <2>2. Ok(step.t, scenario.transports[i], c.contextId)
    BY DEF StepOk
  <2> QED
    BY <1>1, <2>1, <2>2, PutIs
<1>3. /\ c.tranportIndex \in Nat /\ i \in Nat
      /\ Len(c'.transports) = Len(c.transports)
  BY <1>2 DEF Met, Fits, Shape, Connections
<1>4. HasTransport(c') <=> HasTransport(c)
  BY <1>2, <1>3 DEF HasTransport
<1>5. HasTransport(c) => Current(c') = Current(c)
  <2>1. HasTransport(c) => c.tranportIndex \in DOMAIN c.transports
    BY CurrentOk DEF Met, Fits
  <2>2. i # c.tranportIndex
    BY <1>3
  <2> QED
    BY <1>2, <2>1, <2>2 DEF Current
<1>6. AllLeft(c')
  BY <1>2 DEF Met, Agrees, AllLeft
<1>7. Says(c')
  BY <1>2, <1>4 DEF Met, Agrees, Says
<1>8. HasTransport(c) => TransportAgrees(Current(c'), c', scenario, authorized)
  <2>1. Knows(c', c, c.promise)
    BY <1>2 DEF Knows
  <2> QED
    BY <1>5, <2>1, AgreesKnows DEF Met, Agrees
<1>9. Agrees(c', scenario, authorized)
  BY <1>4, <1>6, <1>7, <1>8 DEF Agrees
<1>10. Goes(c.promise, c'.promise)
  BY <1>2, GoesOne, Itself
<1> QED
  BY <1>9, <1>10 DEF Lands

(* All a transport that was left may do is of that kind.                   *)
LEMMA LeftActsLand ==
    ASSUME Met, NEW i \in DOMAIN c.transports, i # c.tranportIndex,
           WebsocketActs(i) \/ CoreActs(i) \/ LibraryActs(i)
    PROVE  Lands(c.promise, c', scenario, authorized')
<1> DEFINE t == c.transports[i]
           n == c.contextId
<1>1. scenario \in ScenarioRecords /\ Fits(c, scenario) /\ budget \in 0..MaxEvents
  BY DEF Met
<1>2. t.kind \in Kinds /\ t # Absent
  BY AbsentKind DEF WebsocketActs, CoreActs, LibraryActs, Is, Kinds
<1>3. i < c.tranportIndex
  BY <1>1, <1>2 DEF Fits, Shape, Connections
<1>4. Left(t)
  BY <1>3 DEF Met, Agrees, AllLeft
<1>5. Ws!Kind # Core!Kind /\ Ws!Kind # Signalr!Kind /\ Core!Kind # Signalr!Kind
  BY DEF Ws!Kind, Core!Kind, Signalr!Kind
<1>6. CASE WebsocketActs(i)
  <2>1. t.kind = Ws!Kind /\ WsOk(t, n) /\ scenario.transports[i] = Ws!Kind /\ n \in Nat
    BY <1>1, <1>2, <1>6, PlaceIs DEF WebsocketActs, Is
  <2>2. /\ t.authorizing = <<>> /\ ~t.reconnectTimeout
        /\ t.socket = Ws!NoSocket /\ t.leaked = <<>>
    BY <1>2, <1>4, <1>5, <2>1 DEF Left, Is
  <2>3. \A which \in Sockets(i) : Phase(i, which) = "none"
    BY <2>2 DEF Sockets, Phase, Ws!SocketAt, Ws!NoSocket
  <2>4. FiveSecondsPass(i)
    <3>1. ~ReconnectTimeout(i)
      BY <2>2 DEF ReconnectTimeout
    <3>2. DOMAIN t.authorizing = {}
      BY <2>2
    <3>3. \A which \in Sockets(i) :
             /\ ~SocketOpens(i, which)
             /\ \A frame : ~SocketReceives(i, which, frame)
             /\ \A code : ~SocketCloses(i, which, code)
      BY <2>3 DEF SocketOpens, SocketReceives, SocketCloses
    <3> QED
      BY <1>6, <3>1, <3>2, <3>3 DEF WebsocketActs
  <2> DEFINE step == Ws!Step(Ws!Forget(t), <<>>)
  <2>5. c' = Deliver(c, scenario, i, step) /\ authorized' = authorized /\ t.recent # <<>>
    BY <2>4 DEF FiveSecondsPass, Acts
  <2>6. step.t = Ws!Forget(t) /\ step.out = <<>>
    BY DEF Ws!Step
  <2> HIDE DEF step, t, n
  <2>7. WsOk(step.t, n) /\ SameAuth(step.t, t) /\ SameLink(step.t, t)
    BY <2>1, <2>5, <2>6, WsForget, ForgetIs
  <2>8. Left(step.t)
    BY <2>1, <2>2, <2>7 DEF Left, Is, SameAuth, SameLink
  <2>9. StepOk(step, scenario.transports[i], n)
    BY <2>1, <2>6, <2>7, OutsType DEF StepOk, Ok
  <2> QED
    BY <1>2, <1>3, <2>5, <2>6, <2>8, <2>9, LeftLands DEF n, t
<1>7. CASE CoreActs(i)
  <2>1. t.kind = Core!Kind /\ CoreOk(t) /\ scenario.transports[i] = Core!Kind /\ CoreActed(i)
    BY <1>1, <1>7, CoreActsOk DEF Is
  <2>2. t.hub \in {"none", "failed"}
    BY <1>2, <1>4, <1>5, <2>1 DEF Left, Is
  <2>3. PICK step : /\ CoreMakes(t, step, scenario.events)
                    /\ StepOk(step, scenario.transports[i], n)
                    /\ c' = Deliver(c, scenario, i, step)
    BY <2>1, <2>2 DEF CoreActed
  <2>4. authorized' = authorized
    BY <2>1 DEF CoreActed
  <2>5. \/ t.cancels > 0 /\ step = Core!StreamCancelled(t)
        \/ t.closes > 0 /\ step = Core!CloseAnswered(t)
    BY <2>2, <2>3 DEF CoreMakes
  <2>6. step.out = <<>> /\ step.t.hub = t.hub /\ step.t.kind = t.kind
    <3>1. CASE step = Core!StreamCancelled(t)
      BY <2>1, <3>1, CancelledIs DEF CoreSame, Kept
    <3>2. CASE step = Core!CloseAnswered(t)
      BY <2>1, <2>2, <3>2, CloseAnsweredIs DEF CoreSame, Kept
    <3> QED
      BY <2>5, <3>1, <3>2
  <2>7. Left(step.t)
    BY <2>1, <2>2, <2>6 DEF Left, Is
  <2> QED
    BY <1>2, <1>3, <2>3, <2>4, <2>6, <2>7, LeftLands
<1>8. CASE LibraryActs(i)
  BY <1>2, <1>4, <1>5, <1>8 DEF LibraryActs, Left, Is
<1> QED
  BY <1>6, <1>7, <1>8

-----------------------------------------------------------------------------
(***************************************************************************)
(* 3. The steps of a SignalR Core transport                                *)
(***************************************************************************)
LEMMA CoreStands ==
    ASSUME NEW d, NEW t, NEW s, NEW A, Stands(t, d, s, A), t.kind = Core!Kind
    PROVE  CoreAgrees(t, d, s) /\ (t.hub = "none" => Rests(d, s))
BY AgreesOf DEF Stands

(* A hub that stays as it is, or begins to stop. *)
LEMMA CoreHolds ==
    ASSUME NEW t, NEW d, NEW s, CoreAgrees(t, d, s), t.hub # "none", NEW u, u.hub = t.hub,
           u.hasTransportError => t.hasTransportError \/ "BadMessage" \in s.events
                                                      \/ "Renewal" \in s.events,
           t.hub = "connecting" =>
              /\ ~u.streaming /\ ~u.messageStream /\ ~u.hasMessage /\ ~u.hasTransportError
              /\ u.isDisconnecting = t.isDisconnecting,
           t.hub = "reconnecting" => u.isDisconnecting = t.isDisconnecting,
           t.isDisconnecting => u.isDisconnecting,
           ~u.streaming \/ u.streaming = t.streaming,
           u.hasMessage = t.hasMessage \/ t.streaming,
           \/ u.isDisconnecting /\ u.cancels + u.closes > 0
           \/ /\ u.isDisconnecting = t.isDisconnecting
              /\ u.cancels + u.closes = t.cancels + t.closes,
           u.streaming = t.streaming \/ u.isDisconnecting \/ "StreamEnds" \in s.events
    PROVE  CoreAgrees(u, d, s)
<1> DEFINE k == d.promise
<1>1. t.hub # "none" => k.asked = "started" \/ (k.asked = "stopped" /\ t.isDisconnecting)
  BY DEF CoreAgrees
<1>2. /\ u.hub # "none" => k.asked = "started" \/ (k.asked = "stopped" /\ u.isDisconnecting)
      /\ u.hub = "none" => k.asked # "started"
      /\ u.hub # "failed"
  BY <1>1 DEF CoreAgrees
<1>3. /\ u.hub \in {"connecting", "connected"} /\ u.isDisconnecting => u.cancels + u.closes > 0
      /\ u.cancels + u.closes > 0 => u.isDisconnecting
  BY DEF CoreAgrees
<1>4. u.hasTransportError => "BadMessage" \in s.events \/ "Renewal" \in s.events
  BY DEF CoreAgrees
<1>5. u.hub = "connecting" =>
         /\ k.told = "CONNECTING"
         /\ ~u.streaming /\ ~u.messageStream /\ ~u.hasMessage /\ ~u.hasTransportError
         /\ u.isDisconnecting => k.asked = "stopped" /\ "StopEarly" \in s.events
  BY DEF CoreAgrees
<1>6. u.hub \in {"connected", "disconnecting"} =>
             \/ k.told = "CONNECTED"
             \/ /\ k.told = "CONNECTING" /\ k.asked = "stopped" /\ u.isDisconnecting
                /\ ~u.streaming /\ ~u.hasMessage /\ "StopEarly" \in s.events
  BY DEF CoreAgrees
<1>7. u.hub = "connected" /\ ~u.isDisconnecting => u.streaming \/ "StreamEnds" \in s.events
  BY DEF CoreAgrees
<1>8. /\ u.hub = "disconnecting" => u.isDisconnecting
      /\ u.hub = "reconnecting" => k.told = "RECONNECTING" /\ ~u.isDisconnecting
  BY DEF CoreAgrees
<1> QED
  BY <1>2, <1>3, <1>4, <1>5, <1>6, <1>7, <1>8 DEF CoreAgrees

(* A step of a hub that reports nothing.                                   *)
LEMMA CoreSilently ==
    ASSUME NEW d, NEW s, NEW A, NEW step, CoreAgrees(step.t, d, s),
           step.t.kind = Core!Kind, step.t.hub # "none",
           step.out = <<>> \/ step.out = <<"received">>
    PROVE  Outcome(step, d, s, A)
<1>1. TransportAgrees(step.t, d, s, A)
  BY AgreesOf
<1> QED
  BY <1>1, FitsKnown DEF Outcome, Silent

(* A step of a hub that reports that the token is not accepted.            *)
LEMMA CoreRejects ==
    ASSUME NEW d, NEW s, NEW A, NEW step, CoreAgrees(step.t, d, s),
           step.t.kind = Core!Kind, step.t.hub # "none", step.out = <<"unauthorized">>
    PROVE  Outcome(step, d, s, A)
<1>1. TransportAgrees(step.t, d, s, A)
  BY AgreesOf
<1>2. Fitting(step.t, d, d.promise, s, A)
  BY <1>1, FitsKnown
<1> QED
  BY <1>2 DEF Outcome, Rejects, Fitting

(* A step that fails, of a hub that is gone.                               *)
LEMMA CoreFails ==
    ASSUME NEW d, NEW s, NEW A, NEW step, step.out = <<"fail">>, step.t.kind = Core!Kind,
           step.t.hub \in {"none", "failed"}, d.promise.asked \in {"started", "stopped"},
           d.promise.asked = "stopped" => Excused(s)
    PROVE  Outcome(step, d, s, A)
<1>1. Ws!Kind # Core!Kind
  BY DEF Ws!Kind, Core!Kind
<1>2. Left(step.t) /\ ~Lingers(step.t)
  BY <1>1 DEF Left, Lingers, Is
<1> QED
  BY <1>2 DEF Outcome, Failed, Gone

(* A hub that is up, once CONNECTED is told.                               *)
LEMMA CoreUp ==
    ASSUME NEW t, NEW d, NEW s, CoreAgrees(t, d, s), t.hub # "none", ~t.isDisconnecting,
           t.kind = Core!Kind, NEW token, NEW u, CoreConnects(u, t, token),
           NEW e, Heard(e, d, "CONNECTED"), NEW A
    PROVE  TransportAgrees(u, e, s, A)
<1>1. d.promise.asked = "started"
  BY DEF CoreAgrees
<1>2. e.promise.asked = "started" /\ e.promise.told = "CONNECTED"
  BY <1>1 DEF Heard
<1>3. /\ u.kind = Core!Kind /\ u.hub = "connected" /\ u.streaming
      /\ u.cancels = t.cancels /\ u.closes = t.closes
  BY DEF CoreConnects, Kept
<1>4. ~u.isDisconnecting /\ (u.hasTransportError => t.hasTransportError)
  BY DEF CoreConnects
<1>5. CoreAgrees(u, e, s)
  BY <1>2, <1>3, <1>4 DEF CoreAgrees
<1> QED
  BY <1>3, <1>5, AgreesOf

(* Append, as Core uses it.                                                *)
LEMMA AppendTwo ==
    ASSUME NEW S, NEW x \in S, NEW y \in S
    PROVE  Append(<<x>>, y) = <<x, y>>
<1> DEFINE p == Append(<<x>>, y)
           q == <<x, y>>
<1>1. <<x>> \in Seq(S) /\ Len(<<x>>) = 1
  OBVIOUS
<1>2. p \in Seq(S) /\ q \in Seq(S) /\ Len(p) = 2 /\ Len(q) = 2
  BY <1>1
<1>3. \A k \in 1..2 : p[k] = q[k]
  <2>1. \A k \in 1..2 : k = 1 \/ k = 2
    OBVIOUS
  <2>2. p[1] = x /\ p[2] = y
    BY <1>1
  <2> QED
    BY <2>1, <2>2
<1> HIDE DEF p, q
<1>4. p = q
  BY <1>2, <1>3
<1> QED
  BY <1>4 DEF p, q

(* The start of a hub succeeds: CONNECTED, unless it is being stopped.     *)
LEMMA CoreStartsUp ==
    ASSUME NEW d, NEW t, NEW s, NEW A, Stands(t, d, s, A), CoreOk(t), t.kind = Core!Kind,
           t.hub = "connecting", NEW step, step = Core!Started(t)
    PROVE  Outcome(step, d, s, A)
<1>1. CoreAgrees(t, d, s)
  BY CoreStands
<1>2. /\ d.promise.told = "CONNECTING"
      /\ ~t.streaming /\ ~t.messageStream /\ ~t.hasMessage /\ ~t.hasTransportError
      /\ t.isDisconnecting => d.promise.asked = "stopped" /\ "StopEarly" \in s.events
      /\ t.isDisconnecting => t.cancels + t.closes > 0
      /\ ~t.isDisconnecting => d.promise.asked = "started"
  BY <1>1 DEF CoreAgrees
<1>3. CASE t.isDisconnecting
  <2>1. /\ step.out = <<>> /\ Kept(step.t, t) /\ step.t.hub = "connected"
        /\ step.t.cancels = t.cancels /\ step.t.closes = t.closes
    BY <1>3, StartedIs DEF CoreConnects
  <2>2. /\ step.t.isDisconnecting /\ ~step.t.hasTransportError /\ ~step.t.hasMessage
        /\ ~step.t.streaming
    BY <1>2, <1>3, StartedIs
  <2>3. CoreAgrees(step.t, d, s)
    BY <1>2, <1>3, <2>1, <2>2 DEF CoreAgrees
  <2> QED
    BY <2>1, <2>3, CoreSilently DEF Kept
<1>4. CASE ~t.isDisconnecting
  <2>1. /\ step.out = Append(<<"started">>, "CONNECTED")
        /\ CoreConnects(step.t, t, t.lastUsedToken)
    BY <1>4, StartedIs
  <2>2. Tells(step.out, "CONNECTED")
    <3>1. Append(<<"started">>, "CONNECTED") = <<"started", "CONNECTED">>
      BY OutsType, AppendTwo
    <3> QED
      BY <2>1, <3>1 DEF Tells
  <2>3. \A e : Heard(e, d, "CONNECTED") => TransportAgrees(step.t, e, s, A)
    BY <1>1, <1>4, <2>1, CoreUp
  <2>4. "CONNECTED" \in Reported
    BY DEF Reported
  <2>5. d.promise \in Contract!Promises /\ ~d.promise.late
    BY DEF Stands
  <2> QED
    BY <1>2, <1>4, <2>2, <2>3, <2>4, <2>5, HeardTold
<1> QED
  BY <1>3, <1>4

(* The hub is connected again.                                             *)
LEMMA CoreReconnected ==
    ASSUME NEW d, NEW t, NEW s, NEW A, Stands(t, d, s, A), CoreOk(t), t.kind = Core!Kind,
           t.hub = "reconnecting", NEW step, step = Core!onreconnected(t)
    PROVE  Outcome(step, d, s, A)
<1>1. CoreAgrees(t, d, s)
  BY CoreStands
<1>2. d.promise.told = "RECONNECTING" /\ ~t.isDisconnecting /\ d.promise.asked = "started"
  BY <1>1 DEF CoreAgrees
<1>3. /\ step.out = Append(<<>>, "CONNECTED")
      /\ CoreConnects(step.t, t, t.lastUsedToken)
  BY ReconnectedIs
<1>4. Tells(step.out, "CONNECTED")
  BY <1>3 DEF Tells
<1>5. \A e : Heard(e, d, "CONNECTED") => TransportAgrees(step.t, e, s, A)
  BY <1>1, <1>2, <1>3, CoreUp
<1>6. "CONNECTED" \in Reported
  BY DEF Reported
<1>7. d.promise \in Contract!Promises /\ ~d.promise.late
  BY DEF Stands
<1> QED
  BY <1>2, <1>4, <1>5, <1>6, <1>7, HeardTold

(* The hub closes: DISCONNECTED, or the failure that it was stopped for.   *)
LEMMA CoreCloses ==
    ASSUME NEW d, NEW t, NEW s, NEW A, Stands(t, d, s, A), CoreOk(t), t.kind = Core!Kind,
           t.hub \in {"disconnecting", "connected", "reconnecting"},
           NEW step, step = Core!handleConnectionClosure(t)
    PROVE  Outcome(step, d, s, A)
<1>1. CoreAgrees(t, d, s)
  BY CoreStands
<1>2. d.promise.asked \in {"started", "stopped"}
  BY <1>1 DEF CoreAgrees
<1>3. /\ step.t.hub = "none" /\ step.t.kind = Core!Kind
      /\ step.out = IF t.hasTransportError THEN <<"fail">> ELSE <<"DISCONNECTED">>
  BY ClosureIs DEF Kept
<1>4. CASE t.hasTransportError
  <2>1. Excused(s)
    BY <1>1, <1>4 DEF CoreAgrees, Excused
  <2> QED
    BY <1>2, <1>3, <1>4, <2>1, CoreFails
<1>5. CASE ~t.hasTransportError
  <2>1. Tells(step.out, "DISCONNECTED")
    BY <1>3, <1>5 DEF Tells
  <2>2. /\ d.promise.told \in {"CONNECTING", "CONNECTED", "RECONNECTING"}
        /\ d.promise.told # "exhausted" /\ d.promise.told # "DISCONNECTED"
    BY <1>1 DEF CoreAgrees
  <2>3. CoreOk(step.t)
    BY CoreClosure DEF CoreStep
  <2>4. /\ ~step.t.isDisconnecting /\ ~step.t.hasTransportError
        /\ step.t.cancels = 0 /\ step.t.closes = 0
    BY <1>3, <2>3 DEF CoreOk
  <2>5. ASSUME NEW e, Heard(e, d, "DISCONNECTED") PROVE TransportAgrees(step.t, e, s, A)
    <3>1. e.promise.told = "DISCONNECTED" /\ e.promise.asked \in {"down", "stopped"}
      BY <1>2, <2>5 DEF Heard
    <3>2. CoreAgrees(step.t, e, s)
      BY <1>3, <2>4, <3>1 DEF CoreAgrees
    <3> QED
      BY <1>3, <3>1, <3>2, AgreesOf DEF Rests
  <2>6. "DISCONNECTED" \in Reported /\ "DISCONNECTED" # "CONNECTING"
    BY DEF Reported
  <2>7. d.promise \in Contract!Promises /\ ~d.promise.late
    BY DEF Stands
  <2> QED
    BY <1>2, <2>1, <2>2, <2>5, <2>6, <2>7, HeardTold
<1> QED
  BY <1>4, <1>5

(* The chain of stop goes on: the stream is cancelled, the close answered. *)
LEMMA CoreStopping ==
    ASSUME NEW d, NEW t, NEW s, NEW A, Stands(t, d, s, A), CoreOk(t), t.kind = Core!Kind, NEW step,
           \/ t.cancels > 0 /\ step = Core!StreamCancelled(t)
           \/ t.closes > 0 /\ step = Core!CloseAnswered(t)
    PROVE  Outcome(step, d, s, A)
<1>1. CoreAgrees(t, d, s)
  BY CoreStands
<1>2. t.cancels \in Nat /\ t.closes \in Nat
  BY DEF CoreOk, Core!Transports
<1>3. t.cancels + t.closes > 0 /\ t.hub # "none"
  BY <1>2 DEF CoreOk
<1>4. t.isDisconnecting
  BY <1>1, <1>3 DEF CoreAgrees
<1>5. CASE step = Core!StreamCancelled(t)
  <2>1. /\ step.out = <<>> /\ step.t.hub = t.hub /\ step.t.kind = Core!Kind
        /\ step.t.cancels + step.t.closes > 0 /\ ~step.t.streaming
    BY <1>2, <1>3, <1>5, CancelledIs DEF CoreSame, Kept
  <2>2. /\ step.t.isDisconnecting /\ (step.t.hasTransportError => t.hasTransportError)
        /\ step.t.hasMessage = t.hasMessage
        /\ step.t.messageStream => t.messageStream
    BY <1>4, <1>5, CancelledIs
  <2>3. t.hub = "connecting" =>
           /\ ~step.t.messageStream /\ ~step.t.hasMessage /\ ~step.t.hasTransportError
    BY <1>1, <2>2 DEF CoreAgrees
  <2>4. t.hub # "reconnecting"
    BY <1>1, <1>4 DEF CoreAgrees
  <2>5. step.t.isDisconnecting = t.isDisconnecting
    BY <1>5, CancelledIs
  <2>6. CoreAgrees(step.t, d, s)
    BY <1>1, <1>3, <2>1, <2>2, <2>3, <2>4, <2>5, CoreHolds
  <2> QED
    BY <1>3, <2>1, <2>6, CoreSilently
<1>6. CASE step = Core!CloseAnswered(t)
  <2>1. /\ step.t.kind = Core!Kind
        /\ step.t.hub = CASE t.hub = "connecting" -> "failed"
                          [] t.hub \in {"connected", "reconnecting"} -> "disconnecting"
                          [] OTHER -> t.hub
        /\ step.out = IF t.hub = "connecting" THEN <<"fail">> ELSE <<>>
    BY <1>6, CloseAnsweredIs DEF CoreSame, Kept
  <2>2. /\ step.t.isDisconnecting /\ (step.t.hasTransportError => t.hasTransportError)
        /\ step.t.hasMessage => t.hasMessage
        /\ step.t.streaming => t.streaming
    BY <1>4, <1>6, CloseAnsweredIs
  <2>3. CASE t.hub = "connecting"
    <3>1. step.t.hub = "failed" /\ step.out = <<"fail">>
      BY <2>1, <2>3
    <3>2. d.promise.asked = "stopped" /\ Excused(s)
      BY <1>1, <1>4, <2>3 DEF CoreAgrees, Excused
    <3> QED
      BY <2>1, <3>1, <3>2, CoreFails
  <2>4. CASE t.hub # "connecting"
    <3>1. t.hub \in {"connected", "disconnecting"}
      BY <1>1, <1>3, <1>4, <2>4 DEF CoreAgrees, CoreOk, Core!Transports, Core!Hubs
    <3>2. step.t.hub = "disconnecting" /\ step.out = <<>>
      BY <2>1, <3>1
    <3>3. CoreAgrees(step.t, d, s)
      BY <1>1, <1>4, <2>2, <3>1, <3>2 DEF CoreAgrees
    <3> QED
      BY <2>1, <3>2, <3>3, CoreSilently
  <2> QED
    BY <2>3, <2>4
<1> QED
  BY <1>5, <1>6

(* A message, or one that does not parse and stops the hub.                *)
LEMMA CoreReads ==
    ASSUME NEW d, NEW t, NEW s, NEW A, Stands(t, d, s, A), CoreOk(t), t.kind = Core!Kind,
           t.hub = "connected", t.streaming, NEW parses \in BOOLEAN,
           ~parses => "BadMessage" \in s.events,
           NEW step, step = Core!handleNextMessage(t, parses)
    PROVE  Outcome(step, d, s, A)
<1>1. CoreAgrees(t, d, s)
  BY CoreStands
<1>2. CASE parses
  <2>1. /\ parses /\ step.out = <<"received">>
        /\ CoreSame(step.t, t) /\ step.t.hub = t.hub
        /\ step.t.isDisconnecting = t.isDisconnecting
        /\ step.t.hasTransportError = t.hasTransportError
        /\ step.t.cancels = t.cancels /\ step.t.closes = t.closes
        /\ step.t.messageStream = t.messageStream
        /\ step.t.streaming = t.streaming
    <3>1. \/ /\ parses /\ step.out = <<"received">>
             /\ CoreSame(step.t, t) /\ step.t.hub = t.hub
             /\ step.t.isDisconnecting = t.isDisconnecting
             /\ step.t.hasTransportError = t.hasTransportError
             /\ step.t.cancels = t.cancels /\ step.t.closes = t.closes
             /\ step.t.messageStream = t.messageStream
             /\ step.t.streaming = t.streaming
          \/ ~parses /\ step.out = <<>> /\ CoreHalts(step.t, t)
      BY ReadsIs
    <3> QED
      BY <1>2, <3>1, Zenon
  <2>2. step.t.hasTransportError => t.hasTransportError
    BY <2>1, Zenon
  <2>3. CoreAgrees(step.t, d, s)
    BY <1>1, <2>1, <2>2, CoreHolds
  <2> QED
    BY <2>1, <2>3, CoreSilently DEF CoreSame, Kept
<1>3. CASE ~parses
  <2>1. step.out = <<>> /\ CoreHalts(step.t, t)
    BY <1>3, ReadsIs
  <2>2. CoreAgrees(step.t, d, s)
    BY <1>1, <1>3, <2>1, CoreHolds DEF CoreHalts
  <2> QED
    BY <2>1, <2>2, CoreSilently DEF CoreHalts, CoreSame, Kept
<1> QED
  BY <1>2, <1>3

(* The stream ends, and the hub stays.                                     *)
LEMMA CoreStreamEnds ==
    ASSUME NEW d, NEW t, NEW s, NEW A, Stands(t, d, s, A), CoreOk(t), t.kind = Core!Kind,
           t.hub = "connected", "StreamEnds" \in s.events,
           NEW step \in {Core!StreamCompletes(t), Core!handleMessageStreamError(t)}
    PROVE  Outcome(step, d, s, A)
<1>1. CoreAgrees(t, d, s)
  BY CoreStands
<1>2. step.out = <<>> /\ CoreSilent(step.t, t)
  BY StreamEndsIs
<1>3. CoreAgrees(step.t, d, s)
  BY <1>1, <1>2, CoreHolds DEF CoreSilent
<1> QED
  BY <1>2, <1>3, CoreSilently DEF CoreSilent, CoreSame, Kept

(* The answer to the renewal of the session.                               *)
LEMMA CoreRenews ==
    ASSUME NEW d, NEW t, NEW s, NEW A, Stands(t, d, s, A), CoreOk(t), t.kind = Core!Kind,
           t.hub = "connected", t.renewals # <<>>, NEW status,
           status # "success" => "Renewal" \in s.events,
           NEW step, step = Core!RenewAnswered(t, status)
    PROVE  Outcome(step, d, s, A)
<1>1. CoreAgrees(t, d, s)
  BY CoreStands
<1>2. \/ CoreStill(step.t, t) /\ (step.out = <<>> \/ step.out = <<"unauthorized">>)
      \/ CoreEnds(step.t, t) /\ step.out = <<>> /\ status # "success"
  BY RenewIs
<1>3. CASE CoreStill(step.t, t) /\ (step.out = <<>> \/ step.out = <<"unauthorized">>)
  <2>1. step.t.hub = t.hub /\ step.t.kind = Core!Kind
    BY <1>3 DEF CoreStill, Kept
  <2>2. CoreAgrees(step.t, d, s)
    BY <1>1, <1>3, CoreHolds DEF CoreStill
  <2> QED
    BY <1>3, <2>1, <2>2, CoreSilently, CoreRejects
<1>4. CASE CoreEnds(step.t, t) /\ step.out = <<>> /\ status # "success"
  <2>1. CoreAgrees(step.t, d, s)
    BY <1>1, <1>4, CoreHolds DEF CoreEnds
  <2> QED
    BY <1>4, <2>1, CoreSilently DEF CoreEnds, Kept
<1> QED
  BY <1>2, <1>3, <1>4

(* All a hub does by itself, but for a link that breaks.                   *)
LEMMA CoreMakesAgrees ==
    ASSUME NEW d, NEW t, NEW s, NEW A, Stands(t, d, s, A), CoreOk(t), t.kind = Core!Kind,
           NEW step, CoreMakes(t, step, s.events)
    PROVE  Outcome(step, d, s, A)
<1>1. CoreAgrees(t, d, s)
  BY CoreStands
<1>2. CASE t.hub = "connecting" /\ step = Core!StartFails(t)
  <2>1. step.out = <<"fail">> /\ step.t.hub = "failed" /\ step.t.kind = Core!Kind
    BY <1>2, StartFailsIs DEF Kept
  <2>2. /\ d.promise.asked \in {"started", "stopped"}
        /\ d.promise.asked = "stopped" => Excused(s)
    BY <1>1, <1>2 DEF CoreAgrees, Excused
  <2> QED
    BY <2>1, <2>2, CoreFails
<1>3. CASE t.hub = "reconnecting" /\ Core!MayRetry(t) /\ step = Core!Retries(t)
  <2>1. /\ CoreSame(step.t, t) /\ step.out = <<>> /\ step.t.hub = t.hub
        /\ step.t.isDisconnecting = t.isDisconnecting
        /\ step.t.hasMessage = t.hasMessage
        /\ step.t.cancels = t.cancels /\ step.t.closes = t.closes
        /\ step.t.streaming = t.streaming
    BY <1>3, RetriesIs
  <2>2. step.t.hasTransportError => t.hasTransportError
    BY <1>3, RetriesIs
  <2>3. CoreAgrees(step.t, d, s)
    BY <1>1, <1>3, <2>1, <2>2, CoreHolds
  <2> QED
    BY <1>3, <2>1, <2>3, CoreSilently DEF CoreSame, Kept
<1> QED
  BY <1>2, <1>3, CoreStartsUp, CoreReconnected, CoreCloses, CoreStopping, CoreReads,
     CoreStreamEnds, CoreRenews DEF CoreMakes

(* The link of a hub breaks. *)
LEMMA CoreBreaks ==
    ASSUME NEW d, NEW t, NEW s, NEW A, Stands(t, d, s, A), CoreOk(t), t.kind = Core!Kind,
           t.hub = "connected", t.hasMessage, ~t.isDisconnecting,
           NEW step, step = Core!onreconnecting(t)
    PROVE  Outcome(step, d, s, A)
<1>1. CoreAgrees(t, d, s)
  BY CoreStands
<1>2. d.promise.told = "CONNECTED" /\ d.promise.asked = "started"
  BY <1>1 DEF CoreAgrees
<1>3. t.cancels \in Nat /\ t.closes \in Nat
  BY DEF CoreOk, Core!Transports
<1>4. t.closes = 0
  BY <1>1, <1>3 DEF CoreAgrees
<1>5. /\ step.t.kind = Core!Kind /\ step.t.hub = "reconnecting" /\ step.out = <<"RECONNECTING">>
      /\ step.t.cancels = 0 /\ step.t.closes = 0
  BY <1>4, ReconnectingIs DEF Kept
<1>6. ~step.t.isDisconnecting /\ (step.t.hasTransportError => t.hasTransportError)
  BY ReconnectingIs
<1>7. ASSUME NEW e, Heard(e, d, "RECONNECTING") PROVE TransportAgrees(step.t, e, s, A)
  <2>1. e.promise.told = "RECONNECTING" /\ e.promise.asked = "started"
    BY <1>2, <1>7 DEF Heard
  <2>2. CoreAgrees(step.t, e, s)
    BY <1>1, <1>5, <1>6, <2>1 DEF CoreAgrees
  <2> QED
    BY <1>5, <2>2, AgreesOf
<1>8. Tells(step.out, "RECONNECTING")
  BY <1>5 DEF Tells
<1>9. d.promise \in Contract!Promises /\ ~d.promise.late /\ "RECONNECTING" \in Reported
  BY DEF Stands, Reported
<1> QED
  BY <1>2, <1>7, <1>8, <1>9, HeardTold

(* The link of a hub breaks while it stops: it may come up again. *)
LEMMA CoreBreaksLate ==
    ASSUME Met, HasTransport(c), NEW i, i = c.tranportIndex, NEW t, t = c.transports[i],
           CoreOk(t), t.kind = Core!Kind, t.hub = "connected", t.hasMessage,
           NEW step, step = Core!onreconnecting(t),
           StepOk(step, scenario.transports[i], c.contextId),
           c' = Deliver(Overtake(c, TRUE), scenario, i, step), NEW A
    PROVE  Lands(c.promise, c', scenario, A)
<1> DEFINE k == c.promise
           d == Overtake(c, TRUE)
           p == Contract!Tell(k, "RECONNECTING")
<1>1. Stands(t, c, scenario, authorized)
  BY MetStands DEF Current
<1>2. CoreAgrees(t, c, scenario)
  BY <1>1, CoreStands
<1>3. k.told = "CONNECTED" /\ k.asked \in {"started", "stopped"}
  BY <1>2 DEF CoreAgrees
<1>4. scenario \in ScenarioRecords /\ Shape(c, scenario) /\ k \in Contract!Promises /\ ~k.late
  BY MetStands DEF Met, Fits
<1>5. /\ Shape(d, scenario) /\ d.transports = c.transports /\ d.promise = LateOf(k)
      /\ d.state = c.state /\ d.tranportIndex = c.tranportIndex /\ d.contextId = c.contextId
  <2>1. PICK b \in BOOLEAN : b = TRUE
    OBVIOUS
  <2>2. d = Overtake(c, b)
    BY <2>1
  <2> HIDE DEF d
  <2>3. /\ Shape(d, scenario) /\ d.transports = c.transports
        /\ d.promise = IF b THEN [k EXCEPT !.late = TRUE] ELSE k
        /\ d.state = c.state /\ d.tranportIndex = c.tranportIndex /\ d.contextId = c.contextId
    BY <1>4, <2>2, OvertakeOk
  <2> QED
    BY <2>1, <2>3 DEF LateOf
<1>6. Hears(d) /\ HasTransport(d)
  BY <1>1, <1>3, <1>5 DEF Hears, HasTransport, Stands
<1>7. step.out = <<"RECONNECTING">>
  BY ReconnectingIs
<1>8. "RECONNECTING" \in Contract!States
  BY DEF Contract!States
<1>9. c' = Deliver(d, scenario, i, step)
  OBVIOUS
<1> HIDE DEF d
<1>10. Ok(step.t, scenario.transports[i], d.contextId)
  BY <1>5 DEF StepOk
<1>11. Moves(c', d, step.t, Contract!Tell(d.promise, "RECONNECTING"))
  BY <1>4, <1>5, <1>6, <1>7, <1>8, <1>9, <1>10, MovesTold
<1>12. c'.promise = LateOf(p)
  <2>1. c'.promise = Contract!Tell(LateOf(k), "RECONNECTING")
    BY <1>5, <1>11 DEF Moves
  <2> QED
    BY <1>4, <1>8, <2>1, TellLate
<1>13. Contract!MayTell(k, "RECONNECTING")
  BY <1>3, <1>4 DEF Contract!MayTell, Contract!Follows, Contract!States
<1>14. p \in Contract!Reports(k)
  BY <1>8, <1>13, TellAllowed
<1>15. p.told = "RECONNECTING" /\ p \in Contract!Promises
  BY <1>4, <1>8, TellIs
<1>16. Contract!Overtakes(k, p)
  BY <1>3, <1>15 DEF Contract!Overtakes
<1> HIDE DEF p
<1>17. Goes(k, LateOf(p))
  BY <1>14, <1>16, GoesOne, Itself
<1>18. LateOf(p).late
  BY <1>15, LateIs
<1> QED
  BY <1>12, <1>17, <1>18 DEF Lands

(* Whatever a hub does, it is allowed and agrees.                          *)
LEMMA CoreActsLand ==
    ASSUME Met, HasTransport(c), NEW i, i = c.tranportIndex, CoreActs(i)
    PROVE  Lands(c.promise, c', scenario, authorized')
<1> DEFINE t == c.transports[i]
<1>1. /\ scenario \in ScenarioRecords /\ Fits(c, scenario) /\ Shape(c, scenario)
      /\ budget \in 0..MaxEvents
  BY DEF Met, Fits
<1>2. i \in DOMAIN c.transports
  BY <1>1, CurrentOk
<1>3. CoreOk(t) /\ t.kind = Core!Kind /\ CoreActed(i)
  BY <1>1, <1>2, CoreActsOk DEF Is
<1>4. Stands(t, c, scenario, authorized) /\ authorized' = authorized
  BY <1>3, MetStands DEF Current, CoreActed
<1>5. CASE \E step : /\ CoreMakes(t, step, scenario.events)
                     /\ StepOk(step, scenario.transports[i], c.contextId)
                     /\ c' = Deliver(c, scenario, i, step)
  <2>1. PICK step : /\ CoreMakes(t, step, scenario.events)
                    /\ StepOk(step, scenario.transports[i], c.contextId)
                    /\ c' = Deliver(c, scenario, i, step)
    BY <1>5
  <2> HIDE DEF t
  <2>2. Outcome(step, c, scenario, authorized)
    BY <1>3, <1>4, <2>1, CoreMakesAgrees
  <2> QED
    BY <1>4, <2>1, <2>2, ActLands
<1>6. ASSUME NEW step, step = Core!onreconnecting(t), t.hub = "connected", Core!MayRetry(t),
             StepOk(step, scenario.transports[i], c.contextId),
             c' = Deliver(Overtake(c, t.isDisconnecting), scenario, i, step)
      PROVE  Lands(c.promise, c', scenario, authorized')
  <2>1. t.hasMessage
    BY <1>6 DEF Core!MayRetry
  <2>2. CASE t.isDisconnecting
    <3>1. t.isDisconnecting = TRUE
      BY <1>3, <2>2 DEF CoreOk, Core!Transports
    <3>2. c' = Deliver(Overtake(c, TRUE), scenario, i, step)
      BY <1>6, <3>1
    <3> HIDE DEF t
    <3>3. t = c.transports[i]
      BY DEF t
    <3> QED
      BY <1>3, <1>6, <2>1, <3>2, <3>3, CoreBreaksLate
  <2>3. CASE ~t.isDisconnecting
    <3>1. c' = Deliver(c, scenario, i, step)
      BY <1>6, <2>3 DEF Overtake
    <3> HIDE DEF t
    <3>2. Outcome(step, c, scenario, authorized)
      BY <1>3, <1>4, <1>6, <2>1, <2>3, CoreBreaks
    <3> QED
      BY <1>4, <1>6, <3>1, <3>2, ActLands
  <2> QED
    BY <2>2, <2>3
<1> QED
  BY <1>3, <1>5, <1>6 DEF CoreActed

-----------------------------------------------------------------------------
(***************************************************************************)
(* 4. The steps of a legacy SignalR transport                              *)
(***************************************************************************)
(* What a step of the library's connection l can be. *)
LibraryMade(step, l, events) ==
    \/ /\ step.out = <<"disconnected">> /\ step.t.state = "disconnected"
       /\ l.state # "disconnected"
    \/ /\ step.out = <<"connected">> \/ step.out = <<"connected", "started">>
       /\ l.state \in {"connecting", "reconnecting"} /\ step.t.state = "connected"
    \/ /\ step.out = <<"reconnecting">> /\ l.state = "connected"
       /\ step.t.state = "reconnecting"
    \/ /\ step.out = <<>> /\ step.t.state = l.state
       /\ l.state = "connecting" =>
             step.t.negotiating \/ step.t.transport # 0 \/ "ProtocolMismatch" \in events

(* stop ends the library's connection and says so.                         *)
LEMMA LibraryStopIs ==
    ASSUME NEW l \in Library!Connections, l.state # "disconnected",
           NEW step, step = Library!stop(l)
    PROVE  step.out = <<"disconnected">> /\ step.t.state = "disconnected"
<1> DEFINE u == [l EXCEPT !.negotiating = FALSE, !.transport = 0,
                          !.socket = "none", !.reconnectTimeout = FALSE]
           v == [u EXCEPT !.state = "disconnected"]
<1>1. u.state = l.state /\ v.state = "disconnected"
  BY DEF Library!Connections
<1>2. l.state \in Library!connectionStates \ {"disconnected"}
  BY DEF Library!Connections
<1>3. step = Library!changeState(u, Library!connectionStates \ {"disconnected"}, "disconnected")
  BY DEF Library!stop
<1>4. step = [t |-> v, out |-> <<"disconnected">>]
  <2> HIDE DEF u
  <2> QED
    BY <1>1, <1>2, <1>3 DEF Library!changeState, Library!Step
<1> HIDE DEF v
<1> QED
  BY <1>1, <1>4

(* The library tries a transport, or stops when none is left.              *)
LEMMA LibraryInitializes ==
    ASSUME NEW l \in Library!Connections, l.state = "connecting", NEW index \in Nat \ {0},
           NEW k, k.state = "connecting", NEW events,
           NEW step, step = Library!initialize(l, index)
    PROVE  LibraryMade(step, k, events)
<1> DEFINE u == [l EXCEPT !.transport = index, !.socket = "opening"]
<1>1. u.state = "connecting" /\ u.transport # 0
  BY DEF Library!Connections
<1>2. CASE step = Library!stop(l)
  BY <1>2, LibraryStopIs DEF LibraryMade
<1>3. CASE step = [t |-> u, out |-> <<>>]
  <2> HIDE DEF u
  <2> QED
    BY <1>1, <1>3 DEF LibraryMade
<1> QED
  BY <1>2, <1>3 DEF Library!initialize, Library!Step

(* The answer to the negotiation.                                          *)
LEMMA LibraryNegotiates ==
    ASSUME NEW l, LibraryOk(l), l.negotiating, NEW answer, NEW events,
           answer = "success" \/ answer = "error" \/ "ProtocolMismatch" \in events,
           NEW step, step = Library!Negotiated(l, answer)
    PROVE  LibraryMade(step, l, events)
<1> DEFINE u == [l EXCEPT !.negotiating = FALSE]
<1>1. l \in Library!Connections /\ l.state = "connecting"
  BY DEF LibraryOk, Library!New, Library!Connections, Library!connectionStates
<1>2. u \in Library!Connections /\ u.state = "connecting"
  BY <1>1 DEF Library!Connections
<1>3. /\ answer = "success" => step = Library!initialize(u, 1)
      /\ answer = "error" => step = Library!stop(u)
      /\ answer # "success" /\ answer # "error" => step = [t |-> u, out |-> <<>>]
  BY DEF Library!Negotiated, Library!Step
<1> HIDE DEF u
<1>4. CASE answer = "success"
  BY <1>1, <1>2, <1>3, <1>4, LibraryInitializes
<1>5. CASE answer = "error"
  <2>1. step.out = <<"disconnected">> /\ step.t.state = "disconnected"
    BY <1>2, <1>3, <1>5, LibraryStopIs
  <2> QED
    BY <1>1, <2>1 DEF LibraryMade
<1>6. CASE answer # "success" /\ answer # "error"
  BY <1>1, <1>2, <1>3, <1>6 DEF LibraryMade
<1> QED
  BY <1>4, <1>5, <1>6

(* The transport tried is connected, or the next one is tried.             *)
LEMMA LibraryTries ==
    ASSUME NEW l, LibraryOk(l), Library!Initializing(l), NEW events,
           NEW step \in {Library!onSuccess(l), Library!onFailed(l)}
    PROVE  LibraryMade(step, l, events)
<1> DEFINE u == [l EXCEPT !.socket = "open"]
           v == [u EXCEPT !.state = "connected"]
           w == [l EXCEPT !.socket = "none"]
           index == l.transport + 1
           o == Append(<<"connected">>, "started")
<1>1. l \in Library!Connections /\ l.state = "connecting" /\ l.transport # 0
  BY DEF LibraryOk, Library!Initializing
<1>2. v.state = "connected" /\ u.state = "connecting"
  BY <1>1 DEF Library!Connections
<1>3. w \in Library!Connections /\ w.state = "connecting" /\ index \in Nat \ {0}
  BY <1>1 DEF Library!Connections
<1>4. Library!onSuccess(l) = [t |-> v, out |-> o]
  <2> DEFINE first == Library!changeState(u, {"connecting"}, "connected")
  <2>1. first = [t |-> v, out |-> <<"connected">>]
    BY <1>2 DEF Library!changeState, Library!Step
  <2>2. Library!onSuccess(l) = [first EXCEPT !.out = Append(@, "started")]
    BY DEF Library!onSuccess
  <2> HIDE DEF first, v
  <2> QED
    BY <2>1, <2>2
<1>5. Library!onFailed(l) = Library!initialize(w, index)
  BY DEF Library!onFailed
<1>6. o = <<"connected", "started">>
  <2>1. "connected" \in {"connected", "started"} /\ "started" \in {"connected", "started"}
    OBVIOUS
  <2> QED
    BY <2>1, AppendTwo
<1> HIDE DEF v, w, index, o
<1>7. CASE step = Library!onSuccess(l)
  BY <1>1, <1>2, <1>4, <1>6, <1>7 DEF LibraryMade
<1>8. CASE step = Library!onFailed(l)
  BY <1>1, <1>3, <1>5, <1>8, LibraryInitializes
<1> QED
  BY <1>7, <1>8

(* The link of the library's connection breaks, or is there again.         *)
LEMMA LibraryMoves ==
    ASSUME NEW l, LibraryOk(l), Library!isConnectedOrReconnecting(l), NEW expired \in BOOLEAN,
           NEW events, NEW step,
           \/ step = Library!SocketCloses(l, expired)
           \/ step = Library!PollFails(l, expired)
           \/ step = Library!checkIfAlive(l, expired)
           \/ step = Library!ReconnectTimeout(l, expired)
           \/ step = Library!Reconnected(l) /\ l.state = "reconnecting"
    PROVE  LibraryMade(step, l, events)
<1> DEFINE u == [l EXCEPT !.socket = "none"]
           v == [l EXCEPT !.reconnectTimeout = FALSE]
           w == [v EXCEPT !.socket = "opening"]
           x == [l EXCEPT !.socket = "opening"]
           y == [l EXCEPT !.socket = "open", !.reconnectTimeout = FALSE]
           Good(m) == m \in Library!Connections /\ m.state = l.state
<1>1. l \in Library!Connections /\ l.state \in {"connected", "reconnecting"}
  BY DEF LibraryOk, Library!isConnectedOrReconnecting
<1>2. Good(l) /\ Good(u) /\ Good(v) /\ Good(w) /\ Good(x) /\ Good(y)
  BY <1>1 DEF Library!Connections
<1>3. ASSUME NEW m, Good(m), NEW from \in {"connected", "reconnecting"},
             NEW to \in {"connected", "reconnecting"}, from # to,
             step = Library!changeState(m, {from}, to)
      PROVE  LibraryMade(step, l, events)
  <2> DEFINE n == [m EXCEPT !.state = to]
  <2>1. n.state = to
    BY <1>3 DEF Library!Connections
  <2>2. m.state = l.state
    BY <1>3
  <2>3. \/ l.state = from /\ step = [t |-> n, out |-> <<to>>]
        \/ step = [t |-> m, out |-> <<>>]
    <3> HIDE DEF n
    <3> QED
      BY <1>3, <2>2 DEF Library!changeState, Library!Step, n
  <2>4. \/ from = "connected" /\ to = "reconnecting"
        \/ from = "reconnecting" /\ to = "connected"
    BY <1>3
  <2> HIDE DEF n, Good
  <2>5. CASE step = [t |-> m, out |-> <<>>]
    BY <1>1, <2>2, <2>5 DEF LibraryMade
  <2>6. CASE l.state = from /\ step = [t |-> n, out |-> <<to>>]
    <3>1. step.t.state = to /\ step.out = <<to>> /\ l.state = from
      BY <2>1, <2>6
    <3> QED
      BY <2>4, <3>1 DEF LibraryMade
  <2> QED
    BY <2>3, <2>5, <2>6
<1>4. ASSUME NEW m, Good(m), step = Library!stop(m)
      PROVE  LibraryMade(step, l, events)
  <2>1. m.state # "disconnected" /\ m \in Library!Connections
    BY <1>1, <1>4
  <2>2. step.out = <<"disconnected">> /\ step.t.state = "disconnected"
    BY <1>4, <2>1, LibraryStopIs
  <2> HIDE DEF Good
  <2> QED
    BY <1>1, <2>2 DEF LibraryMade
<1>5. ASSUME NEW m, Good(m), step = Library!Step(m, <<>>)
      PROVE  LibraryMade(step, l, events)
  <2>1. step.t = m /\ step.out = <<>> /\ m.state = l.state
    BY <1>5 DEF Library!Step
  <2> QED
    BY <1>1, <2>1 DEF LibraryMade
<1>6. ASSUME NEW m, Good(m), step = Library!reconnect(m, expired)
      PROVE  LibraryMade(step, l, events)
  <2> DEFINE n == [m EXCEPT !.reconnectTimeout = TRUE]
  <2>1. Good(n)
    BY <1>6 DEF Library!Connections
  <2>2. \/ step = Library!Step(n, <<>>) \/ step = Library!Step(m, <<>>)
        \/ step = Library!stop(m)
    BY <1>6 DEF Library!reconnect
  <2> HIDE DEF n, Good
  <2> QED
    BY <1>4, <1>5, <1>6, <2>1, <2>2
<1>7. \/ step = Library!reconnect(u, expired) \/ step = Library!reconnect(l, expired)
      \/ step = Library!stop(l) \/ step = Library!stop(v) \/ step = Library!Step(l, <<>>)
      \/ step = Library!changeState(x, {"connected"}, "reconnecting")
      \/ step = Library!changeState(w, {"connected"}, "reconnecting")
      \/ step = Library!changeState(y, {"reconnecting"}, "connected")
  BY DEF Library!SocketCloses, Library!PollFails, Library!checkIfAlive,
         Library!ReconnectTimeout, Library!Reconnected, Library!ensureReconnectingState
<1> HIDE DEF u, v, w, x, y, Good
<1>8. "connected" # "reconnecting"
  OBVIOUS
<1> QED
  BY <1>2, <1>3, <1>4, <1>5, <1>6, <1>7, <1>8

(* What the transport makes of it. *)
LEMMA LibraryHeard ==
    ASSUME NEW t, SignalrOk(t), NEW step, NEW made, made = Signalr!Does(t, step)
    PROVE  /\ made.t.kind = Signalr!Kind /\ made.t.connection = step.t
           /\ step.out = <<"disconnected">> => made.out = <<"DISCONNECTED">>
           /\ step.out = <<"connected">> => made.out = <<"CONNECTED">>
           /\ step.out = <<"connected", "started">> => made.out = <<"CONNECTED", "started">>
           /\ step.out = <<"reconnecting">> => made.out = <<"RECONNECTING">>
           /\ step.out = <<>> => made.out = <<>>
<1> DEFINE u == [t EXCEPT !.connection = step.t]
           o == step.out
           f == [i \in DOMAIN o |-> Signalr!Heard(o[i])]
<1>1. t \in Signalr!Transports /\ t.kind = Signalr!Kind
  BY DEF SignalrOk, Signalr!Transports
<1>2. u.kind = Signalr!Kind /\ u.connection = step.t
  BY <1>1 DEF Signalr!Transports
<1>3. made = [t |-> u, out |-> f]
  BY DEF Signalr!Does, Signalr!Step
<1>4. /\ Signalr!Heard("disconnected") = "DISCONNECTED"
      /\ Signalr!Heard("connected") = "CONNECTED"
      /\ Signalr!Heard("reconnecting") = "RECONNECTING"
      /\ Signalr!Heard("started") = "started"
  BY DEF Signalr!Heard, Signalr!mapConnectionState, Signalr!Library!connectionStates
<1> HIDE DEF u, o
<1>5. ASSUME NEW one, o = <<one>> PROVE f = <<Signalr!Heard(one)>>
  BY <1>5
<1>6. o = <<"connected", "started">> => f = <<"CONNECTED", "started">>
  BY <1>4
<1>7. o = <<>> => f = <<>>
  OBVIOUS
<1> HIDE DEF f
<1>8. made.t = u /\ made.out = f
  BY <1>3
<1> QED
  BY <1>2, <1>4, <1>5, <1>6, <1>7, <1>8 DEF o

(* Whatever the library's connection does agrees.                          *)
LEMMA LibraryMadeAgrees ==
    ASSUME NEW d, NEW t, NEW s, NEW A, Stands(t, d, s, A), SignalrOk(t), t.kind = Signalr!Kind,
           NEW step, LibraryMade(step, t.connection, s.events),
           NEW made, made = Signalr!Does(t, step)
    PROVE  Outcome(made, d, s, A)
<1> DEFINE l == t.connection
           u == made.t.connection
<1>1. LibraryAgrees(l, d, s) /\ Rests(d, s)
  BY AgreesOf DEF Stands
<1>2. made.t.kind = Signalr!Kind /\ u = step.t
  BY LibraryHeard
<1>3. l.state \in Library!connectionStates
  BY DEF SignalrOk, LibraryOk, Library!Connections
<1>4. l.state # "disconnected" =>
         /\ d.promise.asked = "started"
         /\ \/ l.state = "connecting" /\ d.promise.told = "CONNECTING"
            \/ l.state = "connected" /\ d.promise.told = "CONNECTED"
            \/ l.state = "reconnecting" /\ d.promise.told = "RECONNECTING"
  <2>1. /\ Signalr!mapConnectionState("connecting") = "CONNECTING"
        /\ Signalr!mapConnectionState("connected") = "CONNECTED"
        /\ Signalr!mapConnectionState("reconnecting") = "RECONNECTING"
    BY DEF Signalr!mapConnectionState
  <2>2. /\ l.state # "disconnected" => d.promise.asked = "started"
        /\ l.state # "disconnected" => d.promise.told = Signalr!mapConnectionState(l.state)
    BY <1>1 DEF LibraryAgrees
  <2>3. l.state \in {"connecting", "connected", "reconnecting", "disconnected"}
    BY <1>3 DEF Library!connectionStates
  <2> HIDE DEF l
  <2> QED
    BY <2>1, <2>2, <2>3
<1>5. d.promise \in Contract!Promises /\ ~d.promise.late
  BY DEF Stands
<1>6. ASSUME NEW e, LibraryAgrees(u, e, s), Rests(e, s)
      PROVE  TransportAgrees(made.t, e, s, A)
  BY <1>2, <1>6, AgreesOf
<1>7. CASE /\ step.out = <<"disconnected">> /\ step.t.state = "disconnected"
           /\ l.state # "disconnected"
  <2>1. Tells(made.out, "DISCONNECTED")
    BY <1>7, LibraryHeard DEF Tells
  <2>2. ASSUME NEW e, Heard(e, d, "DISCONNECTED") PROVE TransportAgrees(made.t, e, s, A)
    <3>1. e.promise.asked = "down"
      BY <1>4, <1>7, <2>2 DEF Heard
    <3>2. LibraryAgrees(u, e, s)
      BY <1>2, <1>7, <3>1 DEF LibraryAgrees
    <3> QED
      BY <1>6, <3>1, <3>2 DEF Rests
  <2>3. "DISCONNECTED" \in Reported
    BY DEF Reported
  <2> QED
    BY <1>4, <1>5, <1>7, <2>1, <2>2, <2>3, HeardTold
<1>8. CASE /\ step.out = <<"connected">> \/ step.out = <<"connected", "started">>
           /\ l.state \in {"connecting", "reconnecting"} /\ step.t.state = "connected"
  <2>1. Tells(made.out, "CONNECTED")
    BY <1>8, LibraryHeard DEF Tells
  <2>2. ASSUME NEW e, Heard(e, d, "CONNECTED") PROVE TransportAgrees(made.t, e, s, A)
    <3>1. e.promise.asked = "started" /\ e.promise.told = "CONNECTED"
      BY <1>4, <1>8, <2>2 DEF Heard
    <3>2. LibraryAgrees(u, e, s)
      BY <1>2, <1>8, <3>1 DEF LibraryAgrees, Signalr!mapConnectionState
    <3> QED
      BY <1>6, <3>1, <3>2 DEF Rests
  <2>3. "CONNECTED" \in Reported
    BY DEF Reported
  <2> QED
    BY <1>4, <1>5, <1>8, <2>1, <2>2, <2>3, HeardTold
<1>9. CASE /\ step.out = <<"reconnecting">> /\ l.state = "connected"
           /\ step.t.state = "reconnecting"
  <2>1. Tells(made.out, "RECONNECTING")
    BY <1>9, LibraryHeard DEF Tells
  <2>2. ASSUME NEW e, Heard(e, d, "RECONNECTING") PROVE TransportAgrees(made.t, e, s, A)
    <3>1. e.promise.asked = "started" /\ e.promise.told = "RECONNECTING"
      BY <1>4, <1>9, <2>2 DEF Heard
    <3>2. LibraryAgrees(u, e, s)
      BY <1>2, <1>9, <3>1 DEF LibraryAgrees, Signalr!mapConnectionState
    <3> QED
      BY <1>6, <3>1, <3>2 DEF Rests
  <2>3. "RECONNECTING" \in Reported
    BY DEF Reported
  <2> QED
    BY <1>4, <1>5, <1>9, <2>1, <2>2, <2>3, HeardTold
<1>10. CASE /\ step.out = <<>> /\ step.t.state = l.state
            /\ l.state = "connecting" =>
                  step.t.negotiating \/ step.t.transport # 0 \/ "ProtocolMismatch" \in s.events
  <2>1. made.out = <<>>
    BY <1>10, LibraryHeard
  <2>2. LibraryAgrees(u, d, s)
    BY <1>1, <1>2, <1>10 DEF LibraryAgrees
  <2>3. Fitting(made.t, d, d.promise, s, A)
    BY <1>1, <1>6, <2>2, FitsKnown
  <2> QED
    BY <2>1, <2>3 DEF Outcome, Silent
<1> QED
  BY <1>7, <1>8, <1>9, <1>10 DEF LibraryMade

(* A 401 that the library hears of. *)
LEMMA LibraryErrorAgrees ==
    ASSUME NEW d, NEW t, NEW s, NEW A, Stands(t, d, s, A), SignalrOk(t), t.kind = Signalr!Kind,
           NEW step, step = Signalr!handleError(t, TRUE)
    PROVE  Outcome(step, d, s, A)
<1>1. step.t = t /\ step.out = <<"unauthorized">>
  BY DEF Signalr!handleError, Signalr!Step
<1>2. Fitting(step.t, d, d.promise, s, A)
  BY <1>1, FitsKnown DEF Stands
<1> QED
  BY <1>1, <1>2 DEF Outcome, Rejects, Fitting

(* Whatever a legacy SignalR transport does, it is allowed and agrees.     *)
LEMMA LibraryActsLand ==
    ASSUME Met, HasTransport(c), NEW i, i = c.tranportIndex, LibraryActs(i)
    PROVE  Lands(c.promise, c', scenario, authorized')
<1> DEFINE t == c.transports[i]
           n == c.contextId
           l == t.connection
<1>1. /\ scenario \in ScenarioRecords /\ Fits(c, scenario) /\ Shape(c, scenario)
      /\ budget \in 0..MaxEvents
  BY DEF Met, Fits
<1>2. i \in DOMAIN c.transports
  BY <1>1, CurrentOk
<1>3. Is(t, Signalr!Kind) /\ t # Absent /\ t.kind = Signalr!Kind
  BY AbsentKind DEF LibraryActs, Is, Kinds
<1>4. SignalrOk(t) /\ n \in Nat /\ scenario.transports[i] = Signalr!Kind
  BY <1>1, <1>2, <1>3, PlaceIs DEF Is
<1>5. LibraryOk(l) /\ Lib(i) = l /\ l \in Library!Connections
  BY <1>4 DEF SignalrOk, LibraryOk, Lib
<1>6. Stands(t, c, scenario, authorized)
  BY MetStands DEF Current
<1>7. ASSUME NEW step, LibraryStep(step), LibraryDoes(i, step),
             LibraryMade(step, l, scenario.events)
      PROVE  Lands(c.promise, c', scenario, authorized')
  <2> DEFINE made == Signalr!Does(t, step)
  <2>1. SignalrStep(made)
    BY <1>4, <1>7, SignalrDoes
  <2>2. StepOk(made, scenario.transports[i], c.contextId)
    BY <1>4, <2>1 DEF StepOk, SignalrStep, Ok
  <2>3. c' = Deliver(c, scenario, i, made) /\ authorized' = authorized
    BY <1>7 DEF LibraryDoes, Acts
  <2>4. Outcome(made, c, scenario, authorized)
    BY <1>3, <1>4, <1>6, <1>7, LibraryMadeAgrees
  <2> HIDE DEF made, t, l
  <2> QED
    BY <2>2, <2>3, <2>4, ActLands
<1> HIDE DEF t, n, l
<1>8. CASE \E answer \in Library!NegotiateAnswers : Negotiated(i, answer)
  <2>1. PICK answer : Negotiated(i, answer)
    BY <1>8
  <2>2. /\ LibraryDoes(i, Library!Negotiated(l, answer)) /\ l.negotiating
        /\ answer = "success" \/ answer = "error" \/ "ProtocolMismatch" \in scenario.events
    BY <1>5, <2>1 DEF Negotiated, Event
  <2>3. LibraryStep(Library!Negotiated(l, answer))
    BY <1>5, <2>2, LibraryNegotiated
  <2>4. LibraryMade(Library!Negotiated(l, answer), l, scenario.events)
    BY <1>5, <2>2, LibraryNegotiates
  <2> QED
    BY <1>7, <2>2, <2>3, <2>4
<1>9. CASE TransportTried(i)
  <2>1. PICK step \in {Library!onSuccess(l), Library!onFailed(l)} : LibraryDoes(i, step)
    BY <1>5, <1>9 DEF TransportTried
  <2>2. Library!Initializing(l)
    BY <1>5, <1>9 DEF TransportTried
  <2>3. LibraryStep(step)
    BY <1>5, <2>1, <2>2, LibraryTried
  <2>4. LibraryMade(step, l, scenario.events)
    BY <1>5, <2>1, <2>2, LibraryTries
  <2> QED
    BY <1>7, <2>1, <2>3, <2>4
<1>10. l.state \in {"connected", "reconnecting"} => Library!isConnectedOrReconnecting(l)
  BY DEF Library!isConnectedOrReconnecting
<1>11. ASSUME NEW expired \in BOOLEAN, NEW step, LibraryDoes(i, step),
              Library!isConnectedOrReconnecting(l),
              \/ step = Library!SocketCloses(l, expired)
              \/ step = Library!PollFails(l, expired)
              \/ step = Library!checkIfAlive(l, expired)
              \/ step = Library!ReconnectTimeout(l, expired)
              \/ step = Library!Reconnected(l) /\ l.state = "reconnecting"
       PROVE  Lands(c.promise, c', scenario, authorized')
  <2>1. LibraryStep(step)
    BY <1>5, <1>11, LibraryChanges
  <2>2. LibraryMade(step, l, scenario.events)
    BY <1>5, <1>11, LibraryMoves
  <2> QED
    BY <1>7, <1>11, <2>1, <2>2
<1>12. CASE \E expired \in BOOLEAN : LibraryLinkDrops(i, expired)
  <2>1. PICK expired \in BOOLEAN : LibraryLinkDrops(i, expired)
    BY <1>12
  <2>2. PICK step \in {Library!SocketCloses(l, expired), Library!PollFails(l, expired)} :
           LibraryDoes(i, step)
    BY <1>5, <2>1 DEF LibraryLinkDrops
  <2>3. Library!isConnectedOrReconnecting(l)
    BY <1>5, <2>1 DEF LibraryLinkDrops
  <2> QED
    BY <1>11, <2>2, <2>3
<1>13. CASE \E expired \in BOOLEAN : LibrarySilent(i, expired)
  <2>1. PICK expired \in BOOLEAN : LibrarySilent(i, expired)
    BY <1>13
  <2>2. LibraryDoes(i, Library!checkIfAlive(l, expired)) /\ l.state = "connected"
    BY <1>5, <2>1 DEF LibrarySilent
  <2> QED
    BY <1>10, <1>11, <2>2
<1>14. CASE \E expired \in BOOLEAN : LibraryReconnectTimeout(i, expired)
  <2>1. PICK expired \in BOOLEAN : LibraryReconnectTimeout(i, expired)
    BY <1>14
  <2>2. LibraryDoes(i, Library!ReconnectTimeout(l, expired)) /\ l.reconnectTimeout
    BY <1>5, <2>1 DEF LibraryReconnectTimeout
  <2>3. l.state \in {"connected", "reconnecting"}
    BY <1>5, <2>2 DEF LibraryOk, Library!New, Library!Connections, Library!connectionStates
  <2> QED
    BY <1>10, <1>11, <2>2, <2>3
<1>15. CASE LibraryReconnects(i)
  <2>1. LibraryDoes(i, Library!Reconnected(l)) /\ l.state = "reconnecting"
    BY <1>5, <1>15 DEF LibraryReconnects
  <2>2. PICK expired \in BOOLEAN : TRUE
    OBVIOUS
  <2> QED
    BY <1>10, <1>11, <2>1, <2>2
<1>16. CASE LibraryStops(i)
  <2>1. LibraryDoes(i, Library!stop(l)) /\ l.transport # 0
    BY <1>5, <1>16 DEF LibraryStops
  <2>2. l.state # "disconnected"
    BY <1>5, <2>1 DEF LibraryOk, Library!New
  <2>3. LibraryMade(Library!stop(l), l, scenario.events)
    BY <1>5, <2>2, LibraryStopIs DEF LibraryMade
  <2> QED
    BY <1>5, <1>7, <2>1, <2>3, LibraryStopped
<1>17. CASE LibraryError(i)
  <2> DEFINE step == Signalr!handleError(t, TRUE)
  <2>1. c' = Deliver(c, scenario, i, step) /\ authorized' = authorized
    BY <1>17 DEF LibraryError, Acts, t
  <2>2. SignalrStep(step)
    <3>1. 0 \in Nat
      OBVIOUS
    <3> QED
      BY <1>4, <3>1, SignalrMethods
  <2>3. StepOk(step, scenario.transports[i], c.contextId)
    BY <1>4, <2>2 DEF StepOk, SignalrStep, Ok
  <2>4. Outcome(step, c, scenario, authorized)
    BY <1>3, <1>4, <1>6, LibraryErrorAgrees
  <2> HIDE DEF step
  <2> QED
    BY <2>1, <2>3, <2>4, ActLands
<1> QED
  BY <1>8, <1>9, <1>12, <1>13, <1>14, <1>15, <1>16, <1>17 DEF LibraryActs

-----------------------------------------------------------------------------
(***************************************************************************)
(* 5. The user                                                             *)
(***************************************************************************)
(* What a transport is while the user is told that the connection is down. *)
LEMMA WsDown ==
    ASSUME NEW t, NEW d, NEW s, NEW A, WsAgrees(t, d, s, A),
           d.promise.told \in {"none", "DISCONNECTED"}
    PROVE  /\ Fresh(t) /\ t.leaked = <<>>
           /\ d.promise.asked # "started" => Idle(t, d, s)
           /\ Idle(t, d, s) \/ (Wanted(t, d) /\ Starting(t, d, s))
<1>1. ~Linking(t, d)
  BY DEF Linking, Opening, Open, Waiting
<1>2. Idle(t, d, s) \/ (Wanted(t, d) /\ Starting(t, d, s))
  BY <1>1 DEF WsAgrees
<1>3. Fresh(t)
  BY <1>2 DEF Idle, Starting
<1>4. t.leaked = <<>>
  BY DEF WsAgrees, Authorizings
<1>5. d.promise.asked # "started" => Idle(t, d, s)
  BY <1>2 DEF Wanted
<1> QED
  BY <1>2, <1>3, <1>4, <1>5

(* The same for a hub.                                                     *)
LEMMA CoreDown ==
    ASSUME NEW t, CoreOk(t), NEW d, NEW s, CoreAgrees(t, d, s),
           d.promise.told \in {"none", "DISCONNECTED"}
    PROVE  t.hub = "none" /\ d.promise.asked # "started"
<1>1. t.hub \in Core!Hubs
  BY DEF CoreOk, Core!Transports
<1> QED
  BY <1>1 DEF CoreAgrees, Core!Hubs

(* The same for the library's connection.                                  *)
LEMMA LibraryDown ==
    ASSUME NEW l, LibraryOk(l), NEW d, NEW s, LibraryAgrees(l, d, s),
           d.promise.told \in {"none", "DISCONNECTED"}
    PROVE  l.state = "disconnected" /\ d.promise.asked # "started"
<1>1. l.state \in {"connecting", "connected", "reconnecting", "disconnected"}
  BY DEF LibraryOk, Library!Connections, Library!connectionStates
<1>2. /\ Signalr!mapConnectionState("connecting") = "CONNECTING"
      /\ Signalr!mapConnectionState("connected") = "CONNECTED"
      /\ Signalr!mapConnectionState("reconnecting") = "RECONNECTING"
  BY DEF Signalr!mapConnectionState
<1>3. l.state # "disconnected" => d.promise.told = Signalr!mapConnectionState(l.state)
  BY DEF LibraryAgrees
<1>4. l.state = "disconnected"
  BY <1>1, <1>2, <1>3
<1> QED
  BY <1>4 DEF LibraryAgrees

(* A query is nothing the library's connection hears of.                   *)
LEMMA SignalrQueried ==
    ASSUME NEW t, SignalrOk(t), NEW token \in Nat, NEW context \in Nat,
           NEW u, \/ u = Queried(t, token, context) \/ u = Requeried(t, token, context)
    PROVE  SignalrOk(u) /\ u.kind = Signalr!Kind /\ u.connection = t.connection
<1>1. t \in Signalr!Transports /\ t.kind = Signalr!Kind
  BY DEF SignalrOk, Signalr!Transports
<1>2. Ws!Kind # Signalr!Kind /\ Core!Kind # Signalr!Kind
  BY DEF Ws!Kind, Core!Kind, Signalr!Kind
<1> DEFINE v == [t EXCEPT !.contextId = context, !.authToken = token]
<1>3. ASSUME NEW yes PROVE UpdateQuery(t, token, context, yes).t = v
  <2>1. UpdateQuery(t, token, context, yes) = [t |-> v, out |-> <<>>]
    BY <1>1, <1>2 DEF UpdateQuery, Signalr!updateQuery, Signalr!Step
  <2> HIDE DEF v
  <2> QED
    BY <2>1
<1>4. v.kind = Signalr!Kind /\ v.connection = t.connection /\ v \in Signalr!Transports
  BY <1>1 DEF Signalr!Transports
<1> HIDE DEF v
<1>5. Queried(t, token, context) = v /\ Requeried(t, token, context) = v
  <2>1. PICK no : no = FALSE
    OBVIOUS
  <2>2. PICK yes : yes = TRUE
    OBVIOUS
  <2>3. UpdateQuery(t, token, context, no).t = v /\ UpdateQuery(t, token, context, yes).t = v
    BY <1>3
  <2> QED
    BY <2>1, <2>2, <2>3, Zenon DEF Queried, Requeried
<1> QED
  BY <1>4, <1>5 DEF SignalrOk

(* What is within one bound of the contexts is within a later one.         *)
LEMMA WsLater ==
    ASSUME NEW n \in Nat, NEW m \in Nat, n <= m, NEW t, WsOk(t, n)
    PROVE  WsOk(t, m)
<1>1. t \in Ws!Transports
  BY DEF WsOk
<1>2. t.contextId \in Nat /\ t.authorizing \in Seq(Ws!Authorizations)
  BY <1>1 DEF Ws!Transports
<1>3. ASSUME NEW k \in DOMAIN t.authorizing PROVE t.authorizing[k].contextId \in Nat
  <2>1. t.authorizing[k] \in Ws!Authorizations
    BY <1>2
  <2> QED
    BY <2>1 DEF Ws!Authorizations
<1> QED
  BY <1>1, <1>2, <1>3 DEF WsOk, WsWithin

(* setQuery with the context of the moment.                                *)
LEMMA QueryBegins ==
    ASSUME NEW n \in Nat, NEW t, WsOk(t, n), NEW token \in Nat,
           NEW u, u = Ws!setQuery(t, token, n)
    PROVE  /\ WsOk(u, n) /\ SameLink(u, t) /\ (u.startLost <=> t.startLost)
           /\ u.contextId = n /\ u.authToken = token
           /\ u.query.context = n /\ u.query.message = t.lastMessageId
           /\ u.leaked = t.leaked /\ u.authorizePromise = t.authorizePromise
           /\ u.authorizing = t.authorizing
<1>1. n \in 0..n
  OBVIOUS
<1>2. /\ WsOk(u, n) /\ SameLink(u, t)
      /\ u.contextId = n /\ u.authToken = token
      /\ u.query.context = n /\ u.query.message = t.lastMessageId
      /\ u.leaked = t.leaked /\ u.authorizePromise = t.authorizePromise
      /\ u.authorizing = t.authorizing
  BY <1>1, SetQueryIs
<1>3. u.startLost = t.startLost
  BY <1>1, SetQueryIs
<1> QED
  BY <1>2, <1>3

(* A websocket that is down is ready for a start once it has the query of  *)
(* the new context.                                                        *)
LEMMA WsBegins ==
    ASSUME NEW d, NEW t, NEW s, NEW A, Stands(t, d, s, A), WsOk(t, d.contextId),
           d.promise.asked # "started", d.promise.told \in {"none", "DISCONNECTED"},
           NEW e, e.contextId = d.contextId + 1, e.authToken = d.authToken,
           NEW u, u = Ws!setQuery(t, d.authToken, d.contextId + 1)
    PROVE  Ready(u, e, s) /\ WsOk(u, e.contextId)
<1> DEFINE n == d.contextId + 1
<1>1. d.contextId \in Nat /\ n \in Nat /\ d.contextId <= n /\ d.authToken \in Nat /\ n \in 0..n
  BY DEF Stands
<1>2. WsAgrees(t, d, s, A)
  BY WsStands
<1>3. Idle(t, d, s) /\ Authorizings(t, d)
  BY <1>2, WsDown DEF WsAgrees
<1>4. WsOk(t, n)
  BY <1>1, WsLater
<1> HIDE DEF n
<1>5. /\ WsOk(u, n) /\ SameLink(u, t) /\ (u.startLost <=> t.startLost)
      /\ u.contextId = n /\ u.authToken = d.authToken
      /\ u.query.context = n /\ u.query.message = t.lastMessageId
      /\ u.leaked = t.leaked /\ u.authorizePromise = t.authorizePromise
      /\ u.authorizing = t.authorizing
  <2>1. u = Ws!setQuery(t, d.authToken, n)
    BY DEF n
  <2>2. n \in Nat /\ d.authToken \in Nat
    BY <1>1
  <2>3. PICK token \in Nat : token = d.authToken
    BY <2>2
  <2>4. PICK m \in Nat : m = n
    BY <2>2
  <2>5. u = Ws!setQuery(t, token, m) /\ WsOk(t, m)
    BY <1>4, <2>1, <2>3, <2>4
  <2>6. /\ WsOk(u, m) /\ SameLink(u, t) /\ (u.startLost <=> t.startLost)
        /\ u.contextId = m /\ u.authToken = token
        /\ u.query.context = m /\ u.query.message = t.lastMessageId
        /\ u.leaked = t.leaked /\ u.authorizePromise = t.authorizePromise
        /\ u.authorizing = t.authorizing
    <3>1. WsOk(u, m)
      BY <2>5, QueryBegins
    <3>2. SameLink(u, t)
      BY <2>5, QueryBegins
    <3>3. u.startLost <=> t.startLost
      BY <2>5, QueryBegins
    <3>4. u.contextId = m
      BY <2>5, QueryBegins
    <3>5. u.authToken = token /\ u.query.context = m /\ u.query.message = t.lastMessageId
      BY <2>5, QueryBegins
    <3>6. /\ u.leaked = t.leaked /\ u.authorizePromise = t.authorizePromise
          /\ u.authorizing = t.authorizing
      BY <2>5, QueryBegins
    <3> QED
      BY <3>1, <3>2, <3>3, <3>4, <3>5, <3>6
  <2> QED
    BY <2>3, <2>4, <2>6
<1>6. e.contextId = n
  BY DEF n
<1>7. Fresh(u) /\ NoStart(u) /\ u.leaked = <<>>
  BY <1>3, <1>5 DEF Idle, Fresh, NoStart, Starts, SameLink, Authorizings
<1>8. ~u.startLost /\ u.authorizePromise # "rejected"
  <2>1. ~t.startLost
    BY <1>3 DEF Idle
  <2>2. t.authorizePromise # "rejected"
    BY <1>3, <2>1 DEF Idle
  <2> QED
    BY <1>5, <2>1, <2>2
<1>9. u.query.message = 0
  BY <1>3, <1>5 DEF Idle, Fresh
<1>10. ASSUME NEW k \in DOMAIN u.authorizing
       PROVE  /\ u.authorizing[k].contextId \in 1..n
              /\ u.authorizing[k].authToken \in 0..e.authToken
              /\ u.authorizing[k].starts \in {0, 1}
              /\ Ws!superseded(u, u.authorizing[k])
  <2>1. Requested(t, u.authorizing[k], d)
    BY <1>3, <1>5 DEF Authorizings
  <2>2. u.authorizing[k].contextId \in 1..d.contextId
    BY <2>1 DEF Requested
  <2>3. u.authorizing[k].contextId \in 1..n /\ u.authorizing[k].contextId # u.contextId
    BY <1>1, <1>5, <2>2 DEF n
  <2> QED
    BY <2>1, <2>3 DEF Requested, Ws!superseded
<1>11. /\ u.authorizePromise = "pending"
             <=> \E k \in DOMAIN u.authorizing : u.authorizing[k].current
       /\ \A j, k \in DOMAIN u.authorizing :
              u.authorizing[j].current /\ u.authorizing[k].current => j = k
  BY <1>3, <1>5 DEF Authorizings
<1>12. u.authorizePromise = "none" \/ Tokens(s)
  BY <1>3, <1>5 DEF Idle, Tokens
<1>13. n # 0
  BY <1>1 DEF n
<1> QED
  BY <1>5, <1>6, <1>7, <1>8, <1>9, <1>10, <1>11, <1>12, <1>13 DEF Ready

(* A start of a connection that is down: what its transport does is as the *)
(* contract has it.                                                        *)
LEMMA StartIsAsked ==
    ASSUME Met, UserStarts, ~StartsAgain
    PROVE  /\ Fits(Begun, scenario) /\ HasTransport(Begun) /\ AllLeft(Begun) /\ Says(Begun)
           /\ ~Begun.promise.late /\ Begun.promise \in Contract!Promises
           /\ Begun.promise.asked = "started" /\ Begun.promise.told = c.promise.told
           /\ Begun.promise \in Contract!Asks(c.promise)
           /\ Contract!MayTell(Begun.promise, "CONNECTING")
           /\ Stands(Current(c), c, scenario, authorized)
           /\ c.promise.told \in {"none", "DISCONNECTED"} /\ c.promise.asked # "started"
<1>1. /\ c.promise \in Contract!Promises /\ ~c.promise.late /\ c.contextId \in Nat
      /\ AllLeft(c) /\ Says(c)
  BY MetStands DEF Met
<1>2. /\ scenario \in ScenarioRecords /\ Fits(c, scenario)
  BY DEF Met
<1>3. /\ c.state # "disposed" /\ Down /\ HasTransport(c)
  BY DEF UserStarts
<1>4. /\ Fits(Begun, scenario) /\ HasTransport(Begun)
      /\ Begun.tranportIndex = c.tranportIndex /\ Begun.contextId = c.contextId + 1
      /\ DOMAIN Begun.transports = DOMAIN c.transports
      /\ \A j \in DOMAIN c.transports :
            j # c.tranportIndex => Begun.transports[j] = c.transports[j]
  BY <1>2, BegunOk
<1>5. Begun.promise = Contract!Start(c.promise)
  <2>1. Begun.promise = Contract!Start(Cut(c.promise, StartsAgain))
    BY <1>2, BegunOk
  <2>2. Cut(c.promise, StartsAgain) = c.promise
    BY DEF Cut
  <2> QED
    BY <2>1, <2>2
<1>6. /\ Begun.promise \in Contract!Promises /\ Begun.promise.asked = "started"
      /\ Begun.promise.told = c.promise.told /\ Begun.promise.late = c.promise.late
  BY <1>1, <1>5, AsksType
<1>7. c.promise.told \in {"none", "DISCONNECTED"}
  BY <1>1, <1>3 DEF Says, Down
<1>8. c.promise.asked # "started"
  BY DEF StartsAgain
<1>9. c.promise.asked # "disposed"
  BY <1>2, <1>3 DEF Fits, Standing, StateOf
<1>10. c.promise.asked \in {"created", "down", "stopped"}
  BY <1>1, <1>8, <1>9 DEF Contract!Promises, Contract!Asked
<1>11. Begun.promise \in Contract!Asks(c.promise)
  BY <1>5, <1>7, <1>10 DEF Contract!Asks, Contract!MayStart
<1>12. ~Begun.promise.late
  BY <1>1, <1>6
<1>13. Contract!MayTell(Begun.promise, "CONNECTING")
  <2>1. Begun.promise.told \notin {"CONNECTED", "RECONNECTING", "exhausted"}
    BY <1>6, <1>7
  <2> QED
    BY <1>6, <1>12, <2>1, StartedTells
<1>14. AllLeft(Begun)
  <2>1. c \in Connections
    BY <1>2 DEF Fits, Shape
  <2>2. c.tranportIndex \in Nat /\ DOMAIN c.transports \subseteq Nat
    BY <2>1 DEF Connections
  <2>3. ASSUME NEW i \in DOMAIN Begun.transports, i < Begun.tranportIndex
        PROVE  Left(Begun.transports[i])
    <3>1. i \in DOMAIN c.transports /\ i < c.tranportIndex /\ i \in Nat
      BY <1>4, <2>2, <2>3
    <3>2. i # c.tranportIndex
      BY <2>2, <3>1
    <3> QED
      BY <1>1, <1>4, <3>1, <3>2 DEF AllLeft
  <2> QED
    BY <2>3 DEF AllLeft
<1>15. Says(Begun)
  <2>1. Begun.contextId # 0
    BY <1>1, <1>4
  <2>2. Begun.promise.told # "exhausted"
    BY <1>6, <1>7
  <2> QED
    BY <1>4, <1>6, <2>1, <2>2 DEF Says
<1>16. Stands(Current(c), c, scenario, authorized)
  BY <1>3, MetStands
<1> QED
  BY <1>4, <1>6, <1>7, <1>8, <1>11, <1>12, <1>13, <1>14, <1>15, <1>16

(* A start of what is down is allowed, and what was started agrees.        *)
LEMMA UserStartsLand ==
    ASSUME Met, UserStarts, ~StartsAgain
    PROVE  Lands(c.promise, c', scenario, authorized)
<1> DEFINE t == Current(c)
           u == Current(Begun)
           step == Start(u)
<1>1. /\ Fits(Begun, scenario) /\ HasTransport(Begun) /\ AllLeft(Begun) /\ Says(Begun)
      /\ ~Begun.promise.late /\ Begun.promise \in Contract!Promises
      /\ Begun.promise.asked = "started" /\ Begun.promise \in Contract!Asks(c.promise)
      /\ Contract!MayTell(Begun.promise, "CONNECTING")
      /\ Stands(t, c, scenario, authorized)
      /\ c.promise.told \in {"none", "DISCONNECTED"} /\ c.promise.asked # "started"
  BY StartIsAsked
<1>2. /\ scenario \in ScenarioRecords /\ Fits(c, scenario) /\ HasTransport(c)
      /\ c.promise \in Contract!Promises /\ c.contextId \in Nat /\ c.authToken \in Nat
  BY MetStands DEF Met, UserStarts
<1>3. /\ Begun.tranportIndex = c.tranportIndex
      /\ Begun.authToken = c.authToken /\ Begun.contextId = c.contextId + 1
      /\ u = Queried(t, c.authToken, c.contextId + 1)
      /\ c' = Deliver(Begun, scenario, c.tranportIndex, step)
      /\ StepOk(step, scenario.transports[c.tranportIndex], Begun.contextId)
  BY <1>2, BegunOk
<1>4. Ok(t, scenario.transports[c.tranportIndex], c.contextId)
  BY <1>2, CurrentOk DEF Fits
<1>5. Ok(u, scenario.transports[c.tranportIndex], Begun.contextId)
  BY <1>1, <1>2, <1>3, CurrentOk DEF Fits
<1>6. /\ t.kind = u.kind /\ t.kind \in Kinds
      /\ t.kind = Ws!Kind => WsOk(t, c.contextId) /\ WsOk(u, Begun.contextId)
      /\ t.kind = Core!Kind => CoreOk(t) /\ CoreOk(u)
      /\ t.kind = Signalr!Kind => SignalrOk(t) /\ SignalrOk(u)
  BY <1>4, <1>5, KindOf
<1>7. TransportAgrees(t, c, scenario, authorized)
  BY <1>1 DEF Stands
<1>8. Begun.contextId \in Nat /\ Begun.authToken \in Nat /\ c.contextId + 1 \in Nat
  BY <1>2, <1>3
<1> HIDE DEF t, u
<1>9. Outcome(step, Begun, scenario, authorized)
  <2>1. CASE t.kind = Ws!Kind
    <3>1. WsOk(t, c.contextId)
      BY <1>6, <2>1
    <3>2. u = Ws!setQuery(t, c.authToken, c.contextId + 1)
      <4>1. PICK m \in Nat : m = c.contextId + 1
        BY <1>8
      <4>2. WsOk(t, m) /\ m \in 0..m
        BY <1>2, <3>1, <4>1, WsLater
      <4>3. Queried(t, c.authToken, m) = Ws!setQuery(t, c.authToken, m)
        BY <1>2, <4>2, WsQueried
      <4> QED
        BY <1>3, <4>1, <4>3
    <3>3. Ready(u, Begun, scenario) /\ WsOk(u, Begun.contextId)
      BY <1>1, <1>3, <3>1, <3>2, WsBegins
    <3> QED
      BY <1>1, <1>8, <3>3, ReadyStarts
  <2>2. CASE t.kind = Core!Kind
    <3>1. CoreOk(t) /\ CoreOk(u) /\ u.kind = Core!Kind
      BY <1>6, <2>2
    <3>2. t.hub = "none"
      BY <1>1, <2>2, <3>1, CoreDown, CoreStands
    <3>3. u.hub = "none"
      BY <1>2, <1>3, <1>8, <3>1, <3>2, CoreQueried
    <3>4. CASE u.works
      <4>1. /\ step.out = <<"CONNECTING">>
            /\ Fitting(step.t, Begun, Contract!Tell(Begun.promise, "CONNECTING"),
                       scenario, authorized)
        BY <1>1, <3>1, <3>3, <3>4, CoreStarts
      <4>2. Told(step, Begun, scenario, authorized)
        BY <1>1, <4>1 DEF Told, Tells, Reported
      <4> QED
        BY <4>2 DEF Outcome
    <3>5. CASE ~u.works
      <4>1. step.out = <<"fail">> /\ step.t = u
        BY <3>1, <3>3, <3>5, CoreStartIs
      <4> HIDE DEF step
      <4>2. step.t.kind = Core!Kind /\ step.t.hub \in {"none", "failed"}
        BY <3>1, <3>3, <4>1
      <4>3. Begun.promise.asked \in {"started", "stopped"} /\ Begun.promise.asked # "stopped"
        BY <1>1
      <4> QED
        BY <4>1, <4>2, <4>3, CoreFails
    <3> QED
      BY <3>4, <3>5
  <2>3. CASE t.kind = Signalr!Kind
    <3>1. SignalrOk(t) /\ SignalrOk(u) /\ LibraryOk(t.connection)
      BY <1>6, <2>3 DEF SignalrOk
    <3>2. LibraryAgrees(t.connection, c, scenario)
      BY <1>7, <2>3, AgreesOf
    <3>3. t.connection.state = "disconnected"
      BY <1>1, <3>1, <3>2, LibraryDown
    <3>4. u.connection = t.connection
      BY <1>2, <1>3, <1>8, <3>1, SignalrQueried
    <3>5. /\ step.out = <<"CONNECTING">>
          /\ Fitting(step.t, Begun, Contract!Tell(Begun.promise, "CONNECTING"),
                     scenario, authorized)
      BY <1>1, <3>1, <3>3, <3>4, LibraryStarts
    <3>6. Told(step, Begun, scenario, authorized)
      BY <1>1, <3>5 DEF Told, Tells, Reported
    <3> QED
      BY <3>6 DEF Outcome
  <2> QED
    BY <1>6, <2>1, <2>2, <2>3 DEF Kinds
<1> HIDE DEF step
<1> QED
  BY <1>1, <1>2, <1>3, <1>9, OutcomeLands DEF StepOk

(* A second start, of a websocket the user has heard nothing of. *)
LEMMA WsStartTells ==
    ASSUME NEW n \in Nat, NEW t, WsOk(t, n), t.socket = Ws!NoSocket, NEW step, step = Start(t)
    PROVE  \/ step.out = <<>> \/ step.out = <<"started", "CONNECTING">>
           \/ step.out = <<"started", "CONNECTING", "FAILED", "fail">>
<1>1. t.kind = Ws!Kind
  BY DEF WsOk, Ws!Transports
<1>2. Ws!Kind # Core!Kind /\ Ws!Kind # Signalr!Kind
  BY DEF Ws!Kind, Core!Kind, Signalr!Kind
<1>3. step = Ws!start(t)
  BY <1>1, <1>2 DEF Start
<1>4. ~Ws!IsLive(t.socket)
  BY DEF Ws!IsLive, Ws!NoSocket
<1>5. t.authorizePromise \in {"none", "pending", "resolved", "rejected"}
  BY DEF WsOk, Ws!Transports
<1>6. CASE t.authorizePromise = "resolved"
  <2>1. step = Ws!Connects(t)
    BY <1>3, <1>6 DEF Ws!start
  <2>2. /\ t.works => /\ step.out = <<"started", "CONNECTING">>
                      /\ step.t.socket = [phase |-> "opening", query |-> t.query]
        /\ ~t.works => /\ step.out = <<"started", "CONNECTING", "FAILED", "fail">>
                       /\ step.t.socket = Ws!NoSocket
    BY <1>4, <2>1, ConnectsIs
  <2> QED
    BY <2>2
<1>7. CASE t.authorizePromise # "resolved"
  <2> DEFINE one == Ws!Authorize(t, 1, FALSE)
             two == Ws!AddStart(t)
  <2>1. \/ step = [t |-> one, out |-> <<>>] \/ step = [t |-> two, out |-> <<>>]
        \/ step = [t |-> t, out |-> <<>>]
    BY <1>3, <1>5, <1>7 DEF Ws!start, Ws!Step
  <2> HIDE DEF one, two
  <2> QED
    BY <2>1
<1> QED
  BY <1>6, <1>7

(* What comes of a start that cuts into a start is late, and allowed.      *)
LEMMA OverStart ==
    ASSUME NEW k \in Contract!Promises, ~k.late, k.asked = "started",
           k.told \in {"none", "DISCONNECTED"},
           NEW p, \/ p = LateOf(k)
                  \/ \E state \in {"CONNECTING", "FAILED", "exhausted"} :
                        p = Contract!Tell(LateOf(k), state)
    PROVE  Goes(k, p) /\ p.late
<1>1. ~Contract!MayStart(k)
  BY DEF Contract!MayStart
<1>2. k \in Contract!Asks(k) /\ k \in Contract!Reports(k)
  BY Itself
<1>3. CASE p = LateOf(k)
  <2>1. Goes(k, LateOf(k))
    BY <1>1, <1>2, GoesOne DEF Contract!Overtakes
  <2> QED
    BY <1>3, <2>1, LateIs
<1>4. ASSUME NEW state \in {"CONNECTING", "FAILED", "exhausted"},
             p = Contract!Tell(LateOf(k), state)
      PROVE  Goes(k, p) /\ p.late
  <2>1. state \in Contract!States
    BY DEF Contract!States
  <2>2. Contract!MayTell(k, state)
    BY <1>4, StartedTells
  <2> DEFINE q == Contract!Tell(k, state)
  <2>3. q \in Contract!Reports(k)
    BY <2>1, <2>2, TellAllowed
  <2>4. p = LateOf(q) /\ q \in Contract!Promises
    BY <1>4, <2>1, TellLate, TellIs
  <2> HIDE DEF q
  <2>5. Goes(k, LateOf(q))
    BY <1>1, <1>2, <2>3, GoesOne DEF Contract!Overtakes
  <2> QED
    BY <2>4, <2>5, LateIs
<1> QED
  BY <1>3, <1>4

(* A second start of a connection nothing was heard of.                    *)
LEMMA StartsAgainLand ==
    ASSUME Met, UserStarts, StartsAgain
    PROVE  Lands(c.promise, c', scenario, authorized)
<1> DEFINE t == Current(c)
           u == Current(Begun)
           step == Start(u)
           k == c.promise
           i == c.tranportIndex
<1>1. /\ k \in Contract!Promises /\ ~k.late /\ c.contextId \in Nat /\ c.authToken \in Nat
      /\ Says(c) /\ scenario \in ScenarioRecords /\ Fits(c, scenario)
  BY MetStands DEF Met
<1>2. c.state # "disposed" /\ Down /\ HasTransport(c) /\ k.asked = "started"
  BY DEF UserStarts, StartsAgain
<1>3. Stands(t, c, scenario, authorized) /\ TransportAgrees(t, c, scenario, authorized)
  BY <1>2, MetStands DEF Stands
<1>4. k.told \in {"none", "DISCONNECTED"}
  BY <1>1, <1>2 DEF Says, Down
<1>5. /\ Fits(Begun, scenario) /\ HasTransport(Begun) /\ Begun.state = "started"
      /\ Begun.tranportIndex = i
      /\ Begun.authToken = c.authToken /\ Begun.contextId = c.contextId + 1
      /\ u = Queried(t, c.authToken, c.contextId + 1)
      /\ c' = Deliver(Begun, scenario, i, step)
      /\ StepOk(step, scenario.transports[i], Begun.contextId)
  BY <1>1, BegunOk
<1>6. Begun.promise = LateOf(k)
  <2>1. Begun.promise = Contract!Start(Cut(k, StartsAgain))
    BY <1>1, BegunOk
  <2>2. Cut(k, StartsAgain) = LateOf(k)
    BY CutIs
  <2>3. LateOf(k) \in Contract!Promises /\ LateOf(k).asked = "started"
    BY <1>1, <1>2, LateIs
  <2> DEFINE p == LateOf(k)
  <2> HIDE DEF p
  <2>4. p \in Contract!Promises /\ p.asked = "started"
    BY <2>3 DEF p
  <2>5. Contract!Start(p) = p
    BY <2>4 DEF Contract!Start, Contract!Promises
  <2> QED
    BY <2>1, <2>2, <2>5 DEF p
<1>7. LateOf(k) \in Contract!Promises /\ LateOf(k).told = k.told /\ LateOf(k).asked = "started"
  BY <1>1, <1>2, LateIs
<1>8. Ok(t, scenario.transports[i], c.contextId)
  BY <1>1, <1>2, CurrentOk DEF Fits
<1>9. Ok(u, scenario.transports[i], Begun.contextId)
  BY <1>1, <1>5, CurrentOk DEF Fits
<1>10. /\ t.kind = u.kind /\ t.kind \in Kinds
       /\ t.kind = Ws!Kind => WsOk(t, c.contextId) /\ WsOk(u, Begun.contextId)
       /\ t.kind = Core!Kind => CoreOk(t)
       /\ t.kind = Signalr!Kind => SignalrOk(t)
  BY <1>8, <1>9, KindOf
<1>11. Begun.contextId \in Nat /\ c.contextId + 1 \in Nat
  BY <1>1, <1>5
<1> HIDE DEF t, u
<1>12. t.kind # Core!Kind
  BY <1>2, <1>3, <1>4, <1>10, CoreDown, CoreStands
<1>13. t.kind # Signalr!Kind
  <2>1. SUFFICES ASSUME t.kind = Signalr!Kind PROVE FALSE
    OBVIOUS
  <2>2. LibraryOk(t.connection) /\ LibraryAgrees(t.connection, c, scenario)
    BY <1>3, <1>10, <2>1, AgreesOf DEF SignalrOk
  <2> QED
    BY <1>2, <1>4, <2>2, LibraryDown
<1>14. /\ t.kind = Ws!Kind /\ WsOk(t, c.contextId) /\ WsOk(u, Begun.contextId)
  BY <1>10, <1>12, <1>13 DEF Kinds
<1>15. u.socket = Ws!NoSocket
  <2>1. WsAgrees(t, c, scenario, authorized)
    BY <1>3, <1>14, WsStands
  <2>2. t.socket = Ws!NoSocket
    BY <1>4, <2>1, WsDown DEF Fresh
  <2>3. PICK m \in Nat : m = c.contextId + 1
    BY <1>11
  <2>4. WsOk(t, m) /\ m \in 0..m
    BY <1>1, <1>14, <2>3, WsLater
  <2>5. u = Ws!setQuery(t, c.authToken, m)
    BY <1>1, <1>5, <2>3, <2>4, WsQueried
  <2>6. SameLink(u, t)
    <3>1. PICK token \in Nat : token = c.authToken
      BY <1>1
    <3> QED
      BY <2>4, <2>5, <3>1, QueryBegins
  <2> QED
    BY <2>2, <2>6 DEF SameLink
<1>16. \/ step.out = <<>> \/ step.out = <<"started", "CONNECTING">>
       \/ step.out = <<"started", "CONNECTING", "FAILED", "fail">>
  BY <1>11, <1>14, <1>15, WsStartTells
<1> HIDE DEF step
<1>17. Hears(Begun) /\ Shape(Begun, scenario) /\ Begun.contextId # 0
  BY <1>1, <1>5 DEF Hears, Fits
<1>18. {"FAILED", "CONNECTING", "exhausted"} \subseteq Contract!States
  BY DEF Contract!States
<1>19. Ok(step.t, scenario.transports[i], Begun.contextId)
  BY <1>5 DEF StepOk
<1>20. \/ c'.promise = LateOf(k)
       \/ \E state \in {"CONNECTING", "FAILED", "exhausted"} :
                c'.promise = Contract!Tell(LateOf(k), state)
  <2>1. CASE step.out = <<>>
    <3>1. Moves(c', Begun, step.t, Begun.promise)
      BY <1>1, <1>5, <1>17, <1>19, <2>1, MovesSilent
    <3> QED
      BY <1>6, <3>1 DEF Moves
  <2>2. CASE step.out = <<"started", "CONNECTING">>
    <3>1. Moves(c', Begun, step.t, Contract!Tell(Begun.promise, "CONNECTING"))
      BY <1>1, <1>5, <1>17, <1>18, <1>19, <2>2, MovesTold
    <3> QED
      BY <1>6, <3>1 DEF Moves
  <2>3. CASE step.out = <<"started", "CONNECTING", "FAILED", "fail">>
    <3>1. PICK e : /\ Shape(e, scenario)
                   /\ Moves(e, Begun, step.t, HeardFailing(Begun, step.out))
                   /\ c' = onTransportFail(e, scenario, step.t)
      BY <1>1, <1>5, <1>17, <1>19, <2>3, Failing DEF Fails
    <3>2. HeardFailing(Begun, step.out) = Contract!Tell(LateOf(k), "FAILED")
      <4>1. <<"started", "CONNECTING", "FAILED", "fail">> # <<"fail">>
        OBVIOUS
      <4> QED
        BY <1>6, <1>17, <2>3, <4>1 DEF HeardFailing
    <3> DEFINE p == Contract!Tell(LateOf(k), "FAILED")
    <3>3. /\ p \in Contract!Promises /\ p.told = "FAILED" /\ p.late = LateOf(k).late
      BY <1>7, <1>18, TellIs
    <3>4. p.asked = "started"
      <4>1. "FAILED" \in Contract!States /\ "FAILED" \notin {"DISCONNECTED", "exhausted"}
        BY <1>18
      <4> QED
        BY <1>7, <4>1, TellIs
    <3>5. LateOf(p) = p
      BY <1>1, <3>3, LateIs
    <3>6. Cut(e.promise, Lingers(step.t)) = p
      BY <3>1, <3>2, <3>5, CutIs DEF Moves
    <3>7. HasTransport(e)
      BY <3>1 DEF Moves
    <3>8. /\ Shape(c', scenario) /\ c'.authToken = e.authToken /\ c'.contextId = e.contextId
          /\ \/ c'.promise = Contract!Tell(p, "exhausted")
             \/ Replaces(c', e, scenario, p)
      BY <1>1, <3>1, <3>6, FailOk
    <3>9. e.state = "started" /\ e.contextId # 0
      BY <1>5, <1>17, <3>1 DEF Moves
    <3>10. /\ Contract!Tell(p, "exhausted") = Contract!Tell(LateOf(k), "exhausted")
           /\ Contract!Tell(p, "CONNECTING") = Contract!Tell(LateOf(k), "CONNECTING")
      BY <1>7, <1>18, TellTwice
    <3>11. CASE c'.promise = Contract!Tell(p, "exhausted")
      BY <3>10, <3>11
    <3>12. CASE Replaces(c', e, scenario, p)
      <4> HIDE DEF p
      <4>1. c'.promise \in {p, Contract!Tell(p, "CONNECTING")}
        BY <1>1, <3>3, <3>4, <3>8, <3>9, <3>12, Replaced
      <4> QED
        BY <3>10, <4>1 DEF p
    <3> QED
      BY <3>8, <3>11, <3>12
  <2> QED
    BY <1>16, <2>1, <2>2, <2>3
<1>21. Goes(k, c'.promise) /\ c'.promise.late
  BY <1>1, <1>2, <1>4, <1>20, OverStart
<1> QED
  BY <1>21 DEF Lands

(* The user stops the connection: f is d then, and step that of its        *)
(* transport.                                                              *)
Stopping(f, d) == /\ f.promise = Contract!Stop(d.promise)
                 /\ f.contextId = d.contextId /\ f.authToken = d.authToken

(* The contract's stop: what was told stands.                              *)
LEMMA StopAsked ==
    ASSUME NEW k \in Contract!Promises, k.asked \in {"started", "down"}, ~k.late
    PROVE  LET x == Contract!Stop(k)
           IN  /\ x \in Contract!Promises /\ x.asked = "stopped" /\ x.told = k.told /\ ~x.late
               /\ x \in Contract!Asks(k) /\ x # k
               /\ Contract!Stop(LateOf(k)) = LateOf(x)
<1>1. /\ Contract!Stop(k) \in Contract!Promises /\ Contract!Stop(k).asked = "stopped"
      /\ Contract!Stop(k).told = k.told /\ Contract!Stop(k).late = k.late
  BY AsksType
<1>2. Contract!Stop(k) \in Contract!Asks(k)
  BY DEF Contract!Asks
<1>3. Contract!Stop(LateOf(k)) = LateOf(Contract!Stop(k))
  BY DEF Contract!Stop, LateOf, Contract!Promises
<1> QED
  BY <1>1, <1>2, <1>3

(* The stop of a websocket transport of which no authorisation lingers.    *)
LEMMA WsStopsAgree ==
    ASSUME NEW d, NEW t, NEW s, NEW A, Stands(t, d, s, A), WsOk(t, d.contextId),
           d.promise.asked \in {"started", "down"}, NEW f, Stopping(f, d),
           NEW step, step = Ws!stop(t), step.t.authorizing = <<>>
    PROVE  Outcome(step, f, s, A)
<1>1. /\ d.contextId \in Nat /\ d.promise \in Contract!Promises /\ ~d.promise.late
      /\ d.promise.told # "exhausted"
  BY DEF Stands, Says
<1>2. Authorizings(t, d)
  BY WsStands
<1>3. NoStart(t)
  <2>1. DOMAIN t.authorizing = DOMAIN step.t.authorizing
    BY <1>1, WsStopIs
  <2>2. DOMAIN t.authorizing = {}
    BY <2>1
  <2> QED
    BY <2>2 DEF NoStart
<1>4. /\ f.promise \in Contract!Promises /\ f.promise.asked = "stopped"
      /\ f.promise.told # "exhausted" /\ ~f.promise.late
      /\ f.contextId = d.contextId /\ f.authToken = d.authToken
  BY <1>1, StopAsked DEF Stopping
<1>5. ASSUME NEW e, Heard(e, f, "DISCONNECTED") PROVE TransportAgrees(step.t, e, s, A)
  <2>1. /\ e.contextId = d.contextId /\ e.authToken = d.authToken
        /\ e.promise.told = "DISCONNECTED" /\ e.promise.asked = "stopped"
    BY <1>4, <1>5 DEF Heard
  <2>2. e.contextId \in Nat /\ e.contextId >= d.contextId
    BY <1>1, <2>1
  <2> QED
    BY <1>1, <1>2, <1>3, <2>1, <2>2, StopAgrees
<1>6. Tells(step.out, "DISCONNECTED")
  BY <1>1, WsStopIs DEF Tells
<1>7. "DISCONNECTED" \in Reported
  BY DEF Reported
<1> QED
  BY <1>4, <1>5, <1>6, <1>7, HeardTold

(* The stop of a hub begins its chain, or does nothing if there is none.   *)
LEMMA CoreStopsAgree ==
    ASSUME NEW d, NEW t, NEW s, NEW A, Stands(t, d, s, A), CoreOk(t), t.kind = Core!Kind,
           d.promise.asked \in {"started", "down"}, t.hub # "reconnecting",
           d.promise.asked = "started" /\ d.promise.told \notin {"CONNECTED", "RECONNECTING"} =>
              "StopEarly" \in s.events,
           NEW f, Stopping(f, d), NEW u, u = Core!stop(t, FALSE),
           NEW step, step = Core!Step(u, <<>>)
    PROVE  Outcome(step, f, s, A)
<1>1. /\ d.promise \in Contract!Promises /\ ~d.promise.late /\ Says(d) /\ HasTransport(d)
  BY DEF Stands
<1>2. CoreAgrees(t, d, s)
  BY CoreStands
<1>3. f.promise.asked = "stopped" /\ f.promise.told = d.promise.told
  BY <1>1, StopAsked DEF Stopping
<1>4. step.t = u /\ step.out = <<>>
  BY DEF Core!Step
<1>5. CASE t.hub = "none"
  <2>1. u = t
    BY <1>5 DEF Core!stop
  <2>2. d.promise.told = "DISCONNECTED"
    <3>1. d.promise.asked = "down"
      BY <1>2, <1>5 DEF CoreAgrees
    <3> QED
      BY <1>1, <3>1 DEF Says
  <2>3. ASSUME NEW e, Knows(e, f, f.promise) PROVE TransportAgrees(t, e, s, A)
    <3>1. e.promise.asked = "stopped" /\ e.promise.told = "DISCONNECTED"
      BY <1>3, <2>2, <2>3 DEF Knows
    <3>2. CoreAgrees(t, e, s)
      <4>1. /\ ~t.isDisconnecting /\ ~t.hasTransportError /\ ~(t.cancels + t.closes > 0)
        BY <1>5 DEF CoreOk
      <4> QED
        BY <1>5, <3>1, <4>1 DEF CoreAgrees
    <3> QED
      BY <3>1, <3>2, AgreesOf DEF Rests
  <2>4. Silent(step, f, s, A)
    <3>1. step.t = t
      BY <1>4, <2>1
    <3> QED
      BY <1>4, <2>3, <3>1 DEF Silent, Fitting
  <2> QED
    BY <2>4 DEF Outcome
<1>6. CASE t.hub # "none"
  <2>0. PICK error \in BOOLEAN : error = FALSE
    OBVIOUS
  <2>1. u = Core!stop(t, error)
    BY <2>0
  <2>2. /\ CoreSame(u, t) /\ u.hub = t.hub /\ u.isDisconnecting
        /\ u.hasTransportError => t.hasTransportError \/ error
        /\ u.hasMessage = t.hasMessage
        /\ u.messageStream = t.messageStream /\ u.streaming = t.streaming
        /\ t.hub \in {"connecting", "connected"} /\ (t.messageStream => t.hub = "connected")
             => u.cancels + u.closes > 0
    BY <1>6, <2>1, StopIs
  <2>3. u.hasTransportError => t.hasTransportError
    BY <2>0, <2>2
  <2> HIDE <2>0
  <2>4. u.kind = Core!Kind
    BY <2>2 DEF CoreSame, Kept
  <2>5. d.promise.asked = "started"
    BY <1>2, <1>6 DEF CoreAgrees
  <2>6. t.hub = "connecting" \/ t.hub = "connected" \/ t.hub = "disconnecting"
    BY <1>2, <1>6 DEF CoreAgrees, CoreOk, Core!Transports, Core!Hubs
  <2>7. ASSUME NEW e, Knows(e, f, f.promise) PROVE CoreAgrees(u, e, s)
    <3>1. e.promise.asked = "stopped" /\ e.promise.told = d.promise.told
      BY <1>3, <2>7 DEF Knows
    <3>2. t.hub = "connecting" => /\ d.promise.told = "CONNECTING" /\ "StopEarly" \in s.events
                                  /\ ~t.streaming /\ ~t.messageStream /\ ~t.hasMessage
                                  /\ ~t.hasTransportError
      BY <1>2, <2>5 DEF CoreAgrees
    <3>3. t.hub \in {"connected", "disconnecting"} => d.promise.told = "CONNECTED"
      BY <1>2, <2>5 DEF CoreAgrees
    <3>4. u.hasTransportError => "BadMessage" \in s.events \/ "Renewal" \in s.events
      BY <1>2, <2>3 DEF CoreAgrees
    <3>5. t.hub \in {"connecting", "connected"} => u.cancels + u.closes > 0
      BY <2>2, <3>2
    <3>6. t.hub = "connecting" => ~u.streaming /\ ~u.messageStream /\ ~u.hasMessage
      BY <2>2, <3>2
    <3>7. t.hub = "connecting" => ~u.hasTransportError
      BY <2>3, <3>2
    <3> QED
      BY <2>2, <2>6, <3>1, <3>2, <3>3, <3>4, <3>5, <3>6, <3>7 DEF CoreAgrees
  <2>8. u.hub # "none"
    BY <1>6, <2>2
  <2>9. ASSUME NEW e, Knows(e, f, f.promise) PROVE TransportAgrees(u, e, s, A)
    BY <2>4, <2>7, <2>8, <2>9, AgreesOf
  <2>10. Silent(step, f, s, A)
    BY <1>4, <2>9 DEF Silent, Fitting
  <2> QED
    BY <2>10 DEF Outcome
<1> QED
  BY <1>5, <1>6

(* A stop finds the library's connection down, and does nothing.           *)
LEMMA LibraryRests ==
    ASSUME NEW l \in Library!Connections, l.state = "disconnected",
           NEW step, step = Library!stop(l)
    PROVE  step.out = <<>> /\ step.t.state = "disconnected"
<1> DEFINE u == [l EXCEPT !.negotiating = FALSE, !.transport = 0,
                          !.socket = "none", !.reconnectTimeout = FALSE]
<1>1. u.state = "disconnected"
  BY DEF Library!Connections
<1>2. step = Library!changeState(u, Library!connectionStates \ {"disconnected"}, "disconnected")
  BY DEF Library!stop
<1> HIDE DEF u
<1>3. step = [t |-> u, out |-> <<>>]
  BY <1>1, <1>2 DEF Library!changeState, Library!Step
<1> QED
  BY <1>1, <1>3

(* The stop of the library's connection.                                   *)
LEMMA LibraryStopsAgree ==
    ASSUME NEW d, NEW t, NEW s, NEW A, Stands(t, d, s, A), SignalrOk(t), t.kind = Signalr!Kind,
           d.promise.asked \in {"started", "down"}, NEW f, Stopping(f, d),
           NEW made, made = Signalr!stop(t)
    PROVE  Outcome(made, f, s, A)
<1> DEFINE l == t.connection
           step == Library!stop(l)
<1>1. /\ d.promise \in Contract!Promises /\ ~d.promise.late /\ Says(d) /\ HasTransport(d)
      /\ d.promise.told # "exhausted"
  BY DEF Stands, Says
<1>2. LibraryAgrees(l, d, s)
  BY AgreesOf DEF Stands
<1>3. /\ f.promise \in Contract!Promises /\ f.promise.asked = "stopped"
      /\ f.promise.told = d.promise.told /\ ~f.promise.late
  BY <1>1, StopAsked DEF Stopping
<1>4. l \in Library!Connections
  BY DEF SignalrOk, LibraryOk
<1>5. made = Signalr!Does(t, step)
  <2>1. Signalr!Library!stop(l) = step
    BY DEF Signalr!Library!stop, Library!stop, Signalr!Library!changeState,
           Library!changeState, Signalr!Library!Step, Library!Step,
           Signalr!Library!connectionStates, Library!connectionStates
  <2> QED
    BY <2>1 DEF Signalr!stop
<1>6. step.t.state = "disconnected"
  BY <1>4, LibraryRests, LibraryStopIs
<1>7. /\ l.state = "disconnected" => step.out = <<>>
      /\ l.state # "disconnected" => step.out = <<"disconnected">>
  BY <1>4, LibraryRests, LibraryStopIs
<1> HIDE DEF step
<1>8. /\ made.t.kind = Signalr!Kind /\ made.t.connection = step.t
      /\ step.out = <<"disconnected">> => made.out = <<"DISCONNECTED">>
      /\ step.out = <<>> => made.out = <<>>
  BY <1>5, LibraryHeard
<1>9. ASSUME NEW e, e.promise.asked = "stopped", e.promise.told = "DISCONNECTED"
      PROVE  TransportAgrees(made.t, e, s, A)
  <2>1. LibraryAgrees(made.t.connection, e, s)
    BY <1>6, <1>8, <1>9 DEF LibraryAgrees
  <2> QED
    BY <1>8, <1>9, <2>1, AgreesOf DEF Rests
<1>10. CASE l.state = "disconnected"
  <2>1. d.promise.asked = "down"
    BY <1>2, <1>10 DEF LibraryAgrees
  <2>2. d.promise.told = "DISCONNECTED"
    BY <1>1, <2>1 DEF Says
  <2>3. ASSUME NEW e, Knows(e, f, f.promise) PROVE TransportAgrees(made.t, e, s, A)
    BY <1>3, <1>9, <2>2, <2>3 DEF Knows
  <2>4. Silent(made, f, s, A)
    BY <1>7, <1>8, <1>10, <2>3 DEF Silent, Fitting
  <2> QED
    BY <2>4 DEF Outcome
<1>11. CASE l.state # "disconnected"
  <2>1. Tells(made.out, "DISCONNECTED")
    BY <1>7, <1>8, <1>11 DEF Tells
  <2>2. ASSUME NEW e, Heard(e, f, "DISCONNECTED") PROVE TransportAgrees(made.t, e, s, A)
    BY <1>3, <1>9, <2>2 DEF Heard
  <2>3. "DISCONNECTED" \in Reported /\ f.promise.told # "exhausted"
    BY <1>1, <1>3 DEF Reported
  <2> QED
    BY <1>3, <2>1, <2>2, <2>3, HeardTold
<1> QED
  BY <1>10, <1>11

(* What is said of a connection after its stop.                            *)
LEMMA StoppedSays ==
    ASSUME Met, UserStops
    PROVE  /\ HasTransport(c) /\ Stands(Current(c), c, scenario, authorized)
           /\ c.promise.asked \in {"started", "down"} /\ c.promise.told # "exhausted"
           /\ StartUnderWay => "StopEarly" \in scenario.events
           /\ HasTransport(Stopped) /\ AllLeft(Stopped)
           /\ Stopped.promise.told = c.promise.told /\ Stopped.promise.asked = "stopped"
           /\ Says(Stopped)
<1>1. /\ c.promise \in Contract!Promises /\ Says(c) /\ AllLeft(c)
  BY MetStands
<1>2. c.promise.asked \in {"started", "down"} /\ HasTransport(c)
  BY DEF UserStops
<1>3. StartUnderWay => "StopEarly" \in scenario.events
  BY DEF UserStops, Event
<1>4. scenario \in ScenarioRecords /\ Fits(c, scenario)
  BY DEF Met
<1>5. /\ Stopped.promise = Contract!Stop(Cut(c.promise, Lingers(Stop(Current(c)).t)))
      /\ Stopped.transports = c.transports /\ Stopped.tranportIndex = c.tranportIndex
      /\ Stopped.contextId = c.contextId
  BY <1>4, StoppedOk
<1>6. Stands(Current(c), c, scenario, authorized)
  BY <1>2, MetStands
<1>7. HasTransport(Stopped) /\ AllLeft(Stopped)
  BY <1>1, <1>2, <1>5 DEF HasTransport, AllLeft
<1>8. Stopped.promise.told = c.promise.told /\ Stopped.promise.asked = "stopped"
  <2> DEFINE x == Cut(c.promise, Lingers(Stop(Current(c)).t))
  <2>1. x = LateOf(c.promise) \/ x = c.promise
    BY CutIs
  <2> HIDE DEF x
  <2>2. x \in Contract!Promises /\ x.told = c.promise.told
    BY <1>1, <2>1, LateIs
  <2> QED
    BY <1>5, <2>2, AsksType DEF x
<1>9. c.promise.told # "exhausted" /\ c.contextId # 0
  BY <1>1, <1>2 DEF Says
<1>10. Says(Stopped)
  BY <1>5, <1>7, <1>8, <1>9 DEF Says
<1> QED
  BY <1>2, <1>3, <1>6, <1>7, <1>8, <1>9, <1>10

(* What the transport does when it is stopped. *)
LEMMA StopTells ==
    ASSUME NEW n \in Nat, NEW t, NEW kind, Ok(t, kind, n), NEW step, step = Stop(t)
    PROVE  /\ t.kind = Ws!Kind => step = Ws!stop(t) /\ step.out = <<"DISCONNECTED">>
                                  /\ (Lingers(step.t) <=> step.t.authorizing # <<>>)
           /\ t.kind = Core!Kind => /\ step = Core!Step(Core!stop(t, FALSE), <<>>)
                                    /\ step.t = Core!stop(t, FALSE) /\ step.out = <<>>
                                    /\ Lingers(step.t) <=> t.hub = "reconnecting"
           /\ t.kind = Signalr!Kind => step = Signalr!stop(t) /\ ~Lingers(step.t)
<1>1. /\ t.kind = Ws!Kind => WsOk(t, n)
      /\ t.kind = Core!Kind => CoreOk(t)
      /\ t.kind = Signalr!Kind => SignalrOk(t)
  BY KindOf
<1>2. Ws!Kind # Core!Kind /\ Ws!Kind # Signalr!Kind /\ Core!Kind # Signalr!Kind
  BY DEF Ws!Kind, Core!Kind, Signalr!Kind
<1>3. ASSUME t.kind = Ws!Kind
      PROVE  step = Ws!stop(t) /\ step.out = <<"DISCONNECTED">>
             /\ (Lingers(step.t) <=> step.t.authorizing # <<>>)
  <2>1. step = Ws!stop(t)
    BY <1>2, <1>3 DEF Stop
  <2>2. step.out = <<"DISCONNECTED">> /\ step.t.kind = Ws!Kind /\ Fresh(step.t)
    <3>1. WsOk(t, n)
      BY <1>1, <1>3
    <3>2. step.out = <<"DISCONNECTED">>
      BY <2>1, <3>1, WsStopIs
    <3>3. step.t.kind = t.kind
      BY <2>1, <3>1, WsStopIs
    <3>4. Fresh(step.t)
      BY <2>1, <3>1, WsStopIs
    <3> QED
      BY <1>3, <3>2, <3>3, <3>4
  <2>3. Lingers(step.t) <=> step.t.authorizing # <<>>
    BY <1>2, <2>2 DEF Lingers, Fresh
  <2> QED
    BY <2>1, <2>2, <2>3
<1>4. ASSUME t.kind = Core!Kind
      PROVE  /\ step = Core!Step(Core!stop(t, FALSE), <<>>)
             /\ step.t = Core!stop(t, FALSE) /\ step.out = <<>>
             /\ Lingers(step.t) <=> t.hub = "reconnecting"
  <2>1. step = Core!Step(Core!stop(t, FALSE), <<>>)
    BY <1>2, <1>4 DEF Stop
  <2> DEFINE u == Core!stop(t, FALSE)
  <2>2. u.hub = t.hub /\ u.kind = Core!Kind
    <3>1. CASE t.hub = "none"
      BY <1>4, <3>1 DEF Core!stop
    <3>2. CASE t.hub # "none"
      <4>0. PICK error \in BOOLEAN : error = FALSE
        OBVIOUS
      <4>1. u = Core!stop(t, error)
        BY <4>0
      <4> HIDE DEF u
      <4> QED
        BY <1>1, <1>4, <3>2, <4>1, StopIs DEF CoreSame, Kept
    <3> QED
      BY <3>1, <3>2
  <2> HIDE DEF u
  <2>3. step.t = u /\ step.out = <<>>
    BY <2>1 DEF Core!Step, u
  <2>4. Lingers(step.t) <=> t.hub = "reconnecting"
    BY <1>2, <2>2, <2>3 DEF Lingers
  <2> QED
    BY <2>1, <2>3, <2>4 DEF u
<1>5. ASSUME t.kind = Signalr!Kind
      PROVE  step = Signalr!stop(t) /\ ~Lingers(step.t)
  <2>1. step = Signalr!stop(t)
    BY <1>2, <1>5 DEF Stop
  <2>2. SignalrOk(step.t)
    <3>1. 0 \in Nat
      OBVIOUS
    <3> QED
      BY <1>1, <1>5, <2>1, <3>1, SignalrMethods DEF SignalrStep
  <2>3. step.t.kind = Signalr!Kind
    BY <2>2 DEF SignalrOk, Signalr!Transports
  <2> QED
    BY <1>2, <2>1, <2>3 DEF Lingers
<1> QED
  BY <1>3, <1>4, <1>5

(* A stop is allowed, and what was stopped agrees.                         *)
LEMMA UserStopsLand ==
    ASSUME Met, UserStops
    PROVE  Lands(c.promise, c', scenario, authorized)
<1> DEFINE t == Current(c)
           step == Stop(t)
           k == c.promise
           x == Contract!Stop(k)
           i == c.tranportIndex
           lingers == Lingers(step.t)
<1>1. /\ HasTransport(c) /\ Stands(t, c, scenario, authorized)
      /\ k.asked \in {"started", "down"} /\ k.told # "exhausted"
      /\ StartUnderWay => "StopEarly" \in scenario.events
      /\ HasTransport(Stopped) /\ AllLeft(Stopped)
      /\ Stopped.promise.told = k.told /\ Stopped.promise.asked = "stopped"
      /\ Says(Stopped)
  BY StoppedSays
<1>2. /\ k \in Contract!Promises /\ ~k.late /\ c.contextId \in Nat
      /\ scenario \in ScenarioRecords /\ Fits(c, scenario)
  BY MetStands DEF Met
<1>3. /\ Fits(Stopped, scenario) /\ Stopped.state = "stopped"
      /\ Stopped.promise = Contract!Stop(Cut(k, lingers))
      /\ Stopped.tranportIndex = i
      /\ Stopped.authToken = c.authToken /\ Stopped.contextId = c.contextId
      /\ c' = Deliver(Stopped, scenario, i, step)
      /\ StepOk(step, scenario.transports[i], c.contextId)
  BY <1>2, StoppedOk
<1>4. /\ x \in Contract!Promises /\ x.asked = "stopped" /\ x.told = k.told /\ ~x.late
      /\ x \in Contract!Asks(k) /\ x # k
      /\ Contract!Stop(LateOf(k)) = LateOf(x)
  BY <1>1, <1>2, StopAsked
<1>5. Ok(t, scenario.transports[i], c.contextId)
  BY <1>1, <1>2, CurrentOk DEF Fits
<1>6. /\ t.kind \in Kinds
      /\ t.kind = Ws!Kind => WsOk(t, c.contextId)
      /\ t.kind = Core!Kind => CoreOk(t)
      /\ t.kind = Signalr!Kind => SignalrOk(t)
  BY <1>5, KindOf
<1>7. /\ t.kind = Ws!Kind => step = Ws!stop(t) /\ step.out = <<"DISCONNECTED">>
                             /\ (lingers <=> step.t.authorizing # <<>>)
      /\ t.kind = Core!Kind => /\ step = Core!Step(Core!stop(t, FALSE), <<>>)
                               /\ step.t = Core!stop(t, FALSE) /\ step.out = <<>>
                               /\ lingers <=> t.hub = "reconnecting"
      /\ t.kind = Signalr!Kind => step = Signalr!stop(t) /\ ~lingers
  BY <1>2, <1>5, StopTells
<1>8. Shape(Stopped, scenario) /\ Hears(Stopped)
  BY <1>3 DEF Fits, Hears
<1>9. Ok(step.t, scenario.transports[i], Stopped.contextId)
  BY <1>3 DEF StepOk
<1> HIDE DEF t, step, x, lingers
<1>10. CASE lingers
  <2>1. Stopped.promise = LateOf(x)
    BY <1>3, <1>4, <1>10, CutIs
  <2>2. x \in Contract!Reports(x) /\ Contract!Overtakes(k, x)
    BY <1>4, Itself DEF Contract!Overtakes
  <2>3. CASE step.out = <<>>
    <3>1. Moves(c', Stopped, step.t, Stopped.promise)
      BY <1>1, <1>2, <1>3, <1>8, <1>9, <2>3, MovesSilent
    <3>2. c'.promise = LateOf(x)
      BY <2>1, <3>1 DEF Moves
    <3>3. Goes(k, LateOf(x))
      BY <1>4, <2>2, GoesOne
    <3> QED
      BY <1>4, <3>2, <3>3, LateIs DEF Lands
  <2>4. CASE step.out = <<"DISCONNECTED">>
    <3>0. "DISCONNECTED" \in Contract!States
      BY DEF Contract!States
    <3>1. Moves(c', Stopped, step.t, Contract!Tell(Stopped.promise, "DISCONNECTED"))
      BY <1>1, <1>2, <1>3, <1>8, <1>9, <2>4, <3>0, MovesTold
    <3> DEFINE y == Contract!Tell(x, "DISCONNECTED")
    <3>2. Contract!MayTell(x, "DISCONNECTED")
      BY <1>1, <1>4 DEF Contract!MayTell
    <3>3. y \in Contract!Reports(x) /\ y \in Contract!Promises
      BY <1>4, <3>0, <3>2, TellAllowed, TellIs
    <3>4. y.asked = "stopped"
      BY <1>4, <3>0, TellIs
    <3>5. c'.promise = LateOf(y)
      BY <1>4, <2>1, <3>0, <3>1, TellLate DEF Moves
    <3> HIDE DEF y
    <3>6. Contract!Overtakes(k, y)
      BY <1>1, <3>4 DEF Contract!Overtakes
    <3>7. Goes(k, LateOf(y))
      BY <1>4, <3>3, <3>6, GoesOne
    <3> QED
      BY <3>3, <3>5, <3>7, LateIs DEF Lands
  <2> QED
    BY <1>6, <1>7, <1>10, <2>3, <2>4 DEF Kinds
<1>11. CASE ~lingers
  <2>1. Stopped.promise = x
    BY <1>3, <1>11, CutIs DEF x
  <2>2. Stopping(Stopped, c)
    BY <1>3, <2>1 DEF Stopping, x
  <2>3. Outcome(step, Stopped, scenario, authorized)
    <3>1. CASE t.kind = Ws!Kind
      <4>1. step = Ws!stop(t) /\ step.t.authorizing = <<>> /\ WsOk(t, c.contextId)
        BY <1>6, <1>7, <1>11, <3>1
      <4> QED
        BY <1>1, <2>2, <4>1, WsStopsAgree
    <3>2. CASE t.kind = Core!Kind
      <4>1. CoreOk(t) /\ t.hub # "reconnecting" /\ step = Core!Step(Core!stop(t, FALSE), <<>>)
        BY <1>6, <1>7, <1>11, <3>2
      <4>2. k.asked = "started" /\ k.told \notin {"CONNECTED", "RECONNECTING"} =>
               "StopEarly" \in scenario.events
        BY <1>1 DEF StartUnderWay, StartsAgain
      <4> QED
        BY <1>1, <2>2, <3>2, <4>1, <4>2, CoreStopsAgree
    <3>3. CASE t.kind = Signalr!Kind
      <4>1. SignalrOk(t) /\ step = Signalr!stop(t)
        BY <1>6, <1>7, <3>3
      <4> QED
        BY <1>1, <2>2, <3>3, <4>1, LibraryStopsAgree
    <3> QED
      BY <1>6, <3>1, <3>2, <3>3 DEF Kinds
  <2>4. Stopped.promise \in Contract!Asks(k) /\ ~Stopped.promise.late
    BY <1>4, <2>1
  <2> QED
    BY <1>1, <1>2, <1>3, <1>9, <2>3, <2>4, OutcomeLands
<1> QED
  BY <1>10, <1>11

(* Disposing of a connection that is down is allowed and agrees.           *)
LEMMA UserDisposesLand ==
    ASSUME Met, UserDisposes
    PROVE  Lands(c.promise, c', scenario, authorized)
<1> DEFINE k == c.promise
           x == Contract!Dispose(k)
           s == scenario
           A == authorized
           t == Current(c)
<1>1. /\ k \in Contract!Promises /\ ~k.late /\ AllLeft(c) /\ Says(c)
      /\ scenario \in ScenarioRecords /\ Fits(c, scenario) /\ budget \in 0..MaxEvents
  BY MetStands DEF Met
<1>2. /\ c'.promise = Contract!Dispose(Cut(k, StartsAgain))
      /\ c'.transports = c.transports /\ c'.tranportIndex = c.tranportIndex
      /\ c'.authToken = c.authToken /\ c'.contextId = c.contextId
  BY <1>1, UserDisposesOk
<1>3. c.state # "disposed" /\ Down
  BY DEF UserDisposes
<1>4. k.asked # "disposed"
  BY <1>1, <1>3 DEF Fits, Standing, StateOf
<1>5. /\ x \in Contract!Promises /\ x.asked = "disposed" /\ x.told = k.told
      /\ x \in Contract!Asks(k) /\ x # k
  BY <1>1, <1>4, AsksType DEF Contract!Asks
<1>6. x \in Contract!Reports(x)
  BY Itself
<1>7. CASE StartsAgain
  <2>1. Contract!Dispose(LateOf(k)) = LateOf(x)
    BY <1>1 DEF Contract!Dispose, LateOf, Contract!Promises
  <2> HIDE DEF x
  <2>2. c'.promise = LateOf(x)
    BY <1>2, <1>7, <2>1, CutIs
  <2>3. Goes(k, LateOf(x))
    BY <1>5, <1>6, GoesOne DEF Contract!Overtakes
  <2> QED
    BY <1>5, <2>2, <2>3, LateIs DEF Lands
<1>8. CASE ~StartsAgain
  <2>1. c'.promise = x
    BY <1>2, <1>8, CutIs
  <2> HIDE DEF x
  <2>2. Goes(k, x)
    BY <1>5, <1>6, GoesOne
  <2>3. HasTransport(c') <=> HasTransport(c)
    BY <1>2 DEF HasTransport
  <2>4. AllLeft(c')
    BY <1>1, <1>2 DEF AllLeft
  <2>5. Says(c')
    BY <1>1, <1>3, <1>5, <2>1, <2>3 DEF Says, Down
  <2>6. ASSUME HasTransport(c) PROVE TransportAgrees(Current(c'), c', s, A)
    <3>1. t = Current(c')
      BY <1>2 DEF Current
    <3>2. Stands(t, c, s, A) /\ TransportAgrees(t, c, s, A)
      BY <2>6, MetStands DEF Stands
    <3>3. k.told \in {"none", "DISCONNECTED"} /\ k.asked # "started"
      BY <1>1, <1>3, <1>8, <2>6 DEF Says, Down, StartsAgain
    <3>4. Ok(t, s.transports[c.tranportIndex], c.contextId)
      BY <1>1, <2>6, CurrentOk DEF Fits
    <3>5. /\ t.kind \in Kinds
          /\ t.kind = Ws!Kind => WsOk(t, c.contextId)
          /\ t.kind = Core!Kind => CoreOk(t)
          /\ t.kind = Signalr!Kind => SignalrOk(t)
      BY <3>4, KindOf
    <3>6. c'.promise.asked = "disposed" /\ c'.promise.told = k.told
      BY <1>5, <2>1
    <3> HIDE DEF t
    <3>7. CASE t.kind = Ws!Kind
      <4>1. WsAgrees(t, c, s, A)
        BY <3>2, <3>5, <3>7, WsStands
      <4>2. Idle(t, c, s) /\ Authorizings(t, c)
        BY <3>3, <4>1, WsDown DEF WsAgrees
      <4>3. Idle(t, c', s)
        BY <3>3, <3>6, <4>2 DEF Idle
      <4>4. Authorizings(t, c')
        BY <1>2, <4>2 DEF Authorizings, Requested
      <4>5. WsAgrees(t, c', s, A)
        BY <4>3, <4>4 DEF WsAgrees
      <4> QED
        BY <3>1, <3>6, <3>7, <4>5, AgreesOf DEF Rests
    <3>8. CASE t.kind = Core!Kind
      <4>1. CoreOk(t) /\ t.hub = "none"
        BY <3>2, <3>3, <3>5, <3>8, CoreDown, CoreStands
      <4>2. /\ ~t.isDisconnecting /\ ~t.hasTransportError /\ ~(t.cancels + t.closes > 0)
        BY <4>1 DEF CoreOk
      <4>3. CoreAgrees(t, c', s)
        BY <3>6, <4>1, <4>2 DEF CoreAgrees
      <4> QED
        BY <3>1, <3>6, <3>8, <4>3, AgreesOf DEF Rests
    <3>9. CASE t.kind = Signalr!Kind
      <4>1. LibraryOk(t.connection) /\ LibraryAgrees(t.connection, c, s)
        BY <3>2, <3>5, <3>9, AgreesOf DEF SignalrOk
      <4>2. t.connection.state = "disconnected"
        BY <3>3, <4>1, LibraryDown
      <4>3. LibraryAgrees(t.connection, c', s)
        BY <3>6, <4>2 DEF LibraryAgrees
      <4> QED
        BY <3>1, <3>6, <3>9, <4>3, AgreesOf DEF Rests
    <3> QED
      BY <3>5, <3>7, <3>8, <3>9 DEF Kinds
  <2>7. Agrees(c', s, A)
    BY <2>3, <2>4, <2>5, <2>6 DEF Agrees
  <2> QED
    BY <2>1, <2>2, <2>7 DEF Lands
<1> QED
  BY <1>7, <1>8

(* What the user makes of an orphan or a network error is allowed.         *)
LEMMA UserReportsLand ==
    ASSUME Met, NEW what, UserReports(what)
    PROVE  Lands(c.promise, c', scenario, authorized)
<1> DEFINE t == Current(c)
           i == c.tranportIndex
           n == c.contextId
           a == Answer(i)
           step == IF what = "orphan" THEN Ws!onOrphanFound(t, a)
                   ELSE Ws!onSubscribeNetworkError(t, a)
<1>1. /\ scenario \in ScenarioRecords /\ Fits(c, scenario) /\ n \in Nat
  BY MetStands DEF Met
<1>2. HasTransport(c) /\ t.kind = Ws!Kind
  BY DEF UserReports
<1>3. i \in DOMAIN c.transports /\ t # Absent /\ Ok(t, scenario.transports[i], n)
  BY <1>1, <1>2, CurrentOk DEF Fits
<1>4. WsOk(t, n) /\ scenario.transports[i] = Ws!Kind
  BY <1>2, <1>3, KindOf
<1>5. WsStep(step, n)
  BY <1>1, <1>4, WsReports, AnswerOk
<1>6. StepOk(step, scenario.transports[i], n)
  BY <1>4, <1>5 DEF StepOk, WsStep, Ok
<1>7. c' = Deliver(c, scenario, i, step)
  BY DEF UserReports
<1>8. Answering(a, c)
  <2>1. a \in WsAnswers(n)
    BY <1>1, AnswerOk
  <2>2. a.updates = (i = c.tranportIndex /\ Hears(c) /\ c.promise.told # "RECONNECTING")
    BY DEF Answer
  <2>3. a.token = c.authToken /\ a.context = c.contextId
    BY DEF Answer
  <2>4. a.updates <=> Hears(c) /\ c.promise.told # "RECONNECTING"
    BY <2>2
  <2> QED
    BY <2>1, <2>3, <2>4 DEF Answering
<1>9. Stands(t, c, scenario, authorized)
  BY <1>2, MetStands
<1>10. step \in {Ws!onOrphanFound(t, a), Ws!onSubscribeNetworkError(t, a)}
  OBVIOUS
<1> HIDE DEF step, t, a
<1>11. Outcome(step, c, scenario, authorized)
  BY <1>4, <1>8, <1>9, <1>10, ReportsAgree
<1> QED
  BY <1>2, <1>6, <1>7, <1>11, ActLands

(* The user gives a new token: d becomes e, the websocket t asks for an    *)
(* authorisation with it.                                                  *)
LEMMA WsRenewsAgrees ==
    ASSUME NEW d, NEW t, NEW s, NEW A, Stands(t, d, s, A), WsOk(t, d.contextId),
           d.contextId # 0, d.promise.asked # "created",
           d.promise.asked # "started" /\ d.promise.told \in {"none", "DISCONNECTED"} =>
              "TokenDown" \in s.events,
           NEW e, e.promise = d.promise, e.contextId = d.contextId,
           e.authToken = d.authToken + 1,
           NEW u, u = Requeried(t, d.authToken + 1, d.contextId)
    PROVE  TransportAgrees(u, e, s, A)
<1> DEFINE n == d.contextId
           token == d.authToken + 1
           v == Ws!setQuery(t, token, n)
<1>1. n \in Nat /\ n \in 0..n /\ token \in Nat /\ d.authToken \in Nat /\ token # 0
  BY DEF Stands
<1>2. WsAgrees(t, d, s, A) /\ Rests(d, s) /\ Authorizings(t, d) /\ t.kind = Ws!Kind
  BY WsStands
<1>3. e.contextId = n /\ e.authToken = token /\ token = d.authToken + 1 /\ u = Requeried(t, token, n)
  OBVIOUS
<1> HIDE DEF token
<1>4. Asking(u, v, 0)
  BY <1>1, <1>3, WsRequeried
<1>5. /\ WsOk(v, n) /\ SameLink(v, t) /\ (v.startLost <=> t.startLost)
      /\ v.contextId = n /\ v.authToken = token
      /\ v.query.context = n /\ v.query.message = t.lastMessageId
      /\ v.leaked = t.leaked /\ v.authorizePromise = t.authorizePromise
      /\ v.authorizing = t.authorizing
  <2>1. PICK one \in Nat : one = token
    BY <1>1
  <2>2. PICK m \in Nat : m = n
    BY <1>1
  <2>3. PICK w : w = v
    OBVIOUS
  <2>4. w = Ws!setQuery(t, one, m) /\ WsOk(t, m)
    BY <2>1, <2>2, <2>3
  <2> HIDE DEF v, n
  <2>5. /\ WsOk(w, m) /\ SameLink(w, t) /\ (w.startLost <=> t.startLost)
        /\ w.contextId = m /\ w.authToken = one
        /\ w.query.context = m /\ w.query.message = t.lastMessageId
        /\ w.leaked = t.leaked /\ w.authorizePromise = t.authorizePromise
        /\ w.authorizing = t.authorizing
    <3>1. WsOk(t, m) /\ w = Ws!setQuery(t, one, m)
      BY <2>4
    <3> QED
      BY ONLY <3>1, one \in Nat, m \in Nat, QueryBegins
  <2> QED
    BY <2>1, <2>2, <2>3, <2>5
<1> HIDE DEF n, v
<1>6. /\ v.leaked = <<>> /\ v.contextId = e.contextId /\ v.contextId # 0
      /\ v.authToken \in 0..e.authToken /\ e.contextId \in Nat /\ e.authToken \in Nat
  BY <1>1, <1>2, <1>3, <1>5 DEF Authorizings, n
<1>7. ASSUME NEW k \in DOMAIN v.authorizing
      PROVE  /\ v.authorizing[k].contextId \in 1..e.contextId
             /\ v.authorizing[k].authToken \in 0..e.authToken
             /\ v.authorizing[k].starts \in {0, 1}
             /\ Ws!superseded(v, v.authorizing[k])
  <2>1. Requested(t, v.authorizing[k], d)
    BY <1>2, <1>5, <1>7 DEF Authorizings
  <2>2. v.authorizing[k].authToken \in 0..d.authToken
    BY <2>1 DEF Requested
  <2>3. v.authorizing[k].authToken \in 0..e.authToken /\ v.authorizing[k].authToken # token
    BY <1>1, <1>3, <2>2
  <2> QED
    BY <1>3, <1>5, <2>1, <2>3 DEF Requested, Ws!superseded, n
<1>8. \A j, k \in DOMAIN v.authorizing : Starts(v, j) /\ Starts(v, k) => j = k
  BY <1>2, <1>5 DEF Authorizings, Starts
<1>9. /\ Authorizings(u, e) /\ u.authorizePromise = "pending"
      /\ SameLink(u, v) /\ u.query = v.query /\ u.startLost = v.startLost
      /\ u.contextId = v.contextId /\ u.authToken = v.authToken
      /\ NoStart(v) => NoStart(u)
      /\ \A k \in DOMAIN v.authorizing : Starts(v, k) =>
            /\ k \in DOMAIN u.authorizing /\ Starts(u, k)
            /\ u.authorizing[k].contextId = v.authorizing[k].contextId
      /\ Renews(u)
  <2>1. 0 \in {0, 1} /\ (0 = 1 => NoStart(v))
    OBVIOUS
  <2>2. n \in Nat /\ WsOk(v, n)
    BY <1>1, <1>5
  <2> QED
    BY ONLY <1>4, <1>6, <1>7, <1>8, <2>1, <2>2, AuthorizeAgrees
<1>10. /\ u.kind = t.kind /\ u.works = t.works /\ u.socket = t.socket
       /\ u.hasBeenConnected = t.hasBeenConnected
       /\ u.isReconnectPending = t.isReconnectPending
       /\ u.reconnectTimeout = t.reconnectTimeout
       /\ u.lastMessageId = t.lastMessageId
  BY <1>5, <1>9 DEF SameLink
<1>11. u.startLost <=> t.startLost
  BY <1>5, <1>9
<1>12. u.contextId = n /\ u.authToken = token /\ u.query.context = n
       /\ u.query.message = t.lastMessageId
  BY <1>5, <1>9
<1>13. NoStart(t) => NoStart(u)
  BY <1>5, <1>9 DEF NoStart, Starts
<1>14. Fresh(t) => Fresh(u) /\ u.query.message = 0
  <2>1. SameLink(u, t)
    BY <1>10 DEF SameLink
  <2> QED
    BY <1>12, <2>1 DEF Fresh, SameLink
<1>15. Wanted(t, d) => Wanted(u, e)
  BY <1>3, <1>11, <1>12 DEF Wanted
<1>16. ASSUME Idle(t, d, s) PROVE WsAgrees(u, e, s, A)
  <2>1. Fresh(u) /\ NoStart(u)
    BY <1>13, <1>14, <1>16 DEF Idle
  <2>2. u.startLost <=> e.promise.asked = "started"
    BY <1>11, <1>16 DEF Idle
  <2>3. Idle(u, e, s)
    BY <1>9, <2>1, <2>2 DEF Idle
  <2> QED
    BY <1>9, <2>3 DEF WsAgrees
<1>17. ASSUME Wanted(t, d), Starting(t, d, s) PROVE WsAgrees(u, e, s, A)
  <2>1. PICK k \in DOMAIN t.authorizing :
           Starts(t, k) /\ (Tokens(s) \/ t.authorizing[k].contextId = d.contextId)
    BY <1>17 DEF Starting
  <2>2. k \in DOMAIN v.authorizing /\ Starts(v, k)
    BY <1>5, <2>1 DEF Starts
  <2>3. /\ k \in DOMAIN u.authorizing /\ Starts(u, k)
        /\ u.authorizing[k].contextId = t.authorizing[k].contextId
    BY <1>5, <1>9, <2>2
  <2>4. Starting(u, e, s)
    BY <1>14, <1>17, <2>1, <2>3 DEF Starting
  <2> QED
    BY <1>9, <1>15, <1>17, <2>4 DEF WsAgrees
<1>18. ASSUME Wanted(t, d), Made(t, d, s, A), Linking(t, d) PROVE WsAgrees(u, e, s, A)
  <2>1. u.works
    <3>1. u.works = t.works
      BY <1>10
    <3>2. t.works
      BY <1>18 DEF Made
    <3> QED
      BY <3>1, <3>2
  <2>2. Made(u, e, s, A)
    BY <1>13, <1>18, <2>1 DEF Made
  <2>3. Linking(u, e)
    <3>1. CASE Opening(t, d)
      BY <1>10, <1>12, <3>1 DEF Linking, Opening
    <3>2. CASE Open(t, d)
      BY <1>9, <1>10, <3>2 DEF Linking, Open
    <3>3. CASE Waiting(t, d)
      BY <1>10, <1>12, <3>3 DEF Linking, Waiting
    <3> QED
      BY <1>18, <3>1, <3>2, <3>3 DEF Linking
  <2> QED
    BY <1>9, <1>15, <1>18, <2>2, <2>3 DEF WsAgrees
<1>19. WsAgrees(u, e, s, A)
  BY <1>2, <1>16, <1>17, <1>18 DEF WsAgrees
<1>20. Rests(e, s) /\ u.kind = Ws!Kind
  BY <1>2, <1>10 DEF Rests
<1> QED
  BY <1>19, <1>20, AgreesOf

(* A new token reports nothing, and the transport that has it agrees.      *)
LEMMA UserGetsTokenLand ==
    ASSUME Met, UserGetsToken
    PROVE  Lands(c.promise, c', scenario, authorized)
<1> DEFINE k == c.promise
           s == scenario
           A == authorized
           t == Current(c)
           u == Current(c')
<1>1. /\ k \in Contract!Promises /\ ~k.late /\ AllLeft(c) /\ Says(c)
      /\ c.contextId \in Nat /\ c.authToken \in Nat
      /\ scenario \in ScenarioRecords /\ Fits(c, scenario) /\ budget \in 0..MaxEvents
  BY MetStands DEF Met
<1>2. /\ c'.promise = k
      /\ c'.tranportIndex = c.tranportIndex
      /\ c'.authToken = c.authToken + 1 /\ c'.contextId = c.contextId
      /\ DOMAIN c'.transports = DOMAIN c.transports
      /\ \A j \in DOMAIN c.transports :
            j # c.tranportIndex => c'.transports[j] = c.transports[j]
      /\ HasTransport(c') <=> HasTransport(c)
      /\ HasTransport(c) => u = Requeried(t, c.authToken + 1, c.contextId)
  BY <1>1, UserGetsTokenOk
<1>3. c.contextId # 0 /\ (Down /\ ~StartsAgain => "TokenDown" \in s.events)
  BY DEF UserGetsToken, Event
<1>4. k.asked # "created"
  BY <1>1, <1>3 DEF Fits, Standing, StateOf
<1>5. Goes(k, k)
  BY Itself, GoesOne
<1>6. AllLeft(c')
  <2>1. c.tranportIndex \in Nat /\ DOMAIN c.transports \subseteq Nat
    BY <1>1 DEF Fits, Shape, Connections
  <2>2. ASSUME NEW i \in DOMAIN c'.transports, i < c'.tranportIndex
        PROVE  Left(c'.transports[i])
    <3>1. i \in DOMAIN c.transports /\ i < c.tranportIndex /\ i \in Nat
      BY <1>2, <2>1, <2>2
    <3>2. i # c.tranportIndex
      BY <2>1, <3>1
    <3> QED
      BY <1>1, <1>2, <3>1, <3>2 DEF AllLeft
  <2> QED
    BY <2>2 DEF AllLeft
<1>7. Says(c')
  BY <1>1, <1>2 DEF Says
<1>8. ASSUME HasTransport(c) PROVE TransportAgrees(u, c', s, A)
  <2>1. Stands(t, c, s, A) /\ TransportAgrees(t, c, s, A)
    BY <1>8, MetStands DEF Stands
  <2>2. Ok(t, s.transports[c.tranportIndex], c.contextId)
    BY <1>1, <1>8, CurrentOk DEF Fits
  <2>3. /\ t.kind \in Kinds
        /\ t.kind = Ws!Kind => WsOk(t, c.contextId)
        /\ t.kind = Core!Kind => CoreOk(t)
        /\ t.kind = Signalr!Kind => SignalrOk(t)
    BY <2>2, KindOf
  <2>4. u = Requeried(t, c.authToken + 1, c.contextId) /\ c.authToken + 1 \in Nat
    BY <1>1, <1>2, <1>8
  <2> HIDE DEF t, u
  <2>5. CASE t.kind = Ws!Kind
    <3>1. k.asked # "started" /\ k.told \in {"none", "DISCONNECTED"} => "TokenDown" \in s.events
      BY <1>3 DEF Down, StartsAgain
    <3>2. WsOk(t, c.contextId)
      BY <2>3, <2>5
    <3> QED
      BY <1>2, <1>3, <1>4, <2>1, <2>4, <3>1, <3>2, WsRenewsAgrees
  <2>6. CASE t.kind = Core!Kind
    <3>1. CoreAgrees(t, c, s) /\ (t.hub = "none" => Rests(c, s))
      BY <2>1, <2>6, CoreStands
    <3>2. /\ u.kind = t.kind /\ u.hub = t.hub
          /\ u.isDisconnecting = t.isDisconnecting
          /\ u.hasTransportError = t.hasTransportError
          /\ u.hasMessage = t.hasMessage
          /\ u.cancels = t.cancels /\ u.closes = t.closes
          /\ u.messageStream = t.messageStream /\ u.streaming = t.streaming
      BY <1>1, <2>3, <2>4, <2>6, CoreRequeried
    <3>3. CoreAgrees(u, c', s)
      BY <1>2, <3>1, <3>2 DEF CoreAgrees
    <3>4. u.hub = "none" => Rests(c', s)
      BY <1>2, <3>1, <3>2 DEF Rests
    <3> QED
      BY <2>6, <3>2, <3>3, <3>4, AgreesOf
  <2>7. CASE t.kind = Signalr!Kind
    <3>1. LibraryAgrees(t.connection, c, s) /\ Rests(c, s)
      BY <2>1, <2>7, AgreesOf
    <3>2. u.kind = Signalr!Kind /\ u.connection = t.connection
      BY <1>1, <2>3, <2>4, <2>7, SignalrQueried
    <3>3. LibraryAgrees(u.connection, c', s) /\ Rests(c', s)
      BY <1>2, <3>1, <3>2 DEF LibraryAgrees, Rests
    <3> QED
      BY <3>2, <3>3, AgreesOf
  <2> QED
    BY <2>3, <2>5, <2>6, <2>7 DEF Kinds
<1>9. Agrees(c', s, A)
  BY <1>2, <1>6, <1>7, <1>8 DEF Agrees
<1> QED
  BY <1>2, <1>5, <1>9 DEF Lands

(***************************************************************************)
(* 6. A promise that is late                                               *)
(***************************************************************************)
(* Whatever a callback of a transport makes of a late connection, what it  *)
(* reports is allowed.                                                     *)
LEMMA LateCallback ==
    ASSUME NEW s \in ScenarioRecords, NEW k \in Contract!Promises, k.late,
           NEW d, Fits(d, s), d.promise \in LateReports(k), NEW i, NEW from,
           NEW what \in Outs, NEW e, e = Callback(d, s, i, from, what)
    PROVE  Fits(e, s) /\ e.promise \in LateReports(k)
<1>1. /\ Fits(e, s) /\ Shape(d, s) /\ Standing(d)
      /\ d.promise \in Contract!Promises /\ d.promise.late
  BY CallbackOk, LateStays DEF Fits
<1>2. Hears(d) => d.promise.asked # "disposed"
  BY <1>1 DEF Standing, StateOf, Hears
<1>3. CASE what \in Contract!States
  <2>1. e = Report(d, i, what)
    BY <1>3 DEF Callback, Contract!States
  <2>2. e.promise = IF Hears(d) THEN Contract!Tell(d.promise, what) ELSE d.promise
    BY <1>1, <1>3, <2>1, ReportOk
  <2>3. Hears(d) => Contract!Tell(d.promise, what) \in LateReports(k)
    BY <1>2, <1>3, LateTells
  <2> QED
    BY <1>1, <2>2, <2>3
<1>4. CASE what = "fail"
  <2> DEFINE p == Cut(d.promise, Lingers(from))
  <2>1. e = onTransportFail(d, s, from)
    BY <1>4 DEF Callback, Contract!States
  <2>2. \/ e.promise = Contract!Tell(p, "exhausted")
        \/ Replaces(e, d, s, p)
    BY <1>1, <2>1, FailOk
  <2>3. p = d.promise
    BY <1>1, CutIs, LateIs
  <2> HIDE DEF p
  <2>4. CASE e.promise = Contract!Tell(p, "exhausted")
    BY <1>1, <2>3, <2>4, LateTells DEF Contract!States
  <2>5. CASE Replaces(e, d, s, p)
    <3>1. \/ e.promise = p
          \/ d.state = "started" /\ \E state \in Contract!States : e.promise = Contract!Tell(p, state)
      BY <2>5 DEF Replaces
    <3>2. d.state = "started" => d.promise.asked # "disposed"
      BY <1>1 DEF Standing, StateOf
    <3> QED
      BY <1>1, <2>3, <3>1, <3>2, LateTells
  <2> QED
    BY <2>2, <2>4, <2>5
<1>5. CASE what = "unauthorized"
  <2>1. what \notin Contract!States
    BY <1>5 DEF Contract!States
  <2>2. e = [d EXCEPT !.rejected = @ \/ Hears(d)]
    BY <1>5, <2>1 DEF Callback
  <2>3. e.promise = d.promise
    BY <1>1, <2>2 DEF Shape, Connections
  <2> QED
    BY <1>1, <2>3
<1>6. CASE what \notin Contract!States \cup {"fail", "unauthorized"}
  <2>1. e = d
    BY <1>6 DEF Callback
  <2> QED
    BY <1>1, <2>1
<1> QED
  BY <1>3, <1>4, <1>5, <1>6

(* So for all the callbacks of a step of a transport.                      *)
LEMMA LateDelivers ==
    ASSUME NEW s \in ScenarioRecords, NEW k \in Contract!Promises, k.late,
           NEW d, Fits(d, s), d.promise = k,
           NEW i \in DOMAIN d.transports, d.transports[i] # Absent,
           NEW step, StepOk(step, s.transports[i], d.contextId),
           NEW e, e = Deliver(d, s, i, step)
    PROVE  e.promise \in LateReports(k)
<1> DEFINE P == {x \in Connections : Fits(x, s) /\ x.promise \in LateReports(k)}
           b == [d EXCEPT !.transports[i] = step.t]
<1>1. step.out \in Seq(Outs) /\ Ok(step.t, s.transports[i], d.contextId)
  BY DEF StepOk
<1>2. b \in P
  <2> DEFINE u == step.t
  <2>1. b = [d EXCEPT !.transports[i] = u] /\ Ok(u, s.transports[i], d.contextId)
    BY <1>1
  <2> HIDE DEF b, u
  <2>2. /\ Shape(b, s) /\ b.state = d.state /\ b.contextId = d.contextId
        /\ b.promise = d.promise
    BY <2>1, PutOk DEF Fits
  <2>3. b.promise \in LateReports(k)
    BY <2>2 DEF LateReports
  <2> QED
    BY <2>2, <2>3 DEF Fits, Standing, Shape
<1>3. ASSUME NEW x \in P, NEW what \in Outs
      PROVE  Callback(x, s, i, step.t, what) \in P
  <2> DEFINE y == Callback(x, s, i, step.t, what)
  <2>1. Fits(y, s) /\ y.promise \in LateReports(k)
    BY LateCallback
  <2> HIDE DEF y
  <2> QED
    BY <2>1 DEF Fits, Shape, y
<1> HIDE DEF P, b
<1>4. e \in P
  BY <1>1, <1>2, <1>3, DeliverKeeps DEF b
<1> QED
  BY <1>4 DEF P

(* What is late stays late, and every step of it is one of the contract.   *)
LateGoes(k, p) == Goes(k, p) /\ p.late

(* What is asked for of a late connection, and what it reports then.       *)
LEMMA LateAsked ==
    ASSUME NEW k \in Contract!Promises, k.late, NEW x \in Contract!Asks(k),
           NEW p \in LateReports(x)
    PROVE  LateGoes(k, p)
<1>1. x \in Contract!Promises /\ x.late
  BY AsksIs
<1>2. p \in Contract!Reports(x) /\ p.late
  BY <1>1, LateReported, LateStays
<1> QED
  BY <1>2, GoesOne DEF LateGoes

(* It may report nothing.                                                  *)
LEMMA LateSame ==
    ASSUME NEW k
    PROVE  k \in LateReports(k)
BY DEF LateReports

(* The connection as it is found, and late. *)
MetLate == /\ scenario \in ScenarioRecords /\ Fits(c, scenario) /\ budget \in 0..MaxEvents
           /\ c.promise.late

(* A connection whose promise is late: no step makes it later.             *)
LEMMA LateMet ==
    ASSUME MetLate
    PROVE  /\ c.promise \in Contract!Promises /\ c.promise.late /\ Shape(c, scenario)
           /\ LateOf(c.promise) = c.promise
           /\ \A condition : Cut(c.promise, condition) = c.promise
<1>1. c.promise \in Contract!Promises /\ c.promise.late /\ Shape(c, scenario)
  BY DEF MetLate, Fits, Shape, Connections
<1> QED
  BY <1>1, LateIs, CutIs

(* A step of a transport of a late connection.                             *)
LEMMA LateActed ==
    ASSUME MetLate, NEW i \in DOMAIN c.transports, c.transports[i] # Absent, NEW step,
           StepOk(step, scenario.transports[i], c.contextId),
           c' = Deliver(c, scenario, i, step)
    PROVE  LateGoes(c.promise, c'.promise)
<1>1. c.promise \in Contract!Promises /\ c.promise.late
  BY LateMet
<1>2. c'.promise \in LateReports(c.promise)
  BY <1>1, LateDelivers DEF MetLate
<1> QED
  BY <1>1, <1>2, LateAsked, Itself

(* The same for the actions of the transports.                             *)
LEMMA LateActs ==
    ASSUME MetLate, NEW i \in DOMAIN c.transports,
           WebsocketActs(i) \/ CoreActs(i) \/ LibraryActs(i)
    PROVE  LateGoes(c.promise, c'.promise) /\ scenario' = scenario
<1>1. scenario \in ScenarioRecords /\ Fits(c, scenario) /\ budget \in 0..MaxEvents
  BY DEF MetLate
<1>2. CASE WebsocketActs(i)
  BY <1>1, <1>2, WsActsOk, LateActed DEF Acted
<1>3. CASE LibraryActs(i)
  BY <1>1, <1>3, LibraryActsOk, LateActed DEF Acted
<1>4. CASE CoreActs(i)
  <2> DEFINE t == c.transports[i]
             d == Overtake(c, t.isDisconnecting)
  <2>1. t # Absent /\ CoreActed(i)
    BY <1>1, <1>4, CoreActsOk
  <2>2. scenario' = scenario
    BY <2>1 DEF CoreActed, Frame
  <2>3. PICK step : /\ StepOk(step, scenario.transports[i], c.contextId)
                    /\ \/ c' = Deliver(c, scenario, i, step)
                       \/ c' = Deliver(d, scenario, i, step)
    BY <2>1 DEF CoreActed
  <2>4. CASE c' = Deliver(c, scenario, i, step)
    BY <2>1, <2>2, <2>3, <2>4, LateActed
  <2>5. CASE c' = Deliver(d, scenario, i, step)
    <3>1. d = c
      <4>1. c.promise.late = TRUE /\ c \in Connections /\ c.promise \in Contract!Promises
        BY <1>1, LateMet DEF Shape, Contract!Promises
      <4>2. [c EXCEPT !.promise.late = TRUE] = c
        BY <4>1 DEF Connections, Contract!Promises
      <4> QED
        BY <4>2 DEF Overtake
    <3> QED
      BY <2>1, <2>2, <2>3, <2>5, <3>1, LateActed
  <2> QED
    BY <2>3, <2>4, <2>5
<1> QED
  BY <1>2, <1>3, <1>4

(* And for those of the user.                                              *)
LEMMA LateUser ==
    ASSUME MetLate, User
    PROVE  LateGoes(c.promise, c'.promise) /\ scenario' = scenario
<1> DEFINE k == c.promise
<1>1. scenario \in ScenarioRecords /\ Fits(c, scenario) /\ budget \in 0..MaxEvents
  BY DEF MetLate
<1>2. /\ k \in Contract!Promises /\ k.late
      /\ \A condition : Cut(k, condition) = k
  BY LateMet
<1> HIDE DEF k
<1>3. CASE UserStarts
  <2> DEFINE x == Contract!Start(k)
  <2>1. scenario' = scenario
    BY <1>1, <1>3, UserStartsOk DEF Frame
  <2>2. /\ Fits(Begun, scenario) /\ Begun.promise = x
        /\ c' = Deliver(Begun, scenario, c.tranportIndex, Start(Current(Begun)))
        /\ StepOk(Start(Current(Begun)), scenario.transports[c.tranportIndex], Begun.contextId)
        /\ c.tranportIndex \in DOMAIN Begun.transports
        /\ Begun.transports[c.tranportIndex] # Absent
    <3>1. Begun.promise = Contract!Start(Cut(k, StartsAgain))
      BY <1>1, <1>3, BegunOk DEF k
    <3>2. /\ Fits(Begun, scenario)
          /\ c' = Deliver(Begun, scenario, c.tranportIndex, Start(Current(Begun)))
          /\ StepOk(Start(Current(Begun)), scenario.transports[c.tranportIndex], Begun.contextId)
          /\ c.tranportIndex \in DOMAIN Begun.transports
          /\ Begun.tranportIndex = c.tranportIndex
          /\ Current(Begun) # Absent
      BY <1>1, <1>3, BegunOk
    <3> QED
      BY <1>2, <3>1, <3>2 DEF Current
  <2>3. x \in Contract!Asks(k)
    <3>1. CASE StartsAgain
      <4>1. k.asked = "started"
        BY <3>1 DEF StartsAgain, k
      <4>2. x = k
        BY <1>2, <4>1 DEF Contract!Start, Contract!Promises
      <4> QED
        BY <4>2, Itself
    <3>2. CASE ~StartsAgain
      <4>1. k.asked # "started" /\ k.told \in {"none", "DISCONNECTED", "exhausted"}
        BY <1>3, <3>2 DEF StartsAgain, UserStarts, Down, k
      <4>2. k.asked # "disposed"
        BY <1>1, <1>3 DEF UserStarts, Fits, Standing, StateOf, k
      <4>3. Contract!MayStart(k)
        BY <1>2, <4>1, <4>2 DEF Contract!MayStart, Contract!Promises, Contract!Asked
      <4> QED
        BY <4>3 DEF Contract!Asks
    <3> QED
      BY <3>1, <3>2
  <2>4. x \in Contract!Promises /\ x.late
    BY <1>2, <2>3, AsksIs
  <2> HIDE DEF x
  <2>5. c'.promise \in LateReports(x)
    BY <1>1, <2>2, <2>4, LateDelivers
  <2> QED
    BY <1>2, <2>1, <2>3, <2>5, LateAsked DEF k
<1>4. CASE UserStops
  <2> DEFINE x == Contract!Stop(k)
             step == Stop(Current(c))
  <2>1. scenario' = scenario
    BY <1>1, <1>4, UserStopsOk DEF Frame
  <2>2. Stopped.promise = x
    <3>1. Stopped.promise = Contract!Stop(Cut(k, Lingers(step.t)))
      BY <1>1, <1>4, StoppedOk DEF k
    <3> QED
      BY <1>2, <3>1
  <2>3. /\ Fits(Stopped, scenario)
        /\ c' = Deliver(Stopped, scenario, c.tranportIndex, step)
        /\ StepOk(step, scenario.transports[c.tranportIndex], Stopped.contextId)
        /\ c.tranportIndex \in DOMAIN Stopped.transports
        /\ Stopped.transports[c.tranportIndex] # Absent
    <3>1. /\ Fits(Stopped, scenario) /\ Stopped.transports = c.transports
          /\ c' = Deliver(Stopped, scenario, c.tranportIndex, step)
          /\ StepOk(step, scenario.transports[c.tranportIndex], c.contextId)
          /\ Stopped.contextId = c.contextId
          /\ c.tranportIndex \in DOMAIN c.transports
          /\ Current(c) # Absent
      BY <1>1, <1>4, StoppedOk
    <3> QED
      BY <3>1 DEF Current
  <2>4. x \in Contract!Asks(k) /\ x \in Contract!Promises /\ x.late
    <3>1. x \in Contract!Asks(k)
      BY DEF Contract!Asks
    <3> QED
      BY <1>2, <3>1, AsksIs
  <2> HIDE DEF x, step
  <2>5. c'.promise \in LateReports(x)
    BY <1>1, <2>2, <2>3, <2>4, LateDelivers
  <2> QED
    BY <1>2, <2>1, <2>4, <2>5, LateAsked DEF k
<1>5. CASE UserDisposes
  <2> DEFINE x == Contract!Dispose(k)
  <2>1. scenario' = scenario /\ c'.promise = Contract!Dispose(Cut(k, StartsAgain))
    BY <1>1, <1>5, UserDisposesOk DEF Frame, k
  <2>2. c'.promise = x /\ x \in Contract!Asks(k)
    BY <1>2, <2>1 DEF Contract!Asks
  <2> QED
    BY <1>2, <2>1, <2>2, LateAsked, LateSame DEF k
<1>6. CASE UserGetsToken
  <2>1. scenario' = scenario /\ c'.promise = k
    BY <1>1, <1>6, UserGetsTokenOk DEF Frame, k
  <2> QED
    BY <1>2, <2>1, LateAsked, LateSame, Itself DEF k
<1>7. CASE \E what \in {"orphan", "networkError"} : UserReports(what)
  <2>1. /\ c.tranportIndex \in DOMAIN c.transports
        /\ c.transports[c.tranportIndex] # Absent /\ Acted(c.tranportIndex)
    BY <1>1, <1>7, UserReportsOk DEF Current
  <2> QED
    BY <2>1, LateActed DEF Acted
<1> QED
  BY <1>3, <1>4, <1>5, <1>6, <1>7 DEF User

-----------------------------------------------------------------------------
(***************************************************************************)
(* 7. The agreement is kept                                                *)
(***************************************************************************)
(* The inductive invariant: unless the promise is late, what the           *)
(* transports hold agrees with what was asked for and told.                *)
Agreement == Inv /\ (~c.promise.late => Agrees(c, scenario, authorized))

(* A new connection agrees.                                                *)
LEMMA InitAgreement ==
    ASSUME Init
    PROVE  Agreement /\ Contract!Init
<1>1. Inv /\ scenario \in ScenarioRecords
  BY InitInv, ScenariosAssumption DEF Init
<1>2. IsNew(c, scenario)
  BY <1>1, NewConnectionOk DEF Init
<1>3. Contract!Init
  BY <1>2 DEF IsNew, Contract!Init
<1>4. Contract!NewPromise \in Contract!Promises /\ "exhausted" \in Contract!States
  BY DEF Contract!NewPromise, Contract!Promises, Contract!Asked, Contract!States
<1>5. c.promise.asked = "created" /\ c.promise \in Contract!Promises
  <2>1. Contract!NewPromise.asked = "created"
    BY DEF Contract!NewPromise
  <2> QED
    BY <1>2, <1>4, <2>1, TellIs DEF IsNew
<1>6. c.promise.told = IF HasTransport(c) THEN "none" ELSE "exhausted"
  <2>1. Contract!NewPromise.told = "none"
    BY DEF Contract!NewPromise
  <2> QED
    BY <1>2, <1>4, <2>1, TellIs DEF IsNew
<1>7. AllLeft(c)
  <2>1. c.tranportIndex \in Nat /\ DOMAIN c.transports \subseteq Nat
    BY <1>1 DEF Inv, Fits, Shape, Connections
  <2>2. ASSUME NEW i \in DOMAIN c.transports, i < c.tranportIndex
        PROVE  Left(c.transports[i])
    <3>1. i # c.tranportIndex
      BY <2>1, <2>2
    <3> QED
      BY <1>2, <3>1 DEF IsNew, Left
  <2> QED
    BY <2>2 DEF AllLeft
<1>8. Says(c)
  BY <1>5, <1>6 DEF Says
<1>9. HasTransport(c) => TransportAgrees(Current(c), c, scenario, authorized)
  BY <1>1, <1>2, <1>5, NewAgrees DEF IsNew
<1> QED
  BY <1>1, <1>3, <1>7, <1>8, <1>9 DEF Agreement, Agrees

(* A transport acts by itself. *)
LEMMA ActsAgreement ==
    ASSUME Met, NEW i \in DOMAIN c.transports,
           WebsocketActs(i) \/ CoreActs(i) \/ LibraryActs(i)
    PROVE  Lands(c.promise, c', scenario, authorized') /\ scenario' = scenario
<1>1. scenario \in ScenarioRecords /\ Fits(c, scenario) /\ budget \in 0..MaxEvents
  BY DEF Met
<1>2. scenario' = scenario
  <2>1. WebsocketActs(i) => scenario' = scenario
    BY <1>1, WsActsOk DEF Acted
  <2>2. CoreActs(i) => scenario' = scenario
    BY <1>1, CoreActsOk DEF CoreActed, Frame
  <2>3. LibraryActs(i) => scenario' = scenario
    BY <1>1, LibraryActsOk DEF Acted
  <2> QED
    BY <2>1, <2>2, <2>3
<1>3. CASE i # c.tranportIndex
  BY <1>2, <1>3, LeftActsLand
<1>4. CASE i = c.tranportIndex
  <2>1. HasTransport(c)
    <3>1. c.transports \in Seq({Absent} \cup Ws!Transports \cup Core!Transports
                               \cup Signalr!Transports)
      BY <1>1 DEF Fits, Shape, Connections
    <3> QED
      BY <1>4, <3>1 DEF HasTransport
  <2> QED
    BY <1>2, <1>4, <2>1, WsActsLand, CoreActsLand, LibraryActsLand
<1> QED
  BY <1>3, <1>4

(* The user acts.                                                          *)
LEMMA UserAgreement ==
    ASSUME Met, User
    PROVE  /\ Lands(c.promise, c', scenario, authorized)
           /\ scenario' = scenario /\ authorized' = authorized
<1>1. scenario \in ScenarioRecords /\ Fits(c, scenario) /\ budget \in 0..MaxEvents
  BY DEF Met
<1>2. CASE UserStarts
  <2>1. scenario' = scenario /\ authorized' = authorized
    BY <1>1, <1>2, UserStartsOk DEF Frame
  <2> QED
    BY <1>2, <2>1, UserStartsLand, StartsAgainLand
<1>3. CASE UserStops
  <2>1. scenario' = scenario /\ authorized' = authorized
    BY <1>1, <1>3, UserStopsOk DEF Frame
  <2> QED
    BY <1>3, <2>1, UserStopsLand
<1>4. CASE UserDisposes
  <2>1. scenario' = scenario /\ authorized' = authorized
    BY <1>1, <1>4, UserDisposesOk DEF Frame
  <2> QED
    BY <1>4, <2>1, UserDisposesLand
<1>5. CASE UserGetsToken
  <2>1. scenario' = scenario /\ authorized' = authorized
    BY <1>1, <1>5, UserGetsTokenOk DEF Frame
  <2> QED
    BY <1>5, <2>1, UserGetsTokenLand
<1>6. CASE \E what \in {"orphan", "networkError"} : UserReports(what)
  <2>1. PICK what \in {"orphan", "networkError"} : UserReports(what)
    BY <1>6
  <2>2. scenario' = scenario /\ authorized' = authorized
    BY <2>1 DEF UserReports, Event
  <2> QED
    BY <2>1, <2>2, UserReportsLand
<1> QED
  BY <1>2, <1>3, <1>4, <1>5, <1>6 DEF User

(* Every step keeps the agreement, and is one of the contract or leaves    *)
(* the promise.                                                            *)
LEMMA NextAgreement ==
    ASSUME Agreement, [Next]_vars
    PROVE  /\ Agreement'
           /\ c'.promise = c.promise \/ Contract!Next
<1>1. Inv'
  BY NextInv DEF Agreement
<1>2. scenario \in ScenarioRecords /\ Fits(c, scenario) /\ budget \in 0..MaxEvents
  BY ScenariosAssumption DEF Agreement, Inv
<1>3. CASE UNCHANGED vars
  BY <1>1, <1>3 DEF vars, Agreement
<1>4. ASSUME Next, c.promise.late
      PROVE  /\ Agreement'
             /\ c'.promise = c.promise \/ Contract!Next
  <2>1. MetLate
    BY <1>2, <1>4 DEF MetLate
  <2>2. LateGoes(c.promise, c'.promise)
    BY <1>4, <2>1, LateUser, LateActs DEF Next
  <2> QED
    BY <1>1, <2>2, GoesNext DEF LateGoes, Agreement
<1>5. ASSUME Next, ~c.promise.late
      PROVE  /\ Agreement'
             /\ c'.promise = c.promise \/ Contract!Next
  <2>1. Met
    BY <1>2, <1>5 DEF Met, Agreement
  <2>2. Lands(c.promise, c', scenario', authorized')
    <3>1. CASE User
      BY <2>1, <3>1, UserAgreement
    <3>2. CASE ~User
      <4>1. PICK i \in DOMAIN c.transports :
               WebsocketActs(i) \/ CoreActs(i) \/ LibraryActs(i)
        BY <1>5, <3>2 DEF Next
      <4> QED
        BY <2>1, <4>1, ActsAgreement
    <3> QED
      BY <3>1, <3>2
  <2> QED
    BY <1>1, <2>2, GoesNext DEF Lands, Agreement
<1> QED
  BY <1>3, <1>4, <1>5

(* However the transports fail, reconnect and replace each other, what the *)
(* connection reports is what ConnectionContract promises.                 *)
THEOREM ContractIsKept == Spec => ImplementsContract
<1>1. Init => Agreement /\ Contract!Init
  BY InitAgreement
<1>2. Agreement /\ [Next]_vars => Agreement' /\ [Contract!Next]_(c.promise)
  BY NextAgreement
<1> QED
  BY <1>1, <1>2, PTL DEF Spec, ImplementsContract, Contract!Spec

(***************************************************************************)
(* 8. What follows of it                                                   *)
(***************************************************************************)
LEMMA AgreementHolds == Spec => []Agreement
<1>1. Init => Agreement
  BY InitAgreement
<1>2. Agreement /\ [Next]_vars => Agreement'
  BY NextAgreement
<1> QED
  BY <1>1, <1>2, PTL DEF Spec

(* Of a transport that is not the current one nothing is left. *)
LEMMA OthersAreLeft ==
    ASSUME Agreement, ~c.promise.late, NEW i \in DOMAIN c.transports, i # c.tranportIndex
    PROVE  Left(c.transports[i])
<1>1. Shape(c, scenario) /\ AllLeft(c)
  BY DEF Agreement, Inv, Fits, Agrees
<1>2. c.tranportIndex \in Nat /\ DOMAIN c.transports \subseteq Nat
  BY <1>1 DEF Shape, Connections
<1>3. i < c.tranportIndex \/ i > c.tranportIndex
  BY <1>2
<1>4. i > c.tranportIndex => c.transports[i] = Absent
  BY <1>1 DEF Shape
<1> QED
  BY <1>1, <1>3, <1>4 DEF AllLeft, Left

(* It holds no link then.                                                  *)
LEMMA LeftUnlinked ==
    ASSUME NEW t, Left(t)
    PROVE  Links(t) = 0
<1>1. Ws!Kind # Core!Kind /\ Ws!Kind # Signalr!Kind /\ Core!Kind # Signalr!Kind
      /\ Absent.kind \notin {Ws!Kind, Core!Kind, Signalr!Kind}
  BY AbsentKind DEF Kinds, Ws!Kind, Core!Kind, Signalr!Kind
<1>2. CASE t = Absent
  BY <1>1, <1>2 DEF Links, Is
<1>3. CASE /\ Is(t, Ws!Kind)
           /\ t.socket = Ws!NoSocket /\ t.leaked = <<>>
  <2>1. ~Ws!IsLive(t.socket)
    BY <1>3 DEF Ws!IsLive, Ws!NoSocket
  <2>2. Ws!LiveSockets(t) = <<>>
    BY <1>3, <2>1 DEF Ws!LiveSockets
  <2>3. Links(t) = Len(Ws!LiveSockets(t))
    BY <1>1, <1>3 DEF Links, Is
  <2> QED
    BY <2>2, <2>3
<1>4. CASE Is(t, Core!Kind) /\ t.hub \in {"none", "failed"}
  BY <1>1, <1>4 DEF Links, Is
<1> QED
  BY <1>2, <1>3, <1>4 DEF Left

(* The current transport. *)
LEMMA CurrentAgrees ==
    ASSUME Agreement, ~c.promise.late
    PROVE  /\ Says(c) /\ scenario \in ScenarioRecords
           /\ HasTransport(c) =>
                 LET t == Current(c)
                 IN  /\ c.tranportIndex \in DOMAIN c.transports
                     /\ Stands(t, c, scenario, authorized)
                     /\ TransportAgrees(t, c, scenario, authorized)
                     /\ t.kind \in Kinds
                     /\ t.kind = Ws!Kind => WsOk(t, c.contextId)
                     /\ t.kind = Core!Kind => CoreOk(t)
                     /\ t.kind = Signalr!Kind => SignalrOk(t)
<1>1. Met /\ scenario \in ScenarioRecords /\ Fits(c, scenario)
  BY ScenariosAssumption DEF Met, Agreement, Inv
<1>2. Says(c) /\ (HasTransport(c) => Stands(Current(c), c, scenario, authorized))
  BY <1>1, MetStands
<1>3. HasTransport(c) => /\ c.tranportIndex \in DOMAIN c.transports
                         /\ Ok(Current(c), scenario.transports[c.tranportIndex], c.contextId)
  BY <1>1, CurrentOk DEF Fits
<1> QED
  BY <1>1, <1>2, <1>3, KindOf DEF Stands

(* Only the current transport has a link, and one.                         *)
LEMMA OneLinkAt ==
    ASSUME Agreement, ~c.promise.late, NEW i \in Linked
    PROVE  /\ i = c.tranportIndex /\ HasTransport(c) /\ Links(c.transports[i]) = 1
<1>1. i \in DOMAIN c.transports /\ Links(c.transports[i]) > 0
  BY DEF Linked
<1>2. i = c.tranportIndex
  <2>1. ASSUME i # c.tranportIndex PROVE FALSE
    <3>1. Links(c.transports[i]) = 0
      BY <1>1, <2>1, OthersAreLeft, LeftUnlinked
    <3> QED
      BY <1>1, <3>1
  <2> QED
    BY <2>1
<1>3. HasTransport(c)
  <2>1. c.transports \in Seq({Absent} \cup Ws!Transports \cup Core!Transports
                             \cup Signalr!Transports)
    BY DEF Agreement, Inv, Fits, Shape, Connections
  <2> QED
    BY <1>1, <1>2, <2>1 DEF HasTransport
<1> DEFINE t == c.transports[i]
<1>4. /\ Stands(t, c, scenario, authorized) /\ t.kind \in Kinds
      /\ t.kind = Ws!Kind => WsOk(t, c.contextId)
  BY <1>2, <1>3, CurrentAgrees DEF Current
<1>5. Ws!Kind # Core!Kind /\ Ws!Kind # Signalr!Kind /\ Core!Kind # Signalr!Kind
  BY DEF Ws!Kind, Core!Kind, Signalr!Kind
<1> HIDE DEF t
<1>6. CASE t.kind = Ws!Kind
  <2>1. t.leaked = <<>>
    BY <1>4, <1>6, WsStands
  <2>2. Links(t) = Len(Ws!LiveSockets(t))
    BY <1>5, <1>6 DEF Links, Is
  <2>3. Len(Ws!LiveSockets(t)) \in {0, 1}
    <3>1. CASE Ws!IsLive(t.socket)
      <4> DEFINE x == t.socket
      <4>1. Ws!LiveSockets(t) = <<x>> \o <<>>
        BY <2>1, <3>1 DEF Ws!LiveSockets
      <4> HIDE DEF x
      <4>2. <<x>> \o <<>> = <<x>>
        OBVIOUS
      <4> QED
        BY <4>1, <4>2
    <3>2. CASE ~Ws!IsLive(t.socket)
      BY <2>1, <3>2 DEF Ws!LiveSockets
    <3> QED
      BY <3>1, <3>2
  <2> QED
    BY <1>1, <1>2, <1>3, <2>2, <2>3 DEF t
<1>7. CASE t.kind = Core!Kind
  <2>1. Links(t) \in {0, 1}
    BY <1>5, <1>7 DEF Links, Is
  <2> QED
    BY <1>1, <1>2, <1>3, <2>1 DEF t
<1>8. CASE t.kind = Signalr!Kind
  <2>1. Links(t) \in {0, 1}
    BY <1>5, <1>8 DEF Links, Is
  <2> QED
    BY <1>1, <1>2, <1>3, <2>1 DEF t
<1> QED
  BY <1>4, <1>6, <1>7, <1>8 DEF Kinds

(* No two links to the server at once, whatever is replaced or started     *)
(* over (websocket-transport.js:57, connection.js:73).                     *)
THEOREM AtMostOneLink == Spec => []OneLink
<1>1. Agreement => OneLink
  BY OneLinkAt DEF OneLink
<1> QED
  BY <1>1, AgreementHolds, PTL

(* A socket being opened names the context and the last message            *)
(* (websocket-transport.js:498).                                           *)
THEOREM ResumesWhereItWas == Spec => []Resumes
<1>1. ASSUME Agreement, NEW i \in DOMAIN c.transports, Is(c.transports[i], Ws!Kind),
             c.transports[i].socket.phase = "opening", ~c.promise.late
      PROVE  LET query == c.transports[i].socket.query
             IN  /\ query.context = c.contextId
                 /\ query.message = c.transports[i].lastMessageId
                 /\ Without({"Token", "TokenDown"}) => query.context \in authorized
  <2> DEFINE t == c.transports[i]
  <2>1. i = c.tranportIndex
    <3>1. ASSUME i # c.tranportIndex PROVE FALSE
      <4>1. Left(t)
        BY <1>1, <3>1, OthersAreLeft
      <4>2. t.socket = Ws!NoSocket
        BY <1>1, <4>1, AbsentKind DEF Left, Is, Kinds, Ws!Kind, Core!Kind
      <4> QED
        BY <1>1, <4>2 DEF Ws!NoSocket
    <3> QED
      BY <3>1
  <2>2. HasTransport(c)
    <3>1. c.transports \in Seq({Absent} \cup Ws!Transports \cup Core!Transports
                               \cup Signalr!Transports)
      BY <1>1 DEF Agreement, Inv, Fits, Shape, Connections
    <3> QED
      BY <1>1, <2>1, <3>1 DEF HasTransport
  <2>3. Stands(t, c, scenario, authorized) /\ WsOk(t, c.contextId)
    BY <1>1, <2>1, <2>2, CurrentAgrees DEF Current, Is
  <2>4. t.socket.phase = "opening" /\ t.socket # Ws!NoSocket
    BY <1>1 DEF Ws!NoSocket
  <2> HIDE DEF t
  <2>5. Opening(t, c) /\ Made(t, c, scenario, authorized)
    BY <2>3, <2>4, WsStands
  <2>6. /\ t.socket.query.context = c.contextId
        /\ t.socket.query.message = t.lastMessageId
        /\ Tokens(scenario) \/ c.contextId \in authorized
    BY <2>5 DEF Opening, Made
  <2>7. Without({"Token", "TokenDown"}) => ~Tokens(scenario)
    BY DEF Without, Tokens
  <2> QED
    BY <2>6, <2>7 DEF t
<1>2. Agreement => Resumes
  BY <1>1 DEF Resumes
<1> QED
  BY <1>2, AgreementHolds, PTL

(* A websocket nothing of which is under way. *)
LEMMA WsSettled ==
    ASSUME NEW t, NEW d, NEW s, NEW A, t.kind = Ws!Kind, WsAgrees(t, d, s, A), ~Pending(t)
    PROVE  /\ d.promise.asked # "started" => Links(t) = 0
           /\ d.promise.asked = "started" /\ ~d.rejected =>
                 t.startLost \/ (d.promise.told = "CONNECTED" /\ Delivers(t))
<1>1. Ws!Kind # Core!Kind /\ Ws!Kind # Signalr!Kind /\ Core!Kind # Signalr!Kind
  BY DEF Ws!Kind, Core!Kind, Signalr!Kind
<1>2. /\ Links(t) = Len(Ws!LiveSockets(t))
      /\ Delivers(t) <=> t.socket.phase = "open"
      /\ Pending(t) <=> Ws!Pending(t)
  BY <1>1 DEF Links, Delivers, Pending, Is
<1>3. t.authorizing = <<>> /\ ~t.reconnectTimeout /\ t.socket.phase # "opening"
  BY <1>2 DEF Ws!Pending
<1>4. NoStart(t) /\ ~Renews(t)
  BY <1>3 DEF NoStart, Renews
<1>5. CASE Idle(t, d, s)
  <2>1. t.socket = Ws!NoSocket /\ t.leaked = <<>>
    BY <1>5 DEF Idle, Fresh, WsAgrees, Authorizings
  <2>2. ~Ws!IsLive(t.socket)
    BY <2>1 DEF Ws!IsLive, Ws!NoSocket
  <2>3. Ws!LiveSockets(t) = <<>>
    BY <2>1, <2>2 DEF Ws!LiveSockets
  <2>4. d.promise.asked = "started" => t.startLost
    BY <1>5 DEF Idle
  <2> QED
    BY <1>2, <2>3, <2>4
<1>6. ~Starting(t, d, s)
  BY <1>4 DEF Starting, NoStart
<1>7. CASE Wanted(t, d) /\ Linking(t, d)
  <2>1. d.promise.asked = "started"
    BY <1>7 DEF Wanted
  <2>2. Open(t, d)
    BY <1>3, <1>7 DEF Linking, Opening, Waiting
  <2>3. ~d.rejected => d.promise.told = "CONNECTED" /\ t.socket.phase = "open"
    BY <1>4, <2>2 DEF Open
  <2> QED
    BY <1>2, <2>1, <2>3
<1> QED
  BY <1>5, <1>6, <1>7 DEF WsAgrees

(* A SignalR Core hub nothing of which is under way. *)
LEMMA CoreSettled ==
    ASSUME NEW t, NEW d, NEW s, t.kind = Core!Kind, CoreAgrees(t, d, s), CoreOk(t), ~Pending(t)
    PROVE  /\ d.promise.asked # "started" => Links(t) = 0 /\ t.hub = "none"
           /\ d.promise.asked = "started" /\ "StreamEnds" \notin s.events =>
                 d.promise.told = "CONNECTED" /\ Delivers(t)
<1>1. Ws!Kind # Core!Kind /\ Ws!Kind # Signalr!Kind /\ Core!Kind # Signalr!Kind
  BY DEF Ws!Kind, Core!Kind, Signalr!Kind
<1>2. /\ Links(t) = IF t.hub \in {"none", "failed"} THEN 0 ELSE 1
      /\ Delivers(t) <=> t.hub = "connected" /\ t.streaming
      /\ Pending(t) <=> Core!Pending(t)
  BY <1>1 DEF Links, Delivers, Pending, Is
<1>3. t.hub \in {"none", "connecting", "connected", "reconnecting", "disconnecting", "failed"}
  BY DEF CoreOk, Core!Transports, Core!Hubs
<1>4. /\ t.hub \notin {"connecting", "reconnecting", "disconnecting"}
      /\ t.hub = "connected" => ~(t.cancels + t.closes > 0)
  BY <1>2 DEF Core!Pending
<1>5. t.hub = "none" \/ (t.hub = "connected" /\ ~t.isDisconnecting)
  BY <1>3, <1>4 DEF CoreAgrees
<1>6. CASE t.hub = "none"
  <2>1. d.promise.asked # "started"
    BY <1>6 DEF CoreAgrees
  <2> QED
    BY <1>2, <1>6, <2>1
<1>7. CASE t.hub = "connected" /\ ~t.isDisconnecting
  <2>1. d.promise.asked = "started"
    BY <1>7 DEF CoreAgrees
  <2>2. d.promise.told = "CONNECTED"
    BY <1>7 DEF CoreAgrees
  <2>3. t.streaming \/ "StreamEnds" \in s.events
    BY <1>7 DEF CoreAgrees
  <2> QED
    BY <1>2, <1>7, <2>1, <2>2, <2>3
<1> QED
  BY <1>5, <1>6, <1>7

(* A connection of the library nothing of which is under way. *)
LEMMA LibrarySettled ==
    ASSUME NEW t, NEW d, NEW s, t.kind = Signalr!Kind, LibraryAgrees(t.connection, d, s),
           SignalrOk(t), ~Pending(t)
    PROVE  /\ d.promise.asked # "started" => Links(t) = 0
           /\ d.promise.asked = "started" /\ "ProtocolMismatch" \notin s.events =>
                 d.promise.told = "CONNECTED" /\ Delivers(t)
<1> DEFINE l == t.connection
<1>1. Ws!Kind # Core!Kind /\ Ws!Kind # Signalr!Kind /\ Core!Kind # Signalr!Kind
  BY DEF Ws!Kind, Core!Kind, Signalr!Kind
<1>2. /\ Links(t) = IF l.state = "disconnected" /\ l.socket = "none" THEN 0 ELSE 1
      /\ Delivers(t) <=> l.state = "connected"
      /\ Pending(t) <=> Library!Pending(l)
  <2>1. Links(t) = IF l.state = "disconnected" /\ l.socket = "none" THEN 0 ELSE 1
    BY <1>1 DEF Links, Is
  <2>2. Delivers(t) <=> l.state = "connected"
    BY <1>1 DEF Delivers, Is
  <2>3. Pending(t) <=> Signalr!Pending(t)
    BY <1>1 DEF Pending, Is
  <2>4. Signalr!Pending(t) <=> Library!Pending(l)
    BY DEF Signalr!Pending, Signalr!Library!Pending, Library!Pending,
           Signalr!Library!Initializing, Library!Initializing
  <2> QED
    BY <2>1, <2>2, <2>3, <2>4
<1>3. LibraryOk(l) /\ LibraryAgrees(l, d, s)
  BY DEF SignalrOk
<1> HIDE DEF l
<1>4. l.state \in {"connecting", "connected", "reconnecting", "disconnected"}
  BY <1>3 DEF LibraryOk, Library!Connections, Library!connectionStates
<1>5. /\ l.state # "reconnecting"
      /\ l.state = "connecting" => ~l.negotiating /\ l.transport = 0
  BY <1>2 DEF Library!Pending, Library!Initializing
<1>6. CASE l.state = "disconnected"
  <2>1. l.socket = "none"
    BY <1>3, <1>6 DEF LibraryOk, Library!New
  <2>2. d.promise.asked # "started"
    BY <1>3, <1>6 DEF LibraryAgrees
  <2> QED
    BY <1>2, <1>6, <2>1, <2>2
<1>7. CASE l.state = "connecting"
  <2>1. d.promise.asked = "started" /\ "ProtocolMismatch" \in s.events
    BY <1>3, <1>5, <1>7 DEF LibraryAgrees
  <2> QED
    BY <2>1
<1>8. CASE l.state = "connected"
  <2>1. d.promise.asked = "started" /\ d.promise.told = Signalr!mapConnectionState("connected")
    BY <1>3, <1>8 DEF LibraryAgrees
  <2>2. Signalr!mapConnectionState("connected") = "CONNECTED"
    BY DEF Signalr!mapConnectionState
  <2> QED
    BY <1>2, <1>8, <2>1, <2>2
<1> QED
  BY <1>4, <1>5, <1>6, <1>7, <1>8

(* A stopped connection comes to rest without a link, and its user was     *)
(* told (connection.js:157).                                               *)
THEOREM StoppedForGood == Spec => []StoppedStaysDown
<1>1. ASSUME Agreement, Settled, c.promise.asked \in {"stopped", "disposed"}, ~c.promise.late
      PROVE  /\ Linked = {}
             /\ Without({"StopEarly", "BadMessage", "Renewal", "TokenDown"}) => Down
  <2> DEFINE t == Current(c)
             k == c.promise
             s == scenario
  <2>1. Says(c) /\ k.asked # "started"
    BY <1>1, CurrentAgrees
  <2>2. ASSUME HasTransport(c)
        PROVE  /\ Links(t) = 0
               /\ k.asked = "stopped" =>
                     k.told \in {"none", "DISCONNECTED"} \/ Excused(s)
    <3>1. /\ c.tranportIndex \in DOMAIN c.transports
          /\ Stands(t, c, s, authorized) /\ TransportAgrees(t, c, s, authorized)
          /\ t.kind \in Kinds
          /\ t.kind = Ws!Kind => WsOk(t, c.contextId)
          /\ t.kind = Core!Kind => CoreOk(t)
          /\ t.kind = Signalr!Kind => SignalrOk(t)
      BY <1>1, <2>2, CurrentAgrees
    <3>2. ~Pending(t)
      BY <1>1, <3>1 DEF Settled, Current
    <3>3. Rests(c, s) =>
             (k.asked = "stopped" => k.told \in {"none", "DISCONNECTED"} \/ Excused(s))
      BY DEF Rests
    <3> HIDE DEF t
    <3>4. CASE t.kind = Ws!Kind
      <4>1. WsAgrees(t, c, s, authorized) /\ Rests(c, s)
        BY <3>1, <3>4, AgreesOf
      <4> QED
        BY <2>1, <3>2, <3>3, <3>4, <4>1, WsSettled
    <3>5. CASE t.kind = Core!Kind
      <4>1. CoreAgrees(t, c, s) /\ (t.hub = "none" => Rests(c, s))
        BY <3>1, <3>5, AgreesOf
      <4>2. Links(t) = 0 /\ t.hub = "none"
        BY <2>1, <3>1, <3>2, <3>5, <4>1, CoreSettled
      <4> QED
        BY <3>3, <4>1, <4>2
    <3>6. CASE t.kind = Signalr!Kind
      <4>1. LibraryAgrees(t.connection, c, s) /\ Rests(c, s)
        BY <3>1, <3>6, AgreesOf
      <4>2. Links(t) = 0
        BY <2>1, <3>1, <3>2, <3>6, <4>1, LibrarySettled
      <4> QED
        BY <3>3, <4>1, <4>2
    <3> QED
      BY <3>1, <3>4, <3>5, <3>6 DEF Kinds
  <2>3. Linked = {}
    <3>1. ASSUME NEW i \in Linked PROVE FALSE
      <4>1. i = c.tranportIndex /\ HasTransport(c) /\ Links(c.transports[i]) = 1
        BY <1>1, <3>1, OneLinkAt
      <4>2. Links(t) = 1
        BY <4>1 DEF Current
      <4> QED
        BY <2>2, <4>1, <4>2
    <3> QED
      BY <3>1
  <2>4. Without({"StopEarly", "BadMessage", "Renewal", "TokenDown"}) => ~Excused(s)
    BY DEF Without, Excused
  <2>5. CASE k.asked = "disposed"
    BY <2>1, <2>3, <2>5 DEF Says, Down
  <2>6. CASE k.asked = "stopped"
    <3>1. ~HasTransport(c) => k.told = "exhausted"
      BY <2>1 DEF Says
    <3> QED
      BY <2>2, <2>3, <2>4, <2>6, <3>1 DEF Down
  <2> QED
    BY <1>1, <2>5, <2>6
<1>2. Agreement => StoppedStaysDown
  BY <1>1 DEF StoppedStaysDown
<1> QED
  BY <1>2, AgreementHolds, PTL

(* A started connection does not fall silent: when all is quiet the user   *)
(* was told CONNECTED last and the transport delivers, or a start was cut  *)
(* short (websocket-transport.js:425).                                     *)
THEOREM ToldWhenQuiet == Spec => []UserIsTold
<1>1. ASSUME Agreement, Settled, c.promise.asked = "started", ~c.promise.late,
             Without({"StreamEnds", "ProtocolMismatch"})
      PROVE  \/ Is(Current(c), Ws!Kind) /\ Current(c).startLost
             \/ c.promise.told = "CONNECTED" /\ Delivers(Current(c))
  <2> DEFINE t == Current(c)
             s == scenario
  <2>1. HasTransport(c)
    BY <1>1, CurrentAgrees DEF Says
  <2>2. /\ c.tranportIndex \in DOMAIN c.transports
        /\ TransportAgrees(t, c, s, authorized)
        /\ t.kind \in Kinds
        /\ t.kind = Ws!Kind => WsOk(t, c.contextId)
        /\ t.kind = Core!Kind => CoreOk(t)
        /\ t.kind = Signalr!Kind => SignalrOk(t)
    BY <1>1, <2>1, CurrentAgrees
  <2>3. ~Pending(t) /\ ~c.rejected
    BY <1>1, <2>2 DEF Settled, Current
  <2>4. "StreamEnds" \notin s.events /\ "ProtocolMismatch" \notin s.events
    BY <1>1 DEF Without
  <2> HIDE DEF t
  <2>5. CASE t.kind = Ws!Kind
    <3>1. WsAgrees(t, c, s, authorized)
      BY <2>2, <2>5, AgreesOf
    <3>2. t.startLost \/ (c.promise.told = "CONNECTED" /\ Delivers(t))
      BY <1>1, <2>3, <2>5, <3>1, WsSettled
    <3> QED
      BY <2>5, <3>2 DEF t, Is
  <2>6. CASE t.kind = Core!Kind
    <3>1. CoreAgrees(t, c, s)
      BY <2>2, <2>6, AgreesOf
    <3>2. c.promise.told = "CONNECTED" /\ Delivers(t)
      BY <1>1, <2>2, <2>3, <2>4, <2>6, <3>1, CoreSettled
    <3> QED
      BY <3>2 DEF t
  <2>7. CASE t.kind = Signalr!Kind
    <3>1. LibraryAgrees(t.connection, c, s)
      BY <2>2, <2>7, AgreesOf
    <3>2. c.promise.told = "CONNECTED" /\ Delivers(t)
      BY <1>1, <2>2, <2>3, <2>4, <2>7, <3>1, LibrarySettled
    <3> QED
      BY <3>2 DEF t
  <2> QED
    BY <2>2, <2>5, <2>6, <2>7 DEF Kinds
<1>2. Agreement => UserIsTold
  BY <1>1 DEF UserIsTold
<1> QED
  BY <1>2, AgreementHolds, PTL
=============================================================================
