------------------------- MODULE WebsocketTransport -------------------------
(***************************************************************************)
(* The plain websocket transport                                           *)
(* (src/openapi/streaming/connection/transport/websocket-transport.js).    *)
(* Each method and callback is an operator from the transport before it to *)
(* a step: the transport after it, and what it told its callbacks, in      *)
(* order.  Connection.tla composes the transports and gives them actions.  *)
(*                                                                         *)
(* A transport t is a record:                                              *)
(*   works    whether the browser makes a WebSocket, or throws             *)
(*   socket   this.socket: NoSocket for null, or its phase and the query   *)
(*       it was opened with                                                *)
(*   leaked   the live sockets that this.socket has been overwritten with  *)
(*       another for: their handlers are still bound                       *)
(*   hasBeenConnected, isReconnectPending, reconnectCount   as in the code *)
(*   reconnectTimeout   whether the timer runs                             *)
(*   lastMessageId      how many messages have been parsed; 0 for null     *)
(*   recent   which of a message, an orphan and a network error have been  *)
(*       seen in the last five seconds, the oldest first                   *)
(*   query, contextId, authToken   of the last updateQuery; 0 for null     *)
(*   authorizePromise   none, or how the last one stands                   *)
(*   authorizing   the authorisations in flight: what for, how many calls  *)
(*       of start and whether an updateQuery wait for it, and whether it   *)
(*       is the authorizePromise                                           *)
(*   startLost   nobody has been told that the authorisation a start       *)
(*       waited for has failed                                             *)
(***************************************************************************)
EXTENDS Integers, Sequences, SequencesExt

CONSTANT DEFAULT_RECONNECT_LIMIT

Kind == "websocket"

Queries == [context : Nat, token : Nat, message : Nat]
NoQuery == [context |-> 0, token |-> 0, message |-> 0]

Sockets == [phase : {"opening", "open", "closed"}, query : Queries]
NoSocket == [phase |-> "none", query |-> NoQuery]

Authorizations == [contextId : Nat, authToken : Nat, starts : Nat,
                   renews : BOOLEAN, current : BOOLEAN]

Events == {"message", "orphan", "networkError"}

Transports ==
    [kind : {Kind},
     works : BOOLEAN,
     socket : Sockets \cup {NoSocket},
     leaked : Seq(Sockets),
     hasBeenConnected : BOOLEAN,
     isReconnectPending : BOOLEAN,
     reconnectTimeout : BOOLEAN,
     reconnectCount : 0..DEFAULT_RECONNECT_LIMIT,
     lastMessageId : Nat,
     recent : Seq(Events),
     query : Queries,
     contextId : Nat,
     authToken : Nat,
     authorizePromise : {"none", "pending", "resolved", "rejected"},
     authorizing : Seq(Authorizations),
     startLost : BOOLEAN]

New(works) ==
    [kind |-> Kind,
     works |-> works,
     socket |-> NoSocket,
     leaked |-> <<>>,
     hasBeenConnected |-> FALSE,
     isReconnectPending |-> FALSE,
     reconnectTimeout |-> FALSE,
     reconnectCount |-> 0,
     lastMessageId |-> 0,
     recent |-> <<>>,
     query |-> NoQuery,
     contextId |-> 0,
     authToken |-> 0,
     authorizePromise |-> "none",
     authorizing |-> <<>>,
     startLost |-> FALSE]

Step(t, out) == [t |-> t, out |-> out]
After(out, step) == [step EXCEPT !.out = out \o @]

(* What the user does when it is told RECONNECTING, inside the callback:   *)
(* it may give the transport the token and the context of the moment.      *)
Answers == [updates : BOOLEAN, token : Nat, context : Nat]
-----------------------------------------------------------------------------
IsLive(socket) == socket.phase \in {"opening", "open"}

(* Mutant: closes the socket but keeps listening to it. *)
destroySocketOnly(t) ==
    [t EXCEPT !.socket = NoSocket,
              !.leaked = IF IsLive(t.socket) THEN Append(@, t.socket) ELSE @]

destroySocket(t) == [t EXCEPT !.socket = NoSocket]

handleFailure(t) == Step(destroySocket(t), <<"FAILED", "fail">>)

createSocket(t) ==
    IF ~t.works THEN handleFailure(t)
    ELSE Step([t EXCEPT
                  !.socket = [phase |-> "opening", query |-> t.query],
                  !.leaked = IF IsLive(t.socket) THEN Append(@, t.socket)
                             ELSE @],
              <<>>)

restartConnection(t) ==
    createSocket([t EXCEPT !.reconnectTimeout = FALSE, !.reconnectCount = @ + 1])

(* No authorisation is the authorizePromise any more. *)
NoneCurrent(t) == [k \in DOMAIN t.authorizing |->
                       [t.authorizing[k] EXCEPT !.current = FALSE]]

stop(t) ==
    Step([destroySocket(t) EXCEPT !.reconnectTimeout = FALSE,
                                  !.contextId = 0,
                                  !.lastMessageId = 0,
                                  !.authorizePromise = "none",
                                  !.authorizing = NoneCurrent(t),
                                  !.startLost = FALSE,
                                  !.reconnectCount = 0,
                                  !.hasBeenConnected = FALSE,
                                  !.recent = IF "message" \in ToSet(@)
                                             THEN <<"message">> ELSE <<>>,
                                  !.isReconnectPending = FALSE],
         <<"DISCONNECTED">>)

(* Mutant: the message id is that of the first query. *)
setQueryOnce(t, token, context) ==
    [t EXCEPT !.query = [context |-> context, token |-> token,
                         message |-> IF @.context = context THEN @.message
                                     ELSE t.lastMessageId],
              !.contextId = context,
              !.authToken = token]

(* updateQuery, up to the authorisation. *)
setQuery(t, token, context) ==
    [t EXCEPT !.query = [context |-> context, token |-> token,
                         message |-> t.lastMessageId],
              !.contextId = context,
              !.authToken = token]

(* Mutant: tries once too often. *)
reconnectOnceMore(t, isImmediate, answer) ==
    LET asked == IF answer.updates
                 THEN setQuery(t, answer.token, answer.context) ELSE t
        down == [destroySocket(asked) EXCEPT !.reconnectTimeout = FALSE]
    IN  IF t.reconnectCount > DEFAULT_RECONNECT_LIMIT THEN stop(t)
        ELSE After(<<"RECONNECTING">>,
                   IF isImmediate THEN restartConnection(down)
                   ELSE Step([down EXCEPT !.reconnectTimeout = TRUE], <<>>))

reconnect(t, isImmediate, answer) ==
    LET asked == IF answer.updates
                 THEN setQuery(t, answer.token, answer.context) ELSE t
        down == [destroySocket(asked) EXCEPT !.reconnectTimeout = FALSE]
    IN  IF t.reconnectCount >= DEFAULT_RECONNECT_LIMIT THEN stop(t)
        ELSE After(<<"RECONNECTING">>,
                   IF isImmediate THEN restartConnection(down)
                   ELSE Step([down EXCEPT !.reconnectTimeout = TRUE], <<>>))
-----------------------------------------------------------------------------
(* The socket's events.  which is 0 for this.socket, or the place of a     *)
(* leaked one.                                                             *)
SocketAt(t, which) == IF which = 0 THEN t.socket ELSE t.leaked[which]

Opened(t, which) ==
    IF which = 0 THEN [t EXCEPT !.socket.phase = "open"]
    ELSE [t EXCEPT !.leaked[which].phase = "open"]

Closed(t, which) ==
    IF which = 0 THEN [t EXCEPT !.socket.phase = "closed"]
    ELSE [t EXCEPT !.leaked = RemoveAt(@, which)]

handleSocketOpen(t, which) ==
    LET u == Opened(t, which)
    IN  IF u.socket = NoSocket THEN Step(u, <<>>)
        ELSE Step([u EXCEPT !.hasBeenConnected = TRUE, !.reconnectCount = 0],
                  <<"CONNECTED">>)

(* An event of the last five seconds is remembered, in place of one of the *)
(* same kind before.                                                       *)
Remember(t, event) ==
    LET before == CHOOSE k \in DOMAIN t.recent : t.recent[k] = event
    IN  [t EXCEPT !.recent = Append(IF event \in ToSet(@) THEN RemoveAt(@, before)
                                    ELSE @, event)]

Forget(t) == [t EXCEPT !.recent = Tail(@)]

(* A frame parses, or not, or is no ArrayBuffer. *)
Frames == {"good", "bad", "other"}

handleSocketMessage(t, frame) ==
    LET u == Remember(t, "message")
    IN  CASE frame = "good" ->
                 Step([u EXCEPT !.lastMessageId = @ + 1], <<"received">>)
          [] frame = "bad" -> handleFailure(u)
          [] OTHER -> Step(u, <<>>)

handleSocketClose(t, which, code, answer) ==
    LET u == Closed(t, which)
    IN  IF u.socket = NoSocket THEN Step(u, <<>>)
        ELSE IF ~u.hasBeenConnected THEN handleFailure(u)
        ELSE IF code = "tokenExpired"
        THEN Step([u EXCEPT !.isReconnectPending = TRUE], <<"unauthorized">>)
        ELSE reconnect(u, u.reconnectCount = 0, answer)

(* Without a socket the log statement throws before anything happens. *)
detectNetworkError(t, answer) ==
    LET seen == ToSet(t.recent)
    IN  IF /\ "message" \notin seen /\ {"orphan", "networkError"} \subseteq seen
           /\ t.reconnectCount = 0 /\ t.socket # NoSocket
        THEN reconnect(t, TRUE, answer)
        ELSE Step(t, <<>>)

onOrphanFound(t, answer) == detectNetworkError(Remember(t, "orphan"), answer)

onSubscribeNetworkError(t, answer) ==
    detectNetworkError(Remember(t, "networkError"), answer)
-----------------------------------------------------------------------------
(* Authorisation. *)
(* getAuthorizePromise, when it sends a request. *)
Authorize(t, starts, renews) ==
    [t EXCEPT !.authorizePromise = "pending",
              !.authorizing = Append(NoneCurrent(t),
                  [contextId |-> t.contextId, authToken |-> t.authToken,
                   starts |-> starts, renews |-> renews, current |-> TRUE])]

(* start waits for the promise there is, whatever it was made for. *)
AddStart(t) ==
    LET Added(a) == IF a.current THEN [a EXCEPT !.starts = @ + 1] ELSE a
    IN  [t EXCEPT !.authorizing = [i \in DOMAIN @ |-> Added(@[i])]]

Connects(t) == After(<<"started", "CONNECTING">>, createSocket(t))

start(t) ==
    IF t.socket # NoSocket THEN Step(t, <<>>)
    ELSE CASE t.authorizePromise = "none" -> Step(Authorize(t, 1, FALSE), <<>>)
           [] t.authorizePromise = "pending" -> Step(AddStart(t), <<>>)
           [] t.authorizePromise = "resolved" -> Connects(t)
           [] OTHER -> Step(t, <<>>)

updateQuery(t, token, context, forceAuth) ==
    LET u == setQuery(t, token, context)
    IN  Step(IF forceAuth THEN Authorize(u, 0, TRUE) ELSE u, <<>>)

(* The request has been answered and its promise is settled. *)
Settle(t, i, how) ==
    [t EXCEPT !.authorizePromise = IF t.authorizing[i].current THEN how ELSE @,
              !.authorizing = RemoveAt(@, i)]

(* What waited for the promise, in the order it was attached. *)
Authorized(t, i, answer) ==
    LET a == t.authorizing[i]
        u == Settle(t, i, "resolved")
        renewed == IF a.renews /\ u.isReconnectPending
                   THEN reconnect([u EXCEPT !.isReconnectPending = FALSE],
                                  TRUE, answer)
                   ELSE Step(u, <<>>)
        started[k \in 0..a.starts] ==
            IF k = 0 THEN renewed ELSE After(started[k - 1].out,
                                             Connects(started[k - 1].t))
    IN  started[a.starts]

superseded(t, a) == t.authToken # a.authToken \/ t.contextId # a.contextId

(* The failure of an authorisation that is superseded is nobody's concern. *)
Ignored(t, i) ==
    Step([Settle(t, i, "rejected") EXCEPT
             !.startLost = @ \/ t.authorizing[i].starts > 0],
         <<>>)

(* Mutant: gives up on a network error too. *)
AuthorizeFailsForGood(t, i, isNetworkError) ==
    LET a == t.authorizing[i]
    IN  IF superseded(t, a) \/ isNetworkError THEN Ignored(t, i)
        ELSE handleFailure(Settle(t, i, "rejected"))

(* After a network error the request is sent again and what waits for it   *)
(* goes on waiting; it is then the authorizePromise, whichever was.        *)
AuthorizeFails(t, i, isNetworkError) ==
    LET a == t.authorizing[i]
    IN  IF superseded(t, a) THEN Ignored(t, i)
        ELSE IF isNetworkError
        THEN Step([t EXCEPT !.authorizePromise = "pending",
                            !.authorizing =
                                [k \in DOMAIN @ |->
                                    [@[k] EXCEPT !.current = k = i]]],
                  <<>>)
        ELSE handleFailure(Settle(t, i, "rejected"))
-----------------------------------------------------------------------------
(* Something is under way that the transport will hear of. *)
Pending(t) ==
    \/ t.authorizing # <<>> \/ t.reconnectTimeout
    \/ t.socket.phase = "opening"
    \/ \E i \in DOMAIN t.leaked : t.leaked[i].phase = "opening"

(* The sockets the browser holds open or is opening. *)
LiveSockets(t) ==
    (IF IsLive(t.socket) THEN <<t.socket>> ELSE <<>>) \o t.leaked
=============================================================================
