----------------------------- MODULE Connection -----------------------------
(***************************************************************************)
(* The Connection of a Streaming                                           *)
(* (src/openapi/streaming/connection/connection.js) over its transports,   *)
(* with the servers and libraries behind them and the user, Streaming, in  *)
(* front.  A transport that fails is replaced by the next of the list; it  *)
(* keeps its callbacks, so all that were ever made may go on to act.       *)
(* Every handler runs to completion and is one action, with the callbacks  *)
(* it calls.                                                               *)
(***************************************************************************)
EXTENDS Integers, Sequences, FiniteSets, FiniteSetsExt, SequencesExt

CONSTANTS
    Scenarios,      \* the browsers, lists of transports and kinds of events
    DEFAULT_RECONNECT_LIMIT, MaxRetries, LibraryTransports,
    MaxContexts,    \* bounds on the contexts and tokens used,
    MaxTokens,
    MaxMessages,    \* the messages a transport receives,
    MaxEvents       \* and the events of one behaviour

VARIABLES
    c,              \* the Connection, its transports and its user
    authorized,     \* the contexts the server has authorised
    scenario,       \* the scenario of this behaviour
    budget          \* how many more events there may be

vars == <<c, authorized, scenario, budget>>

Ws == INSTANCE WebsocketTransport
Core == INSTANCE SignalrCoreTransport
Signalr == INSTANCE SignalrTransport
Library == INSTANCE SignalrLibrary
Contract == INSTANCE ConnectionContract WITH promise <- c.promise

Kinds == {Ws!Kind, Core!Kind, Signalr!Kind}

EventKinds == {"Stop", "StopEarly", "DoubleStart", "Dispose", "DisposeEarly",
               "Token", "TokenDown", "StartFails", "AuthNetwork",
               "LinkDrops", "TokenExpired", "BadMessage", "Quiet",
               "StreamEnds", "Renewal", "ProtocolMismatch", "Unauthorized"}

ScenarioRecords ==
    [transports : Seq(Kinds),      \* as the options ask for
     supported : SUBSET Kinds,     \* what isSupported says of each kind
     working : SUBSET Kinds,       \* whether its connections can be made
     events : SUBSET EventKinds]

ASSUME TransportsAssumption ==
    /\ DEFAULT_RECONNECT_LIMIT \in Nat /\ MaxRetries \in Nat \ {0}
    /\ LibraryTransports \in Seq({"webSockets", "longPolling"})
ASSUME ScenariosAssumption == Scenarios \subseteq ScenarioRecords
ASSUME BoundsAssumption ==
    {MaxContexts, MaxTokens, MaxMessages, MaxEvents} \subseteq Nat
-----------------------------------------------------------------------------
(* c.transports has one place for each transport of the list; Absent until *)
(* it is made.  this.transport is the one at tranportIndex, null beyond    *)
(* the end of the list.  authToken is the user's token of the moment, and  *)
(* rejected whether it has been told since that this is not accepted.      *)
Absent == [kind |-> "absent"]

NewTransport(s, kind) ==
    CASE kind = Ws!Kind -> Ws!New(kind \in s.working)
      [] kind = Core!Kind -> Core!New(kind \in s.working)
      [] OTHER -> Signalr!New

Connections ==
    [state : {"created", "started", "stopped", "disposed"},
     tranportIndex : Nat \ {0},
     transports : Seq({Absent} \cup Ws!Transports \cup Core!Transports
                      \cup Signalr!Transports),
     authToken : Nat,
     contextId : Nat,
     promise : Contract!Promises,
     rejected : BOOLEAN]

TypeOK ==
    /\ c \in Connections
    /\ authorized \subseteq 0..MaxContexts
    /\ scenario \in Scenarios
    /\ budget \in 0..MaxEvents

HasTransport(d) == d.tranportIndex <= Len(d.transports)
Current(d) == d.transports[d.tranportIndex]

(* The places of the list after the given one that createTransport may     *)
(* choose: it skips the kinds the browser does not support.                *)
Candidates(s, after) ==
    {i \in DOMAIN s.transports : i > after /\ s.transports[i] \in s.supported}

(* Where the list is searched to: the first candidate, or its end. *)
FirstOf(s, candidates) == Min(candidates \cup {Len(s.transports) + 1})

Created(d, s, i) ==
    IF i > Len(s.transports) THEN [d EXCEPT !.tranportIndex = i]
    ELSE [d EXCEPT !.tranportIndex = i,
                   !.transports[i] = NewTransport(s, s.transports[i])]

NewConnection(s) ==
    LET first == FirstOf(s, Candidates(s, 0))
        d == [state |-> "created",
              tranportIndex |-> 1,
              transports |-> [i \in DOMAIN s.transports |-> Absent],
              authToken |-> 1,
              contextId |-> 0,
              promise |-> Contract!NewPromise,
              rejected |-> FALSE]
    IN  [Created(d, s, first) EXCEPT
            !.promise = IF first > Len(s.transports)
                        THEN Contract!Tell(@, "exhausted") ELSE @]
-----------------------------------------------------------------------------
(* The methods of a transport, whichever its kind. *)
Start(t) == CASE t.kind = Ws!Kind -> Ws!start(t)
              [] t.kind = Core!Kind -> Core!start(t)
              [] OTHER -> Signalr!start(t)

Stop(t) == CASE t.kind = Ws!Kind -> Ws!stop(t)
             [] t.kind = Core!Kind -> Core!Step(Core!stop(t, FALSE), <<>>)
             [] OTHER -> Signalr!stop(t)

UpdateQuery(t, token, context, forceAuth) ==
    CASE t.kind = Ws!Kind -> Ws!updateQuery(t, token, context, forceAuth)
      [] t.kind = Core!Kind -> Core!updateQuery(t, token, context, forceAuth)
      [] OTHER -> Signalr!updateQuery(t, token, context)

(* A start fails at once if no hub can be built.  (A websocket that cannot *)
(* be made fails later, once its context is authorised.)                   *)
StartThrows(s, i) ==
    s.transports[i] = Core!Kind /\ Core!Kind \notin s.working

(* A transport that is left, by stop or because it failed, has a start or  *)
(* a reconnect under way that it does not give up.                         *)
Lingers(t) ==
    \/ t.kind = Ws!Kind /\ (t.authorizing # <<>> \/ t.reconnectTimeout)
    \/ t.kind = Core!Kind /\ t.hub = "reconnecting"

Overtake(d, condition) ==
    IF condition THEN [d EXCEPT !.promise.late = TRUE] ELSE d

(* updateQuery. *)
AskQuery(d, token, context, forceAuth) ==
    LET e == [d EXCEPT !.authToken = token, !.contextId = context]
    IN  IF HasTransport(d)
        THEN [e EXCEPT !.transports[d.tranportIndex] =
                  UpdateQuery(@, token, context, forceAuth).t]
        ELSE e

(* What the transport at place i has told its callbacks reaches the user,  *)
(* unless the connection was disposed of.  Told RECONNECTING for the first *)
(* time, the user gives the current transport its query; the one that says *)
(* so has had it by then.                                                  *)
Hears(d) == d.state # "disposed"

Report(d, i, state) ==
    LET e == [d EXCEPT !.promise = Contract!Tell(@, state)]
    IN  IF ~Hears(d) THEN d
        ELSE IF /\ state = "RECONNECTING" /\ d.promise.told # state
                /\ i # d.tranportIndex
        THEN AskQuery(e, d.authToken, d.contextId, FALSE)
        ELSE e

(* What a transport just made reports when it is started: one state, if    *)
(* any.                                                                    *)
FirstReport(d, i, out) ==
    IF out # <<>> /\ out[1] \in Contract!States THEN Report(d, i, out[1]) ELSE d

(* Mutant: the next transport is started even after a stop. *)
onTransportFailRestart(d, s, from) ==
    LET usable == {i \in Candidates(s, d.tranportIndex) : ~StartThrows(s, i)}
        next == FirstOf(s, usable)
        e == Created(Overtake(d, Lingers(from)), s, next)
        step == Start(Current(AskQuery(e, d.authToken, d.contextId, FALSE)))
    IN  IF ~HasTransport(e)
        THEN [e EXCEPT !.promise = Contract!Tell(@, "exhausted")]
        ELSE FirstReport([e EXCEPT !.transports[next] = step.t], next, step.out)

(* onTransportFail, called by the transport from.  Of the transports that  *)
(* could be next, a started connection goes through those that fail at     *)
(* once.                                                                   *)
onTransportFail(d, s, from) ==
    LET starts == d.state = "started"
        usable == {i \in Candidates(s, d.tranportIndex) :
                      ~(starts /\ StartThrows(s, i))}
        next == FirstOf(s, usable)
        e == Created(Overtake(d, Lingers(from)), s, next)
        step == Start(Current(AskQuery(e, d.authToken, d.contextId, FALSE)))
    IN  IF ~HasTransport(e)
        THEN [e EXCEPT !.promise = Contract!Tell(@, "exhausted")]
        ELSE IF ~starts THEN e
        ELSE FirstReport([AskQuery(e, d.authToken, d.contextId, FALSE)
                              EXCEPT !.transports[next] = step.t],
                         next, step.out)

(* The transport at place i, now from, calls one of its callbacks.         *)
Callback(d, s, i, from, what) ==
    CASE what \in Contract!States -> Report(d, i, what)
      [] what = "fail" -> onTransportFail(d, s, from)
      [] what = "unauthorized" -> [d EXCEPT !.rejected = @ \/ Hears(d)]
      [] OTHER -> d

(* The transport at place i makes a step and calls its callbacks. *)
Deliver(d, s, i, step) ==
    LET after[n \in 0..Len(step.out)] ==
            IF n = 0 THEN [d EXCEPT !.transports[i] = step.t]
            ELSE Callback(after[n - 1], s, i, step.t, step.out[n])
    IN  after[Len(step.out)]
-----------------------------------------------------------------------------
Init ==
    /\ scenario \in Scenarios
    /\ c = NewConnection(scenario)
    /\ authorized = {}
    /\ budget = MaxEvents

(* Events of the environment of the given kinds happen. *)
Event(kinds) ==
    /\ kinds \subseteq scenario.events
    /\ budget > 0
    /\ budget' = budget - 1
    /\ UNCHANGED scenario

NoEvent == UNCHANGED <<budget, scenario>>
Without(kinds) == scenario.events \cap kinds = {}

(* The user. *)
Down == c.promise.told \in {"none", "DISCONNECTED", "exhausted"}
StartsAgain == c.promise.asked = "started"

(* connect: a new context, its query, and start.  The user also starts a   *)
(* connection it has started already if it has heard nothing of it.        *)
UserStarts ==
    /\ c.state # "disposed" /\ Down /\ HasTransport(c)
    /\ c.contextId < MaxContexts
    /\ IF StartsAgain THEN Event({"DoubleStart"}) ELSE NoEvent
    /\ LET d == AskQuery(Overtake(c, StartsAgain), c.authToken,
                         c.contextId + 1, FALSE)
           e == [d EXCEPT !.state = "started", !.promise = Contract!Start(@)]
       IN  c' = Deliver(e, scenario, e.tranportIndex, Start(Current(e)))
    /\ UNCHANGED authorized

(* A start that has not been heard of yet, or is not over. *)
StartUnderWay == StartsAgain /\ c.promise.told \notin {"CONNECTED", "RECONNECTING"}

UserStops ==
    /\ c.promise.asked \in {"started", "down"} /\ HasTransport(c)
    /\ Event({IF StartUnderWay THEN "StopEarly" ELSE "Stop"})
    /\ LET step == Stop(Current(c))
           d == [Overtake(c, Lingers(step.t))
                     EXCEPT !.state = "stopped", !.promise = Contract!Stop(@)]
       IN  c' = Deliver(d, scenario, d.tranportIndex, step)
    /\ UNCHANGED authorized

(* The user disposes of a connection it is told is down. *)
UserDisposes ==
    /\ c.state # "disposed" /\ Down
    /\ Event({IF StartsAgain THEN "DisposeEarly" ELSE "Dispose"})
    /\ c' = [Overtake(c, StartsAgain)
                 EXCEPT !.state = "disposed", !.promise = Contract!Dispose(@)]
    /\ UNCHANGED authorized

(* The user gets a new token, from a refresh or because it has been told   *)
(* that the old one was rejected.                                          *)
UserGetsToken ==
    /\ c.state # "disposed" /\ c.contextId # 0
    /\ c.authToken < MaxTokens
    /\ IF Down /\ ~StartsAgain THEN Event({"TokenDown"})
       ELSE IF c.rejected THEN NoEvent ELSE Event({"Token"})
    /\ c' = [AskQuery(c, c.authToken + 1, c.contextId, TRUE)
                 EXCEPT !.rejected = FALSE]
    /\ UNCHANGED authorized

(* What a transport's user answers to RECONNECTING: see Report. *)
Answer(i) == [updates |-> /\ i = c.tranportIndex /\ Hears(c)
                          /\ c.promise.told # "RECONNECTING",
              token |-> c.authToken, context |-> c.contextId]

UserReports(what) ==
    /\ HasTransport(c) /\ Current(c).kind = Ws!Kind
    /\ Event({"Quiet"})
    /\ LET i == c.tranportIndex
           step == IF what = "orphan"
                   THEN Ws!onOrphanFound(Current(c), Answer(i))
                   ELSE Ws!onSubscribeNetworkError(Current(c), Answer(i))
       IN  /\ what = "orphan" => c.promise.told = "CONNECTED"
           /\ c' = Deliver(c, scenario, i, step)
    /\ UNCHANGED authorized

User == \/ UserStarts \/ UserStops \/ UserDisposes \/ UserGetsToken
        \/ \E what \in {"orphan", "networkError"} : UserReports(what)
-----------------------------------------------------------------------------
(* The transport at place i does something by itself: it is of the given   *)
(* kind and makes the given step.                                          *)
Is(t, kind) == t.kind = kind
Acts(i, step) == c' = Deliver(c, scenario, i, step) /\ UNCHANGED authorized

(* Websockets.  which is a socket of the transport, see Ws!SocketAt.       *)
Phase(i, which) == Ws!SocketAt(c.transports[i], which).phase
Sockets(i) == 0..Len(c.transports[i].leaked)

SocketOpens(i, which) ==
    /\ Phase(i, which) = "opening"
    /\ NoEvent
    /\ Acts(i, Ws!handleSocketOpen(c.transports[i], which))

SocketReceives(i, which, frame) ==
    /\ Phase(i, which) = "open"
    /\ c.transports[i].lastMessageId < MaxMessages
    /\ IF frame = "good" THEN NoEvent ELSE Event({"BadMessage"})
    /\ Acts(i, Ws!handleSocketMessage(c.transports[i], frame))

SocketCloses(i, which, code) ==
    /\ Phase(i, which) \in {"opening", "open"}
    /\ code = "tokenExpired" => Phase(i, which) = "open"
    /\ Event({IF code = "tokenExpired" THEN "TokenExpired" ELSE "LinkDrops"})
    /\ Acts(i, Ws!handleSocketClose(c.transports[i], which, code, Answer(i)))

ReconnectTimeout(i) ==
    /\ c.transports[i].reconnectTimeout
    /\ NoEvent
    /\ Acts(i, Ws!restartConnection(c.transports[i]))

(* What happened first of the recent events is five seconds old. *)
FiveSecondsPass(i) ==
    /\ c.transports[i].recent # <<>> /\ "Quiet" \in scenario.events
    /\ NoEvent
    /\ Acts(i, Ws!Step(Ws!Forget(c.transports[i]), <<>>))

AuthorizeSucceeds(i, k) ==
    /\ NoEvent
    /\ c' = Deliver(c, scenario, i, Ws!Authorized(c.transports[i], k, Answer(i)))
    /\ authorized' = authorized \cup {c.transports[i].authorizing[k].contextId}

AuthorizeFails(i, k, isNetworkError) ==
    /\ Event({IF isNetworkError THEN "AuthNetwork" ELSE "StartFails"})
    /\ Acts(i, Ws!AuthorizeFails(c.transports[i], k, isNetworkError))

WebsocketActs(i) ==
    /\ Is(c.transports[i], Ws!Kind)
    /\ \/ \E which \in Sockets(i) :
             \/ SocketOpens(i, which)
             \/ \E frame \in Ws!Frames : SocketReceives(i, which, frame)
             \/ \E code \in {"tokenExpired", "other"} : SocketCloses(i, which, code)
       \/ ReconnectTimeout(i) \/ FiveSecondsPass(i)
       \/ \E k \in DOMAIN c.transports[i].authorizing :
             \/ AuthorizeSucceeds(i, k)
             \/ \E isNetworkError \in BOOLEAN : AuthorizeFails(i, k, isNetworkError)
-----------------------------------------------------------------------------
(* SignalR Core. *)
HubIs(i, phases) == c.transports[i].hub \in phases

HubStarts(i) ==
    /\ HubIs(i, {"connecting"}) /\ NoEvent
    /\ Acts(i, Core!Started(c.transports[i]))

HubStartFails(i) ==
    /\ HubIs(i, {"connecting"}) /\ Event({"StartFails"})
    /\ Acts(i, Core!StartFails(c.transports[i]))

(* The hub closes, because it is stopped, because it broke or because it   *)
(* gives up reconnecting: the token may have expired, for one.             *)
HubCloses(i) ==
    /\ \/ HubIs(i, {"disconnecting"}) /\ NoEvent
       \/ HubIs(i, {"connected", "reconnecting"}) /\ Event({"LinkDrops"})
    /\ Acts(i, Core!handleConnectionClosure(c.transports[i]))

(* A hub that is being stopped may come up again when its link breaks: the *)
(* chain of stop ends there if the cancellation of its stream is lost.     *)
HubBreaks(i) ==
    /\ HubIs(i, {"connected"}) /\ Core!MayRetry(c.transports[i])
    /\ Event({"LinkDrops"})
    /\ c' = Deliver(Overtake(c, c.transports[i].isDisconnecting), scenario, i,
                    Core!onreconnecting(c.transports[i]))
    /\ UNCHANGED authorized

HubRetries(i) ==
    /\ HubIs(i, {"reconnecting"}) /\ Core!MayRetry(c.transports[i])
    /\ Event({"LinkDrops"})
    /\ Acts(i, Core!Retries(c.transports[i]))

HubReconnects(i) ==
    /\ HubIs(i, {"reconnecting"}) /\ NoEvent
    /\ Acts(i, Core!onreconnected(c.transports[i]))

HubStops(i) ==
    /\ NoEvent
    /\ \/ c.transports[i].cancels > 0 /\ Acts(i, Core!StreamCancelled(c.transports[i]))
       \/ c.transports[i].closes > 0 /\ Acts(i, Core!CloseAnswered(c.transports[i]))

Streaming(i) == HubIs(i, {"connected"}) /\ c.transports[i].streaming

HubReceives(i, parses) ==
    /\ Streaming(i)
    /\ IF parses THEN NoEvent ELSE Event({"BadMessage"})
    /\ Acts(i, Core!handleNextMessage(c.transports[i], parses))

StreamEnds(i) ==
    /\ Streaming(i)
    /\ Event({"StreamEnds"})
    /\ \/ Acts(i, Core!StreamCompletes(c.transports[i]))
       \/ Acts(i, Core!handleMessageStreamError(c.transports[i]))

RenewAnswered(i, status) ==
    /\ HubIs(i, {"connected"}) /\ c.transports[i].renewals # <<>>
    /\ IF status = "success" THEN NoEvent ELSE Event({"Renewal"})
    /\ Acts(i, Core!RenewAnswered(c.transports[i], status))

CoreActs(i) ==
    /\ Is(c.transports[i], Core!Kind)
    /\ \/ HubStarts(i) \/ HubStartFails(i) \/ HubCloses(i)
       \/ HubBreaks(i) \/ HubRetries(i) \/ HubReconnects(i) \/ HubStops(i)
       \/ \E parses \in BOOLEAN : HubReceives(i, parses)
       \/ StreamEnds(i)
       \/ \E status \in Core!RenewAnswers : RenewAnswered(i, status)
-----------------------------------------------------------------------------
(* Legacy SignalR: the library's connection does the step op. *)
Lib(i) == c.transports[i].connection
LibraryDoes(i, step) == Acts(i, Signalr!Does(c.transports[i], step))

Negotiated(i, answer) ==
    /\ Lib(i).negotiating
    /\ CASE answer = "success" -> NoEvent
         [] answer = "error" -> Event({"StartFails"})
         [] OTHER -> Event({"ProtocolMismatch"})
    /\ LibraryDoes(i, Library!Negotiated(Lib(i), answer))

TransportTried(i) ==
    /\ Library!Initializing(Lib(i))
    /\ \/ NoEvent /\ LibraryDoes(i, Library!onSuccess(Lib(i)))
       \/ Event({"StartFails"}) /\ LibraryDoes(i, Library!onFailed(Lib(i)))

(* The socket breaks or cannot be opened again, or a poll fails. *)
LibraryLinkDrops(i, expired) ==
    /\ Library!isConnectedOrReconnecting(Lib(i)) /\ Lib(i).socket # "none"
    /\ Event({"LinkDrops"})
    /\ IF Library!TransportIs(Lib(i), "webSockets")
       THEN LibraryDoes(i, Library!SocketCloses(Lib(i), expired))
       ELSE LibraryDoes(i, Library!PollFails(Lib(i), expired))

LibrarySilent(i, expired) ==
    /\ Library!TransportIs(Lib(i), "webSockets") /\ Lib(i).state = "connected"
    /\ Event({"LinkDrops"})
    /\ LibraryDoes(i, Library!checkIfAlive(Lib(i), expired))

LibraryReconnectTimeout(i, expired) ==
    /\ Lib(i).reconnectTimeout
    /\ IF expired THEN Event({"LinkDrops"}) ELSE NoEvent
    /\ LibraryDoes(i, Library!ReconnectTimeout(Lib(i), expired))

LibraryReconnects(i) ==
    /\ Lib(i).state = "reconnecting" /\ Lib(i).socket = "opening"
    /\ NoEvent
    /\ LibraryDoes(i, Library!Reconnected(Lib(i)))

(* A reconnecting connection is given up after the disconnect timeout; a   *)
(* disconnect command of the server, a message that does not parse or a    *)
(* ping answered by a 401 ends any connection.                             *)
LibraryStops(i) ==
    /\ Lib(i).transport # 0
    /\ Event({"LinkDrops"})
    /\ LibraryDoes(i, Library!stop(Lib(i)))

LibraryError(i) ==
    /\ Library!isConnectedOrReconnecting(Lib(i))
    /\ Event({"Unauthorized"})
    /\ Acts(i, Signalr!handleError(c.transports[i], TRUE))

LibraryActs(i) ==
    /\ Is(c.transports[i], Signalr!Kind)
    /\ \/ \E answer \in Library!NegotiateAnswers : Negotiated(i, answer)
       \/ TransportTried(i)
       \/ \E expired \in BOOLEAN : \/ LibraryLinkDrops(i, expired)
                                  \/ LibrarySilent(i, expired)
                                  \/ LibraryReconnectTimeout(i, expired)
       \/ LibraryReconnects(i) \/ LibraryStops(i) \/ LibraryError(i)

Next == \/ User
        \/ \E i \in DOMAIN c.transports :
               WebsocketActs(i) \/ CoreActs(i) \/ LibraryActs(i)

Spec == Init /\ [][Next]_vars
-----------------------------------------------------------------------------
(* What the transports have open or under way. *)
Links(t) ==
    CASE Is(t, Ws!Kind) -> Len(Ws!LiveSockets(t))
      [] Is(t, Core!Kind) ->
             IF t.hub \in {"none", "failed"} THEN 0 ELSE 1
      [] Is(t, Signalr!Kind) ->
             IF t.connection.state = "disconnected" /\ t.connection.socket = "none"
             THEN 0 ELSE 1
      [] OTHER -> 0

Linked == {i \in DOMAIN c.transports : Links(c.transports[i]) > 0}

Delivers(t) ==
    CASE Is(t, Ws!Kind) -> t.socket.phase = "open"
      [] Is(t, Core!Kind) -> t.hub = "connected" /\ t.streaming
      [] OTHER -> t.connection.state = "connected"

Pending(t) == CASE Is(t, Ws!Kind) -> Ws!Pending(t)
                [] Is(t, Core!Kind) -> Core!Pending(t)
                [] Is(t, Signalr!Kind) -> Signalr!Pending(t)
                [] OTHER -> FALSE

(* Nothing is under way, in the transports or at the user, who owes a new  *)
(* token once told that the one it gave was rejected.                      *)
Settled == /\ \A i \in DOMAIN c.transports : ~Pending(c.transports[i])
           /\ ~c.rejected

(* However the transports fail, reconnect and replace each other, what the *)
(* connection reports is what ConnectionContract promises: no state before *)
(* its time, none after a stop, no way back from DISCONNECTED but by a     *)
(* start.  (connection.js:60 holds callbacks back, each transport orders   *)
(* its own.)                                                               *)
ImplementsContract == Contract!Spec

(* The transports never hold two links to the server at once, so that no   *)
(* message is delivered twice: a socket is closed before its successor is  *)
(* made (websocket-transport.js:57) and a transport that failed is down    *)
(* when the next one starts (connection.js:73).  Not so once a start has   *)
(* been overtaken: see ConnectionContract, late.                           *)
OneLink ==
    ~c.promise.late => \A i, j \in Linked : i = j /\ Links(c.transports[i]) = 1

(* A connection that was stopped or disposed of comes to rest without a    *)
(* link, and its user was told: no timer, authorisation, fallback or       *)
(* renewal that was under way brings one back.  What it was told last       *)
(* is something else when a hub fails, or cannot read what it receives,    *)
(* while it stops (signalr-core-transport.js:338), or when a token that    *)
(* came later is not accepted: the next transport is made then, but not    *)
(* started.                                                                *)
StoppedStaysDown ==
    Settled /\ c.promise.asked \in {"stopped", "disposed"} /\ ~c.promise.late
        => /\ Linked = {}
           /\ Without({"StopEarly", "BadMessage", "Renewal", "TokenDown"}) => Down

(* A started connection does not fall silent: when all is quiet either the *)
(* user was told that it is down, or it was told CONNECTED last and the    *)
(* transport of the moment delivers.  There are four ways into silence:    *)
(* a start cut short; an authorisation that fails when its token has been  *)
(* replaced (websocket-transport.js:425); a stream that ends although the  *)
(* hub stays (signalr-core-transport.js:399); a server with another        *)
(* protocol, for which the library stays connecting.                       *)
UserIsTold ==
    /\ Settled /\ c.promise.asked = "started" /\ ~c.promise.late
    /\ Without({"StreamEnds", "ProtocolMismatch"})
    => \/ Is(Current(c), Ws!Kind) /\ Current(c).startLost
       \/ c.promise.told = "CONNECTED" /\ Delivers(Current(c))

(* A socket being opened names the context of the moment, which the server *)
(* has authorised, and the last message received, so that the server goes  *)
(* on after it: also after reconnects, and after a stop and a new start    *)
(* (websocket-transport.js:498).  An authorisation for a new token that is *)
(* answered while the connection is down is for the context of before, and *)
(* the start that follows makes do with it: that is the exception.         *)
Resumes ==
    \A i \in DOMAIN c.transports :
        /\ Is(c.transports[i], Ws!Kind)
        /\ c.transports[i].socket.phase = "opening"
        /\ c.state = "started" /\ ~c.promise.late
        => LET query == c.transports[i].socket.query
           IN  /\ query.context = c.contextId
               /\ query.message = c.transports[i].lastMessageId
               /\ Without({"Token", "TokenDown"}) => query.context \in authorized

(* A connected hub whose renewals have all been answered has the user's    *)
(* last token, whether this came while it was connecting, connected or     *)
(* reconnecting (signalr-core-transport.js:250), or has been told that it  *)
(* is not accepted.  A hub that the connection has left, because the       *)
(* transport before it failed once more, hears of no new token.            *)
SessionToken ==
    LET t == Current(c)
    IN  /\ HasTransport(c)
        /\ Is(t, Core!Kind) /\ t.hub = "connected"
        /\ ~t.isDisconnecting /\ t.renewals = <<>>
        /\ c.state = "started" /\ ~c.rejected
        => t.sessionToken = c.authToken
=============================================================================
