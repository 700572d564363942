------------------------ MODULE SignalrCoreTransport ------------------------
(***************************************************************************)
(* The SignalR Core transport                                              *)
(* (src/openapi/streaming/connection/transport/signalr-core-transport.js)  *)
(* with the HubConnection it is built on, which is another library's: its  *)
(* start, stop, invocations and retries are modelled from how this code    *)
(* uses them.  Each operator leads from the transport to a step, as in     *)
(* WebsocketTransport.                                                     *)
(*                                                                         *)
(* A transport c is a record:                                              *)
(*   works  whether a HubConnection can be built, or that throws           *)
(*   hub    the phase of this.connection; "none" for null, "failed" when   *)
(*       its start was rejected: this.connection is kept then              *)
(*   state, hasStreamingStarted, isDisconnecting, hasTransportError,       *)
(*   contextId, authToken   as in the code                                 *)
(*   hasMessage   lastMessageId is set                                     *)
(*   messageStream   this.messageStream is set                             *)
(*   streaming    the server streams to the hub                            *)
(*   hubContext   the context the hub was built for                        *)
(*   lastUsedToken, sessionToken   the token the hub connected with last,  *)
(*       and the one the server's session has                              *)
(*   retries      how many times the hub has tried to reconnect            *)
(*   cancels, closes   calls of stop that wait for the stream to be        *)
(*       cancelled, and for CloseConnection to be answered                 *)
(*   renewals     the tokens of the RenewToken invocations in flight; the  *)
(*       server answers the invocations of a hub in order                  *)
(***************************************************************************)
EXTENDS Integers, Sequences

CONSTANT MaxRetries   \* the delays of RECONNECT_DELAYS

Kind == "signalrCore"

Hubs == {"none", "connecting", "connected", "reconnecting", "disconnecting",
         "failed"}

States == {"CONNECTING", "CONNECTED", "RECONNECTING", "DISCONNECTED"}

Transports ==
    [kind : {Kind},
     works : BOOLEAN,
     hub : Hubs,
     state : States,
     hasStreamingStarted : BOOLEAN,
     isDisconnecting : BOOLEAN,
     hasTransportError : BOOLEAN,
     hasMessage : BOOLEAN,
     messageStream : BOOLEAN,
     streaming : BOOLEAN,
     contextId : Nat,
     authToken : Nat,
     hubContext : Nat,
     lastUsedToken : Nat,
     sessionToken : Nat,
     retries : 0..MaxRetries,
     cancels : Nat,
     closes : Nat,
     renewals : Seq(Nat)]

New(works) ==
    [kind |-> Kind,
     works |-> works,
     hub |-> "none",
     state |-> "DISCONNECTED",
     hasStreamingStarted |-> FALSE,
     isDisconnecting |-> FALSE,
     hasTransportError |-> FALSE,
     hasMessage |-> FALSE,
     messageStream |-> FALSE,
     streaming |-> FALSE,
     contextId |-> 0,
     authToken |-> 0,
     hubContext |-> 0,
     lastUsedToken |-> 0,
     sessionToken |-> 0,
     retries |-> 0,
     cancels |-> 0,
     closes |-> 0,
     renewals |-> <<>>]

Step(c, out) == [t |-> c, out |-> out]

(* setState, which tells the state-changed callback. *)
SetState(c, state) == Step([c EXCEPT !.state = state], <<state>>)
-----------------------------------------------------------------------------
start(c) ==
    IF c.hub # "none" THEN Step(c, <<>>)
    ELSE IF ~c.works THEN Step(c, <<"fail">>)
    ELSE SetState([c EXCEPT !.hub = "connecting",
                            !.hubContext = c.contextId,
                            !.lastUsedToken = c.authToken],
                  "CONNECTING")

(* Nobody waits for the chain of promises, it ends by itself: at once if   *)
(* the hub has no link to cancel the stream over.                          *)
stop(c, hasTransportError) ==
    IF c.hub = "none" THEN c
    ELSE [c EXCEPT !.isDisconnecting = TRUE,
                   !.hasTransportError = @ \/ hasTransportError,
                   !.cancels = IF c.messageStream /\ c.hub = "connected"
                               THEN @ + 1 ELSE @,
                   !.closes = IF c.messageStream THEN @ ELSE @ + 1]

renewSession(c) ==
    IF c.hub = "none" \/ c.state # "CONNECTED" THEN c
    ELSE [c EXCEPT !.renewals = Append(@, c.authToken)]

updateQuery(c, token, context, forceAuth) ==
    LET u == [c EXCEPT !.contextId = context, !.authToken = token]
    IN  Step(IF forceAuth THEN renewSession(u) ELSE u, <<>>)

createMessageStream(c) ==
    IF c.hub = "none" THEN c
    ELSE [c EXCEPT !.messageStream = TRUE, !.streaming = TRUE]

(* Mutant: does not look whether the token has changed in the meantime. *)
ConnectedAnyToken(c, out) ==
    LET u == [createMessageStream(c) EXCEPT !.state = "CONNECTED"]
    IN  Step(u, Append(out, "CONNECTED"))

(* The hub is up: the token may have been updated in the meantime. *)
Connected(c, out) ==
    LET u == [createMessageStream(c) EXCEPT !.state = "CONNECTED"]
    IN  Step(IF c.lastUsedToken # c.authToken THEN renewSession(u) ELSE u,
             Append(out, "CONNECTED"))

(* The promise of the hub's start: fulfilled, or rejected. *)
Started(c) ==
    LET u == [c EXCEPT !.hub = "connected", !.sessionToken = c.lastUsedToken]
    IN  IF c.isDisconnecting THEN Step(u, <<>>)
        ELSE Connected(u, <<"started">>)

StartFails(c) == Step([c EXCEPT !.hub = "failed"], <<"fail">>)
-----------------------------------------------------------------------------
(* handleConnectionClosure.  Every invocation has been rejected: a chain   *)
(* of stop meets a connection that is null, and ends.                      *)
handleConnectionClosure(c) ==
    LET u == [c EXCEPT !.hub = "none",
                       !.messageStream = FALSE,
                       !.streaming = FALSE,
                       !.hasMessage = FALSE,
                       !.isDisconnecting = FALSE,
                       !.hasStreamingStarted = FALSE,
                       !.hasTransportError = FALSE,
                       !.retries = 0,
                       !.cancels = 0, !.closes = 0,
                       !.renewals = <<>>]
    IN  IF c.hasTransportError THEN Step(u, <<"fail">>)
        ELSE SetState(u, "DISCONNECTED")

(* The link breaks and the retry policy allows to go on: it does so only   *)
(* for a session of which a message was received, with a token that has    *)
(* not expired.  The invocations are rejected; a chain of stop that waits  *)
(* for its CloseConnection goes on to stop the hub, one whose cancellation *)
(* could not be sent ends there.                                           *)
MayRetry(c) == c.hasMessage /\ c.retries < MaxRetries

onreconnecting(c) ==
    SetState([c EXCEPT !.hub = IF c.closes > 0 THEN "disconnecting"
                               ELSE "reconnecting",
                       !.lastUsedToken = c.authToken,
                       !.streaming = FALSE,
                       !.retries = 1,
                       !.cancels = 0, !.closes = 0,
                       !.renewals = <<>>],
             "RECONNECTING")

(* One try has failed and the next begins. *)
Retries(c) == Step([c EXCEPT !.lastUsedToken = c.authToken,
                             !.retries = @ + 1], <<>>)

onreconnected(c) ==
    Connected([c EXCEPT !.hub = "connected", !.retries = 0,
                        !.sessionToken = c.lastUsedToken], <<>>)

(* The chain of stop goes on: the stream has been cancelled, then          *)
(* CloseConnection answered, which makes it stop the hub.  A hub that is   *)
(* stopped while it connects rejects the promise of its start.             *)
StreamCancelled(c) == Step([c EXCEPT !.cancels = @ - 1, !.closes = @ + 1,
                                     !.streaming = FALSE], <<>>)

CloseAnswered(c) ==
    LET u == [c EXCEPT !.closes = @ - 1]
    IN  CASE c.hub = "connecting" -> StartFails(u)
          [] c.hub \in {"connected", "reconnecting"} ->
                 Step([u EXCEPT !.hub = "disconnecting"], <<>>)
          [] OTHER -> Step(u, <<>>)
-----------------------------------------------------------------------------
(* The stream. *)
handleNextMessage(c, parses) ==
    LET u == [c EXCEPT !.hasStreamingStarted = TRUE]
    IN  IF parses THEN Step([u EXCEPT !.hasMessage = TRUE], <<"received">>)
        ELSE Step(stop(u, TRUE), <<>>)

StreamCompletes(c) ==
    Step(stop([c EXCEPT !.streaming = FALSE, !.messageStream = FALSE], FALSE),
         <<>>)

handleMessageStreamError(c) ==
    LET u == [c EXCEPT !.streaming = FALSE]
    IN  IF c.hasStreamingStarted THEN Step(u, <<>>)
        ELSE Step(stop([u EXCEPT !.messageStream = FALSE], FALSE), <<>>)

RenewAnswers == {"success", "invalidToken", "sessionNotFound", "unknown",
                 "error"}

(* The answer to the first RenewToken in flight. *)
RenewAnswered(c, status) ==
    LET token == Head(c.renewals)
        u == [c EXCEPT !.renewals = Tail(@)]
    IN  CASE status = "success" -> Step([u EXCEPT !.sessionToken = token], <<>>)
          [] status = "invalidToken" ->
                 Step(u, IF c.authToken = token THEN <<"unauthorized">>
                         ELSE <<>>)
          [] status = "sessionNotFound" -> Step(stop(u, FALSE), <<>>)
          [] status = "unknown" -> Step(stop(u, TRUE), <<>>)
          [] OTHER -> Step(renewSession(u), <<>>)
-----------------------------------------------------------------------------
(* Something is under way that the transport will hear of. *)
Pending(c) ==
    \/ c.hub \in {"connecting", "reconnecting", "disconnecting"}
    \/ c.hub = "connected" /\ (c.cancels + c.closes > 0 \/ c.renewals # <<>>)
=============================================================================
