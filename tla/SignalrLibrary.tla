--------------------------- MODULE SignalrLibrary ---------------------------
(***************************************************************************)
(* The connection of the jQuery SignalR library                            *)
(* (libs/jquery.signalR-2.0.3.js), as far as its four states depend on it: *)
(* the negotiation, the transports it tries one after the other, the       *)
(* reconnects of the transport it has, and stop.  Each operator leads from *)
(* the connection to a step: the connection after it and the events it     *)
(* triggered.                                                              *)
(*                                                                         *)
(* A connection l is a record:                                             *)
(*   state        connection.state                                         *)
(*   negotiating  the negotiate request is in flight                       *)
(*   transport    the place in config.transport of connection.transport,   *)
(*       0 for null                                                        *)
(*   socket       that transport's websocket or poll: none, opening, open  *)
(*   reconnectTimeout   whether the timer of reconnect runs                *)
(***************************************************************************)
EXTENDS Integers, Sequences

CONSTANT LibraryTransports   \* config.transport, what the server supports of it

connectionStates == {"connecting", "connected", "reconnecting", "disconnected"}

Connections ==
    [state : connectionStates,
     negotiating : BOOLEAN,
     transport : 0..Len(LibraryTransports),
     socket : {"none", "opening", "open"},
     reconnectTimeout : BOOLEAN]

New == [state |-> "disconnected",
        negotiating |-> FALSE,
        transport |-> 0,
        socket |-> "none",
        reconnectTimeout |-> FALSE]

Step(l, out) == [t |-> l, out |-> out]
TransportIs(l, name) == l.transport # 0 /\ LibraryTransports[l.transport] = name

changeState(l, expectedStates, newState) ==
    IF l.state \in expectedStates
    THEN Step([l EXCEPT !.state = newState], <<newState>>)
    ELSE Step(l, <<>>)

stop(l) ==
    changeState([l EXCEPT !.negotiating = FALSE, !.transport = 0,
                          !.socket = "none", !.reconnectTimeout = FALSE],
                connectionStates \ {"disconnected"}, "disconnected")

start(l) ==
    IF l.state # "disconnected" THEN Step(l, <<>>)
    ELSE changeState([l EXCEPT !.negotiating = TRUE],
                     {"disconnected"}, "connecting")

(* Without a transport left the connection is stopped. *)
initialize(l, index) ==
    IF index > Len(LibraryTransports) THEN stop(l)
    ELSE Step([l EXCEPT !.transport = index, !.socket = "opening"], <<>>)

(* The answers to negotiate.  A protocol version the client does not speak *)
(* is an error event and nothing else: the state stays connecting.         *)
NegotiateAnswers == {"success", "error", "otherProtocol"}

Negotiated(l, answer) ==
    LET u == [l EXCEPT !.negotiating = FALSE]
    IN  CASE answer = "success" -> initialize(u, 1)
          [] answer = "error" -> stop(u)
          [] OTHER -> Step(u, <<>>)

(* The transport being tried has failed or timed out, or has been told by  *)
(* the server that it is initialized.                                      *)
Initializing(l) == l.state = "connecting" /\ l.transport # 0

onFailed(l) == initialize([l EXCEPT !.socket = "none"], l.transport + 1)

onSuccess(l) ==
    LET step == changeState([l EXCEPT !.socket = "open"],
                            {"connecting"}, "connected")
    IN  [step EXCEPT !.out = Append(@, "started")]
-----------------------------------------------------------------------------
isConnectedOrReconnecting(l) == l.state \in {"connected", "reconnecting"}

ensureReconnectingState(l) == changeState(l, {"connected"}, "reconnecting")

(* The transport has lost its socket, or heard nothing for too long.  A    *)
(* connection not active within the reconnect window (expired) is stopped. *)
reconnect(l, expired) ==
    IF ~isConnectedOrReconnecting(l) \/ l.reconnectTimeout THEN Step(l, <<>>)
    ELSE IF expired THEN stop(l)
    ELSE Step([l EXCEPT !.reconnectTimeout = TRUE], <<>>)

SocketCloses(l, expired) == reconnect([l EXCEPT !.socket = "none"], expired)

(* The heart beat: no message for the time of the keep alive. *)
checkIfAlive(l, expired) ==
    IF l.state = "connected" THEN reconnect(l, expired) ELSE Step(l, <<>>)

(* The timer of reconnect: the transport is stopped and started again.     *)
ReconnectTimeout(l, expired) ==
    LET u == [l EXCEPT !.reconnectTimeout = FALSE]
    IN  IF expired THEN stop(u)
        ELSE ensureReconnectingState([u EXCEPT !.socket = "opening"])

(* A poll that fails, or is answered by a command to reconnect, makes the  *)
(* connection reconnecting at once; the poll after it connected again.     *)
PollFails(l, expired) ==
    IF expired THEN stop(l)
    ELSE ensureReconnectingState([l EXCEPT !.socket = "opening"])

Reconnected(l) ==
    changeState([l EXCEPT !.socket = "open", !.reconnectTimeout = FALSE],
                {"reconnecting"}, "connected")

Pending(l) ==
    \/ l.negotiating \/ Initializing(l)
    \/ l.state = "reconnecting" \/ l.reconnectTimeout
=============================================================================
