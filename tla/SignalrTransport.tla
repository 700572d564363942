-------------------------- MODULE SignalrTransport --------------------------
(***************************************************************************)
(* The legacy SignalR transport                                            *)
(* (src/openapi/streaming/connection/transport/signalr-transport.js), an   *)
(* adapter of the connection of SignalrLibrary.  It never reports a        *)
(* failure: its failCallback is not used, so there is no fallback from it. *)
(* The operators lead from the transport to a step, as in                  *)
(* WebsocketTransport.  A transport is a record: the library's connection, *)
(* and the context and the token of its query string.                      *)
(***************************************************************************)
EXTENDS Integers, Sequences, SequencesExt

CONSTANT LibraryTransports

Library == INSTANCE SignalrLibrary

Kind == "signalr"

Transports ==
    [kind : {Kind}, connection : Library!Connections,
     contextId : Nat, authToken : Nat]

New == [kind |-> Kind, connection |-> Library!New, contextId |-> 0,
        authToken |-> 0]

Step(t, out) == [t |-> t, out |-> out]

mapConnectionState(state) ==
    CASE state = "connecting" -> "CONNECTING"
      [] state = "connected" -> "CONNECTED"
      [] state = "disconnected" -> "DISCONNECTED"
      [] state = "reconnecting" -> "RECONNECTING"

(* handleStateChanged for the states among the library's events. *)
Heard(event) == IF event \in Library!connectionStates
                THEN mapConnectionState(event) ELSE event

(* The library's connection makes a step. *)
Does(t, step) ==
    Step([t EXCEPT !.connection = step.t],
         [i \in DOMAIN step.out |-> Heard(step.out[i])])

start(t) == Does(t, Library!start(t.connection))
stop(t) == Does(t, Library!stop(t.connection))

updateQuery(t, token, context) ==
    Step([t EXCEPT !.contextId = context, !.authToken = token], <<>>)

(* An error of the library; a 401 means that the token was rejected. *)
handleError(t, is401) == Step(t, IF is401 THEN <<"unauthorized">> ELSE <<>>)

Pending(t) == Library!Pending(t.connection)
=============================================================================
