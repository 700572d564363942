---------------------------- MODULE MCConnection ----------------------------
(***************************************************************************)
(* Scenarios for Connection: which transports the options list, what the   *)
(* browser and the server make of them, and what may go wrong.             *)
(***************************************************************************)
EXTENDS Connection

Scenario(transports, events) ==
    [transports |-> transports, supported |-> Kinds, working |-> Kinds,
     events |-> events]

(* Each list meets everything at once, and everything but what the         *)
(* properties make exceptions of.                                          *)
EventSets ==
    {EventKinds,
     EventKinds \ {"StreamEnds", "ProtocolMismatch", "Token", "TokenDown"},
     EventKinds \ {"StreamEnds", "ProtocolMismatch", "BadMessage", "Renewal",
                   "StopEarly"}}

(* Kinds the browser lacks are passed over, and those that cannot be made  *)
(* give way to the next.                                                   *)
MCScenarios ==
    {Scenario(list, events) :
        list \in {<<"websocket", "signalr">>, <<"signalrCore", "websocket">>},
        events \in EventSets}
    \cup
    {[Scenario(<<"signalr", "websocket", "signalrCore">>, EventKinds)
         EXCEPT !.supported = @ \ {"signalr"},
                !.working = @ \ {"signalrCore"}],
     [Scenario(<<"websocket", "signalrCore", "signalr">>,
               EventKinds \ {"StreamEnds", "ProtocolMismatch"})
         EXCEPT !.working = {"signalr"}],
     [Scenario(<<"websocket">>, EventKinds) EXCEPT !.supported = {}]}

MCLibraryTransports == <<"webSockets", "longPolling">>
=============================================================================
