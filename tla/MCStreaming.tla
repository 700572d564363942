---------------------------- MODULE MCStreaming ----------------------------
(* Streaming with two subscriptions, and with three where a subscription   *)
(* is disposed of while the others are told of the connection.             *)
EXTENDS Streaming

MCEnvironments ==
    {{"Expired", "LinkEnds", "ResetStreaming", "Disconnect", "DisposeStreaming"},
     {"LinkEnds", "LinkBreaks", "TransportFails", "Exhausted", "ResetStreaming",
      "CreateDuringReset"},
     {"FailsWhileDown", "WhileStarting", "Overtaken", "FormerFails", "LinkEnds", "ResetStreaming", "Disconnect"},
     {"LinkEnds", "LinkBreaks", "ControlReset", "ControlReconnect", "ControlDisconnect"},
     {"LinkEnds", "LinkBreaks", "Unsubscribe", "Dispose", "DisposeInCallback"},
     {"Unsubscribe", "DisposeInCallback", "CreateMany"},
     {"LinkBreaks", "TransportFails", "Unsubscribe", "Resubscribe", "Dispose"},
     {"LinkEnds", "ControlReset", "Unsubscribe", "Dispose"},
     {"LinkEnds", "LinkBreaks", "ByTag", "ByTagAgain", "ByTagDispose",
      "CreateDuringByTag", "Dispose"},
     {"LinkBreaks", "TransportFails", "ControlDisconnect", "ByTag", "ByTagAgain", "ByTagDispose"},
     {"Resubscribe", "ByTag", "ByTagDispose"},
     {"LinkBreaks", "Resubscribe", "ByTag", "ByTagDispose", "DeleteFails"},
     {"Time", "Sleep", "LinkBreaks", "OrphanBreaks"}}
=============================================================================
