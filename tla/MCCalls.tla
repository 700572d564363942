------------------------------ MODULE MCCalls ------------------------------
(* Three calls to one service, one to another and one that is not batched. *)
EXTENDS Calls

CONSTANTS c1, c2, c3, c4, c5

MCServicePath == [c \in Calls |-> IF c \in Others THEN "ref" ELSE "trade"]

(* The first has a retry with a timer of its own and one more; the others  *)
(* share that timer.                                                       *)
MCMethods ==
    [c \in Calls |->
        [retryTimeouts |-> IF c = c1 THEN 1 ELSE 0,
         retryLimit |-> IF c \in Others THEN 0 ELSE IF c = c1 THEN 2 ELSE 1,
         retryNetworkError |-> TRUE,
         statuses |-> {"busy"}]]

MCEnvironments ==
    {{"Busy", "Reordered"},
     {"Busy", "NoIds"},
     {"Network", "Unauthorized", "DiagnosticsFail"},
     {"Undiagnosed", "OldIds", "Network"},
     {"Undiagnosed", "CutOff", "Reordered"},
     {"Unreadable", "NoParentId", "Reordered"},
     {"MadeInBetween", "DiagnosticsFail", "Others"},
     {"Dispose", "Network"}}
=============================================================================
