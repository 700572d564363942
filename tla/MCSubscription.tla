--------------------------- MODULE MCSubscription ---------------------------
(***************************************************************************)
(* Environments for model checking Subscription.  A larger environment has *)
(* every behaviour of a smaller one, so the maximal ones in which each     *)
(* property promises something are enough.                                 *)
(***************************************************************************)
EXTENDS Subscription

AllBut(kinds) == EventKinds \ kinds

MCEnvironments ==
    {EventKinds,
     AllBut({"ByTagAgain", "Patch"}),
     AllBut({"ByTagAgain", "Reset", "BadUpdate"}),
     AllBut({"ByTagAgain", "Connection", "Patch"}),
     AllBut({"ByTagAgain", "Connection", "Reset", "BadUpdate"}),
     AllBut({"ByTag", "ByTagAgain", "BadUpdate", "Patch", "Reentrant"}),
     AllBut({"ByTag", "ByTagAgain", "BadUpdate", "Patch", "Modify"}),
     {"Patch", "Modify", "Redundant", "Dispose", "Connection", "rejected"},
     AllBut({"ByTag", "ByTagAgain", "network", "Patch"}),
     {"Patch", "ByTag", "Modify", "Redundant", "Dispose", "Connection",
      "rejected"},
     AllBut({"ByTag", "ByTagAgain", "network"}),
     AllBut({"ByTagAgain", "Patch", "network", "DeleteFails"}),
     AllBut({"ByTagAgain", "Reset", "BadUpdate", "network", "DeleteFails"}),
     AllBut({"ByTag", "ByTagAgain", "Connection", "Patch"}),
     AllBut({"ByTag", "ByTagAgain", "Connection", "Reset", "BadUpdate"}),
     AllBut({"ByTagAgain", "Connection", "Patch", "duplicate", "network",
             "DeleteFails"}),
     AllBut({"ByTagAgain", "Connection", "Reset", "BadUpdate", "duplicate",
             "network", "DeleteFails"}),
     AllBut({"duplicate", "unsupportedFormat", "network"})}

(* Those in which the subscription always follows the consumer in the end. *)
MCLiveEnvironments ==
    {{"Modify", "Redundant", "Reset", "Connection", "duplicate", "network",
      "rejected"},
     {"Modify", "Redundant", "Reset", "Connection", "duplicate",
      "unsupportedFormat", "Dispose"}}

(* Small environments that break a promise. *)
PatchAndReset == {{"Patch", "Reset"}}
ByTagOnly == {{"ByTag"}}
BadUpdates == {{"BadUpdate"}}
NetworkErrors == {{"network"}}
=============================================================================
