-------------------------- MODULE MCAuthTransport --------------------------
(***************************************************************************)
(* Environments for model checking AuthTransport.                          *)
(***************************************************************************)
EXTENDS AuthTransport, TLC

CallSymmetry == Permutations(Calls)

(* A refresh that fails meets promises, the stream, and each of the ways   *)
(* in which a provider or a queue may be left with nothing to wait for.    *)
MCEnvironments ==
    {{"RefreshFails", "RefreshRefused", "WaitFor"},
     {"RefreshFails", "WaitFor", "TimersDropped"},
     {"RefreshFails", "TokenMissing", "QueueDispose"},
     {"RefreshFails", "Stream", "AuthDispose"}}

Disposing == {{"AuthDispose"}}
=============================================================================
