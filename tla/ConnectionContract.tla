------------------------- MODULE ConnectionContract -------------------------
(***************************************************************************)
(* What a Connection (src/openapi/streaming/connection/connection.js)      *)
(* promises the Streaming that uses it, whatever transports it goes        *)
(* through: which states it reports after which.                           *)
(*                                                                         *)
(* A promise k is a record:                                                *)
(*   asked   what the user asked for last; "down" when the connection has  *)
(*       ended since by itself, so that only a start brings it back        *)
(*   told    the last state it reported; "none" before the first, and      *)
(*       "exhausted" when the failCallback was called: no transport is     *)
(*       left                                                              *)
(*   late    a stop, a second start or a failure has cut into a start or a *)
(*       reconnect that was under way, or a broken link into a stop: what  *)
(*       they bring may still be reported                                  *)
(***************************************************************************)
EXTENDS Sequences

VARIABLE promise

Asked == {"created", "started", "down", "stopped", "disposed"}

States == {"CONNECTING", "CONNECTED", "RECONNECTING", "DISCONNECTED",
           "FAILED", "exhausted"}

Promises == [asked : Asked, told : States \cup {"none"}, late : BOOLEAN]

NewPromise == [asked |-> "created", told |-> "none", late |-> FALSE]

(* The user may start a connection that has not begun or has ended. *)
MayStart(k) == /\ k.asked \in {"created", "down", "stopped"}
               /\ k.told \in {"none", "DISCONNECTED", "exhausted"}

Start(k) == [k EXCEPT !.asked = "started"]
Stop(k) == [k EXCEPT !.asked = "stopped"]
Dispose(k) == [k EXCEPT !.asked = "disposed"]
-----------------------------------------------------------------------------
(* What may be reported next of a connection that is started.  A transport *)
(* that fails gives way to the next, which starts over.  A hub may do so   *)
(* without a report: its user, still told CONNECTED, tells the websocket   *)
(* that follows of orphans, and that may begin with a reconnect.           *)
Follows(told) ==
    CASE told \in {"none", "DISCONNECTED", "FAILED"} ->
             {"CONNECTING", "FAILED", "exhausted"}
      [] told = "CONNECTING" -> States
      [] told \in {"CONNECTED", "RECONNECTING"} ->
             States \ {told}
      [] OTHER -> {}

(* A connection that is down only reports that renewing its session for a  *)
(* new token has failed.  One that was stopped reports that, or that no    *)
(* transport is left.  A disposed one may report the latter too: the       *)
(* failCallback is not held back.                                          *)
MayTell(k, state) ==
    IF k.asked = "disposed" THEN state = "exhausted"
    ELSE IF k.late THEN TRUE
    ELSE
    CASE k.asked = "started" -> state \in Follows(k.told)
      [] k.asked = "down" -> state = "FAILED"
      [] k.asked = "stopped" ->
             /\ k.told # "exhausted"
             /\ state \in {"DISCONNECTED", "FAILED", "exhausted"} \cup
                          (IF k.told = "CONNECTED" THEN {"RECONNECTING"} ELSE {})
      [] OTHER -> state = "exhausted"

Tell(k, state) ==
    [k EXCEPT !.told = state,
              !.asked = IF state \in {"DISCONNECTED", "exhausted"}
                        THEN IF @ = "started" THEN "down" ELSE @
                        ELSE IF @ = "down" THEN "started" ELSE @]
-----------------------------------------------------------------------------
(* A step of the program: the user may ask for something, and one report   *)
(* may follow; that the transport has failed, by that of the next one.     *)
Asks(k) == {k, Stop(k), Dispose(k)} \cup (IF MayStart(k) THEN {Start(k)} ELSE {})

Reports(k) == {k} \cup {Tell(k, state) : state \in {s \in States : MayTell(k, s)}}

(* What is under way may be overtaken by whatever happens next. *)
Overtakes(k, after) == after # k \/ ~MayStart(k)

(* The browser may support none of the transports. *)
Init == promise \in {NewPromise, Tell(NewPromise, "exhausted")}

Next ==
    \E k \in Asks(promise) : \E once \in Reports(k) :
        \E after \in {once} \cup (IF once.told = "FAILED" THEN Reports(once) ELSE {}) :
            \/ promise' = after
            \/ promise' = [after EXCEPT !.late = TRUE] /\ Overtakes(promise, after)

Spec == Init /\ [][Next]_promise
=============================================================================
