---------------------------- MODULE OrphanFinder ----------------------------
(***************************************************************************)
(* The orphan finder (src/openapi/streaming/orphan-finder.js): it looks    *)
(* for subscriptions of which nothing has been heard for too long, and has *)
(* one timer for all of them, set to the time the next one may be found.   *)
(*                                                                         *)
(* A finder f is a record:                                                 *)
(*   enabled, minCheckTime, nextUpdateTime       as in the code            *)
(*   timer   when the timer whose id the code holds is due; Infinity if it *)
(*       holds none                                                        *)
(*   lost    when the timers are due whose id has been overwritten         *)
(* left gives the time till each subscription is orphaned.                 *)
(***************************************************************************)
EXTENDS Integers, SequencesExt

CONSTANTS
    startDelay,         \* DEFAULT_START_DELAY
    MAX_UPDATE_DELAY,
    Infinity            \* later than any time of a behaviour

ASSUME FinderAssumption ==
    startDelay \in Nat /\ MAX_UPDATE_DELAY \in Nat /\ Infinity \in Nat

Finders ==
    [enabled : BOOLEAN, minCheckTime : Nat, nextUpdateTime : Nat,
     timer : Nat, lost : Seq(Nat)]

NewFinder ==
    [enabled |-> FALSE, minCheckTime |-> 0, nextUpdateTime |-> Infinity,
     timer |-> Infinity, lost |-> <<>>]

(* A time from now on, and back; both keep Infinity. *)
In(time, now) == IF time = Infinity THEN Infinity ELSE time - now
At(delay, now) == IF delay = Infinity THEN Infinity ELSE now + delay

(* Mutant: the time of the update that will not come is kept. *)
stopTimerOnly(f) == [f EXCEPT !.timer = Infinity, !.enabled = FALSE]

(* Without a timer to clear, nextUpdateTime is kept. *)
stop(f) ==
    [f EXCEPT !.timer = Infinity,
              !.nextUpdateTime = IF f.timer = Infinity THEN @ ELSE Infinity,
              !.enabled = FALSE]

(* The timer with this due time fires.  The code forgets the id it holds,  *)
(* whichever timer that is of.                                             *)
TimerFires(f, due) ==
    [f EXCEPT !.timer = Infinity,
              !.lost = IF due = f.timer THEN @
                       ELSE RemoveAt(@, CHOOSE k \in DOMAIN @ : @[k] = due) \o
                            (IF f.timer = Infinity THEN <<>> ELSE <<f.timer>>)]

IsLate(f, now) == In(f.nextUpdateTime, now) < -MAX_UPDATE_DELAY

(* After a sleep the check is postponed; a timer that is still pending is  *)
(* not cleared.                                                            *)
Postponed(f, now) ==
    [f EXCEPT !.minCheckTime = now + startDelay,
              !.lost = IF f.timer = Infinity THEN @ ELSE Append(@, f.timer),
              !.timer = now + startDelay,
              !.nextUpdateTime = now + startDelay]

(* The subscriptions an update reports: none while the finder waits for    *)
(* the heartbeats that queued up before it was started.                    *)
Orphans(f, now, left) ==
    IF f.enabled /\ ~IsLate(f, now) /\ f.minCheckTime <= now
    THEN {i \in DOMAIN left : left[i] <= 0}
    ELSE {}

newNextUpdateIn(f, now, left) ==
    LET ahead == {left[i] : i \in DOMAIN left} \cap (1..Infinity)
        soonest == CHOOSE d \in ahead \cup {Infinity} : \A e \in ahead : d <= e
        startDelayEndsIn == f.minCheckTime - now
    IN  IF startDelayEndsIn <= 0 THEN soonest
        ELSE IF \E i \in DOMAIN left : left[i] <= 0 THEN startDelayEndsIn
        ELSE IF startDelayEndsIn > soonest THEN startDelayEndsIn ELSE soonest

(* update, apart from the reports.  stopped says that one of them has had  *)
(* the finder stopped: it sets its timer all the same.                     *)
update(f, now, left, stopped) ==
    LET g == IF stopped THEN stop(f) ELSE f
        next == newNextUpdateIn(f, now, left)
    IN  IF ~f.enabled THEN f
        ELSE IF IsLate(f, now) THEN Postponed(f, now)
        ELSE IF In(f.nextUpdateTime, now) = next THEN g
        ELSE [g EXCEPT !.timer = At(next, now), !.nextUpdateTime = At(next, now)]

start(f, now, left) ==
    update([f EXCEPT !.enabled = TRUE, !.minCheckTime = now + startDelay],
           now, left, FALSE)
=============================================================================
