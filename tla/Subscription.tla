---------------------------- MODULE Subscription ----------------------------
(***************************************************************************)
(* One streaming subscription among everything that drives it: the         *)
(* consumer's calls through Streaming, the connection, the server's        *)
(* control messages and updates, the responses to its REST requests in     *)
(* whatever order they arrive, and its timer.  Every handler runs to       *)
(* completion, so every action is one call of one handler of               *)
(* SubscriptionHandlers.                                                   *)
(*                                                                         *)
(* The subscription is the only one with its tag: the by-tag bookkeeping   *)
(* of Streaming is that of a group of one.                                 *)
(***************************************************************************)
EXTENDS SubscriptionHandlers

CONSTANTS
    Environments,   \* the environments to consider: sets of kinds of events
    MaxEvents       \* bound on the events of one behaviour

EventKinds == {"Modify", "Patch", "Redundant", "Dispose", "ByTag", "ByTagAgain", "Reset",
               "Connection", "BadUpdate", "Reentrant", "duplicate",
               "unsupportedFormat", "network", "rejected", "DeleteFails"}

ASSUME EnvironmentsAssumption == Environments \subseteq SUBSET EventKinds
ASSUME MaxEventsAssumption == MaxEvents \in Nat

VARIABLES
    sub,          \* the subscription
    tagWaiting,   \* calls of unsubscribeByTag that wait for it to be ready
    live,         \* the reference ids the server streams
    cleanUps,     \* those whose clean-up DELETE has not been answered
    tagDeletes,   \* DELETEs by tag that have not been answered
    intent,       \* "on" or "off": what the consumer asked for last
    refused,      \* onError has been called since then
    env,          \* the kinds of events of this behaviour
    budget        \* how many more events there may be

vars == <<sub, live, cleanUps, tagWaiting, tagDeletes, intent, refused, env, budget>>

TypeOK ==
    /\ sub \in SubscriptionRecords
    /\ live \subseteq Nat /\ cleanUps \subseteq Nat
    /\ tagWaiting \in Nat
    /\ tagDeletes \in Nat
    /\ intent \in {"on", "off"}
    /\ refused \in BOOLEAN
    /\ env \in Environments
    /\ budget \in 0..MaxEvents

(* createSubscription: the new subscription is told when the connection is *)
(* not up, and subscribes.                                                 *)
Init ==
    /\ \E connected, protobuf \in BOOLEAN :
          LET s == NewSubscription(protobuf)
          IN  sub = onSubscribe(IF connected THEN s
                                ELSE onConnectionUnavailable(s))
    /\ live = {} /\ cleanUps = {}
    /\ tagWaiting = 0
    /\ tagDeletes = 0
    /\ intent = "on"
    /\ refused = FALSE
    /\ env \in Environments
    /\ budget = MaxEvents
-----------------------------------------------------------------------------
(* An event of the environment of one of the given kinds happens. *)
Event(kinds) ==
    /\ kinds \subseteq env
    /\ budget > 0
    /\ budget' = budget - 1
    /\ UNCHANGED env

NoEvent == UNCHANGED <<env, budget>>

Intends(i) == intent' = i /\ refused' = FALSE
SameIntent == UNCHANGED <<intent, refused>>

(* The call throws on a disposed subscription. *)
WantsIt == IF sub.isDisposed THEN SameIntent ELSE Intends("on")

(* The subscription becomes t.  If it has been ready for unsubscribe by    *)
(* tag on the way, its state-changed callbacks have settled each of the    *)
(* waiting promises, and each sends its DELETE.                            *)
Becomes(t, waiting, deletes) ==
    /\ sub' = [t EXCEPT !.becameReady = FALSE]
    /\ tagWaiting' = IF t.becameReady THEN 0 ELSE waiting
    /\ tagDeletes' = IF t.becameReady THEN deletes + waiting ELSE deletes

SameServer == UNCHANGED <<live, cleanUps>>

Handles(t) == Becomes(t, tagWaiting, tagDeletes) /\ SameServer
-----------------------------------------------------------------------------
(* The consumer.  A call of subscribe when the consumer already wants the  *)
(* subscription is an event of its own kind.                               *)
Subscribe ==
    /\ Event(IF intent = "on" /\ ~refused THEN {"Redundant"} ELSE {})
    /\ Handles(onSubscribe(sub))
    /\ WantsIt

Unsubscribing ==
    /\ Event({})
    /\ Handles(onUnsubscribe(sub, FALSE))
    /\ Intends("off")

Modify ==
    /\ Event({"Modify"})
    /\ Handles(onModify(sub))
    /\ WantsIt

ModifyPatch ==
    /\ Event({"Patch"})
    /\ Handles(onModifyPatch(sub))
    /\ SameIntent

disposeSubscription ==
    /\ ~sub.isDisposed
    /\ Event({"Dispose"})
    /\ Handles(dispose(onUnsubscribe(sub, FALSE)))
    /\ Intends("off")

(* A call by tag while an earlier one is not over is a kind of its own. *)
AgainKind == IF tagWaiting + tagDeletes > 0 THEN {"ByTagAgain"} ELSE {}

(* The promise's callback is registered before the subscription is told. *)
unsubscribeByTag ==
    /\ ~sub.isDisposed
    /\ Event({"ByTag"} \cup AgainKind)
    /\ Becomes(onUnsubscribeByTagPending(sub), tagWaiting + 1, tagDeletes)
    /\ SameServer /\ Intends("off")

disposeSubscriptionByTag ==
    /\ ~sub.isDisposed
    /\ Event({"ByTag", "Dispose"} \cup AgainKind)
    /\ Becomes(dispose(onUnsubscribeByTagPending(sub)), tagWaiting + 1, tagDeletes)
    /\ SameServer /\ Intends("off")

(* Streaming.  It forgets a disposed subscription, which hears no more of  *)
(* the connection, of control messages or of updates.                      *)
ConnectionUnavailable ==
    /\ ~sub.isDisposed /\ sub.connectionAvailable
    /\ Event({"Connection"})
    /\ Handles(onConnectionUnavailable(sub))
    /\ SameIntent

ConnectionAvailable ==
    /\ ~sub.isDisposed /\ ~sub.connectionAvailable
    /\ Handles(onConnectionAvailable(sub))
    /\ NoEvent /\ SameIntent

Reset ==
    /\ ~sub.isDisposed
    /\ Event({"Reset"})
    /\ Handles(reset(sub))
    /\ SameIntent

(* The server may already stream before the response to the POST arrives.  *)
Streams == LET r == referenceId(sub)
           IN  r \in live \/ (r > 0 /\ sub.inFlight[r]["post"] > 0)

Update ==
    /\ Streams /\ ~sub.isDisposed
    /\ Handles(onStreamingData(sub, TRUE))
    /\ NoEvent /\ SameIntent

UnparsableUpdate ==
    /\ Streams /\ ~sub.isDisposed
    /\ Event({"BadUpdate"})
    /\ Handles(onStreamingData(sub, FALSE))
    /\ SameIntent

(* A DELETE has been answered, or not: the code does the same.  If it was  *)
(* not carried out, which is an event, the server streams on.              *)
Deletes(gone) ==
    \/ live' = live \ gone /\ NoEvent
    \/ live' \in {live, live \ gone} /\ Event({"DeleteFails"})

(* The tag's subscriptions are gone, unless this DELETE comes late and was *)
(* carried out before the subscription was made again.                     *)
UnsubscribeByTagAnswered ==
    /\ tagDeletes > 0
    /\ \/ Deletes(live)
       \/ ~isReadyForUnsubscribeByTag(sub) /\ Deletes({})
    /\ Becomes(onUnsubscribeByTagComplete(sub), tagWaiting, tagDeletes - 1)
    /\ UNCHANGED cleanUps /\ SameIntent
-----------------------------------------------------------------------------
(* Responses and the timer. *)
(* Mutant: a request may be answered more than once. *)
WaitingForever(r, k) == sub.inFlight[r][k] >= 0

Waiting(r, k) == sub.inFlight[r][k] > 0
Received(r, k) == Count(sub, r, k, -1)

SubscribeSucceeded(r) ==
    /\ Waiting(r, "post")
    /\ Becomes(onSubscribeSuccess(Received(r, "post"), r, "none"),
               tagWaiting, tagDeletes)
    /\ live' = live \cup {r} /\ UNCHANGED cleanUps
    /\ NoEvent /\ SameIntent

(* The consumer calls back from onUpdate while it is given the snapshot. *)
SubscribeSucceededReentrantly(r, call) ==
    /\ Waiting(r, "post") /\ r = referenceId(sub)
    /\ ~WillUnsubscribe(sub) /\ ~sub.isDisposed
    /\ Event(CASE call = "modify" -> {"Reentrant", "Modify"}
               [] call = "patch" -> {"Reentrant", "Patch"}
               [] call = "subscribe" -> {"Reentrant", "Redundant"}
               [] OTHER -> {"Reentrant"})
    /\ Becomes(onSubscribeSuccess(Received(r, "post"), r, call),
               tagWaiting, tagDeletes)
    /\ live' = live \cup {r} /\ UNCHANGED cleanUps
    /\ CASE call \in {"subscribe", "modify"} -> Intends("on")
         [] call = "unsubscribe" -> Intends("off")
         [] OTHER -> SameIntent

(* Of a POST that the network lost nobody knows whether it arrived; one    *)
(* that is a duplicate finds its subscription made.                        *)
SubscribeFailed(r, response) ==
    /\ Waiting(r, "post")
    /\ Event({response})
    /\ Becomes(onSubscribeError(Received(r, "post"), r, response),
               tagWaiting, tagDeletes)
    /\ live' \in CASE response = "duplicate" -> {live \cup {r}}
                  [] response = "network" -> {live, live \cup {r}}
                  [] OTHER -> {live}
    /\ cleanUps' = cleanUps \cup cleanUpLeftOverSubscription(sub, r, response)
    /\ refused' = (refused \/ ReportsError(sub, r, response))
    /\ UNCHANGED intent

UnsubscribeAnswered(r) ==
    /\ Waiting(r, "delete")
    /\ Becomes(onUnsubscribeResponse(Received(r, "delete"), r),
               tagWaiting, tagDeletes)
    /\ Deletes({r})
    /\ UNCHANGED cleanUps /\ SameIntent

(* Nobody waits for this answer. *)
CleanUpAnswered(r) ==
    /\ r \in cleanUps
    /\ cleanUps' = cleanUps \ {r}
    /\ Deletes({r})
    /\ UNCHANGED <<sub, tagWaiting, tagDeletes>> /\ SameIntent

ModifyPatchAnswered(r) ==
    /\ Waiting(r, "patch")
    /\ Handles(onModifyPatchResponse(Received(r, "patch"), r))
    /\ NoEvent /\ SameIntent

NetworkErrorTimeout ==
    /\ \/ /\ sub.networkErrorSubscribingTimer
          /\ Handles(onNetworkErrorTimeout(sub))
       \/ /\ sub.lostTimers > 0
          /\ Handles(onLostTimeout(sub))
    /\ NoEvent /\ SameIntent
-----------------------------------------------------------------------------
Consumer == \/ Subscribe \/ Unsubscribing \/ Modify \/ ModifyPatch
            \/ disposeSubscription
            \/ unsubscribeByTag \/ disposeSubscriptionByTag

Streaming == \/ ConnectionUnavailable \/ ConnectionAvailable
             \/ Reset \/ Update \/ UnparsableUpdate
             \/ UnsubscribeByTagAnswered

Response(r) == \/ SubscribeSucceeded(r)
               \/ \E call \in Calls \ {"none"} :
                     SubscribeSucceededReentrantly(r, call)
               \/ \E response \in SubscribeErrors : SubscribeFailed(r, response)
               \/ UnsubscribeAnswered(r)
               \/ CleanUpAnswered(r)
               \/ ModifyPatchAnswered(r)

Next == \/ Consumer
        \/ Streaming
        \/ \E r \in DOMAIN sub.inFlight : Response(r)
        \/ NetworkErrorTimeout

Spec == Init /\ [][Next]_vars

(* Every request is answered in the end and a running timer fires. *)
Fairness ==
    /\ WF_vars(\E r \in DOMAIN sub.inFlight : Response(r))
    /\ WF_vars(UnsubscribeByTagAnswered)
    /\ WF_vars(NetworkErrorTimeout)

FairSpec == Spec /\ Fairness
-----------------------------------------------------------------------------
(***************************************************************************)
(* What must hold whatever happens.                                        *)
(***************************************************************************)

(* A state that waits for a response has that request in flight, under the *)
(* current reference id so that the response is not taken for a stale one; *)
(* one that is ready for unsubscribe by tag has a DELETE by tag on its     *)
(* way.  The subscription never waits for something that cannot come,      *)
(* however reset, by-tag and connection handlers cut into performAction.   *)
NeverStuck ==
    LET r == referenceId(sub) IN
    /\ sub.currentState = STATE_SUBSCRIBE_REQUESTED =>
           r > 0 /\ sub.inFlight[r]["post"] > 0
    /\ sub.currentState = STATE_UNSUBSCRIBE_REQUESTED =>
           r > 0 /\ sub.inFlight[r]["delete"] > 0
    /\ sub.currentState = STATE_PATCH_REQUESTED =>
           r > 0 /\ sub.inFlight[r]["patch"] > 0
    /\ isReadyForUnsubscribeByTag(sub) => tagDeletes > 0

(* Nothing is outstanding that could still change the subscription, or     *)
(* what the server streams.                                                *)
Idle(r) == \A k \in RequestKinds : sub.inFlight[r][k] = 0

Settled ==
    /\ sub.connectionAvailable
    /\ ~sub.networkErrorSubscribingTimer /\ sub.lostTimers = 0
    /\ tagDeletes = 0
    /\ \A r \in DOMAIN sub.inFlight : Idle(r)
    /\ cleanUps = {}

-----------------------------------------------------------------------------
(***************************************************************************)
(* What holds under conditions on the environment.  Each condition names   *)
(* the combinations of events for which TLC finds the code to break the    *)
(* promise; README.md tells how.                                           *)
(***************************************************************************)
Without(kinds) == env \cap kinds = {}

(* No response of a PATCH can come after a reset has given it up. *)
PatchNotOvertaken == Without({"Patch"}) \/ Without({"Reset", "BadUpdate"})

OneTagCall == Without({"ByTagAgain"})

(* "we don't hit the subscription limit because the subscribe manages to   *)
(* get to the server before the unsubscribe": while a POST is on its way   *)
(* no other request of the subscription is, neither for this reference id  *)
(* nor for an earlier one.  Only the DELETE that cleans up after an        *)
(* earlier POST, refused as a duplicate, may be.                           *)
PostAlone ==
    OneTagCall /\ PatchNotOvertaken =>
        \A r \in DOMAIN sub.inFlight :
            sub.inFlight[r]["post"] > 0 =>
                /\ sub.inFlight[r]["delete"] = 0 /\ sub.inFlight[r]["patch"] = 0
                /\ \A other \in DOMAIN sub.inFlight \ {r} : Idle(other)
                /\ \A other \in cleanUps : other < r

(* The DELETE by tag leaves only when no POST, PATCH or DELETE of the      *)
(* subscription's own is on its way, so it cannot overtake the POST of a   *)
(* subscription it is meant to remove.  A clean-up may be on its way: it   *)
(* removes what the DELETE by tag would.                                   *)
ReadyIsQuiet ==
    OneTagCall /\ PatchNotOvertaken /\ isReadyForUnsubscribeByTag(sub) =>
        \A r \in DOMAIN sub.inFlight : Idle(r)

(* When all is settled the server streams what the subscription believes:  *)
(* its current reference id if subscribed and, unless the network lost the *)
(* answer to a POST or a DELETE was not carried out, nothing else.         *)
ServerAgrees ==
    OneTagCall /\ PatchNotOvertaken /\ Settled =>
        LET believed == IF sub.currentState = STATE_SUBSCRIBED
                        THEN {referenceId(sub)} ELSE {}
        IN  /\ believed \subseteq live
            /\ Without({"network", "DeleteFails"}) => live \subseteq believed

(* A consumer who asked last for the subscription, and has not been told   *)
(* of an error, is subscribed when all is settled.                         *)
StaysSubscribed ==
    Settled /\ intent = "on" /\ ~refused => sub.currentState = STATE_SUBSCRIBED

KeepsWanted ==
    /\ Without({"ByTag", "BadUpdate"})
    /\ Without({"Modify"}) \/ Without({"Reentrant"})
    /\ \/ Without({"Patch"})
       \/ Without({"Reset", "Reentrant", "duplicate", "unsupportedFormat",
                   "network"})
    => StaysSubscribed

(* A consumer who asked last to be unsubscribed is, when all is settled. *)
StaysUnsubscribed ==
    Settled /\ intent = "off" => sub.currentState = STATE_UNSUBSCRIBED

DropsUnwanted ==
    /\ OneTagCall /\ Without({"network"})
    /\ \/ Without({"Patch", "ByTag"})
       \/ Without({"Reset", "BadUpdate", "Reentrant", "duplicate",
                   "unsupportedFormat"})
    => StaysUnsubscribed

(* A subscription that is ready for unsubscribe by tag has been made, or   *)
(* the server streams nothing of it.                                       *)
NothingLeftOver == \/ Without({"ByTag"})
                   \/ Without({"duplicate", "network", "DeleteFails"})

(* The consumer gets no delta of a subscription before its snapshot: what  *)
(* arrives earlier is buffered.                                            *)
SnapshotBeforeDelta ==
    /\ OneTagCall /\ PatchNotOvertaken /\ Without({"Connection"})
    /\ NothingLeftOver
    => sub.deltaRef <= sub.snapshotRef

(* A subscription the consumer wants and has does not miss its snapshot,   *)
(* although the snapshot is withheld while an unsubscribe is next.         *)
SnapshotDelivered ==
    /\ OneTagCall /\ PatchNotOvertaken /\ Without({"Connection"})
    /\ Settled /\ intent = "on" /\ sub.currentState = STATE_SUBSCRIBED
    => sub.snapshotRef = referenceId(sub)

(* A disposed subscription subscribes no more, whatever was queued or in   *)
(* flight when it was disposed and however the server answers, where the   *)
(* network loses no POST: after a network error the queue is not worked    *)
(* off, and what it holds may send one.                                    *)
DisposedStaysSilent ==
    [][/\ Without({"network"})
       /\ \/ Without({"ByTag", "Patch"})
          \/ Without({"duplicate", "unsupportedFormat"})
       /\ sub.isDisposed
       => referenceId(sub') = referenceId(sub)]_vars
-----------------------------------------------------------------------------
(* If the connection comes back for good, a consumer who wants the         *)
(* subscription and is not told of an error gets it for good: refused      *)
(* formats, duplicate keys, network errors and resets are all retried.     *)
EventuallySubscribed ==
    <>[](sub.connectionAvailable) =>
        <>[](intent = "on" /\ ~refused =>
                sub.currentState = STATE_SUBSCRIBED)

(* If the connection comes back for good, a subscription that is not       *)
(* wanted any more is given up for good, although resets and modifications *)
(* that came before make it subscribe again.                               *)
EventuallyUnsubscribed ==
    Without({"network"}) /\ <>[](sub.connectionAvailable) =>
        <>[](intent = "off" => sub.currentState = STATE_UNSUBSCRIBED)
=============================================================================
