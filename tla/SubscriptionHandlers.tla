------------------------ MODULE SubscriptionHandlers ------------------------
(***************************************************************************)
(* The methods and callbacks of a streaming subscription                   *)
(* (src/openapi/streaming/subscription.js).  JavaScript runs each of them  *)
(* to completion, so each is one operator from the subscription before the *)
(* call to the subscription after it.  Subscription.tla makes them actions *)
(* and supplies the callers: consumer, Streaming, server and timers.       *)
(*                                                                         *)
(* A subscription s is a record:                                           *)
(*   currentState, queue, connectionAvailable, isDisposed   as in the code *)
(*   networkErrorSubscribingTimer   whether the code holds the handle of a *)
(*       running timer                                                     *)
(*   lostTimers  how many timers run whose handle has been overwritten: a  *)
(*       second network error, or the end of another timer, does that      *)
(*   protobuf    whether subscriptionData.Format asks for protobuf         *)
(*   updatesBeforeSubscribed        what is buffered while subscribing:    *)
(*       nothing, updates that all parse, or some that do not              *)
(*   inFlight    inFlight[r][k] requests of kind k with reference id r are *)
(*       waiting for their response                                        *)
(*   becameReady whether, during the present call, the state-changed       *)
(*       callbacks have been told of READY_FOR_UNSUBSCRIBE_BY_TAG          *)
(*   snapshotRef, deltaRef   the reference ids of the last snapshot and    *)
(*       the last delta given to the consumer's onUpdate                   *)
(* A reference id is the number of the POST that introduced it, so the     *)
(* current one is Len(inFlight), and 0 stands for null.                    *)
(***************************************************************************)
EXTENDS SubscriptionQueue

STATE_SUBSCRIBE_REQUESTED   == "SUBSCRIBE_REQUESTED"
STATE_SUBSCRIBED            == "SUBSCRIBED"
STATE_UNSUBSCRIBE_REQUESTED == "UNSUBSCRIBE_REQUESTED"
STATE_UNSUBSCRIBED          == "UNSUBSCRIBED"
STATE_PATCH_REQUESTED       == "PATCH_REQUESTED"

(* The prototype gives this state no value.  It is still a state of its    *)
(* own, undefined, that every comparison in the code tells apart from the  *)
(* others; only the bit set below misses it.                               *)
STATE_READY_FOR_UNSUBSCRIBE_BY_TAG == "undefined"

States == {STATE_SUBSCRIBE_REQUESTED, STATE_SUBSCRIBED,
           STATE_UNSUBSCRIBE_REQUESTED, STATE_UNSUBSCRIBED,
           STATE_PATCH_REQUESTED, STATE_READY_FOR_UNSUBSCRIBE_BY_TAG}

(* A bitwise or with undefined adds nothing: READY_FOR_UNSUBSCRIBE_BY_TAG, *)
(* which the code lists here too, is not a transitioning state.            *)
TRANSITIONING_STATES == {STATE_SUBSCRIBE_REQUESTED,
                         STATE_UNSUBSCRIBE_REQUESTED, STATE_PATCH_REQUESTED}

RequestKinds == {"post", "delete", "patch"}
Buffers == {"none", "good", "bad"}

SubscriptionRecords ==
    [currentState : States,
     queue : Seq(Items),
     connectionAvailable : BOOLEAN,
     isDisposed : BOOLEAN,
     networkErrorSubscribingTimer : BOOLEAN,
     lostTimers : Nat,
     protobuf : BOOLEAN,
     updatesBeforeSubscribed : Buffers,
     inFlight : Seq([RequestKinds -> Nat]),
     becameReady : BOOLEAN,
     snapshotRef : Nat,
     deltaRef : Nat]

NewSubscription(protobuf) ==
    [currentState |-> STATE_UNSUBSCRIBED,
     queue |-> <<>>,
     connectionAvailable |-> TRUE,
     isDisposed |-> FALSE,
     networkErrorSubscribingTimer |-> FALSE,
     lostTimers |-> 0,
     protobuf |-> protobuf,
     updatesBeforeSubscribed |-> "none",
     inFlight |-> <<>>,
     becameReady |-> FALSE,
     snapshotRef |-> 0,
     deltaRef |-> 0]

referenceId(s) == Len(s.inFlight)
Transitioning(s) == s.currentState \in TRANSITIONING_STATES
WillUnsubscribe(s) == HeadIs(s.queue, ACTION_UNSUBSCRIBE)

(* s has n more requests of kind k outstanding for reference id r. *)
Count(s, r, k, n) == [s EXCEPT !.inFlight[r][k] = @ + n]
-----------------------------------------------------------------------------
(* The three requests, each with the state that waits for its response.    *)
(* subscribe takes a fresh reference id.                                   *)
subscribe(s) ==
    [s EXCEPT !.currentState = STATE_SUBSCRIBE_REQUESTED,
              !.updatesBeforeSubscribed = "none",
              !.inFlight = Append(@, [k \in RequestKinds |->
                                          IF k = "post" THEN 1 ELSE 0])]

(* Mutant: does not wait for the response. *)
unsubscribeAndForget(s) ==
    [Count(s, referenceId(s), "delete", 1) EXCEPT
        !.currentState = STATE_UNSUBSCRIBED]

unsubscribe(s) ==
    [Count(s, referenceId(s), "delete", 1) EXCEPT
        !.currentState = STATE_UNSUBSCRIBE_REQUESTED]

modifyPatch(s) ==
    [Count(s, referenceId(s), "patch", 1) EXCEPT
        !.currentState = STATE_PATCH_REQUESTED]

unsubscribeByTagPending(s) ==
    [s EXCEPT !.currentState = STATE_READY_FOR_UNSUBSCRIBE_BY_TAG,
              !.becameReady = TRUE]

(* The action does something in the state; in any other combination the    *)
(* code drops it, silently or with an error in the log.                    *)
Effective(action, state) ==
    \/ action = ACTION_SUBSCRIBE /\ state = STATE_UNSUBSCRIBED
    \/ /\ action \in {ACTION_UNSUBSCRIBE, ACTION_MODIFY_PATCH}
       /\ state = STATE_SUBSCRIBED
    \/ /\ action = ACTION_UNSUBSCRIBE_BY_TAG_PENDING
       /\ state \in {STATE_SUBSCRIBED, STATE_UNSUBSCRIBED}

(* The switch of performAction, for an action that is effective. *)
Perform(s, action) ==
    CASE action = ACTION_SUBSCRIBE ->
             subscribe([s EXCEPT !.queue = clearPatches(@)])
      [] action = ACTION_UNSUBSCRIBE -> unsubscribe(s)
      [] action = ACTION_MODIFY_PATCH -> modifyPatch(s)
      [] action = ACTION_UNSUBSCRIBE_BY_TAG_PENDING ->
             unsubscribeByTagPending(s)

(* performAction calls itself for the next queued action until one of them *)
(* leaves the subscription in a transitioning state.  An effective action  *)
(* that does not, the by-tag one, makes every later action ineffective, so *)
(* the queue is drained.                                                   *)
AfterPerform(t) == IF Transitioning(t) THEN t ELSE [t EXCEPT !.queue = <<>>]

(* The loop over a queue: the first effective action is performed. *)
performQueue(s) ==
    LET order == DequeueOrder(s.queue)
        effective == {i \in DOMAIN order :
                         Effective(order[i].action, s.currentState)}
        first == Min(effective)
    IN  IF effective = {}
        THEN [s EXCEPT !.queue = <<>>]
        ELSE AfterPerform(
                 Perform([s EXCEPT !.queue =
                              SubSeq(order, first + 1, Len(order))],
                         order[first].action))

(* performAction for an action that was not queued, called only when the   *)
(* subscription is not transitioning.                                      *)
performAction(s, action) ==
    IF Effective(action, s.currentState)
    THEN AfterPerform(Perform(s, action))
    ELSE performQueue(s)

(* What onReadyToPerformNextAction dequeues is performed in whatever state *)
(* the subscription is in: there is no check for a transitioning one.  The *)
(* first item is then dropped and the loop stops.                          *)
onReadyToPerformNextAction(s) ==
    IF ~s.connectionAvailable \/ isEmpty(s.queue) THEN s
    ELSE IF Transitioning(s) THEN [s EXCEPT !.queue = dequeue(@).rest]
    ELSE performQueue(s)

(* Every caller's way in: any pending retry after a network error is       *)
(* cancelled, then the action is queued or performed.                      *)
tryPerformAction(s, item) ==
    LET t == [s EXCEPT !.networkErrorSubscribingTimer = FALSE]
    IN  IF ~t.connectionAvailable \/ Transitioning(t)
        THEN [t EXCEPT !.queue = enqueue(@, item)]
        ELSE performAction(t, item.action)
-----------------------------------------------------------------------------
(* The methods Streaming and, through it, the consumer call. *)

(* Mutant: does not look at isDisposed. *)
onSubscribeAlways(s) == tryPerformAction(s, Item(ACTION_SUBSCRIBE))

(* Throws on a disposed subscription, before anything changes. *)
onSubscribe(s) ==
    IF s.isDisposed THEN s ELSE tryPerformAction(s, Item(ACTION_SUBSCRIBE))

onUnsubscribe(s, force) == tryPerformAction(s, Unsubscribe(force))

onModify(s) ==
    IF s.isDisposed THEN s ELSE onSubscribe(onUnsubscribe(s, TRUE))

onModifyPatch(s) ==
    IF s.isDisposed THEN s
    ELSE tryPerformAction(s, Item(ACTION_MODIFY_PATCH))

(* Mutant: does not wait for what is in flight. *)
onUnsubscribeByTagPendingAtOnce(s) == unsubscribeByTagPending(s)

onUnsubscribeByTagPending(s) ==
    tryPerformAction(s, Item(ACTION_UNSUBSCRIBE_BY_TAG_PENDING))

onUnsubscribeByTagComplete(s) ==
    onReadyToPerformNextAction([s EXCEPT !.currentState = STATE_UNSUBSCRIBED])

isReadyForUnsubscribeByTag(s) ==
    s.currentState = STATE_READY_FOR_UNSUBSCRIBE_BY_TAG

dispose(s) == [s EXCEPT !.isDisposed = TRUE]

(* Mutant: cancels the retry after a network error and queues nothing. *)
onConnectionUnavailableNoRetry(s) ==
    [s EXCEPT !.connectionAvailable = FALSE,
              !.networkErrorSubscribingTimer = FALSE]

onConnectionUnavailable(s) ==
    LET t == [s EXCEPT !.connectionAvailable = FALSE]
    IN  IF s.networkErrorSubscribingTimer
        THEN tryPerformAction(t, Item(ACTION_SUBSCRIBE))
        ELSE t

onConnectionAvailable(s) ==
    LET t == [s EXCEPT !.connectionAvailable = TRUE]
    IN  IF Transitioning(t) THEN t ELSE onReadyToPerformNextAction(t)

(* Mutant: does not look whether an unsubscribe is next. *)
resetAlways(s) ==
    CASE s.currentState \in {STATE_SUBSCRIBE_REQUESTED, STATE_SUBSCRIBED} ->
             onSubscribe(onUnsubscribe(s, TRUE))
      [] s.currentState = STATE_PATCH_REQUESTED ->
             onSubscribe(onUnsubscribe(
                 [s EXCEPT !.currentState = STATE_SUBSCRIBED], TRUE))
      [] OTHER -> s

reset(s) ==
    CASE s.currentState \in {STATE_SUBSCRIBE_REQUESTED, STATE_SUBSCRIBED} ->
             IF WillUnsubscribe(s) THEN s
             ELSE onSubscribe(onUnsubscribe(s, TRUE))
      [] s.currentState = STATE_PATCH_REQUESTED ->
             onSubscribe(onUnsubscribe(
                 [s EXCEPT !.currentState = STATE_SUBSCRIBED], TRUE))
      [] OTHER -> s

(* Mutant: does not wait for the snapshot. *)
onStreamingDataUnbuffered(s, parses) ==
    CASE s.currentState \in {STATE_UNSUBSCRIBE_REQUESTED, STATE_UNSUBSCRIBED} -> s
      [] OTHER ->
             IF parses THEN [s EXCEPT !.deltaRef = referenceId(s)] ELSE reset(s)

(* An update for the current reference id.  One that cannot be parsed      *)
(* resets the subscription.  The code's default branch logs and goes on,   *)
(* so an update is also processed while ready for unsubscribe by tag.      *)
onStreamingData(s, parses) ==
    CASE s.currentState \in {STATE_UNSUBSCRIBE_REQUESTED, STATE_UNSUBSCRIBED} -> s
      [] s.currentState = STATE_SUBSCRIBE_REQUESTED ->
             [s EXCEPT !.updatesBeforeSubscribed =
                  IF parses /\ @ # "bad" THEN "good" ELSE "bad"]
      [] OTHER ->
             IF parses THEN [s EXCEPT !.deltaRef = referenceId(s)] ELSE reset(s)
-----------------------------------------------------------------------------
(* What a consumer may call from inside a callback. *)
Calls == {"none", "subscribe", "unsubscribe", "modify", "patch"}

ConsumerCall(s, call) ==
    CASE call = "subscribe" -> onSubscribe(s)
      [] call = "unsubscribe" -> onUnsubscribe(s, FALSE)
      [] call = "modify" -> onModify(s)
      [] call = "patch" -> onModifyPatch(s)
      [] OTHER -> s

(* The snapshot goes to the consumer, who may call back, and the buffered  *)
(* updates follow.  After a first one that does not parse the others make  *)
(* no difference: they are ignored, or reset again to the same queue.      *)
Deliver(s, call) ==
    LET t == ConsumerCall([s EXCEPT !.snapshotRef = referenceId(s)], call)
    IN  IF t.updatesBeforeSubscribed = "none" THEN t
        ELSE onStreamingData(t, t.updatesBeforeSubscribed = "good")

(* Mutant: the snapshot is withheld whenever anything is queued. *)
onSubscribeSuccessIfIdle(s, r, call) ==
    LET t == [s EXCEPT !.currentState = STATE_SUBSCRIBED]
        u == IF isEmpty(t.queue) THEN Deliver(t, call) ELSE t
    IN  IF r # referenceId(s) THEN s
        ELSE onReadyToPerformNextAction([u EXCEPT !.updatesBeforeSubscribed = "none"])

(* The responses.  r is the reference id captured when the request left;   *)
(* a response for another than the current one is ignored.                 *)
onSubscribeSuccess(s, r, call) ==
    LET t == [s EXCEPT !.currentState = STATE_SUBSCRIBED]
        u == IF WillUnsubscribe(t) THEN t ELSE Deliver(t, call)
    IN  IF r # referenceId(s) THEN s
        ELSE onReadyToPerformNextAction([u EXCEPT !.updatesBeforeSubscribed = "none"])

SubscribeErrors == {"duplicate", "unsupportedFormat", "network", "rejected"}

(* The error makes the subscription ask again at once: a duplicate request *)
(* always, an unsupported format only if there is one to fall back to.     *)
Immediate(s, response) ==
    \/ response = "duplicate"
    \/ response = "unsupportedFormat" /\ s.protobuf

(* Mutant: there is no second try after a network error. *)
startNoTimer(s) == s

(* After a network error the POST is tried again in five seconds. *)
startTimer(s) ==
    [s EXCEPT !.networkErrorSubscribingTimer = TRUE,
              !.lostTimers = IF s.networkErrorSubscribingTimer THEN @ + 1 ELSE @]

(* Mutant: asks again at once even if an unsubscribe is next. *)
onSubscribeErrorEager(s, r, response) ==
    LET t == [s EXCEPT !.currentState = STATE_UNSUBSCRIBED,
                       !.protobuf = @ /\ response # "unsupportedFormat"]
    IN  IF r # referenceId(s) THEN s
        ELSE IF Immediate(s, response)
        THEN tryPerformAction(t, Item(ACTION_SUBSCRIBE))
        ELSE IF ~WillUnsubscribe(s) /\ response = "network"
        THEN startTimer(t)
        ELSE onReadyToPerformNextAction(t)

onSubscribeError(s, r, response) ==
    LET t == [s EXCEPT !.currentState = STATE_UNSUBSCRIBED,
                       !.protobuf = @ /\ response # "unsupportedFormat"]
    IN  IF r # referenceId(s) THEN s
        ELSE IF ~WillUnsubscribe(s) /\ Immediate(s, response)
        THEN tryPerformAction(t, Item(ACTION_SUBSCRIBE))
        ELSE IF ~WillUnsubscribe(s) /\ response = "network"
        THEN startTimer(t)
        ELSE onReadyToPerformNextAction(t)

(* The consumer's onError is called. *)
ReportsError(s, r, response) ==
    /\ r = referenceId(s)
    /\ ~WillUnsubscribe(s)
    /\ ~Immediate(s, response)
    /\ response # "network"

(* Mutant: what is left over stays with the server. *)
cleanUpNothing(s, r, response) == {}

(* The reference ids for which a DELETE is sent first of all, of which     *)
(* nobody awaits the response: a POST refused as a duplicate has found a   *)
(* subscription of its reference id left over.                             *)
cleanUpLeftOverSubscription(s, r, response) ==
    IF r = referenceId(s) /\ response = "duplicate" THEN {r} ELSE {}

(* The timer fires: the one whose handle the code holds, or a lost one,    *)
(* which makes the code forget the handle it holds.                        *)
onNetworkErrorTimeout(s) ==
    tryPerformAction([s EXCEPT !.networkErrorSubscribingTimer = FALSE],
                     Item(ACTION_SUBSCRIBE))

onLostTimeout(s) ==
    LET t == [s EXCEPT !.lostTimers =
                  IF s.networkErrorSubscribingTimer THEN @ ELSE @ - 1]
    IN  onNetworkErrorTimeout(t)

(* Mutant: the state is not set back. *)
onUnsubscribeResponseSameState(s, r) ==
    IF r # referenceId(s) THEN s ELSE onReadyToPerformNextAction(s)

(* Success and error of a DELETE differ only in what is logged. *)
onUnsubscribeResponse(s, r) ==
    IF r # referenceId(s) THEN s
    ELSE onReadyToPerformNextAction(
             [s EXCEPT !.currentState = STATE_UNSUBSCRIBED])

(* So do success and error of a PATCH. *)
onModifyPatchResponse(s, r) ==
    IF r # referenceId(s) THEN s
    ELSE onReadyToPerformNextAction(
             [s EXCEPT !.currentState = STATE_SUBSCRIBED])
=============================================================================
