------------------------- MODULE SubscriptionProofs -------------------------
(***************************************************************************)
(* The safety properties of Subscription, for all environments and any     *)
(* number of events.  The inductive invariant Full has six parts, in the   *)
(* order in which they rest on each other:                                 *)
(*   IInv      types, and nothing is waited for in vain                    *)
(*   Tied      what is queued and awaited comes from the environment, and  *)
(*             the queue has been served                                   *)
(*   Orderly   requests go one at a time and the server streams what the   *)
(*             subscription believes, and besides only what a clean-up is  *)
(*             to remove, the network hid or a failed DELETE left          *)
(*   Wanted    what is queued, awaited and timed ends with it subscribed   *)
(*   Unwanted  ... or with it unsubscribed, if that was asked for last     *)
(*   Silent    what is queued for a disposed subscription sends no POST    *)
(***************************************************************************)
EXTENDS Subscription, SubscriptionHandlersProofs

(* Every variable has its type, a state that waits has what it waits for,  *)
(* and no by-tag promise is settled by nobody: a subscription that is      *)
(* ready, or has the action queued, has a DELETE or a call behind it.      *)
Tagged ==
    /\ tagWaiting \in Nat /\ tagDeletes \in Nat
    /\ Good(sub)
    /\ ~sub.becameReady
    /\ isReadyForUnsubscribeByTag(sub) => tagDeletes > 0
    /\ TagQueued(sub) => tagWaiting > 0

IInv == TypeOK /\ Tagged

ServerType == live \subseteq Nat /\ cleanUps \subseteq Nat

(* Once a handler is over, the by-tag promises it has settled are counted  *)
(* as DELETEs.                                                             *)
LEMMA BecomesTagged ==
    ASSUME NEW t, NEW waiting \in Nat, NEW deletes \in Nat, Good(t),
           Becomes(t, waiting, deletes),
           TagQueued(t) => waiting > 0,
           t.becameReady => waiting > 0,
           isReadyForUnsubscribeByTag(t) => t.becameReady \/ deletes > 0
    PROVE  Tagged' /\ (sub \in SubscriptionRecords)'
<1> DEFINE u == [t EXCEPT !.becameReady = FALSE]
<1>1. /\ u \in SubscriptionRecords /\ u.currentState = t.currentState
      /\ u.inFlight = t.inFlight /\ u.queue = t.queue
      /\ u.becameReady = FALSE
  BY DEF Good, SubscriptionRecords
<1>2. sub' = u
  BY DEF Becomes
<1> HIDE DEF u
<1>3. Good(u) /\ ~u.becameReady
  BY <1>1 DEF Good
<1>4. tagWaiting' \in Nat /\ tagDeletes' \in Nat
  BY DEF Becomes
<1>5. isReadyForUnsubscribeByTag(u) => tagDeletes' > 0
  BY <1>1 DEF Becomes, isReadyForUnsubscribeByTag
<1>6. TagQueued(u) => tagWaiting' > 0
  BY <1>1 DEF Becomes, TagQueued, Good
<1> QED BY <1>1, <1>2, <1>3, <1>4, <1>5, <1>6 DEF Tagged

(* A handler that leads on from the subscription keeps the bookkeeping.    *)
LEMMA LeadsTagged ==
    ASSUME Tagged, NEW t, Good(t), Leads(sub, t),
           Becomes(t, tagWaiting, tagDeletes)
    PROVE  Tagged' /\ (sub \in SubscriptionRecords)'
BY BecomesTagged DEF Tagged, Leads

(* The same for a handler of the subscription alone.                       *)
LEMMA HandlesTagged ==
    ASSUME Tagged, ServerType, NEW t, Good(t), Leads(sub, t), Handles(t)
    PROVE  Tagged' /\ (sub \in SubscriptionRecords)' /\ ServerType'
BY LeadsTagged DEF Handles, SameServer, ServerType

(* The variables that bound the behaviour keep their types.                *)
Rest == /\ intent \in {"on", "off"} /\ refused \in BOOLEAN
        /\ env \in Environments /\ budget \in 0..MaxEvents

(* The bounds of a behaviour keep their types.                             *)
LEMMA EventRest ==
    ASSUME Rest, NEW kinds, Event(kinds) \/ NoEvent
    PROVE  env' \in Environments /\ budget' \in 0..MaxEvents
BY MaxEventsAssumption DEF Event, NoEvent, Rest

(* So does what the consumer wants.                                        *)
LEMMA IntentRest ==
    ASSUME Rest, Intends("on") \/ Intends("off") \/ SameIntent \/ WantsIt
    PROVE  intent' \in {"on", "off"} /\ refused' \in BOOLEAN
BY DEF Intends, SameIntent, WantsIt, Rest

(* The parts make up the invariant.                                        *)
LEMMA TypeFromParts ==
    ASSUME Tagged', (sub \in SubscriptionRecords)', ServerType', Rest'
    PROVE  IInv'
BY DEF IInv, TypeOK, Tagged, Rest, ServerType
-----------------------------------------------------------------------------
(* The invariant holds initially.                                          *)
LEMMA InitIInv == Init => IInv
<1> SUFFICES ASSUME Init PROVE IInv
  OBVIOUS
<1>1. PICK connected \in BOOLEAN, protobuf \in BOOLEAN :
          sub = onSubscribe(IF connected THEN NewSubscription(protobuf)
                            ELSE onConnectionUnavailable(NewSubscription(protobuf)))
  BY DEF Init
<1> DEFINE s == NewSubscription(protobuf)
           t == IF connected THEN s ELSE onConnectionUnavailable(s)
<1>2. /\ Good(s) /\ ~TagQueued(s) /\ ~s.becameReady
      /\ ~isReadyForUnsubscribeByTag(s)
  BY NewGood
<1> HIDE DEF s
<1>3. Good(t) /\ Leads(s, t)
  BY <1>2, OnConnectionUnavailableGood, StaysPut
<1>4. sub = onSubscribe(t)
  BY <1>1 DEF s
<1> HIDE DEF t
<1>5. Good(sub) /\ Leads(t, sub)
  BY <1>3, <1>4, OnSubscribeGood
<1>6. ~TagQueued(sub) /\ ~sub.becameReady /\ ~isReadyForUnsubscribeByTag(sub)
  BY <1>2, <1>3, <1>5 DEF Leads
<1>7. Tagged /\ sub \in SubscriptionRecords
  BY <1>5, <1>6 DEF Tagged, Good, Init
<1>8. budget \in 0..MaxEvents /\ ServerType /\ env \in Environments
  BY MaxEventsAssumption DEF Init, ServerType
<1> QED BY <1>7, <1>8 DEF IInv, TypeOK, Tagged, Init, ServerType

(* The consumer's calls. *)
LEMMA ConsumerIInv ==
    ASSUME IInv, Consumer
    PROVE  IInv'
<1>1. Tagged /\ Rest /\ ServerType /\ Good(sub) /\ ~sub.becameReady
      /\ tagWaiting \in Nat /\ tagDeletes \in Nat
  BY DEF IInv, TypeOK, Tagged, Rest, ServerType
<1>2. ASSUME NEW t, Good(t), Leads(sub, t), Handles(t), NEW kinds, Event(kinds),
             Intends("on") \/ Intends("off") \/ SameIntent \/ WantsIt
      PROVE  IInv'
  BY <1>1, <1>2, HandlesTagged, EventRest, IntentRest, TypeFromParts DEF Rest
<1>3. CASE Subscribe
  BY <1>1, <1>2, <1>3, OnSubscribeGood DEF Subscribe
<1>4. CASE Unsubscribing
  BY <1>1, <1>2, <1>4, OnUnsubscribeGood DEF Unsubscribing
<1>5. CASE Modify
  BY <1>1, <1>2, <1>5, OnModifyGood DEF Modify
<1>6. CASE ModifyPatch
  BY <1>1, <1>2, <1>6, OnModifyPatchGood DEF ModifyPatch
<1>7. CASE disposeSubscription
  <2> DEFINE t == onUnsubscribe(sub, FALSE)
  <2>1. Good(t) /\ Leads(sub, t)
    BY <1>1, OnUnsubscribeGood
  <2>2. Handles(dispose(t)) /\ Event({"Dispose"}) /\ Intends("off")
    BY <1>7 DEF disposeSubscription
  <2> HIDE DEF t
  <2>3. Good(dispose(t)) /\ Leads(sub, dispose(t))
    BY <2>1, DisposeGood, LeadsOn
  <2> QED BY <1>2, <2>2, <2>3
<1>8. CASE unsubscribeByTag \/ disposeSubscriptionByTag
  <2> DEFINE t == onUnsubscribeByTagPending(sub)
  <2>1. /\ Good(t)
        /\ isReadyForUnsubscribeByTag(t) =>
               isReadyForUnsubscribeByTag(sub) \/ t.becameReady
    BY <1>1, OnUnsubscribeByTagPendingGood
  <2>2. PICK kinds : Event(kinds)
    BY <1>8 DEF unsubscribeByTag, disposeSubscriptionByTag
  <2>3. PICK u \in {t, dispose(t)} :
            Becomes(u, tagWaiting + 1, tagDeletes)
    BY <1>8 DEF unsubscribeByTag, disposeSubscriptionByTag
  <2>4. UNCHANGED <<live, cleanUps>> /\ Intends("off")
    BY <1>8 DEF unsubscribeByTag, disposeSubscriptionByTag, SameServer
  <2> HIDE DEF t
  <2>5. /\ Good(u)
        /\ isReadyForUnsubscribeByTag(u) =>
               isReadyForUnsubscribeByTag(sub) \/ u.becameReady
    BY <2>1, DisposeGood DEF isReadyForUnsubscribeByTag
  <2>6. tagWaiting + 1 \in Nat /\ tagWaiting + 1 > 0
    BY <1>1
  <2>7. Tagged' /\ (sub \in SubscriptionRecords)'
    BY <1>1, <2>3, <2>5, <2>6, BecomesTagged DEF Tagged
  <2> QED BY <1>1, <2>2, <2>4, <2>7, EventRest, IntentRest, TypeFromParts
          DEF Rest, ServerType
<1> QED BY <1>3, <1>4, <1>5, <1>6, <1>7, <1>8 DEF Consumer

(* Connection, control messages, updates and the response by tag. *)
LEMMA StreamingIInv ==
    ASSUME IInv, Streaming
    PROVE  IInv'
<1>1. Tagged /\ Rest /\ ServerType /\ Good(sub) /\ ~sub.becameReady
      /\ tagWaiting \in Nat /\ tagDeletes \in Nat
  BY DEF IInv, TypeOK, Tagged, Rest, ServerType
<1>2. ASSUME NEW t, Good(t), Leads(sub, t), Handles(t), NEW kinds,
             Event(kinds) \/ NoEvent, SameIntent
      PROVE  IInv'
  BY <1>1, <1>2, HandlesTagged, EventRest, IntentRest, TypeFromParts DEF Rest
<1>3. CASE ConnectionUnavailable
  BY <1>1, <1>2, <1>3, OnConnectionUnavailableGood DEF ConnectionUnavailable
<1>4. CASE ConnectionAvailable
  BY <1>1, <1>2, <1>4, OnConnectionAvailableGood DEF ConnectionAvailable
<1>5. CASE Reset
  BY <1>1, <1>2, <1>5, ResetGood DEF Reset
<1>6. CASE Update
  BY <1>1, <1>2, <1>6, OnStreamingDataGood DEF Update
<1>7. CASE UnparsableUpdate
  BY <1>1, <1>2, <1>7, OnStreamingDataGood DEF UnparsableUpdate
<1>8. CASE UnsubscribeByTagAnswered
  <2> DEFINE t == onUnsubscribeByTagComplete(sub)
  <2>1. Good(t) /\ Leads(sub, t) /\ (isReadyForUnsubscribeByTag(t) => t.becameReady)
    BY <1>1, OnUnsubscribeByTagCompleteGood
  <2>2. /\ Becomes(t, tagWaiting, tagDeletes - 1) /\ tagDeletes > 0
        /\ ServerType' /\ SameIntent
    BY <1>1, <1>8 DEF UnsubscribeByTagAnswered, ServerType, Deletes
  <2>5. PICK kinds : Event(kinds) \/ NoEvent
    BY <1>8 DEF UnsubscribeByTagAnswered, Deletes
  <2> HIDE DEF t
  <2>3. tagDeletes - 1 \in Nat
    BY <1>1, <2>2
  <2>4. Tagged' /\ (sub \in SubscriptionRecords)'
    BY <1>1, <2>1, <2>2, <2>3, BecomesTagged DEF Tagged, Leads
  <2> QED BY <1>1, <2>2, <2>4, <2>5, EventRest, IntentRest, TypeFromParts DEF Rest
<1> QED BY <1>3, <1>4, <1>5, <1>6, <1>7, <1>8 DEF Streaming

(* The responses. *)
LEMMA ResponseIInv ==
    ASSUME IInv, NEW r \in DOMAIN sub.inFlight, Response(r)
    PROVE  IInv'
<1>1. Tagged /\ Rest /\ ServerType /\ Good(sub) /\ ~sub.becameReady
      /\ tagWaiting \in Nat /\ tagDeletes \in Nat
  BY DEF IInv, TypeOK, Tagged, Rest, ServerType
<1>2. r \in 1..Len(sub.inFlight) /\ r \in Nat
  <2>1. sub.inFlight \in Seq([RequestKinds -> Nat])
    BY <1>1 DEF Good, SubscriptionRecords
  <2>2. DOMAIN sub.inFlight = 1..Len(sub.inFlight)
    BY <2>1, LenProperties
  <2> QED BY <2>2
<1>3. ASSUME NEW k \in RequestKinds, Waiting(r, k)
      PROVE  Answered(Received(r, k), r) /\ Leads(sub, Received(r, k))
  BY <1>1, <1>2, <1>3, ReceivedAnswered DEF Waiting, Received
<1>4. "post" \in RequestKinds /\ "delete" \in RequestKinds /\ "patch" \in RequestKinds
  BY DEF RequestKinds
<1>5. ASSUME NEW t, Good(t), Leads(sub, t), Becomes(t, tagWaiting, tagDeletes),
             ServerType', NEW kinds, Event(kinds) \/ NoEvent,
             intent' \in {"on", "off"}, refused' \in BOOLEAN
      PROVE  IInv'
  BY <1>1, <1>5, LeadsTagged, EventRest, TypeFromParts DEF Rest
<1>6. CASE SubscribeSucceeded(r)
  <2> DEFINE t == onSubscribeSuccess(Received(r, "post"), r, "none")
  <2>1. Good(t) /\ Leads(sub, t)
    BY <1>3, <1>4, <1>6, OnSubscribeSuccessGood, LeadsOn DEF SubscribeSucceeded
  <2> HIDE DEF t
  <2>2. Becomes(t, tagWaiting, tagDeletes) /\ NoEvent /\ SameIntent
        /\ ServerType'
    BY <1>1, <1>2, <1>6 DEF SubscribeSucceeded, ServerType, t
  <2> QED BY <1>1, <1>5, <2>1, <2>2, IntentRest
<1>7. CASE \E call \in Calls \ {"none"} : SubscribeSucceededReentrantly(r, call)
  <2>1. PICK call \in Calls \ {"none"} : SubscribeSucceededReentrantly(r, call)
    BY <1>7
  <2> DEFINE t == onSubscribeSuccess(Received(r, "post"), r, call)
  <2>2. Good(t) /\ Leads(sub, t)
    BY <1>3, <1>4, <2>1, OnSubscribeSuccessGood, LeadsOn
    DEF SubscribeSucceededReentrantly
  <2> HIDE DEF t
  <2>3. Becomes(t, tagWaiting, tagDeletes) /\ ServerType'
    BY <1>1, <1>2, <2>1 DEF SubscribeSucceededReentrantly, ServerType, t
  <2>4. PICK kinds : Event(kinds)
    BY <2>1 DEF SubscribeSucceededReentrantly
  <2>5. Intends("on") \/ Intends("off") \/ SameIntent
    BY <2>1 DEF SubscribeSucceededReentrantly
  <2> QED BY <1>1, <1>5, <2>2, <2>3, <2>4, <2>5, IntentRest
<1>8. CASE \E response \in SubscribeErrors : SubscribeFailed(r, response)
  <2>1. PICK response \in SubscribeErrors : SubscribeFailed(r, response)
    BY <1>8
  <2> DEFINE t == onSubscribeError(Received(r, "post"), r, response)
  <2>2. Good(t) /\ Leads(sub, t)
    BY <1>3, <1>4, <2>1, OnSubscribeErrorGood, LeadsOn DEF SubscribeFailed
  <2> HIDE DEF t
  <2>3. Becomes(t, tagWaiting, tagDeletes) /\ ServerType'
    BY <1>1, <1>2, <2>1 DEF SubscribeFailed, cleanUpLeftOverSubscription, ServerType, t
  <2>4. Event({response})
    BY <2>1 DEF SubscribeFailed
  <2>5. intent' \in {"on", "off"} /\ refused' \in BOOLEAN
    BY <1>1, <2>1 DEF SubscribeFailed, Rest, ReportsError
  <2> QED BY <1>5, <2>2, <2>3, <2>4, <2>5
<1>9. CASE UnsubscribeAnswered(r)
  <2> DEFINE t == onUnsubscribeResponse(Received(r, "delete"), r)
  <2>1. Good(t) /\ Leads(sub, t)
    BY <1>3, <1>4, <1>9, OnUnsubscribeResponseGood, LeadsOn DEF UnsubscribeAnswered
  <2> HIDE DEF t
  <2>2. Becomes(t, tagWaiting, tagDeletes) /\ SameIntent /\ ServerType'
    BY <1>1, <1>9 DEF UnsubscribeAnswered, ServerType, Deletes, t
  <2>3. PICK kinds : Event(kinds) \/ NoEvent
    BY <1>9 DEF UnsubscribeAnswered, Deletes
  <2> QED BY <1>1, <1>5, <2>1, <2>2, <2>3, IntentRest
<1>10. CASE ModifyPatchAnswered(r)
  <2> DEFINE t == onModifyPatchResponse(Received(r, "patch"), r)
  <2>1. Good(t) /\ Leads(sub, t)
    BY <1>3, <1>4, <1>10, OnModifyPatchResponseGood, LeadsOn DEF ModifyPatchAnswered
  <2> HIDE DEF t
  <2>2. Becomes(t, tagWaiting, tagDeletes) /\ NoEvent /\ SameIntent
        /\ ServerType'
    BY <1>1, <1>10 DEF ModifyPatchAnswered, Handles, SameServer, ServerType, t
  <2> QED BY <1>1, <1>5, <2>1, <2>2, IntentRest
<1>11. CASE CleanUpAnswered(r)
  <2>1. ServerType' /\ SameIntent /\ UNCHANGED <<sub, tagWaiting, tagDeletes>>
    BY <1>1, <1>11 DEF CleanUpAnswered, ServerType, Deletes
  <2>2. PICK kinds : Event(kinds) \/ NoEvent
    BY <1>11 DEF CleanUpAnswered, Deletes
  <2>3. Tagged' /\ (sub \in SubscriptionRecords)'
    BY <1>1, <2>1 DEF Tagged, Good, TagQueued, isReadyForUnsubscribeByTag
  <2> QED BY <1>1, <2>1, <2>2, <2>3, EventRest, IntentRest, TypeFromParts DEF Rest
<1> QED BY <1>6, <1>7, <1>8, <1>9, <1>10, <1>11 DEF Response

(* The timers.                                                             *)
LEMMA TimeoutIInv ==
    ASSUME IInv, NetworkErrorTimeout
    PROVE  IInv'
<1>1. Tagged /\ Rest /\ ServerType /\ Good(sub)
  BY DEF IInv, TypeOK, Tagged, Rest, ServerType
<1>2. PICK t : Good(t) /\ Leads(sub, t) /\ Handles(t)
  BY <1>1, TimeoutGood, LostTimeoutGood DEF NetworkErrorTimeout
<1>3. NoEvent /\ SameIntent
  BY DEF NetworkErrorTimeout
<1> QED BY <1>1, <1>2, <1>3, HandlesTagged, EventRest, IntentRest, TypeFromParts
        DEF Rest

(* Every step preserves the invariant.                                     *)
LEMMA NextIInv == IInv /\ [Next]_vars => IInv'
<1> SUFFICES ASSUME IInv, [Next]_vars PROVE IInv'
  OBVIOUS
<1>1. CASE UNCHANGED vars
  BY <1>1 DEF vars, IInv, TypeOK, Tagged, Good, TagQueued,
       isReadyForUnsubscribeByTag
<1>2. CASE Consumer
  BY <1>2, ConsumerIInv
<1>3. CASE Streaming
  BY <1>3, StreamingIInv
<1>4. CASE \E r \in DOMAIN sub.inFlight : Response(r)
  BY <1>4, ResponseIInv
<1>5. CASE NetworkErrorTimeout
  BY <1>5, TimeoutIInv
<1> QED BY <1>1, <1>2, <1>3, <1>4, <1>5 DEF Next

(* The inductive invariant holds in every behaviour. *)
THEOREM Inductive == Spec => []IInv
<1>1. Init => IInv
  BY InitIInv
<1>2. IInv /\ [Next]_vars => IInv'
  BY NextIInv
<1> QED BY <1>1, <1>2, PTL DEF Spec

(* Type correctness: in particular the responses a subscription waits for  *)
(* never become fewer than none, and no action but the four is queued.     *)
THEOREM TypeCorrect == Spec => []TypeOK
<1>1. IInv => TypeOK
  BY DEF IInv
<1> QED BY <1>1, Inductive, PTL

(* The subscription never waits for a response that cannot come: whatever  *)
(* state the handlers leave it in, the request is in flight under the      *)
(* current reference id, or a DELETE by tag is.                            *)
THEOREM NeverWaitsInVain == Spec => []NeverStuck
<1>1. IInv => NeverStuck
  BY DEF IInv, Tagged, Good, NeverStuck, referenceId
<1> QED BY <1>1, Inductive, PTL
-----------------------------------------------------------------------------
(* A subscription holds only what the events of its environment bring      *)
(* about, and has served its queue.                                        *)
Fits(s) ==
    /\ Without({"Patch"}) => /\ ~Holds(s.queue, ACTION_MODIFY_PATCH)
                             /\ s.currentState # STATE_PATCH_REQUESTED
    /\ Without({"ByTag"}) => /\ ~TagQueued(s) /\ ~s.becameReady
                             /\ ~isReadyForUnsubscribeByTag(s)
    /\ Without({"Patch", "ByTag"}) => OnlyOnOff(s.queue)
    /\ Without({"BadUpdate"}) => s.updatesBeforeSubscribed # "bad"
    /\ Without({"network"}) => ~s.networkErrorSubscribingTimer /\ s.lostTimers = 0
    /\ TagAtHead(s.queue)
    /\ Served(s)

(* Streaming forgets a disposed subscription only after the consumer has   *)
(* given it up, and calls by tag are counted.                              *)
Tied ==
    /\ Fits(sub)
    /\ sub.isDisposed => intent = "off"
    /\ Without({"ByTag"}) => tagWaiting = 0 /\ tagDeletes = 0

(* The actions that the environment may ask for. *)
Allowed(actions) ==
    /\ actions \subseteq Actions
    /\ Without({"Patch"}) => ACTION_MODIFY_PATCH \notin actions
    /\ Without({"ByTag"}) => ACTION_UNSUBSCRIBE_BY_TAG_PENDING \notin actions

(* The four actions differ.                                                *)
LEMMA ActionNames ==
    /\ ACTION_SUBSCRIBE \notin {ACTION_UNSUBSCRIBE, ACTION_MODIFY_PATCH,
                                ACTION_UNSUBSCRIBE_BY_TAG_PENDING}
    /\ ACTION_UNSUBSCRIBE \notin {ACTION_MODIFY_PATCH,
                                  ACTION_UNSUBSCRIBE_BY_TAG_PENDING}
    /\ ACTION_MODIFY_PATCH # ACTION_UNSUBSCRIBE_BY_TAG_PENDING
    /\ Actions = {ACTION_SUBSCRIBE, ACTION_UNSUBSCRIBE, ACTION_MODIFY_PATCH,
                  ACTION_UNSUBSCRIBE_BY_TAG_PENDING}
BY DEF Actions, ACTION_SUBSCRIBE, ACTION_UNSUBSCRIBE, ACTION_MODIFY_PATCH,
       ACTION_UNSUBSCRIBE_BY_TAG_PENDING

(* What every environment asks for, and what only some do.                 *)
LEMMA AllowedAlways ==
    /\ Allowed({}) /\ Allowed({ACTION_SUBSCRIBE}) /\ Allowed({ACTION_UNSUBSCRIBE})
    /\ Allowed(Again)
    /\ "Patch" \in env => Allowed({ACTION_MODIFY_PATCH})
    /\ "ByTag" \in env => Allowed({ACTION_UNSUBSCRIBE_BY_TAG_PENDING})
BY ActionNames DEF Allowed, Again, Without

(* A handler that does only what the environment asks for leaves a         *)
(* subscription that fits it.                                              *)
LEMMA DoesFits ==
    ASSUME NEW s, Fits(s), NEW t, NEW A, Does(s, t, A), Allowed(A), Served(t),
           t.updatesBeforeSubscribed = "bad" =>
               s.updatesBeforeSubscribed = "bad" \/ "BadUpdate" \in env,
           t.networkErrorSubscribingTimer =>
               s.networkErrorSubscribingTimer \/ "network" \in env,
           t.lostTimers = s.lostTimers \/ "network" \in env
    PROVE  Fits(t)
<1>1. Without({"Patch"}) => /\ ~Holds(t.queue, ACTION_MODIFY_PATCH)
                            /\ t.currentState # STATE_PATCH_REQUESTED
  BY ActionNames DEF Fits, Does, Allowed
<1>2. Without({"ByTag"}) => /\ ~TagQueued(t) /\ ~t.becameReady
                            /\ ~isReadyForUnsubscribeByTag(t)
  BY ActionNames DEF Fits, Does, Allowed, TagQueued
<1>3. Without({"Patch", "ByTag"}) => OnlyOnOff(t.queue)
  <2>1. ASSUME Without({"Patch", "ByTag"})
        PROVE  OnlyOnOff(t.queue)
    <3>1. Without({"Patch"}) /\ Without({"ByTag"})
      BY <2>1 DEF Without
    <3>2. A \subseteq {ACTION_SUBSCRIBE, ACTION_UNSUBSCRIBE}
      BY <3>1, ActionNames DEF Allowed
    <3> QED BY <2>1, <3>2 DEF Fits, Does
  <2> QED BY <2>1
<1>4. TagAtHead(t.queue)
  BY DEF Fits, Does
<1>5. /\ Without({"BadUpdate"}) => t.updatesBeforeSubscribed # "bad"
      /\ Without({"network"}) => ~t.networkErrorSubscribingTimer /\ t.lostTimers = 0
  BY DEF Fits, Without
<1> QED BY <1>1, <1>2, <1>3, <1>4, <1>5 DEF Fits

(* The same for an action.                                                 *)
LEMMA ActsFits ==
    ASSUME NEW s, Fits(s), NEW t, NEW A, Acts(s, t, A), Allowed(A), Served(t)
    PROVE  Fits(t)
<1>1. /\ Does(s, t, A)
      /\ t.updatesBeforeSubscribed = "bad" => s.updatesBeforeSubscribed = "bad"
      /\ t.networkErrorSubscribingTimer => s.networkErrorSubscribingTimer
      /\ t.lostTimers = s.lostTimers
  BY DEF Acts, Keeps
<1> QED BY <1>1, DoesFits

(* The end of a handler changes nothing about it.                          *)
LEMMA BecomesFits ==
    ASSUME NEW t, Good(t), Fits(t), NEW waiting, NEW deletes,
           Becomes(t, waiting, deletes), UNCHANGED env
    PROVE  Fits(sub)'
<1> DEFINE u == [t EXCEPT !.becameReady = FALSE]
<1>1. /\ u.currentState = t.currentState /\ u.queue = t.queue
      /\ u.updatesBeforeSubscribed = t.updatesBeforeSubscribed
      /\ u.networkErrorSubscribingTimer = t.networkErrorSubscribingTimer
      /\ u.lostTimers = t.lostTimers /\ u.connectionAvailable = t.connectionAvailable
      /\ u.becameReady = FALSE
  BY DEF Good, SubscriptionRecords
<1>2. sub' = u
  BY DEF Becomes
<1> HIDE DEF u
<1>3. /\ TagQueued(u) = TagQueued(t) /\ Transitioning(u) = Transitioning(t)
      /\ isReadyForUnsubscribeByTag(u) = isReadyForUnsubscribeByTag(t)
      /\ WillUnsubscribe(u) = WillUnsubscribe(t)
  BY <1>1 DEF TagQueued, Transitioning, isReadyForUnsubscribeByTag, WillUnsubscribe
<1>4. Served(u)
  BY <1>1, <1>3 DEF Fits, Served
<1>5. Fits(u)
  BY <1>1, <1>3, <1>4 DEF Fits
<1>6. \A K : Without(K)' = Without(K)
  BY DEF Without
<1> QED BY <1>2, <1>5, <1>6 DEF Fits

(* A handler keeps the bookkeeping of disposal and of calls by tag.        *)
LEMMA BecomesTied ==
    ASSUME Tied, NEW t, Good(t), Fits(t), NEW waiting, NEW deletes,
           Becomes(t, waiting, deletes), UNCHANGED env,
           t.isDisposed => intent' = "off",
           Without({"ByTag"}) => waiting = 0 /\ deletes = 0
    PROVE  Tied'
<1>1. Fits(sub)'
  BY BecomesFits
<1>2. sub'.isDisposed = t.isDisposed
  BY DEF Becomes, Good, SubscriptionRecords
<1>3. Without({"ByTag"})' = Without({"ByTag"})
  BY DEF Without
<1>4. Without({"ByTag"}) => ~t.becameReady
  BY DEF Fits
<1>5. Without({"ByTag"}) => tagWaiting' = 0 /\ tagDeletes' = 0
  BY <1>4 DEF Becomes
<1> QED BY <1>1, <1>2, <1>3, <1>5 DEF Tied

-----------------------------------------------------------------------------
(* Initially.                                                              *)
LEMMA InitTied == Init => Tied
<1> SUFFICES ASSUME Init PROVE Tied
  OBVIOUS
<1>1. PICK connected \in BOOLEAN, protobuf \in BOOLEAN :
          sub = onSubscribe(IF connected THEN NewSubscription(protobuf)
                            ELSE onConnectionUnavailable(NewSubscription(protobuf)))
  BY DEF Init
<1> DEFINE s == NewSubscription(protobuf)
           t == IF connected THEN s ELSE onConnectionUnavailable(s)
<1>2. /\ Good(s) /\ ~TagQueued(s) /\ ~s.becameReady
      /\ ~isReadyForUnsubscribeByTag(s)
  BY NewGood
<1>3. /\ s.queue = <<>> /\ s.currentState = STATE_UNSUBSCRIBED
      /\ ~s.networkErrorSubscribingTimer /\ s.lostTimers = 0
      /\ s.updatesBeforeSubscribed = "none" /\ ~s.isDisposed
  BY DEF NewSubscription
<1>a. sub = onSubscribe(t)
  BY <1>1
<1> HIDE DEF s
<1>4. Fits(s) /\ ~s.isDisposed
  <2>1. ~Holds(s.queue, ACTION_MODIFY_PATCH) /\ OnlyOnOff(s.queue) /\ TagAtHead(s.queue)
    BY <1>3 DEF Holds, OnlyOnOff, TagAtHead
  <2>2. Served(s)
    BY <1>3 DEF Served
  <2> QED BY <1>2, <1>3, <2>1, <2>2, StateNames DEF Fits
<1>5. Good(t) /\ Fits(t) /\ ~t.isDisposed
  <2> DEFINE u == onConnectionUnavailable(s)
  <2>1. /\ ~u.connectionAvailable /\ u.isDisposed = s.isDisposed
        /\ ~u.networkErrorSubscribingTimer /\ u.lostTimers = s.lostTimers
        /\ Does(s, u, {ACTION_SUBSCRIBE})
        /\ u.updatesBeforeSubscribed \in {s.updatesBeforeSubscribed, "none"}
    BY <1>2, OnConnectionUnavailableMoves
  <2>2. Good(u)
    BY <1>2, OnConnectionUnavailableGood
  <2> HIDE DEF u
  <2>3. Served(u)
    BY <2>1 DEF Served
  <2>4. Fits(u)
    BY <1>4, <2>1, <2>3, AllowedAlways, DoesFits
  <2> QED BY <1>2, <1>4, <2>1, <2>2, <2>4 DEF u
<1> HIDE DEF t
<1>6. Acts(t, sub, {ACTION_SUBSCRIBE}) /\ Served(sub)
  BY <1>a, <1>5, OnSubscribeActs
<1>7. Fits(sub)
  BY <1>5, <1>6, ActsFits, AllowedAlways
<1>8. ~sub.isDisposed
  BY <1>5, <1>6 DEF Acts, Keeps
<1> QED BY <1>7, <1>8 DEF Tied, Init

(* The consumer's calls.                                                   *)
LEMMA ConsumerTied ==
    ASSUME IInv, Tied, Consumer
    PROVE  Tied'
<1>1. Good(sub) /\ Fits(sub) /\ Served(sub) /\ ~sub.becameReady
  BY DEF IInv, Tagged, Tied, Fits
<1>2. ASSUME NEW t, Good(t), NEW A, Acts(sub, t, A), Allowed(A), t = sub \/ Served(t),
             Handles(t), NEW kinds, Event(kinds),
             (Intends("on") /\ ~sub.isDisposed) \/ Intends("off") \/ SameIntent \/ WantsIt
      PROVE  Tied'
  <2>1. Served(t)
    BY <1>1, <1>2
  <2>2. Fits(t) /\ t.isDisposed = sub.isDisposed
    BY <1>1, <1>2, <2>1, ActsFits DEF Acts, Keeps
  <2>3. t.isDisposed => intent' = "off"
    BY <1>2, <2>2 DEF Tied, WantsIt, SameIntent, Intends
  <2>4. /\ Becomes(t, tagWaiting, tagDeletes) /\ UNCHANGED env
        /\ Without({"ByTag"}) => tagWaiting = 0 /\ tagDeletes = 0
    BY <1>2 DEF Handles, Event, Tied
  <2> QED BY <1>2, <2>2, <2>3, <2>4, BecomesTied
<1>3. CASE Subscribe
  BY <1>1, <1>2, <1>3, OnSubscribeGood, OnSubscribeActs, AllowedAlways DEF Subscribe
<1>4. CASE Unsubscribing
  BY <1>1, <1>2, <1>4, OnUnsubscribeGood, OnUnsubscribeActs, AllowedAlways
  DEF Unsubscribing
<1>5. CASE Modify
  BY <1>1, <1>2, <1>5, OnModifyGood, OnModifyActs, AllowedAlways DEF Modify
<1>6. CASE ModifyPatch
  <2>1. Allowed({ACTION_MODIFY_PATCH})
    BY <1>6, AllowedAlways DEF ModifyPatch, Event
  <2> QED BY <1>1, <1>2, <1>6, <2>1, OnModifyPatchGood, OnModifyPatchActs
          DEF ModifyPatch
<1>a. ASSUME NEW t, Good(t), Fits(t), NEW u, u = t \/ u = dispose(t)
      PROVE  Good(u) /\ Fits(u)
  <2>1. CASE u = dispose(t)
    <3>1. /\ u.currentState = t.currentState /\ u.queue = t.queue
          /\ u.becameReady = t.becameReady
          /\ u.connectionAvailable = t.connectionAvailable
          /\ u.networkErrorSubscribingTimer = t.networkErrorSubscribingTimer
          /\ u.lostTimers = t.lostTimers
          /\ u.updatesBeforeSubscribed = t.updatesBeforeSubscribed
      BY <1>a, <2>1, DisposeSame
    <3>2. Good(u)
      BY <1>a, <2>1, DisposeGood
    <3>3. /\ TagQueued(u) = TagQueued(t) /\ Transitioning(u) = Transitioning(t)
          /\ isReadyForUnsubscribeByTag(u) = isReadyForUnsubscribeByTag(t)
          /\ WillUnsubscribe(u) = WillUnsubscribe(t)
      BY <3>1 DEF TagQueued, Transitioning, isReadyForUnsubscribeByTag, WillUnsubscribe
    <3>4. Served(u)
      BY <1>a, <3>1, <3>3 DEF Fits, Served
    <3> QED BY <1>a, <3>1, <3>2, <3>3, <3>4 DEF Fits
  <2> QED BY <1>a, <2>1
<1>7. CASE disposeSubscription
  <2> DEFINE t == onUnsubscribe(sub, FALSE)
  <2>1. Good(t) /\ Acts(sub, t, {ACTION_UNSUBSCRIBE}) /\ Served(t)
    BY <1>1, OnUnsubscribeGood, OnUnsubscribeActs
  <2>2. /\ Becomes(dispose(t), tagWaiting, tagDeletes)
        /\ intent' = "off" /\ UNCHANGED env
    BY <1>7 DEF disposeSubscription, Handles, Event, Intends
  <2> HIDE DEF t
  <2>3. Fits(t)
    BY <1>1, <2>1, ActsFits, AllowedAlways
  <2>4. Good(dispose(t)) /\ Fits(dispose(t))
    BY <1>a, <2>1, <2>3
  <2> QED BY <2>2, <2>4, BecomesTied DEF Tied
<1>8. CASE unsubscribeByTag \/ disposeSubscriptionByTag
  <2> DEFINE t == onUnsubscribeByTagPending(sub)
  <2>1. /\ Good(t) /\ Acts(sub, t, {ACTION_UNSUBSCRIBE_BY_TAG_PENDING}) /\ Served(t)
    BY <1>1, OnUnsubscribeByTagPendingGood, OnUnsubscribeByTagPendingActs
  <2>2. PICK u : /\ u = t \/ u = dispose(t)
                 /\ Becomes(u, tagWaiting + 1, tagDeletes)
    BY <1>8 DEF unsubscribeByTag, disposeSubscriptionByTag
  <2>3. "ByTag" \in env /\ UNCHANGED env /\ intent' = "off"
    BY <1>8 DEF unsubscribeByTag, disposeSubscriptionByTag, Event, Intends
  <2> HIDE DEF t
  <2>4. Fits(t)
    BY <1>1, <2>1, <2>3, ActsFits, AllowedAlways
  <2>5. Good(u) /\ Fits(u)
    BY <1>a, <2>1, <2>2, <2>4
  <2>6. ~Without({"ByTag"})
    BY <2>3 DEF Without
  <2> QED BY <2>2, <2>3, <2>5, <2>6, BecomesTied
<1> QED BY <1>3, <1>4, <1>5, <1>6, <1>7, <1>8 DEF Consumer

(* Connection, control messages, updates and the response by tag.          *)
LEMMA StreamingTied ==
    ASSUME IInv, Tied, Streaming
    PROVE  Tied'
<1>1. Good(sub) /\ Fits(sub) /\ Served(sub) /\ ~sub.becameReady
  BY DEF IInv, Tagged, Tied, Fits
<1>2. ASSUME NEW t, Good(t), Fits(t), t.isDisposed = sub.isDisposed,
             Handles(t), UNCHANGED env, SameIntent
      PROVE  Tied'
  BY <1>2, BecomesTied DEF Handles, Tied, SameIntent
<1>3. CASE ConnectionUnavailable
  <2> DEFINE t == onConnectionUnavailable(sub)
  <2>1. /\ ~t.connectionAvailable /\ t.isDisposed = sub.isDisposed
        /\ ~t.networkErrorSubscribingTimer /\ t.lostTimers = sub.lostTimers
        /\ Does(sub, t, {ACTION_SUBSCRIBE})
        /\ t.updatesBeforeSubscribed \in {sub.updatesBeforeSubscribed, "none"}
    BY <1>1, OnConnectionUnavailableMoves
  <2>2. Good(t) /\ Handles(t) /\ UNCHANGED env /\ SameIntent
    BY <1>1, <1>3, OnConnectionUnavailableGood DEF ConnectionUnavailable, Event
  <2> HIDE DEF t
  <2>3. Served(t)
    BY <2>1 DEF Served
  <2>4. Fits(t)
    BY <1>1, <2>1, <2>3, AllowedAlways, DoesFits
  <2> QED BY <1>2, <2>1, <2>2, <2>4
<1>4. CASE ConnectionAvailable
  <2> DEFINE up == [sub EXCEPT !.connectionAvailable = TRUE]
             t == onConnectionAvailable(sub)
  <2>1. Acts(up, t, {}) /\ Served(t) /\ Does(sub, t, {})
    BY <1>1, OnConnectionAvailableMoves
  <2>2. Good(t) /\ Handles(t) /\ UNCHANGED env /\ SameIntent
    BY <1>1, <1>4, OnConnectionAvailableGood DEF ConnectionAvailable, NoEvent
  <2>3. /\ up.isDisposed = sub.isDisposed /\ up.lostTimers = sub.lostTimers
        /\ up.networkErrorSubscribingTimer = sub.networkErrorSubscribingTimer
        /\ up.updatesBeforeSubscribed = sub.updatesBeforeSubscribed
    BY <1>1 DEF Good, SubscriptionRecords
  <2> HIDE DEF t, up
  <2>4. Fits(t) /\ t.isDisposed = sub.isDisposed
    BY <1>1, <2>1, <2>3, AllowedAlways, DoesFits DEF Acts, Keeps
  <2> QED BY <1>2, <2>2, <2>4
<1>a. LET t == reset(sub) IN
      Good(t) /\ Fits(t) /\ t.isDisposed = sub.isDisposed
  <2> DEFINE t == reset(sub)
  <2>1. /\ Does(sub, t, Again) /\ Good(t)
        /\ t.isDisposed = sub.isDisposed
        /\ t.networkErrorSubscribingTimer => sub.networkErrorSubscribingTimer
        /\ t.lostTimers = sub.lostTimers
        /\ t.updatesBeforeSubscribed \in {sub.updatesBeforeSubscribed, "none"}
        /\ t = sub \/ Served(t)
    BY <1>1, ResetActs, ResetGood
  <2> HIDE DEF t
  <2>2. Fits(t)
    BY <1>1, <2>1, AllowedAlways, DoesFits
  <2> QED BY <2>1, <2>2 DEF t
<1>5. CASE Reset
  BY <1>2, <1>5, <1>a DEF Reset, Event
<1>b. ASSUME NEW t, Good(t), Same(sub, t),
             t.updatesBeforeSubscribed = "bad" =>
                 sub.updatesBeforeSubscribed = "bad" \/ "BadUpdate" \in env
      PROVE  Fits(t) /\ t.isDisposed = sub.isDisposed
  <2>1. Does(sub, t, {}) /\ Served(t)
    BY <1>1, <1>b, SameMoves DEF Moves
  <2> QED BY <1>1, <1>b, <2>1, AllowedAlways, DoesFits DEF Same
<1>6. CASE Update
  BY <1>1, <1>2, <1>6, <1>b, UpdateTells DEF Update, NoEvent
<1>7. CASE UnparsableUpdate
  <2> DEFINE t == onStreamingData(sub, FALSE)
  <2>1. \/ t = sub \/ (Good(t) /\ Same(sub, t)) \/ t = reset(sub)
    BY <1>1, UnparsableResets
  <2>2. Handles(t) /\ "BadUpdate" \in env /\ UNCHANGED env /\ SameIntent
    BY <1>7 DEF UnparsableUpdate, Event
  <2> HIDE DEF t
  <2>3. Good(t) /\ Fits(t) /\ t.isDisposed = sub.isDisposed
    BY <1>1, <1>a, <1>b, <2>1, <2>2
  <2> QED BY <1>2, <2>2, <2>3
<1>8. CASE UnsubscribeByTagAnswered
  <2> DEFINE u == [sub EXCEPT !.currentState = STATE_UNSUBSCRIBED]
             t == onUnsubscribeByTagComplete(sub)
  <2>1. Good(t) /\ Good(u) /\ t = onReadyToPerformNextAction(u)
    BY <1>1, OnUnsubscribeByTagCompleteGood, TagCompleteActs
  <2>2. /\ Becomes(t, tagWaiting, tagDeletes - 1) /\ UNCHANGED env
        /\ tagDeletes > 0 /\ SameIntent
    BY <1>8 DEF UnsubscribeByTagAnswered, Deletes, Event, NoEvent
  <2>3. /\ u.queue = sub.queue /\ u.becameReady = sub.becameReady
        /\ u.currentState = STATE_UNSUBSCRIBED
        /\ u.isDisposed = sub.isDisposed /\ u.lostTimers = sub.lostTimers
        /\ u.networkErrorSubscribingTimer = sub.networkErrorSubscribingTimer
        /\ u.updatesBeforeSubscribed = sub.updatesBeforeSubscribed
    BY <1>1 DEF Good, SubscriptionRecords
  <2> HIDE DEF t, u
  <2>4. Acts(u, t, {}) /\ Served(t)
    BY <2>1, ReadyActs
  <2>5. Does(sub, u, {})
    BY <2>3, StateNames DEF Does, isReadyForUnsubscribeByTag
  <2>6. Does(sub, t, {})
    BY <2>4, <2>5, DoesOn, StaysReady DEF Acts
  <2>7. Fits(t) /\ t.isDisposed = sub.isDisposed
    BY <1>1, <2>3, <2>4, <2>6, AllowedAlways, DoesFits DEF Acts, Keeps
  <2>8. ~Without({"ByTag"})
    BY <2>2 DEF Tied
  <2> QED BY <2>1, <2>2, <2>7, <2>8, BecomesTied DEF Tied, SameIntent
<1> QED BY <1>3, <1>4, <1>5, <1>6, <1>7, <1>8 DEF Streaming

-----------------------------------------------------------------------------
(* A response leaves everything but the count of requests as it was.       *)
LEMMA ReceivedKeeps ==
    ASSUME NEW s, Good(s), NEW r \in 1..Len(s.inFlight), NEW k \in RequestKinds,
           s.inFlight[r][k] > 0
    PROVE  LET t == Count(s, r, k, -1) IN
           /\ Answered(t, r) /\ referenceId(t) = referenceId(s)
           /\ t.currentState = s.currentState /\ t.queue = s.queue
           /\ t.becameReady = s.becameReady /\ t.isDisposed = s.isDisposed
           /\ t.connectionAvailable = s.connectionAvailable
           /\ t.networkErrorSubscribingTimer = s.networkErrorSubscribingTimer
           /\ t.lostTimers = s.lostTimers
           /\ t.updatesBeforeSubscribed = s.updatesBeforeSubscribed
           /\ t.snapshotRef = s.snapshotRef /\ t.deltaRef = s.deltaRef
<1> DEFINE t == Count(s, r, k, -1)
<1>1. Answered(t, r)
  BY ReceivedAnswered
<1>2. Len(t.inFlight) = Len(s.inFlight)
  <2>1. s \in SubscriptionRecords /\ s.inFlight \in Seq([RequestKinds -> Nat])
    BY DEF Good, SubscriptionRecords
  <2>2. s.inFlight[r] \in [RequestKinds -> Nat]
    BY <2>1, ElementOfSeq
  <2>3. s.inFlight[r][k] + (-1) \in Nat /\ -1 \in Int
    BY <2>2
  <2> QED BY <2>1, <2>3, CountType
<1>3. \E f : t = [s EXCEPT !.inFlight = f]
  BY DEF Count
<1> HIDE DEF t
<1>4. /\ t.currentState = s.currentState /\ t.queue = s.queue
      /\ t.becameReady = s.becameReady /\ t.isDisposed = s.isDisposed
      /\ t.connectionAvailable = s.connectionAvailable
      /\ t.networkErrorSubscribingTimer = s.networkErrorSubscribingTimer
      /\ t.lostTimers = s.lostTimers
      /\ t.updatesBeforeSubscribed = s.updatesBeforeSubscribed
      /\ t.snapshotRef = s.snapshotRef /\ t.deltaRef = s.deltaRef
  BY <1>3 DEF Good, SubscriptionRecords
<1> QED BY <1>1, <1>2, <1>4 DEF t, referenceId

(* A response that arrives changes only the count of requests.             *)
LEMMA ReceivedFits ==
    ASSUME IInv, Tied, NEW r \in DOMAIN sub.inFlight, NEW k \in RequestKinds,
           Waiting(r, k)
    PROVE  LET s == Received(r, k) IN
           /\ Answered(s, r) /\ Fits(s) /\ ~s.becameReady
           /\ s.isDisposed = sub.isDisposed /\ referenceId(s) = referenceId(sub)
           /\ s.currentState = sub.currentState /\ s.queue = sub.queue
           /\ s.connectionAvailable = sub.connectionAvailable
           /\ s.networkErrorSubscribingTimer = sub.networkErrorSubscribingTimer
           /\ s.updatesBeforeSubscribed = sub.updatesBeforeSubscribed
           /\ s.snapshotRef = sub.snapshotRef /\ s.deltaRef = sub.deltaRef
<1> DEFINE s == Received(r, k)
<1>1. Good(sub) /\ Fits(sub) /\ ~sub.becameReady
  BY DEF IInv, Tagged, Tied
<1>2. r \in 1..Len(sub.inFlight)
  <2>1. sub.inFlight \in Seq([RequestKinds -> Nat])
    BY <1>1 DEF Good, SubscriptionRecords
  <2> QED BY <2>1, LenProperties
<1>3. /\ Answered(s, r) /\ referenceId(s) = referenceId(sub)
      /\ s.currentState = sub.currentState /\ s.queue = sub.queue
      /\ s.becameReady = sub.becameReady /\ s.isDisposed = sub.isDisposed
      /\ s.connectionAvailable = sub.connectionAvailable
      /\ s.networkErrorSubscribingTimer = sub.networkErrorSubscribingTimer
      /\ s.lostTimers = sub.lostTimers
      /\ s.updatesBeforeSubscribed = sub.updatesBeforeSubscribed
      /\ s.snapshotRef = sub.snapshotRef /\ s.deltaRef = sub.deltaRef
  BY <1>1, <1>2, ReceivedKeeps DEF Waiting, Received
<1> HIDE DEF s
<1>4. /\ TagQueued(s) = TagQueued(sub) /\ Transitioning(s) = Transitioning(sub)
      /\ isReadyForUnsubscribeByTag(s) = isReadyForUnsubscribeByTag(sub)
      /\ WillUnsubscribe(s) = WillUnsubscribe(sub)
  BY <1>3 DEF TagQueued, Transitioning, isReadyForUnsubscribeByTag, WillUnsubscribe
<1>5. Served(s)
  BY <1>1, <1>3, <1>4 DEF Fits, Served
<1>6. Fits(s)
  BY <1>1, <1>3, <1>4, <1>5 DEF Fits
<1> QED BY <1>1, <1>3, <1>6 DEF s

(* The responses.                                                          *)
LEMMA ResponseTied ==
    ASSUME IInv, Tied, NEW r \in DOMAIN sub.inFlight, Response(r)
    PROVE  Tied'
<1>1. ASSUME NEW t, Good(t), Fits(t), t.isDisposed = sub.isDisposed,
             Becomes(t, tagWaiting, tagDeletes), UNCHANGED env,
             sub.isDisposed => intent' = intent
      PROVE  Tied'
  BY <1>1, BecomesTied DEF Tied
<1>a. "post" \in RequestKinds /\ "delete" \in RequestKinds /\ "patch" \in RequestKinds
  BY DEF RequestKinds
<1>b. ASSUME NEW s, Fits(s), NEW t, t.queue = s.queue, t.becameReady = s.becameReady,
             t.currentState \in {STATE_SUBSCRIBED, STATE_UNSUBSCRIBED}
      PROVE  Does(s, t, {})
  BY <1>b, StateNames DEF Does, isReadyForUnsubscribeByTag
<1>2. ASSUME Waiting(r, "post"), NEW call \in Calls, call = "patch" => "Patch" \in env
      PROVE  LET t == onSubscribeSuccess(Received(r, "post"), r, call) IN
             Good(t) /\ Fits(t) /\ t.isDisposed = sub.isDisposed
  <2> DEFINE s == Received(r, "post")
             q == [s EXCEPT !.currentState = STATE_SUBSCRIBED]
             t == onSubscribeSuccess(s, r, call)
             A == CallActions(call) \cup
                      (IF s.updatesBeforeSubscribed = "bad" THEN Again ELSE {})
  <2>1. /\ Answered(s, r) /\ Fits(s) /\ s.isDisposed = sub.isDisposed
    BY <1>2, <1>a, ReceivedFits
  <2>2. Good(t)
    BY <2>1, OnSubscribeSuccessGood
  <2>3. CASE r # referenceId(s)
    <3>1. t = s
      BY <2>3 DEF onSubscribeSuccess
    <3> QED BY <2>1, <2>2, <3>1
  <2>4. CASE r = referenceId(s)
    <3>1. /\ q.queue = s.queue /\ q.becameReady = s.becameReady
          /\ q.currentState = STATE_SUBSCRIBED /\ q.isDisposed = s.isDisposed
          /\ q.networkErrorSubscribingTimer = s.networkErrorSubscribingTimer
          /\ q.lostTimers = s.lostTimers
      BY <2>1 DEF Answered, SubscriptionRecords
    <3>2. Allowed(A)
      <4>1. Allowed(CallActions(call))
        BY <1>2, AllowedAlways DEF CallActions, Calls
      <4> QED BY <4>1, AllowedAlways DEF Allowed
    <3>3. Leaves(q, t, A) /\ Served(t) /\ t.updatesBeforeSubscribed = "none"
      <4>1. CallActions(call) \subseteq A
            /\ (s.updatesBeforeSubscribed = "bad" => Again \subseteq A)
        OBVIOUS
      <4> HIDE DEF s, A
      <4> QED BY <2>1, <2>4, <4>1, SubscribeSuccessMoves
    <3> HIDE DEF s, q, t, A
    <3>4. Does(s, q, {})
      BY <1>b, <2>1, <3>1
    <3>5. ~isReadyForUnsubscribeByTag(q)
      BY <3>1, StateNames DEF isReadyForUnsubscribeByTag
    <3>6. Does(s, t, A)
      BY <3>3, <3>4, <3>5, DoesOn DEF Leaves
    <3>7. Fits(t) /\ t.isDisposed = s.isDisposed
      BY <2>1, <3>1, <3>2, <3>3, <3>6, DoesFits DEF Leaves
    <3> QED BY <2>1, <2>2, <3>7 DEF s, t
  <2> QED BY <2>3, <2>4
<1>6. CASE SubscribeSucceeded(r)
  <2>1. /\ Waiting(r, "post") /\ UNCHANGED env /\ intent' = intent
        /\ Becomes(onSubscribeSuccess(Received(r, "post"), r, "none"),
                   tagWaiting, tagDeletes)
    BY <1>6 DEF SubscribeSucceeded, NoEvent, SameIntent
  <2>2. "none" \in Calls
    BY DEF Calls
  <2> QED BY <1>1, <1>2, <2>1, <2>2
<1>7. CASE \E call \in Calls \ {"none"} : SubscribeSucceededReentrantly(r, call)
  <2>1. PICK call \in Calls \ {"none"} : SubscribeSucceededReentrantly(r, call)
    BY <1>7
  <2>2. /\ Waiting(r, "post") /\ UNCHANGED env /\ ~sub.isDisposed
        /\ Becomes(onSubscribeSuccess(Received(r, "post"), r, call),
                   tagWaiting, tagDeletes)
        /\ call = "patch" => "Patch" \in env
    BY <2>1 DEF SubscribeSucceededReentrantly, Event
  <2> QED BY <1>1, <1>2, <2>1, <2>2
<1>8. CASE \E response \in SubscribeErrors : SubscribeFailed(r, response)
  <2>1. PICK response \in SubscribeErrors : SubscribeFailed(r, response)
    BY <1>8
  <2> DEFINE s == Received(r, "post")
             t == onSubscribeError(s, r, response)
  <2>2. /\ Waiting(r, "post") /\ UNCHANGED env /\ intent' = intent
        /\ Becomes(t, tagWaiting, tagDeletes) /\ response \in env
    BY <2>1 DEF SubscribeFailed, Event
  <2>3. Answered(s, r) /\ Fits(s) /\ s.isDisposed = sub.isDisposed
    BY <1>a, <2>2, ReceivedFits
  <2>4. Good(t)
    BY <2>3, OnSubscribeErrorGood
  <2>5. CASE r # referenceId(s)
    <3>1. t = s
      BY <2>5 DEF onSubscribeError
    <3> HIDE DEF s, t
    <3> QED BY <1>1, <2>2, <2>3, <2>4, <3>1
  <2>6. CASE r = referenceId(s)
    <3> HIDE DEF s
    <3>1. PICK q :
          /\ q.currentState = STATE_UNSUBSCRIBED
          /\ q.queue = s.queue /\ q.becameReady = s.becameReady
          /\ Does(q, t, {ACTION_SUBSCRIBE}) /\ Served(t)
          /\ t.isDisposed = s.isDisposed
          /\ response # "network" =>
                 /\ t.networkErrorSubscribingTimer => s.networkErrorSubscribingTimer
                 /\ t.lostTimers = s.lostTimers
          /\ t.updatesBeforeSubscribed \in {s.updatesBeforeSubscribed, "none"}
      BY <2>3, <2>6, SubscribeErrorMoves
    <3> HIDE DEF t
    <3>3. Does(s, q, {})
      BY <1>b, <2>3, <3>1
    <3>4. ~isReadyForUnsubscribeByTag(q)
      BY <3>1, StateNames DEF isReadyForUnsubscribeByTag
    <3>5. Does(s, t, {ACTION_SUBSCRIBE})
      BY <3>1, <3>3, <3>4, DoesOn
    <3>6. Fits(t)
      BY <2>2, <2>3, <3>1, <3>5, AllowedAlways, DoesFits
    <3> QED BY <1>1, <2>2, <2>3, <2>4, <3>1, <3>6
  <2> QED BY <2>5, <2>6
<1>c. ASSUME NEW k \in {"delete", "patch"}, Waiting(r, k), NEW t,
             Becomes(t, tagWaiting, tagDeletes), UNCHANGED env, intent' = intent,
             t = IF k = "delete" THEN onUnsubscribeResponse(Received(r, k), r)
                 ELSE onModifyPatchResponse(Received(r, k), r)
      PROVE  Tied'
  <2> DEFINE s == Received(r, k)
  <2>1. /\ Answered(s, r) /\ Fits(s) /\ s.isDisposed = sub.isDisposed
    BY <1>a, <1>c, ReceivedFits
  <2> HIDE DEF s
  <2>2. CASE r # referenceId(s)
    <3>1. t = s
      BY <1>c, <2>2 DEF onUnsubscribeResponse, onModifyPatchResponse, s
    <3> QED BY <1>1, <1>c, <2>1, <2>2, <3>1 DEF Answered
  <2>3. CASE r = referenceId(s)
    <3> DEFINE u == [s EXCEPT !.currentState = STATE_UNSUBSCRIBED]
               p == [s EXCEPT !.currentState = STATE_SUBSCRIBED]
    <3>1. PICK q \in {u, p} : Good(q) /\ t = onReadyToPerformNextAction(q)
      <4>1. /\ Good(u) /\ Good(p)
            /\ onUnsubscribeResponse(s, r) = onReadyToPerformNextAction(u)
            /\ onModifyPatchResponse(s, r) = onReadyToPerformNextAction(p)
        BY <2>1, <2>3, ResponseActs
      <4> QED BY <1>c, <4>1 DEF s
    <3>2. /\ q.queue = s.queue /\ q.becameReady = s.becameReady
          /\ q.currentState \in {STATE_SUBSCRIBED, STATE_UNSUBSCRIBED}
          /\ q.isDisposed = s.isDisposed /\ q.lostTimers = s.lostTimers
          /\ q.networkErrorSubscribingTimer = s.networkErrorSubscribingTimer
          /\ q.updatesBeforeSubscribed = s.updatesBeforeSubscribed
      BY <2>1 DEF Answered, SubscriptionRecords
    <3> HIDE DEF u, p
    <3>3. Good(t) /\ Acts(q, t, {}) /\ Served(t)
      BY <3>1, ReadyActs, ReadyToPerformGood
    <3>4. Does(s, q, {})
      BY <1>b, <2>1, <3>2
    <3>5. Does(s, t, {})
      BY <3>3, <3>4, DoesOn, StaysReady DEF Acts
    <3>6. Fits(t) /\ t.isDisposed = s.isDisposed
      BY <2>1, <3>2, <3>3, <3>5, AllowedAlways, DoesFits DEF Acts, Keeps
    <3> QED BY <1>1, <1>c, <2>1, <3>3, <3>6
  <2> QED BY <2>2, <2>3
<1>9. CASE UnsubscribeAnswered(r)
  BY <1>9, <1>c DEF UnsubscribeAnswered, Deletes, Event, NoEvent, SameIntent
<1>10. CASE ModifyPatchAnswered(r)
  BY <1>10, <1>c DEF ModifyPatchAnswered, Handles, NoEvent, SameIntent
<1>11. CASE CleanUpAnswered(r)
  <2>1. UNCHANGED <<sub, tagWaiting, tagDeletes, intent, env>>
    BY <1>11 DEF CleanUpAnswered, Deletes, Event, NoEvent, SameIntent
  <2> QED BY <2>1 DEF Tied, Fits, Without, TagQueued, isReadyForUnsubscribeByTag,
          Served, Transitioning, WillUnsubscribe
<1> QED BY <1>6, <1>7, <1>8, <1>9, <1>10, <1>11 DEF Response

(* The timers.                                                             *)
LEMMA TimeoutTied ==
    ASSUME IInv, Tied, NetworkErrorTimeout
    PROVE  Tied'
<1>1. Good(sub) /\ Fits(sub)
  BY DEF IInv, Tagged, Tied
<1>2. PICK u : /\ Good(u) /\ Fits(u) /\ u.isDisposed = sub.isDisposed
               /\ Handles(onNetworkErrorTimeout(u))
  <2>1. CASE sub.lostTimers > 0 /\ Handles(onLostTimeout(sub))
    <3>1. PICK u : /\ Good(u) /\ u.currentState = sub.currentState
                   /\ u.inFlight = sub.inFlight /\ u.queue = sub.queue
                   /\ u.becameReady = sub.becameReady /\ u.isDisposed = sub.isDisposed
                   /\ u.connectionAvailable = sub.connectionAvailable
                   /\ u.networkErrorSubscribingTimer = sub.networkErrorSubscribingTimer
                   /\ u.updatesBeforeSubscribed = sub.updatesBeforeSubscribed
                   /\ onLostTimeout(sub) = onNetworkErrorTimeout(u)
      BY <1>1, <2>1, LostTimeoutActs
    <3>2. "network" \in env
      <4>1. sub.lostTimers # 0
        BY <1>1, <2>1 DEF Good, SubscriptionRecords
      <4> QED BY <1>1, <4>1 DEF Fits, Without
    <3>3. Does(sub, u, {})
      BY <3>1 DEF Does, isReadyForUnsubscribeByTag
    <3>4. Served(u)
      BY <1>1, <3>1 DEF Fits, Served, Transitioning, WillUnsubscribe
    <3>5. Fits(u)
      BY <1>1, <3>1, <3>2, <3>3, <3>4, AllowedAlways, DoesFits
    <3> QED BY <2>1, <3>1, <3>5
  <2> QED BY <1>1, <2>1 DEF NetworkErrorTimeout
<1> DEFINE t == onNetworkErrorTimeout(u)
<1>3. Good(t) /\ Acts(u, t, {ACTION_SUBSCRIBE}) /\ Served(t)
  BY <1>2, TimeoutActs
<1>4. Handles(t) /\ UNCHANGED env /\ intent' = intent
  BY <1>2 DEF NetworkErrorTimeout, NoEvent, SameIntent
<1> HIDE DEF t
<1>5. Fits(t) /\ t.isDisposed = sub.isDisposed
  BY <1>2, <1>3, ActsFits, AllowedAlways DEF Acts, Keeps
<1> QED BY <1>3, <1>4, <1>5, BecomesTied DEF Handles, Tied

(* Every step preserves it.                                                *)
LEMMA NextTied == IInv /\ Tied /\ [Next]_vars => Tied'
<1> SUFFICES ASSUME IInv, Tied, [Next]_vars PROVE Tied'
  OBVIOUS
<1>1. CASE UNCHANGED vars
  BY <1>1 DEF vars, Tied, Fits, Without, TagQueued, isReadyForUnsubscribeByTag,
       Served, Transitioning, WillUnsubscribe
<1>2. CASE Consumer
  BY <1>2, ConsumerTied
<1>3. CASE Streaming
  BY <1>3, StreamingTied
<1>4. CASE \E r \in DOMAIN sub.inFlight : Response(r)
  BY <1>4, ResponseTied
<1>5. CASE NetworkErrorTimeout
  BY <1>5, TimeoutTied
<1> QED BY <1>1, <1>2, <1>3, <1>4, <1>5 DEF Next

-----------------------------------------------------------------------------
(* The kind of request whose response a subscription in this state awaits. *)
Awaits(state) ==
    CASE state = STATE_SUBSCRIBE_REQUESTED -> "post"
      [] state = STATE_UNSUBSCRIBE_REQUESTED -> "delete"
      [] state = STATE_PATCH_REQUESTED -> "patch"
      [] OTHER -> "none"

(* Nothing is in flight but the request the subscription waits for, and    *)
(* the server streams what the subscription believes.                      *)
Agrees(s, streamed) ==
    /\ \A r \in 1..Len(s.inFlight), k \in RequestKinds :
          s.inFlight[r][k] =
              IF r = Len(s.inFlight) /\ k = Awaits(s.currentState) THEN 1 ELSE 0
    /\ s.currentState \in {STATE_UNSUBSCRIBED, STATE_SUBSCRIBE_REQUESTED} =>
           streamed = {}
    /\ s.currentState \in {STATE_SUBSCRIBED, STATE_PATCH_REQUESTED,
                           STATE_UNSUBSCRIBE_REQUESTED} =>
           streamed = {Len(s.inFlight)}
    /\ isReadyForUnsubscribeByTag(s) => streamed \subseteq {Len(s.inFlight)}

(* Each transitioning state awaits a kind of its own, the others none.     *)
LEMMA AwaitsKinds ==
    /\ Awaits(STATE_SUBSCRIBE_REQUESTED) = "post"
    /\ Awaits(STATE_UNSUBSCRIBE_REQUESTED) = "delete"
    /\ Awaits(STATE_PATCH_REQUESTED) = "patch"
    /\ Awaits(STATE_SUBSCRIBED) = "none" /\ Awaits(STATE_UNSUBSCRIBED) = "none"
    /\ Awaits(STATE_READY_FOR_UNSUBSCRIBE_BY_TAG) = "none"
    /\ RequestKinds = {"post", "delete", "patch"} /\ "none" \notin RequestKinds
    /\ \A s \in SubscriptionRecords, k \in RequestKinds :
          k = Awaits(s.currentState) =>
              \/ k = "post" /\ s.currentState = STATE_SUBSCRIBE_REQUESTED
              \/ k = "delete" /\ s.currentState = STATE_UNSUBSCRIBE_REQUESTED
              \/ k = "patch" /\ s.currentState = STATE_PATCH_REQUESTED
<1>1. RequestKinds = {"post", "delete", "patch"} /\ "none" \notin RequestKinds
  BY DEF RequestKinds
<1>2. /\ Awaits(STATE_SUBSCRIBE_REQUESTED) = "post"
      /\ Awaits(STATE_UNSUBSCRIBE_REQUESTED) = "delete"
      /\ Awaits(STATE_PATCH_REQUESTED) = "patch"
      /\ Awaits(STATE_SUBSCRIBED) = "none" /\ Awaits(STATE_UNSUBSCRIBED) = "none"
      /\ Awaits(STATE_READY_FOR_UNSUBSCRIBE_BY_TAG) = "none"
  BY StateNames DEF Awaits
<1>3. ASSUME NEW s \in SubscriptionRecords, NEW k \in RequestKinds,
             k = Awaits(s.currentState)
      PROVE  \/ k = "post" /\ s.currentState = STATE_SUBSCRIBE_REQUESTED
             \/ k = "delete" /\ s.currentState = STATE_UNSUBSCRIBE_REQUESTED
             \/ k = "patch" /\ s.currentState = STATE_PATCH_REQUESTED
  BY <1>1, <1>2, <1>3 DEF SubscriptionRecords, States
<1> QED BY <1>1, <1>2, <1>3

(* Counting a request of one kind touches no other.                        *)
LEMMA CountOthers ==
    ASSUME NEW s \in SubscriptionRecords, NEW r \in 1..Len(s.inFlight),
           NEW k \in RequestKinds, NEW n \in Int, s.inFlight[r][k] + n \in Nat
    PROVE  LET t == Count(s, r, k, n) IN
           /\ Len(t.inFlight) = Len(s.inFlight)
           /\ t.inFlight[r][k] = s.inFlight[r][k] + n
           /\ \A i \in 1..Len(s.inFlight), l \in RequestKinds :
                 i # r \/ l # k => t.inFlight[i][l] = s.inFlight[i][l]
<1> DEFINE t == Count(s, r, k, n)
<1>1. /\ Len(t.inFlight) = Len(s.inFlight)
      /\ t.inFlight[r][k] = s.inFlight[r][k] + n
      /\ \A i \in 1..Len(s.inFlight) \ {r} : t.inFlight[i] = s.inFlight[i]
  BY CountType
<1>2. ASSUME NEW l \in RequestKinds, l # k
      PROVE  t.inFlight[r][l] = s.inFlight[r][l]
  <2>1. s.inFlight \in Seq([RequestKinds -> Nat])
    BY DEF SubscriptionRecords
  <2>2. DOMAIN s.inFlight = 1..Len(s.inFlight) /\ s.inFlight[r] \in [RequestKinds -> Nat]
    BY <2>1, LenProperties, ElementOfSeq
  <2>3. t.inFlight = [s.inFlight EXCEPT ![r] = [s.inFlight[r] EXCEPT ![k] = @ + n]]
    BY <2>2 DEF Count, SubscriptionRecords
  <2>4. t.inFlight[r] = [s.inFlight[r] EXCEPT ![k] = @ + n]
    BY <2>2, <2>3
  <2> QED BY <1>2, <2>2, <2>4
<1> HIDE DEF t
<1> QED BY <1>1, <1>2 DEF t

(* A request that is sent by a subscription that waits for nothing is the  *)
(* only one in flight.                                                     *)
LEMMA SendsAgrees ==
    ASSUME NEW s, Good(s), NEW t \in SubscriptionRecords, NEW streamed,
           Agrees(s, streamed), Sends(s, t)
    PROVE  Agrees(t, streamed)
<1>1. s \in SubscriptionRecords /\ s.inFlight \in Seq([RequestKinds -> Nat])
      /\ Len(s.inFlight) \in Nat /\ DOMAIN s.inFlight = 1..Len(s.inFlight)
  BY LenProperties DEF Good, SubscriptionRecords
<1>2. CASE t.currentState = s.currentState /\ t.inFlight = s.inFlight
  BY <1>2 DEF Agrees, isReadyForUnsubscribeByTag
<1>3. CASE /\ s.currentState \in {STATE_SUBSCRIBED, STATE_UNSUBSCRIBED}
           /\ isReadyForUnsubscribeByTag(t) /\ t.inFlight = s.inFlight
  <2>1. Awaits(t.currentState) = Awaits(s.currentState)
    BY <1>3, AwaitsKinds DEF isReadyForUnsubscribeByTag
  <2>2. streamed \subseteq {Len(s.inFlight)}
    BY <1>3 DEF Agrees
  <2>3. t.currentState = STATE_READY_FOR_UNSUBSCRIBE_BY_TAG
    BY <1>3 DEF isReadyForUnsubscribeByTag
  <2> QED BY <1>3, <2>1, <2>2, <2>3, StateNames DEF Agrees
<1>a. s.currentState \in {STATE_SUBSCRIBED, STATE_UNSUBSCRIBED} =>
          \A r \in 1..Len(s.inFlight), k \in RequestKinds : s.inFlight[r][k] = 0
  BY AwaitsKinds DEF Agrees
<1>4. CASE /\ s.currentState = STATE_UNSUBSCRIBED
           /\ t.currentState = STATE_SUBSCRIBE_REQUESTED
           /\ t.inFlight = subscribe(s).inFlight
  <2> DEFINE new == [k \in RequestKinds |-> IF k = "post" THEN 1 ELSE 0]
  <2>1. new \in [RequestKinds -> Nat]
    OBVIOUS
  <2>2. t.inFlight = Append(s.inFlight, new)
    BY <1>1, <1>4 DEF subscribe, SubscriptionRecords
  <2>3. /\ Len(t.inFlight) = Len(s.inFlight) + 1
        /\ t.inFlight[Len(s.inFlight) + 1] = new
        /\ \A r \in 1..Len(s.inFlight) : t.inFlight[r] = s.inFlight[r]
    BY <1>1, <2>1, <2>2, AppendProperties
  <2>4. Awaits(t.currentState) = "post"
    BY <1>4, AwaitsKinds
  <2>5. streamed = {}
    BY <1>4 DEF Agrees
  <2>6. ASSUME NEW r \in 1..Len(t.inFlight), NEW k \in RequestKinds
        PROVE  t.inFlight[r][k] =
                  IF r = Len(t.inFlight) /\ k = Awaits(t.currentState) THEN 1 ELSE 0
    <3>1. CASE r = Len(s.inFlight) + 1
      <4>1. t.inFlight[r] = new /\ new[k] = IF k = "post" THEN 1 ELSE 0
        BY <2>3, <3>1
      <4> HIDE DEF new
      <4> QED BY <2>3, <2>4, <3>1, <4>1
    <3>2. CASE r # Len(s.inFlight) + 1
      <4>1. r \in 1..Len(s.inFlight) /\ r # Len(t.inFlight)
        BY <1>1, <2>3, <3>2
      <4> QED BY <1>4, <1>a, <2>3, <4>1
    <3> QED BY <3>1, <3>2
  <2> QED BY <1>4, <2>5, <2>6, StateNames DEF Agrees, isReadyForUnsubscribeByTag
<1>5. ASSUME NEW k \in RequestKinds, s.currentState = STATE_SUBSCRIBED,
             t.inFlight = Count(s, referenceId(s), k, 1).inFlight,
             Awaits(t.currentState) = k,
             t.currentState \in {STATE_UNSUBSCRIBE_REQUESTED, STATE_PATCH_REQUESTED}
      PROVE  Agrees(t, streamed)
  <2> DEFINE n == Len(s.inFlight)
  <2>1. n \in 1..n /\ referenceId(s) = n
    BY <1>1, <1>5 DEF Good, referenceId
  <2>2. s.inFlight[n][k] = 0
    BY <1>5, <1>a, <2>1
  <2>3. 1 \in Int /\ s.inFlight[n][k] + 1 \in Nat
    BY <2>2
  <2>4. /\ Len(t.inFlight) = n
        /\ t.inFlight[n][k] = s.inFlight[n][k] + 1
        /\ \A i \in 1..n, l \in RequestKinds :
              i # n \/ l # k => t.inFlight[i][l] = s.inFlight[i][l]
    BY SMTT(30), <1>1, <1>5, <2>1, <2>3, CountOthers
  <2>5. t.inFlight[n][k] = 1
    BY <2>2, <2>4
  <2>6. streamed = {n}
    BY <1>5 DEF Agrees
  <2>7. \A r \in 1..n, l \in RequestKinds :
            t.inFlight[r][l] = IF r = n /\ l = k THEN 1 ELSE 0
    BY <1>5, <1>a, <2>4, <2>5
  <2> HIDE DEF n
  <2> QED BY <1>5, <2>4, <2>6, <2>7, StateNames DEF Agrees, isReadyForUnsubscribeByTag
<1>6. CASE /\ s.currentState = STATE_SUBSCRIBED
           /\ t.currentState = STATE_UNSUBSCRIBE_REQUESTED
           /\ t.inFlight = unsubscribe(s).inFlight
  <2>1. unsubscribe(s).inFlight = Count(s, referenceId(s), "delete", 1).inFlight
    BY <1>1 DEF unsubscribe, Count, SubscriptionRecords
  <2> QED BY <1>5, <1>6, <2>1, AwaitsKinds
<1>7. CASE /\ s.currentState = STATE_SUBSCRIBED
           /\ t.currentState = STATE_PATCH_REQUESTED
           /\ t.inFlight = modifyPatch(s).inFlight
  <2>1. modifyPatch(s).inFlight = Count(s, referenceId(s), "patch", 1).inFlight
    BY <1>1 DEF modifyPatch, Count, SubscriptionRecords
  <2> QED BY <1>5, <1>7, <2>1, AwaitsKinds
<1> QED BY <1>2, <1>3, <1>4, <1>6, <1>7 DEF Sends

(* A response is that of the request the subscription waits for, and after *)
(* it nothing is in flight.                                                *)
LEMMA ReceivedIdle ==
    ASSUME NEW s, Good(s), NEW streamed, Agrees(s, streamed),
           NEW r \in 1..Len(s.inFlight), NEW k \in RequestKinds, s.inFlight[r][k] > 0
    PROVE  LET t == Count(s, r, k, -1) IN
           /\ r = referenceId(s) /\ Len(t.inFlight) = Len(s.inFlight)
           /\ \/ k = "post" /\ s.currentState = STATE_SUBSCRIBE_REQUESTED
              \/ k = "delete" /\ s.currentState = STATE_UNSUBSCRIBE_REQUESTED
              \/ k = "patch" /\ s.currentState = STATE_PATCH_REQUESTED
           /\ \A i \in 1..Len(s.inFlight), l \in RequestKinds : t.inFlight[i][l] = 0
<1> DEFINE t == Count(s, r, k, -1)
           n == Len(s.inFlight)
<1>1. s \in SubscriptionRecords
  BY DEF Good
<1>2. s.inFlight[r][k] = IF r = n /\ k = Awaits(s.currentState) THEN 1 ELSE 0
  BY DEF Agrees
<1>3. r = n /\ k = Awaits(s.currentState) /\ s.inFlight[r][k] = 1
  BY <1>2
<1>4. -1 \in Int /\ s.inFlight[r][k] + (-1) \in Nat /\ s.inFlight[r][k] + (-1) = 0
  BY <1>3
<1>5. /\ Len(t.inFlight) = n
      /\ t.inFlight[r][k] = s.inFlight[r][k] + (-1)
      /\ \A i \in 1..n, l \in RequestKinds :
            i # r \/ l # k => t.inFlight[i][l] = s.inFlight[i][l]
  BY <1>1, <1>4, CountOthers
<1> HIDE DEF t
<1>6. ASSUME NEW i \in 1..n, NEW l \in RequestKinds
      PROVE  t.inFlight[i][l] = 0
  <2>1. CASE i = r /\ l = k
    BY <1>4, <1>5, <2>1
  <2>2. CASE i # r \/ l # k
    <3>1. t.inFlight[i][l] = s.inFlight[i][l]
      BY <1>5, <2>2
    <3>2. s.inFlight[i][l] = IF i = n /\ l = Awaits(s.currentState) THEN 1 ELSE 0
      BY DEF Agrees
    <3> QED BY <1>3, <2>2, <3>1, <3>2
  <2> QED BY <2>1, <2>2
<1> QED BY <1>1, <1>3, <1>5, <1>6, AwaitsKinds DEF t, referenceId

(* A subscription with nothing in flight.                                  *)
LEMMA IdleAgrees ==
    ASSUME NEW s, NEW streamed,
           \A i \in 1..Len(s.inFlight), l \in RequestKinds : s.inFlight[i][l] = 0,
           \/ s.currentState = STATE_UNSUBSCRIBED /\ streamed = {}
           \/ s.currentState = STATE_SUBSCRIBED /\ streamed = {Len(s.inFlight)}
    PROVE  Agrees(s, streamed)
BY AwaitsKinds, StateNames DEF Agrees, isReadyForUnsubscribeByTag

(* The consumer has been given what the subscription believes the server   *)
(* streams, from its snapshot.                                             *)
Shown(s, streamed) ==
    /\ NothingLeftOver => s.deltaRef <= s.snapshotRef
    /\ s.snapshotRef <= Len(s.inFlight)
    /\ streamed # {} /\ s.currentState # STATE_UNSUBSCRIBE_REQUESTED =>
           s.snapshotRef = Len(s.inFlight)
    /\ ~s.connectionAvailable => Len(s.inFlight) = 0

(* To send a request shows the consumer nothing.                           *)
LEMMA SendsShown ==
    ASSUME NEW s, Good(s), NEW t, NEW streamed, Agrees(s, streamed),
           Shown(s, streamed), Sends(s, t), t.snapshotRef = s.snapshotRef,
           t.deltaRef = s.deltaRef, t.connectionAvailable = s.connectionAvailable
    PROVE  Shown(t, streamed)
<1>1. s.inFlight \in Seq([RequestKinds -> Nat]) /\ Len(s.inFlight) \in Nat
      /\ s.snapshotRef \in Nat /\ s.deltaRef \in Nat /\ s \in SubscriptionRecords
  BY LenProperties DEF Good, SubscriptionRecords
<1>2. CASE Len(t.inFlight) = Len(s.inFlight)
  <2>1. s.currentState = STATE_UNSUBSCRIBE_REQUESTED =>
            t.currentState = STATE_UNSUBSCRIBE_REQUESTED
    BY StateNames DEF Sends
  <2> QED BY <1>2, <2>1 DEF Shown
<1>3. CASE /\ s.connectionAvailable /\ s.currentState = STATE_UNSUBSCRIBED
           /\ t.inFlight = subscribe(s).inFlight
  <2> DEFINE new == [k \in RequestKinds |-> IF k = "post" THEN 1 ELSE 0]
  <2>1. new \in [RequestKinds -> Nat]
    OBVIOUS
  <2>2. t.inFlight = Append(s.inFlight, new)
    BY <1>1, <1>3 DEF subscribe, SubscriptionRecords
  <2>3. Len(t.inFlight) = Len(s.inFlight) + 1
    BY <1>1, <2>1, <2>2, AppendProperties
  <2>4. streamed = {}
    BY <1>3 DEF Agrees
  <2> QED BY <1>1, <1>3, <2>3, <2>4 DEF Shown
<1> QED BY <1>2, <1>3, SendsLen

-----------------------------------------------------------------------------
(* No call by tag comes while an earlier one is not over, and no PATCH is  *)
(* given up while it is on its way.                                        *)
Calm == (OneTagCall \/ Without({"ByTag"})) /\ PatchNotOvertaken

(* The server streams what the subscription believes, and besides only     *)
(* what a clean-up is on its way to remove, what the network hid or what a *)
(* failed DELETE left.  A clean-up never removes what is awaited or had.   *)
Backs(s, believed, streamed, cleaning) ==
    /\ believed \subseteq streamed /\ believed \cap cleaning = {}
    /\ Without({"network", "DeleteFails"}) => streamed \subseteq believed \cup cleaning
    /\ cleaning \subseteq 1..Len(s.inFlight)
    /\ s.currentState = STATE_SUBSCRIBE_REQUESTED => Len(s.inFlight) \notin cleaning
    /\ Without({"duplicate"}) => cleaning = {}

(* Then requests go one at a time, the server backs what the subscription  *)
(* believes, and only a subscription that is ready has a DELETE by tag on  *)
(* its way.                                                                *)
Believes(believed) ==
    /\ Agrees(sub, believed)
    /\ Backs(sub, believed, live, cleanUps)
    /\ Without({"Connection"}) => Shown(sub, believed)

Orderly ==
    Calm =>
        /\ tagWaiting + tagDeletes <= 1
        /\ tagDeletes > 0 => isReadyForUnsubscribeByTag(sub)
        /\ \E believed : Believes(believed)

(* To send a request changes nothing for the server yet.                   *)
LEMMA SendsBacks ==
    ASSUME NEW s, Good(s), NEW t, Sends(s, t), NEW h, NEW l, NEW c,
           Backs(s, h, l, c)
    PROVE  Backs(t, h, l, c)
<1>1. s.inFlight \in Seq([RequestKinds -> Nat]) /\ Len(s.inFlight) \in Nat
      /\ s \in SubscriptionRecords
  BY LenProperties DEF Good, SubscriptionRecords
<1>2. CASE Len(t.inFlight) = Len(s.inFlight) /\ t.currentState # STATE_SUBSCRIBE_REQUESTED
  BY <1>2 DEF Backs
<1>3. CASE Len(t.inFlight) = Len(s.inFlight) /\ s.currentState = STATE_SUBSCRIBE_REQUESTED
  BY <1>3 DEF Backs
<1>4. ASSUME t.inFlight = subscribe(s).inFlight
      PROVE  Backs(t, h, l, c)
  <2> DEFINE new == [k \in RequestKinds |-> IF k = "post" THEN 1 ELSE 0]
  <2>1. new \in [RequestKinds -> Nat]
    OBVIOUS
  <2>2. t.inFlight = Append(s.inFlight, new)
    BY <1>1, <1>4 DEF subscribe, SubscriptionRecords
  <2>3. Len(t.inFlight) = Len(s.inFlight) + 1
    BY <1>1, <2>1, <2>2, AppendProperties
  <2> QED BY <1>1, <2>3 DEF Backs
<1>5. \/ Len(t.inFlight) = Len(s.inFlight)
      \/ t.inFlight = subscribe(s).inFlight
  BY SendsLen
<1>6. \/ t.currentState = s.currentState
      \/ t.currentState # STATE_SUBSCRIBE_REQUESTED
      \/ t.inFlight = subscribe(s).inFlight
  BY StateNames DEF Sends, isReadyForUnsubscribeByTag
<1> QED BY <1>2, <1>3, <1>4, <1>5, <1>6

(* What a handler has to bring about for requests to stay in order.        *)
LEMMA BecomesOrderly ==
    ASSUME NEW t, Good(t), NEW waiting \in Nat, NEW deletes \in Nat,
           Becomes(t, waiting, deletes), waiting + deletes <= 1,
           deletes > 0 \/ t.becameReady => isReadyForUnsubscribeByTag(t),
           NEW h, Agrees(t, h), Backs(t, h, live', cleanUps'),
           Without({"Connection"}) => Shown(t, h),
           UNCHANGED env
    PROVE  Orderly'
<1> DEFINE u == [t EXCEPT !.becameReady = FALSE]
<1>1. /\ u.currentState = t.currentState /\ u.inFlight = t.inFlight
      /\ u.connectionAvailable = t.connectionAvailable
      /\ u.snapshotRef = t.snapshotRef /\ u.deltaRef = t.deltaRef
  BY DEF Good, SubscriptionRecords
<1>2. sub' = u
  BY DEF Becomes
<1> HIDE DEF u
<1>3. /\ Agrees(u, h) /\ Backs(u, h, live', cleanUps')
      /\ Without({"Connection"}) => Shown(u, h)
  BY <1>1 DEF Agrees, Shown, Backs, isReadyForUnsubscribeByTag
<1>4. /\ tagWaiting' + tagDeletes' <= 1
      /\ tagDeletes' > 0 => isReadyForUnsubscribeByTag(u)
  BY <1>1 DEF Becomes, isReadyForUnsubscribeByTag
<1>5. \A K : Without(K)' = Without(K)
  BY DEF Without
<1>6. NothingLeftOver' = NothingLeftOver
  BY <1>5 DEF NothingLeftOver
<1>7. Believes(h)'
  <2>1. Agrees(sub', h) /\ Backs(sub', h, live', cleanUps')
        /\ (Without({"Connection"}) => Shown(sub', h))
    BY <1>2, <1>3
  <2>2. Agrees(sub, h)'
    BY <2>1 DEF Agrees, isReadyForUnsubscribeByTag
  <2>3. Backs(sub, h, live, cleanUps)'
    BY <1>5, <2>1 DEF Backs
  <2>4. (Without({"Connection"}) => Shown(sub, h))'
    BY <1>5, <1>6, <2>1 DEF Shown
  <2> QED BY <2>2, <2>3, <2>4 DEF Believes
<1> QED BY <1>2, <1>4, <1>7 DEF Orderly

(* A handler that sends at most one request, and only when nothing else    *)
(* is waited for.                                                          *)
LEMMA SendsOrderly ==
    ASSUME IInv, Tied, Orderly, Calm, NEW t, Good(t), Sends(sub, t),
           t.snapshotRef = sub.snapshotRef, t.deltaRef = sub.deltaRef,
           Without({"Connection"}) =>
               t.connectionAvailable = sub.connectionAvailable,
           t.becameReady => isReadyForUnsubscribeByTag(t),
           NEW waiting \in Nat, waiting + tagDeletes <= 1,
           Becomes(t, waiting, tagDeletes), UNCHANGED <<live, cleanUps, env>>
    PROVE  Orderly'
<1>1. /\ Good(sub) /\ tagDeletes \in Nat
      /\ tagDeletes > 0 => isReadyForUnsubscribeByTag(sub)
  BY DEF IInv, Tagged, Orderly
<1>2. t \in SubscriptionRecords
  BY DEF Good
<1>h. PICK h : Believes(h)
  BY DEF Orderly
<1>3. /\ Agrees(sub, h) /\ Backs(sub, h, live, cleanUps)
      /\ Without({"Connection"}) => Shown(sub, h)
  BY <1>h DEF Believes
<1>4. Agrees(t, h)
  BY <1>1, <1>2, <1>3, SendsAgrees
<1>5. Without({"Connection"}) => Shown(t, h)
  BY <1>1, <1>3, SendsShown
<1>6. Backs(t, h, live', cleanUps')
  BY <1>1, <1>3, SendsBacks
<1>7. tagDeletes > 0 => isReadyForUnsubscribeByTag(t)
  BY <1>1, StaysReady
<1> QED BY <1>1, <1>4, <1>5, <1>6, <1>7, BecomesOrderly

(* An action does that, and so does one followed by dispose.               *)
LEMMA ActsOrderly ==
    ASSUME IInv, Tied, Orderly, Calm, NEW t, Good(t), NEW A, Acts(sub, t, A),
           NEW u, u = t \/ u = dispose(t),
           NEW waiting \in Nat, waiting + tagDeletes <= 1,
           Becomes(u, waiting, tagDeletes), UNCHANGED <<live, cleanUps, env>>
    PROVE  Orderly'
<1>1. ~sub.becameReady
  BY DEF IInv, Tagged
<1>2. /\ Sends(sub, t) /\ t.snapshotRef = sub.snapshotRef
      /\ t.deltaRef = sub.deltaRef
      /\ t.connectionAvailable = sub.connectionAvailable
      /\ t.becameReady => isReadyForUnsubscribeByTag(t)
  BY <1>1 DEF Acts, Keeps, Does
<1>3. /\ Good(u) /\ u.currentState = t.currentState /\ u.inFlight = t.inFlight
      /\ u.snapshotRef = t.snapshotRef /\ u.deltaRef = t.deltaRef
      /\ u.connectionAvailable = t.connectionAvailable
      /\ u.becameReady = t.becameReady
  BY DisposeSame, DisposeGood
<1>4. Sends(sub, u) /\ (u.becameReady => isReadyForUnsubscribeByTag(u))
  BY <1>2, <1>3 DEF Sends, isReadyForUnsubscribeByTag
<1> QED BY <1>2, <1>3, <1>4, SendsOrderly

(* Initially.                                                              *)
LEMMA InitOrderly == Init => Orderly
<1> SUFFICES ASSUME Init, Calm PROVE Orderly
  BY DEF Orderly
<1>1. PICK connected \in BOOLEAN, protobuf \in BOOLEAN :
          sub = onSubscribe(IF connected THEN NewSubscription(protobuf)
                            ELSE onConnectionUnavailable(NewSubscription(protobuf)))
  BY DEF Init
<1> DEFINE s == NewSubscription(protobuf)
           t == IF connected THEN s ELSE onConnectionUnavailable(s)
<1>2. Good(s)
  BY NewGood
<1>3. /\ s.currentState = STATE_UNSUBSCRIBED /\ s.inFlight = <<>>
      /\ s.snapshotRef = 0 /\ s.deltaRef = 0 /\ s.connectionAvailable
  BY DEF NewSubscription
<1>a. sub = onSubscribe(t)
  BY <1>1
<1> HIDE DEF s
<1>4. /\ Good(t) /\ t.currentState = STATE_UNSUBSCRIBED /\ t.inFlight = <<>>
      /\ t.snapshotRef = 0 /\ t.deltaRef = 0
  BY <1>2, <1>3, OnConnectionUnavailableGood, OnConnectionUnavailableMoves
<1> HIDE DEF t
<1>5. Agrees(t, {}) /\ Shown(t, {})
  <2>1. Len(t.inFlight) = 0
    BY <1>4
  <2>2. \A i \in 1..Len(t.inFlight), l \in RequestKinds : t.inFlight[i][l] = 0
    BY <2>1
  <2> QED BY <1>4, <2>1, <2>2, IdleAgrees DEF Shown
<1>6. Good(sub) /\ Acts(t, sub, {ACTION_SUBSCRIBE})
  BY <1>a, <1>4, OnSubscribeGood, OnSubscribeActs
<1>7. sub \in SubscriptionRecords
  BY <1>6 DEF Good
<1>8. Agrees(sub, {}) /\ Shown(sub, {})
  BY <1>4, <1>5, <1>6, <1>7, SendsAgrees, SendsShown DEF Acts, Keeps
<1>9. Backs(t, {}, {}, {})
  BY DEF Backs
<1>10. Backs(sub, {}, {}, {})
  BY <1>4, <1>6, <1>9, SendsBacks DEF Acts
<1>11. Believes({})
  BY <1>8, <1>10 DEF Believes, Init
<1> QED BY <1>11 DEF Orderly, Init

(* The consumer's calls.                                                   *)
LEMMA ConsumerOrderly ==
    ASSUME IInv, Tied, Orderly, Calm, Consumer
    PROVE  Orderly'
<1>1. Good(sub) /\ ~sub.becameReady /\ tagWaiting \in Nat /\ tagDeletes \in Nat
      /\ tagWaiting + tagDeletes <= 1
  BY DEF IInv, Tagged, Orderly
<1>2. ASSUME NEW t, Good(t), NEW A, Acts(sub, t, A), NEW u, u = t \/ u = dispose(t),
             Handles(u), NEW kinds, Event(kinds)
      PROVE  Orderly'
  BY <1>1, <1>2, ActsOrderly DEF Handles, SameServer, Event
<1>3. CASE Subscribe
  BY <1>1, <1>2, <1>3, OnSubscribeGood, OnSubscribeActs DEF Subscribe
<1>4. CASE Unsubscribing
  BY <1>1, <1>2, <1>4, OnUnsubscribeGood, OnUnsubscribeActs DEF Unsubscribing
<1>5. CASE Modify
  BY <1>1, <1>2, <1>5, OnModifyGood, OnModifyActs DEF Modify
<1>6. CASE ModifyPatch
  BY <1>1, <1>2, <1>6, OnModifyPatchGood, OnModifyPatchActs DEF ModifyPatch
<1>7. CASE disposeSubscription
  <2>1. /\ Good(onUnsubscribe(sub, FALSE))
        /\ Acts(sub, onUnsubscribe(sub, FALSE), {ACTION_UNSUBSCRIBE})
    BY <1>1, OnUnsubscribeGood, OnUnsubscribeActs
  <2> QED BY <1>2, <1>7, <2>1 DEF disposeSubscription
<1>8. CASE unsubscribeByTag \/ disposeSubscriptionByTag
  <2> DEFINE t == onUnsubscribeByTagPending(sub)
  <2>1. /\ Good(t) /\ Acts(sub, t, {ACTION_UNSUBSCRIBE_BY_TAG_PENDING})
    BY <1>1, OnUnsubscribeByTagPendingGood, OnUnsubscribeByTagPendingActs
  <2>2. PICK u : /\ u = t \/ u = dispose(t)
                 /\ Becomes(u, tagWaiting + 1, tagDeletes)
    BY <1>8 DEF unsubscribeByTag, disposeSubscriptionByTag
  <2>3. "ByTag" \in env /\ AgainKind \subseteq env
        /\ UNCHANGED <<live, cleanUps, env>>
    BY <1>8 DEF unsubscribeByTag, disposeSubscriptionByTag, SameServer, Event
  <2> HIDE DEF t
  <2>4. tagWaiting + tagDeletes = 0
    <3>1. "ByTagAgain" \notin env
      BY <2>3 DEF Calm, OneTagCall, Without
    <3>2. ~(tagWaiting + tagDeletes > 0)
      BY <2>3, <3>1 DEF AgainKind
    <3> QED BY <1>1, <3>2
  <2>5. tagWaiting + 1 \in Nat /\ tagWaiting + 1 + tagDeletes <= 1
    BY <1>1, <2>4
  <2> QED BY <2>1, <2>2, <2>3, <2>5, ActsOrderly
<1> QED BY <1>3, <1>4, <1>5, <1>6, <1>7, <1>8 DEF Consumer

-----------------------------------------------------------------------------
(* A reset gives up no PATCH.                                              *)
LEMMA ResetKeepsCalm ==
    ASSUME IInv, Tied, Calm, "Reset" \in env \/ "BadUpdate" \in env
    PROVE  Good(reset(sub)) /\ Acts(sub, reset(sub), Again)
<1>1. Good(sub)
  BY DEF IInv, Tagged
<1>2. Without({"Patch"})
  BY DEF Calm, PatchNotOvertaken, Without
<1>3. sub.currentState # STATE_PATCH_REQUESTED
  BY <1>2 DEF Tied, Fits
<1> QED BY <1>1, <1>3, ResetGood, ResetActs

(* Connection, control messages, updates and the response by tag.          *)
LEMMA StreamingOrderly ==
    ASSUME IInv, Tied, Orderly, Calm, Streaming
    PROVE  Orderly'
<1>1. /\ Good(sub) /\ ~sub.becameReady /\ tagWaiting \in Nat /\ tagDeletes \in Nat
      /\ tagWaiting + tagDeletes <= 1
      /\ tagDeletes > 0 => isReadyForUnsubscribeByTag(sub)
      /\ sub \in SubscriptionRecords /\ Len(sub.inFlight) \in Nat
      /\ \A r \in 1..Len(sub.inFlight) : r \in Nat
  <2>1. sub.inFlight \in Seq([RequestKinds -> Nat])
    BY DEF IInv, Tagged, Good, SubscriptionRecords
  <2> QED BY <2>1, LenProperties DEF IInv, Tagged, Orderly, Good
<1>h. PICK h : Believes(h)
  BY DEF Orderly
<1>b. /\ Agrees(sub, h) /\ Backs(sub, h, live, cleanUps)
      /\ Without({"Connection"}) => Shown(sub, h)
  BY <1>h DEF Believes
<1>2. ASSUME NEW t, Good(t), NEW A, Acts(sub, t, A), Handles(t), UNCHANGED env
      PROVE  Orderly'
  BY <1>1, <1>2, ActsOrderly DEF Handles, SameServer
<1>3. CASE ConnectionUnavailable
  <2> DEFINE t == onConnectionUnavailable(sub)
  <2>1. /\ Good(t) /\ t.currentState = sub.currentState
        /\ t.inFlight = sub.inFlight
        /\ t.snapshotRef = sub.snapshotRef /\ t.deltaRef = sub.deltaRef
        /\ Does(sub, t, {ACTION_SUBSCRIBE})
    BY <1>1, OnConnectionUnavailableGood, OnConnectionUnavailableMoves
  <2>2. Sends(sub, t) /\ (t.becameReady => isReadyForUnsubscribeByTag(t))
    BY <1>1, <2>1 DEF Sends, Does
  <2>3. "Connection" \in env /\ Handles(t) /\ UNCHANGED env
    BY <1>3 DEF ConnectionUnavailable, Event
  <2>4. ~Without({"Connection"})
    BY <2>3 DEF Without
  <2> HIDE DEF t
  <2> QED BY <1>1, <2>1, <2>2, <2>3, <2>4, SendsOrderly DEF Handles, SameServer
<1>4. CASE ConnectionAvailable
  <2> DEFINE up == [sub EXCEPT !.connectionAvailable = TRUE]
             t == onConnectionAvailable(sub)
  <2>1. Good(up) /\ Acts(up, t, {}) /\ Good(t)
    BY <1>1, OnConnectionAvailableMoves, OnConnectionAvailableGood
  <2>2. /\ up.currentState = sub.currentState /\ up.inFlight = sub.inFlight
        /\ up.snapshotRef = sub.snapshotRef /\ up.deltaRef = sub.deltaRef
        /\ up.connectionAvailable /\ up.becameReady = sub.becameReady
    BY <1>1 DEF SubscriptionRecords
  <2>3. Becomes(t, tagWaiting, tagDeletes) /\ UNCHANGED <<live, cleanUps, env>>
    BY <1>4 DEF ConnectionAvailable, Handles, SameServer, NoEvent
  <2> HIDE DEF t, up
  <2>4. /\ Agrees(up, h) /\ Backs(up, h, live, cleanUps)
        /\ Without({"Connection"}) => Shown(up, h)
    BY <1>1, <1>b, <2>2 DEF Agrees, Backs, Shown, isReadyForUnsubscribeByTag
  <2>5. /\ Agrees(t, h) /\ (Without({"Connection"}) => Shown(t, h))
        /\ t.becameReady => isReadyForUnsubscribeByTag(t)
    BY <1>1, <2>1, <2>2, <2>4, SendsAgrees, SendsShown DEF Acts, Keeps, Does, Good
  <2>6. tagDeletes > 0 => isReadyForUnsubscribeByTag(t)
    BY <1>1, <2>1, <2>2, StaysReady DEF Acts, isReadyForUnsubscribeByTag
  <2>7. Backs(t, h, live', cleanUps')
    BY <2>1, <2>3, <2>4, SendsBacks DEF Acts
  <2> QED BY <1>1, <2>1, <2>3, <2>5, <2>6, <2>7, BecomesOrderly
<1>5. CASE Reset
  <2>1. "Reset" \in env /\ Handles(reset(sub)) /\ UNCHANGED env
    BY <1>5 DEF Reset, Event
  <2> QED BY <1>2, <2>1, ResetKeepsCalm
<1>6. CASE Update
  <2> DEFINE t == onStreamingData(sub, TRUE)
  <2>1. /\ Good(t) /\ Same(sub, t) /\ t.snapshotRef = sub.snapshotRef
        /\ t.deltaRef = sub.deltaRef \/ t.deltaRef = Len(sub.inFlight)
        /\ sub.currentState \in {STATE_SUBSCRIBE_REQUESTED,
               STATE_UNSUBSCRIBE_REQUESTED, STATE_UNSUBSCRIBED}
               => t.deltaRef = sub.deltaRef
    BY <1>1, UpdateTells
  <2>2. /\ Streams /\ Becomes(t, tagWaiting, tagDeletes)
        /\ UNCHANGED <<live, cleanUps, env>>
    BY <1>6 DEF Update, Handles, SameServer, NoEvent
  <2> HIDE DEF t
  <2>3. Agrees(t, h) /\ Backs(t, h, live', cleanUps')
    BY <1>b, <2>1, <2>2 DEF Same, Agrees, Backs, isReadyForUnsubscribeByTag
  <2>4. ASSUME sub.currentState \notin {STATE_SUBSCRIBE_REQUESTED,
                   STATE_UNSUBSCRIBE_REQUESTED, STATE_UNSUBSCRIBED},
               NothingLeftOver
        PROVE  h # {}
    <3> DEFINE n == Len(sub.inFlight)
    <3>1. n \in live \/ (n > 0 /\ sub.inFlight[n]["post"] > 0)
      BY <2>2 DEF Streams, referenceId
    <3>2. ASSUME n > 0
          PROVE  sub.inFlight[n]["post"] = 0
      <4>1. "post" \in RequestKinds /\ "post" # Awaits(sub.currentState)
        BY <1>1, <2>4, AwaitsKinds
      <4>2. n \in 1..n
        BY <1>1, <3>2
      <4> QED BY <1>b, <4>1, <4>2 DEF Agrees
    <3>3. n \in live
      BY <3>1, <3>2
    <3>4. CASE isReadyForUnsubscribeByTag(sub)
      <4>1. Without({"duplicate", "network", "DeleteFails"})
        BY <2>4, <3>4 DEF NothingLeftOver, Tied, Fits
      <4>2. Without({"duplicate"}) /\ Without({"network", "DeleteFails"})
        BY <4>1 DEF Without
      <4> QED BY <1>b, <3>3, <4>2 DEF Backs
    <3>5. CASE ~isReadyForUnsubscribeByTag(sub)
      <4>1. sub.currentState \in {STATE_SUBSCRIBED, STATE_PATCH_REQUESTED}
        BY <1>1, <2>4, <3>5 DEF SubscriptionRecords, States, isReadyForUnsubscribeByTag
      <4> QED BY <1>b, <4>1 DEF Agrees
    <3> QED BY <3>4, <3>5
  <2>5. Without({"Connection"}) => Shown(t, h)
    <3>1. sub.snapshotRef \in Nat /\ sub.deltaRef \in Nat
      BY <1>1 DEF SubscriptionRecords
    <3>2. ASSUME Shown(sub, h) PROVE Shown(t, h)
      <4>1. CASE t.deltaRef = sub.deltaRef \/ ~NothingLeftOver
        BY <2>1, <3>2, <4>1 DEF Same, Shown
      <4>2. CASE t.deltaRef # sub.deltaRef /\ NothingLeftOver
        <5>1. /\ h # {} /\ t.deltaRef = Len(sub.inFlight)
              /\ sub.currentState # STATE_UNSUBSCRIBE_REQUESTED
          BY <2>1, <2>4, <4>2
        <5>2. sub.snapshotRef = Len(sub.inFlight)
          BY <3>2, <5>1 DEF Shown
        <5> QED BY <1>1, <2>1, <3>2, <5>1, <5>2 DEF Same, Shown
      <4> QED BY <4>1, <4>2
    <3> QED BY <1>b, <3>2
  <2>6. /\ t.becameReady = FALSE
        /\ tagDeletes > 0 => isReadyForUnsubscribeByTag(t)
    BY <1>1, <2>1 DEF Same, isReadyForUnsubscribeByTag
  <2> QED BY <1>1, <2>1, <2>2, <2>3, <2>5, <2>6, BecomesOrderly
<1>7. CASE UnparsableUpdate
  <2> DEFINE t == onStreamingData(sub, FALSE)
  <2>1. \/ t = sub
        \/ /\ Good(t) /\ Same(sub, t) /\ t.snapshotRef = sub.snapshotRef
           /\ t.deltaRef = sub.deltaRef
        \/ t = reset(sub)
    BY <1>1, UnparsableResets
  <2>2. Handles(t) /\ "BadUpdate" \in env /\ UNCHANGED env
    BY <1>7 DEF UnparsableUpdate, Event
  <2> HIDE DEF t
  <2>3. CASE t = reset(sub)
    BY <1>2, <2>2, <2>3, ResetKeepsCalm
  <2>4. CASE t # reset(sub)
    <3>1. /\ Good(t) /\ t.snapshotRef = sub.snapshotRef
          /\ t.deltaRef = sub.deltaRef
          /\ t.currentState = sub.currentState /\ t.inFlight = sub.inFlight
          /\ t.connectionAvailable = sub.connectionAvailable
          /\ t.becameReady = FALSE
      BY <1>1, <2>1, <2>4 DEF Same
    <3>2. Sends(sub, t)
      BY <3>1 DEF Sends
    <3> QED BY <1>1, <2>2, <3>1, <3>2, SendsOrderly DEF Handles, SameServer
  <2> QED BY <2>3, <2>4
<1>8. CASE UnsubscribeByTagAnswered
  <2> DEFINE u == [sub EXCEPT !.currentState = STATE_UNSUBSCRIBED]
             t == onUnsubscribeByTagComplete(sub)
  <2>1. Good(t) /\ Good(u) /\ t = onReadyToPerformNextAction(u)
    BY <1>1, OnUnsubscribeByTagCompleteGood, TagCompleteActs
  <2>2. /\ Becomes(t, tagWaiting, tagDeletes - 1) /\ UNCHANGED env
        /\ tagDeletes > 0
        /\ UNCHANGED cleanUps
        /\ isReadyForUnsubscribeByTag(sub) => Deletes(live)
    BY <1>8 DEF UnsubscribeByTagAnswered, Deletes, Event, NoEvent
  <2>3. /\ u.becameReady = FALSE /\ u.currentState = STATE_UNSUBSCRIBED
        /\ u.inFlight = sub.inFlight
        /\ u.snapshotRef = sub.snapshotRef /\ u.deltaRef = sub.deltaRef
        /\ u.connectionAvailable = sub.connectionAvailable
    BY <1>1 DEF SubscriptionRecords
  <2> HIDE DEF t, u
  <2>4. sub.currentState = STATE_READY_FOR_UNSUBSCRIBE_BY_TAG /\ Deletes(live)
    BY <1>1, <2>2 DEF isReadyForUnsubscribeByTag
  <2>5. \A i \in 1..Len(u.inFlight), l \in RequestKinds : u.inFlight[i][l] = 0
    BY <1>b, <2>3, <2>4, AwaitsKinds DEF Agrees
  <2>6. Agrees(u, {}) /\ (Without({"Connection"}) => Shown(u, {}))
    BY <1>b, <2>3, <2>5, IdleAgrees DEF Shown
  <2>b. Backs(u, {}, live', cleanUps')
    <3>1. live' = {} \/ ~Without({"network", "DeleteFails"})
      BY <2>4 DEF Deletes, Event, Without
    <3> QED BY <1>b, <2>2, <2>3, <3>1, StateNames DEF Backs
  <2>7. Acts(u, t, {})
    BY <2>1, ReadyActs
  <2>8. /\ Agrees(t, {}) /\ (Without({"Connection"}) => Shown(t, {}))
        /\ t.becameReady => isReadyForUnsubscribeByTag(t)
    BY <2>1, <2>3, <2>6, <2>7, SendsAgrees, SendsShown DEF Acts, Keeps, Does, Good
  <2>9. /\ tagDeletes - 1 \in Nat /\ tagWaiting + (tagDeletes - 1) <= 1
        /\ ~(tagDeletes - 1 > 0)
    BY <1>1, <2>2
  <2>10. Backs(t, {}, live', cleanUps')
    BY <2>1, <2>7, <2>b, SendsBacks DEF Acts
  <2> QED BY <1>1, <2>1, <2>2, <2>8, <2>9, <2>10, BecomesOrderly
<1> QED BY <1>3, <1>4, <1>5, <1>6, <1>7, <1>8 DEF Streaming

-----------------------------------------------------------------------------
(* A response leaves nothing in flight. *)
LEMMA AnsweredIdle ==
    ASSUME IInv, Tied, Orderly, Calm, NEW r \in DOMAIN sub.inFlight,
           NEW k \in RequestKinds, Waiting(r, k)
    PROVE  LET s == Received(r, k) IN
           /\ Answered(s, r) /\ Fits(s) /\ ~s.becameReady
           /\ r = referenceId(s) /\ referenceId(s) = Len(sub.inFlight)
           /\ s.queue = sub.queue /\ s.connectionAvailable = sub.connectionAvailable
           /\ s.snapshotRef = sub.snapshotRef /\ s.deltaRef = sub.deltaRef
           /\ \A i \in 1..Len(s.inFlight), l \in RequestKinds : s.inFlight[i][l] = 0
           /\ \/ /\ k = "post" /\ sub.currentState = STATE_SUBSCRIBE_REQUESTED
                 /\ Believes({})
              \/ /\ k = "delete" /\ sub.currentState = STATE_UNSUBSCRIBE_REQUESTED
                 /\ Believes({r})
              \/ /\ k = "patch" /\ sub.currentState = STATE_PATCH_REQUESTED
                 /\ Believes({r})
           /\ tagDeletes = 0 /\ tagWaiting \in Nat /\ tagWaiting <= 1
<1> DEFINE s == Received(r, k)
<1>h. PICK h : Believes(h)
  BY DEF Orderly
<1>1. /\ Good(sub) /\ Agrees(sub, h) /\ tagDeletes \in Nat /\ tagWaiting \in Nat
      /\ tagWaiting + tagDeletes <= 1
      /\ tagDeletes > 0 => isReadyForUnsubscribeByTag(sub)
  BY <1>h DEF IInv, Tagged, Orderly, Believes
<1>2. r \in 1..Len(sub.inFlight)
  <2>1. sub.inFlight \in Seq([RequestKinds -> Nat])
    BY <1>1 DEF Good, SubscriptionRecords
  <2> QED BY <2>1, LenProperties
<1>3. /\ Answered(s, r) /\ Fits(s) /\ ~s.becameReady
      /\ referenceId(s) = referenceId(sub) /\ s.queue = sub.queue
      /\ s.connectionAvailable = sub.connectionAvailable
      /\ s.snapshotRef = sub.snapshotRef /\ s.deltaRef = sub.deltaRef
  BY ReceivedFits
<1>4. /\ r = referenceId(sub) /\ Len(s.inFlight) = Len(sub.inFlight)
      /\ \/ k = "post" /\ sub.currentState = STATE_SUBSCRIBE_REQUESTED
         \/ k = "delete" /\ sub.currentState = STATE_UNSUBSCRIBE_REQUESTED
         \/ k = "patch" /\ sub.currentState = STATE_PATCH_REQUESTED
      /\ \A i \in 1..Len(sub.inFlight), l \in RequestKinds : s.inFlight[i][l] = 0
  BY <1>1, <1>2, ReceivedIdle DEF Waiting, Received
<1> HIDE DEF s
<1>a. \/ k = "post" /\ sub.currentState = STATE_SUBSCRIBE_REQUESTED /\ h = {}
      \/ k = "delete" /\ sub.currentState = STATE_UNSUBSCRIBE_REQUESTED /\ h = {r}
      \/ k = "patch" /\ sub.currentState = STATE_PATCH_REQUESTED /\ h = {r}
  BY <1>1, <1>4 DEF Agrees, referenceId
<1>5. \/ /\ k = "post" /\ sub.currentState = STATE_SUBSCRIBE_REQUESTED
         /\ Believes({})
      \/ /\ k = "delete" /\ sub.currentState = STATE_UNSUBSCRIBE_REQUESTED
         /\ Believes({r})
      \/ /\ k = "patch" /\ sub.currentState = STATE_PATCH_REQUESTED
         /\ Believes({r})
  BY <1>a, <1>h
<1>6. ~isReadyForUnsubscribeByTag(sub)
  BY <1>4, StateNames DEF isReadyForUnsubscribeByTag
<1>7. tagDeletes = 0 /\ tagWaiting <= 1
  BY <1>1, <1>6
<1> QED BY <1>1, <1>3, <1>4, <1>5, <1>7 DEF s, referenceId

(* The responses.                                                          *)
LEMMA ResponseOrderly ==
    ASSUME IInv, Tied, Orderly, Calm, NEW r \in DOMAIN sub.inFlight, Response(r)
    PROVE  Orderly'
<1>a. "post" \in RequestKinds /\ "delete" \in RequestKinds /\ "patch" \in RequestKinds
      /\ "post" # "delete" /\ "post" # "patch" /\ "delete" # "patch"
  BY DEF RequestKinds
<1>1. ASSUME NEW k \in RequestKinds, Waiting(r, k), NEW t, Good(t), NEW h,
             Agrees(t, h), Backs(t, h, live', cleanUps'),
             Without({"Connection"}) => Shown(t, h),
             t.becameReady => isReadyForUnsubscribeByTag(t),
             Becomes(t, tagWaiting, tagDeletes), UNCHANGED env
      PROVE  Orderly'
  <2>1. tagDeletes = 0 /\ tagWaiting \in Nat /\ tagWaiting <= 1
    BY <1>1, AnsweredIdle
  <2>2. tagDeletes \in Nat /\ tagWaiting + tagDeletes <= 1
        /\ (tagDeletes > 0 \/ t.becameReady => isReadyForUnsubscribeByTag(t))
    BY <1>1, <2>1
  <2> QED BY <1>1, <2>1, <2>2, BecomesOrderly
<1>2. ASSUME NEW k \in RequestKinds, Waiting(r, k), NEW q, NEW state,
             NEW h,
             \/ state = STATE_SUBSCRIBED /\ h = {r}
             \/ state = STATE_UNSUBSCRIBED /\ h = {},
             q.currentState = state, q.inFlight = Received(r, k).inFlight
      PROVE  Agrees(q, h)
  <2> DEFINE w == Received(r, k)
  <2>3. /\ r = referenceId(w)
        /\ \A i \in 1..Len(w.inFlight), l \in RequestKinds : w.inFlight[i][l] = 0
    BY <1>2, AnsweredIdle
  <2>4. q.inFlight = w.inFlight
    BY <1>2
  <2> HIDE DEF w
  <2>1. /\ r = Len(q.inFlight)
        /\ \A i \in 1..Len(q.inFlight), l \in RequestKinds : q.inFlight[i][l] = 0
    BY <2>3, <2>4 DEF referenceId
  <2>2. \/ q.currentState = STATE_UNSUBSCRIBED /\ h = {}
        \/ q.currentState = STATE_SUBSCRIBED /\ h = {Len(q.inFlight)}
    BY <1>2, <2>1
  <2> QED BY <2>1, <2>2, IdleAgrees
<1>3. ASSUME Waiting(r, "post"), NEW call \in Calls, call = "patch" => "Patch" \in env,
             Becomes(onSubscribeSuccess(Received(r, "post"), r, call),
                     tagWaiting, tagDeletes),
             live' = live \cup {r}, UNCHANGED <<cleanUps, env>>
      PROVE  Orderly'
  <2> DEFINE s == Received(r, "post")
             q == [s EXCEPT !.currentState = STATE_SUBSCRIBED]
             t == onSubscribeSuccess(s, r, call)
             A == CallActions(call) \cup
                      (IF s.updatesBeforeSubscribed = "bad" THEN Again ELSE {})
  <2>1. /\ Answered(s, r) /\ Fits(s) /\ ~s.becameReady
        /\ r = referenceId(s) /\ referenceId(s) = Len(sub.inFlight)
        /\ s.queue = sub.queue /\ s.connectionAvailable = sub.connectionAvailable
        /\ s.snapshotRef = sub.snapshotRef /\ s.deltaRef = sub.deltaRef
        /\ Believes({}) /\ sub.currentState = STATE_SUBSCRIBE_REQUESTED
    BY <1>3, <1>a, AnsweredIdle
  <2>h. /\ Backs(sub, {}, live, cleanUps)
        /\ Without({"Connection"}) => Shown(sub, {})
    BY <2>1 DEF Believes
  <2>2. /\ q.currentState = STATE_SUBSCRIBED /\ q.inFlight = s.inFlight
        /\ q.becameReady = FALSE
    BY <2>1 DEF Answered, SubscriptionRecords
  <2>3. Backs(q, {r}, live', cleanUps')
    <3>1. Len(q.inFlight) = r /\ Len(sub.inFlight) = r
      BY <2>1, <2>2 DEF referenceId
    <3>2. r \notin cleanUps
      BY <2>1, <2>h, <3>1 DEF Backs
    <3> QED BY <1>3, <2>2, <2>h, <3>1, <3>2, StateNames DEF Backs
  <2>4. Agrees(q, {r})
    BY <1>2, <1>3, <1>a, <2>2
  <2>5. /\ CallActions(call) \subseteq A
        /\ s.updatesBeforeSubscribed = "bad" => Again \subseteq A
    OBVIOUS
  <2>6. \/ s.updatesBeforeSubscribed # "bad"
        \/ call # "patch" /\ ~Holds(s.queue, ACTION_MODIFY_PATCH)
    <3>1. CASE Without({"Patch"})
      BY <1>3, <2>1, <3>1 DEF Fits, Without
    <3>2. CASE ~Without({"Patch"})
      <4>1. Without({"BadUpdate"})
        BY <3>2 DEF Calm, PatchNotOvertaken, Without
      <4> QED BY <2>1, <4>1 DEF Fits
    <3> QED BY <3>1, <3>2
  <2>b. Becomes(t, tagWaiting, tagDeletes)
    BY <1>3
  <2> HIDE DEF s, A
  <2>7. /\ Good(q) /\ Good(t) /\ Leaves(q, t, A) /\ Sends(q, t)
        /\ IF WillUnsubscribe(s)
           THEN /\ t.snapshotRef = s.snapshotRef /\ t.deltaRef = s.deltaRef
                /\ s.connectionAvailable /\ TagAtHead(s.queue) =>
                       t.currentState = STATE_UNSUBSCRIBE_REQUESTED
           ELSE /\ t.snapshotRef = Len(s.inFlight)
                /\ t.deltaRef = s.deltaRef \/ t.deltaRef = Len(s.inFlight)
    BY <2>1, <2>5, <2>6, SubscribeSuccessMoves
  <2> HIDE DEF q, t
  <2>8. /\ Agrees(t, {r}) /\ Len(t.inFlight) = Len(q.inFlight)
        /\ t.connectionAvailable = q.connectionAvailable
        /\ t.becameReady => isReadyForUnsubscribeByTag(t)
    BY <2>2, <2>4, <2>7, SendsAgrees, SendsLen, StateNames DEF Leaves, Does, Good
  <2>9. t.connectionAvailable = sub.connectionAvailable
    BY <2>1, <2>8 DEF q, Answered, SubscriptionRecords
  <2>c. Backs(t, {r}, live', cleanUps')
    BY <2>3, <2>7, SendsBacks
  <2>10. ASSUME Shown(sub, {}) PROVE Shown(t, {r})
    <3> DEFINE n == Len(sub.inFlight)
    <3>1. Len(t.inFlight) = n /\ Len(s.inFlight) = n
      BY <2>1, <2>2, <2>8 DEF referenceId
    <3>2. n \in Nat /\ n > 0 /\ sub.snapshotRef \in Nat /\ sub.deltaRef \in Nat
      <4>1. sub \in SubscriptionRecords
        BY DEF IInv, Tagged, Good
      <4>2. sub.inFlight \in Seq([RequestKinds -> Nat])
        BY <4>1 DEF SubscriptionRecords
      <4>3. n \in Nat
        BY <4>2, LenProperties
      <4> QED BY <2>1, <3>1, <4>1, <4>3 DEF Answered, SubscriptionRecords
    <3>3. sub.connectionAvailable /\ TagAtHead(s.queue)
      BY <2>1, <2>10, <3>2 DEF Shown, Fits
    <3>4. /\ NothingLeftOver => sub.deltaRef <= sub.snapshotRef
          /\ sub.snapshotRef <= n
      BY <2>10 DEF Shown
    <3>5. CASE WillUnsubscribe(s)
      BY <2>1, <2>7, <2>9, <3>1, <3>3, <3>4, <3>5 DEF Shown
    <3>6. CASE ~WillUnsubscribe(s)
      <4>1. t.snapshotRef = n /\ (NothingLeftOver => t.deltaRef <= n)
        BY <2>1, <2>7, <3>1, <3>2, <3>4, <3>6
      <4> QED BY <2>9, <3>1, <3>2, <3>3, <4>1 DEF Shown
    <3> QED BY <3>5, <3>6
  <2> QED BY <1>1, <1>3, <1>a, <2>h, <2>7, <2>8, <2>10, <2>b, <2>c
<1>4. CASE SubscribeSucceeded(r)
  <2>1. "none" \in Calls
    BY DEF Calls
  <2> QED BY <1>3, <1>4, <2>1 DEF SubscribeSucceeded, NoEvent
<1>5. CASE \E call \in Calls \ {"none"} : SubscribeSucceededReentrantly(r, call)
  <2>1. PICK call \in Calls \ {"none"} : SubscribeSucceededReentrantly(r, call)
    BY <1>5
  <2>2. /\ Waiting(r, "post") /\ UNCHANGED <<cleanUps, env>> /\ live' = live \cup {r}
        /\ Becomes(onSubscribeSuccess(Received(r, "post"), r, call),
                   tagWaiting, tagDeletes)
        /\ call = "patch" => "Patch" \in env
    BY <2>1 DEF SubscribeSucceededReentrantly, Event
  <2> QED BY <1>3, <2>1, <2>2
(* Every other response leads to a subscription with nothing in flight     *)
(* that may go on from there.                                              *)
<1>6. ASSUME NEW k \in RequestKinds, Waiting(r, k), NEW q, Good(q), NEW t, Good(t),
             Sends(q, t), t.becameReady => q.becameReady \/ isReadyForUnsubscribeByTag(t),
             NEW state,
             NEW h, Backs(q, h, live', cleanUps'),
             \/ state = STATE_SUBSCRIBED /\ k = "patch" /\ h = {r}
             \/ state = STATE_UNSUBSCRIBED /\ h = {},
             q.currentState = state, q.inFlight = Received(r, k).inFlight,
             q.becameReady = FALSE,
             q.connectionAvailable = sub.connectionAvailable,
             t.connectionAvailable = sub.connectionAvailable,
             q.snapshotRef = sub.snapshotRef /\ q.deltaRef = sub.deltaRef,
             t.snapshotRef = sub.snapshotRef /\ t.deltaRef = sub.deltaRef,
             Becomes(t, tagWaiting, tagDeletes), UNCHANGED env
      PROVE  Orderly'
  <2> DEFINE s == Received(r, k)
  <2>1. /\ r = referenceId(s) /\ referenceId(s) = Len(sub.inFlight)
        /\ IF k = "patch"
           THEN Believes({r}) /\ sub.currentState = STATE_PATCH_REQUESTED
           ELSE \E b : Believes(b)
    BY <1>6, <1>a, AnsweredIdle
  <2>2. Agrees(q, h)
    BY <1>2, <1>6, <2>1
  <2>3. Without({"Connection"}) => Shown(q, h)
    BY <1>6, <2>1, StateNames DEF Shown, Believes, referenceId
  <2>4. Agrees(t, h) /\ (Without({"Connection"}) => Shown(t, h))
    BY <1>6, <2>2, <2>3, SendsAgrees, SendsShown DEF Good
  <2>5. Backs(t, h, live', cleanUps')
    BY <1>6, SendsBacks
  <2> QED BY <1>1, <1>6, <2>4, <2>5
<1>7. CASE \E response \in SubscribeErrors : SubscribeFailed(r, response)
  <2>1. PICK response \in SubscribeErrors : SubscribeFailed(r, response)
    BY <1>7
  <2> DEFINE s == Received(r, "post")
             t == onSubscribeError(s, r, response)
  <2>2. /\ Waiting(r, "post") /\ UNCHANGED env /\ response \in env
        /\ Becomes(t, tagWaiting, tagDeletes)
    BY <2>1 DEF SubscribeFailed, Event
  <2>3. /\ Answered(s, r) /\ Fits(s) /\ ~s.becameReady /\ r = referenceId(s)
        /\ s.connectionAvailable = sub.connectionAvailable
        /\ s.snapshotRef = sub.snapshotRef /\ s.deltaRef = sub.deltaRef
        /\ Believes({}) /\ r = referenceId(sub)
    BY <1>a, <2>2, AnsweredIdle DEF referenceId
  <2> HIDE DEF s
  <2>4. PICK q :
          /\ Good(q) /\ q.currentState = STATE_UNSUBSCRIBED
          /\ q.inFlight = s.inFlight /\ q.becameReady = s.becameReady
          /\ q.connectionAvailable = s.connectionAvailable
          /\ Good(t) /\ Does(q, t, {ACTION_SUBSCRIBE}) /\ Sends(q, t)
          /\ t.connectionAvailable = s.connectionAvailable
          /\ q.snapshotRef = s.snapshotRef /\ q.deltaRef = s.deltaRef
          /\ t.snapshotRef = s.snapshotRef /\ t.deltaRef = s.deltaRef
    <3>1. Answered(s, r) /\ r = referenceId(s)
      BY <2>3
    <3> QED BY <3>1, SubscribeErrorMoves
  <2> HIDE DEF t
  <2>5. t.becameReady => isReadyForUnsubscribeByTag(t)
    BY <2>3, <2>4 DEF Does
  <2>6. q.inFlight = Received(r, "post").inFlight /\ q.becameReady = FALSE
    BY <2>3, <2>4 DEF s, Answered, SubscriptionRecords
  <2>7. Backs(q, {}, live', cleanUps')
    <3>1. Backs(sub, {}, live, cleanUps)
      BY <2>3 DEF Believes
    <3>2. /\ live' = live \cup {r} \/ live' = live
          /\ live' = live \/ response \in {"network", "duplicate"}
          /\ cleanUps' = cleanUps \cup (IF response = "duplicate" THEN {r} ELSE {})
      BY <2>1, <2>3 DEF SubscribeFailed, cleanUpLeftOverSubscription
    <3>3. Len(q.inFlight) = Len(sub.inFlight) /\ r \in 1..Len(sub.inFlight)
      <4>1. sub.inFlight \in Seq([RequestKinds -> Nat])
        BY DEF IInv, Tagged, Good, SubscriptionRecords
      <4> QED BY <2>3, <2>4, <4>1, LenProperties DEF referenceId
    <3>4. q.currentState # STATE_SUBSCRIBE_REQUESTED
      BY <2>4, StateNames
    <3>5. response # "duplicate" \/ ~Without({"duplicate"})
      BY <2>2 DEF Without
    <3>6. response # "network" \/ ~Without({"network", "DeleteFails"})
      BY <2>2 DEF Without
    <3> QED BY <3>1, <3>2, <3>3, <3>4, <3>5, <3>6 DEF Backs
  <2> QED BY <1>6, <1>a, <2>2, <2>3, <2>4, <2>5, <2>6, <2>7
<1>8. ASSUME NEW k \in {"delete", "patch"}, Waiting(r, k), NEW t,
             Becomes(t, tagWaiting, tagDeletes), UNCHANGED env,
             UNCHANGED cleanUps,
             IF k = "delete" THEN Deletes({r}) ELSE live' = live,
             t = IF k = "delete" THEN onUnsubscribeResponse(Received(r, k), r)
                 ELSE onModifyPatchResponse(Received(r, k), r)
      PROVE  Orderly'
  <2> DEFINE s == Received(r, k)
             state == IF k = "delete" THEN STATE_UNSUBSCRIBED ELSE STATE_SUBSCRIBED
             q == [s EXCEPT !.currentState = state]
  <2>1. /\ Answered(s, r) /\ Fits(s) /\ ~s.becameReady /\ r = referenceId(s)
        /\ s.connectionAvailable = sub.connectionAvailable
        /\ s.snapshotRef = sub.snapshotRef /\ s.deltaRef = sub.deltaRef
        /\ Believes({r}) /\ referenceId(s) = Len(sub.inFlight)
    BY <1>8, <1>a, AnsweredIdle
  <2> DEFINE h == IF k = "delete" THEN {} ELSE {r}
  <2>2. \/ state = STATE_SUBSCRIBED /\ k = "patch" /\ h = {r}
        \/ state = STATE_UNSUBSCRIBED /\ h = {}
    BY <1>8, <1>a
  <2>3. Good(q) /\ t = onReadyToPerformNextAction(q)
    BY <1>8, <1>a, <2>1, ResponseActs
  <2>4. /\ q.currentState = state /\ q.inFlight = s.inFlight /\ q.becameReady = FALSE
        /\ q.connectionAvailable = sub.connectionAvailable
        /\ q.snapshotRef = sub.snapshotRef /\ q.deltaRef = sub.deltaRef
    BY <2>1 DEF Answered, SubscriptionRecords
  <2>7. Backs(q, h, live', cleanUps')
    <3>1. Backs(sub, {r}, live, cleanUps)
      BY <2>1 DEF Believes
    <3>2. IF k = "delete"
          THEN \/ live' = live \ {r}
               \/ live' = live /\ ~Without({"network", "DeleteFails"})
          ELSE live' = live
      BY <1>8 DEF Deletes, Event, Without
    <3>3. Len(q.inFlight) = Len(sub.inFlight)
      BY <2>1, <2>4 DEF referenceId
    <3>4. q.currentState # STATE_SUBSCRIBE_REQUESTED
      BY <2>4, StateNames
    <3> QED BY <1>8, <3>1, <3>2, <3>3, <3>4 DEF Backs
  <2> HIDE DEF q, state, h
  <2>5. Good(t) /\ Acts(q, t, {})
    BY <2>3, ReadyActs, ReadyToPerformGood
  <2>6. /\ Sends(q, t) /\ (t.becameReady => q.becameReady \/ isReadyForUnsubscribeByTag(t))
        /\ t.connectionAvailable = sub.connectionAvailable
        /\ t.snapshotRef = sub.snapshotRef /\ t.deltaRef = sub.deltaRef
    BY <2>4, <2>5 DEF Acts, Keeps, Does
  <2> QED BY <1>6, <1>8, <1>a, <2>2, <2>3, <2>4, <2>5, <2>6, <2>7
<1>9. CASE UnsubscribeAnswered(r)
  BY <1>8, <1>9, <1>a DEF UnsubscribeAnswered, Deletes, Event, NoEvent
<1>10. CASE ModifyPatchAnswered(r)
  BY <1>8, <1>10, <1>a DEF ModifyPatchAnswered, Handles, SameServer, NoEvent
<1>11. CASE CleanUpAnswered(r)
  <2>1. /\ UNCHANGED <<sub, tagWaiting, tagDeletes, env>> /\ r \in cleanUps
        /\ cleanUps' = cleanUps \ {r}
        /\ \/ live' = live \ {r}
           \/ live' = live /\ ~Without({"network", "DeleteFails"})
    BY <1>11 DEF CleanUpAnswered, Deletes, Event, NoEvent, Without
  <2>2. PICK h : Believes(h)
    BY DEF Orderly
  <2>3. Backs(sub, h, live, cleanUps)
    BY <2>2 DEF Believes
  <2>4. Backs(sub, h, live', cleanUps')
    BY <2>1, <2>3 DEF Backs
  <2>5. \A K : Without(K)' = Without(K)
    BY <2>1 DEF Without
  <2>6. NothingLeftOver' = NothingLeftOver
    BY <2>5 DEF NothingLeftOver
  <2>7. Backs(sub, h, live, cleanUps)'
    BY <2>1, <2>4, <2>5 DEF Backs
  <2>8. Agrees(sub, h)' /\ (Without({"Connection"}) => Shown(sub, h))'
    BY <2>1, <2>2, <2>5, <2>6 DEF Believes, Agrees, Shown, isReadyForUnsubscribeByTag
  <2>9. Believes(h)'
    BY <2>7, <2>8 DEF Believes
  <2> QED BY <2>1, <2>9 DEF Orderly, isReadyForUnsubscribeByTag
<1> QED BY <1>4, <1>5, <1>7, <1>9, <1>10, <1>11 DEF Response

(* The timers: what they have queued or sent is one action.                *)
LEMMA TimeoutOrderly ==
    ASSUME IInv, Tied, Orderly, Calm, NetworkErrorTimeout
    PROVE  Orderly'
<1>1. /\ Good(sub) /\ ~sub.becameReady /\ tagWaiting \in Nat /\ tagDeletes \in Nat
      /\ tagWaiting + tagDeletes <= 1
  BY DEF IInv, Tagged, Orderly
<1>2. PICK u : /\ Good(u) /\ u.currentState = sub.currentState
               /\ u.inFlight = sub.inFlight /\ u.becameReady = sub.becameReady
               /\ u.connectionAvailable = sub.connectionAvailable
               /\ u.snapshotRef = sub.snapshotRef /\ u.deltaRef = sub.deltaRef
               /\ Handles(onNetworkErrorTimeout(u))
  BY <1>1, LostTimeoutActs DEF NetworkErrorTimeout
<1> DEFINE t == onNetworkErrorTimeout(u)
<1>3. Good(t) /\ Acts(u, t, {ACTION_SUBSCRIBE})
  BY <1>2, TimeoutActs
<1>4. Handles(t) /\ UNCHANGED env
  BY <1>2 DEF NetworkErrorTimeout, NoEvent
<1> HIDE DEF t
<1>d. /\ subscribe(u).inFlight = subscribe(sub).inFlight
      /\ unsubscribe(u).inFlight = unsubscribe(sub).inFlight
      /\ modifyPatch(u).inFlight = modifyPatch(sub).inFlight
  BY <1>1, <1>2 DEF subscribe, unsubscribe, modifyPatch, Count,
     referenceId, SubscriptionRecords, Good
<1>5. /\ Sends(sub, t) /\ t.snapshotRef = sub.snapshotRef
      /\ t.deltaRef = sub.deltaRef
      /\ t.connectionAvailable = sub.connectionAvailable
      /\ t.becameReady => isReadyForUnsubscribeByTag(t)
  BY <1>1, <1>2, <1>3, <1>d DEF Acts, Keeps, Does, Sends
<1> QED BY <1>1, <1>3, <1>4, <1>5, SendsOrderly DEF Handles, SameServer

(* Every step preserves it.                                                *)
LEMMA NextOrderly == IInv /\ Tied /\ Orderly /\ [Next]_vars => Orderly'
<1> SUFFICES ASSUME IInv, Tied, Orderly, [Next]_vars, Calm' PROVE Orderly'
  BY DEF Orderly
<1>1. CASE UNCHANGED vars
  <2>1. UNCHANGED <<sub, live, cleanUps, tagWaiting, tagDeletes, env>>
    BY <1>1 DEF vars
  <2>2. Calm
    BY <2>1 DEF Calm, OneTagCall, PatchNotOvertaken, Without
  <2>3. PICK h : Believes(h)
    BY <2>2 DEF Orderly
  <2>4. Believes(h)'
    BY <2>1, <2>3 DEF Believes, Agrees, Backs, Shown, NothingLeftOver, Without,
         isReadyForUnsubscribeByTag
  <2> QED BY <2>1, <2>2, <2>4 DEF Orderly, isReadyForUnsubscribeByTag
<1>a. CASE Next
  <2>1. UNCHANGED env
    BY <1>a DEF Next, Consumer, Streaming, Response, Subscribe, Unsubscribing, Modify,
       ModifyPatch, disposeSubscription, unsubscribeByTag, disposeSubscriptionByTag,
       ConnectionUnavailable, ConnectionAvailable, Reset, Update, UnparsableUpdate,
       UnsubscribeByTagAnswered, SubscribeSucceeded, SubscribeSucceededReentrantly,
       SubscribeFailed, UnsubscribeAnswered, CleanUpAnswered, ModifyPatchAnswered,
       NetworkErrorTimeout, Deletes, Event, NoEvent
  <2>2. Calm
    BY <2>1 DEF Calm, OneTagCall, PatchNotOvertaken, Without
  <2> QED BY <1>a, <2>2, ConsumerOrderly, StreamingOrderly, ResponseOrderly,
             TimeoutOrderly DEF Next
<1> QED BY <1>1, <1>a

-----------------------------------------------------------------------------
(* The end of a handler changes nothing about how the subscription ends.   *)
LEMMA BecomesEnds ==
    ASSUME NEW t, Good(t), NEW waiting, NEW deletes, Becomes(t, waiting, deletes)
    PROVE  /\ EndsOn(t) => EndsOn(sub')
           /\ EndsOff(t) => EndsOff(sub')
<1> DEFINE u == [t EXCEPT !.becameReady = FALSE]
<1>1. /\ u.currentState = t.currentState /\ u.queue = t.queue
      /\ u.networkErrorSubscribingTimer = t.networkErrorSubscribingTimer
  BY DEF Good, SubscriptionRecords
<1>2. sub' = u
  BY DEF Becomes
<1> HIDE DEF u
<1> QED BY <1>1, <1>2 DEF EndsOn, EndsOff

(* Under the conditions of KeepsWanted ...                                 *)
WhenWanted ==
    /\ Without({"ByTag", "BadUpdate"})
    /\ Without({"Modify"}) \/ Without({"Reentrant"})
    /\ \/ Without({"Patch"})
       \/ Without({"Reset", "Reentrant", "duplicate", "unsupportedFormat",
                   "network"})

(* ... what is queued, awaited and timed will have the subscription        *)
(* subscribed, as long as the consumer wants it and is not told otherwise. *)
Wanted == WhenWanted /\ intent = "on" /\ ~refused => EndsOn(sub)

(* The conditions of KeepsWanted include those of orderly requests.        *)
LEMMA WantedCalm ==
    ASSUME WhenWanted
    PROVE  /\ Calm /\ Without({"ByTag"}) /\ Without({"BadUpdate"})
           /\ \A k \in {"Reset", "Reentrant", "duplicate", "unsupportedFormat",
                        "network"} : k \in env => Without({"Patch", "ByTag"})
           /\ "Patch" \in env => Without({"network"})
BY DEF WhenWanted, Calm, PatchNotOvertaken, Without

(* When a subscribe is performed nothing that ends the subscription is     *)
(* queued.                                                                 *)
LEMMA NothingEnds ==
    ASSUME WhenWanted, NEW s, Good(s), Fits(s)
    PROVE  /\ ~isReadyForUnsubscribeByTag(s) /\ ~TagQueued(s)
           /\ s.connectionAvailable /\ ~Transitioning(s) =>
                  ~HoldsOne(s.queue, Ending)
<1>1. ~isReadyForUnsubscribeByTag(s) /\ ~TagQueued(s)
  BY WantedCalm DEF Fits
<1>2. ASSUME s.connectionAvailable, ~Transitioning(s)
      PROVE  ~HoldsOne(s.queue, Ending)
  <2>1. CASE s.queue = <<>>
    BY <2>1, EmptyQueue
  <2>2. CASE s.queue # <<>>
    <3>1. s.networkErrorSubscribingTimer /\ ~WillUnsubscribe(s)
      BY <1>2, <2>2 DEF Fits, Served
    <3>2. "network" \in env
      BY <3>1 DEF Fits, Without
    <3>3. OnlyOnOff(s.queue)
      BY <3>2, WantedCalm DEF Fits
    <3> QED BY <3>1, <3>3, EndIsNext
  <2> QED BY <2>1, <2>2
<1> QED BY <1>1, <1>2

(* A subscribe, also after a forced unsubscribe, has the subscription end  *)
(* subscribed.                                                             *)
LEMMA SubscribeOn ==
    ASSUME WhenWanted, NEW s, Good(s), Fits(s)
    PROVE  /\ EndsOn(tryPerformAction(s, Item(ACTION_SUBSCRIBE)))
           /\ ~s.isDisposed => /\ EndsOn(onSubscribe(s))
                               /\ EndsOn(onSubscribe(onUnsubscribe(s, TRUE)))
<1>1. EndsOn(tryPerformAction(s, Item(ACTION_SUBSCRIBE)))
  BY NothingEnds, TrySubscribeOn
<1>2. ASSUME ~s.isDisposed
      PROVE  EndsOn(onSubscribe(onUnsubscribe(s, TRUE)))
  <2> DEFINE t == onUnsubscribe(s, TRUE)
  <2>1. Good(t) /\ Acts(s, t, {ACTION_UNSUBSCRIBE}) /\ Served(t)
    BY OnUnsubscribeGood, OnUnsubscribeActs
  <2> HIDE DEF t
  <2>2. Fits(t) /\ ~t.isDisposed
    BY <1>2, <2>1, ActsFits, AllowedAlways DEF Acts, Keeps
  <2>3. EndsOn(tryPerformAction(t, Item(ACTION_SUBSCRIBE)))
    BY <2>1, <2>2, NothingEnds, TrySubscribeOn
  <2> QED BY <2>2, <2>3 DEF onSubscribe, t
<1>3. ~s.isDisposed => EndsOn(onSubscribe(s))
  BY <1>1 DEF onSubscribe
<1> QED BY <1>1, <1>2, <1>3

(* The consumer's calls.                                                   *)
LEMMA ConsumerWanted ==
    ASSUME IInv, Tied, Wanted, WhenWanted, Consumer, intent' = "on", ~refused'
    PROVE  EndsOn(sub')
<1>1. Good(sub) /\ Fits(sub) /\ (sub.isDisposed => intent = "off")
  BY DEF IInv, Tagged, Tied
<1>a. "on" # "off"
  OBVIOUS
<1>2. ASSUME WantsIt
      PROVE  ~sub.isDisposed
  BY <1>1, <1>2, <1>a DEF WantsIt, SameIntent
<1>3. CASE Subscribe
  <2>1. Becomes(onSubscribe(sub), tagWaiting, tagDeletes) /\ WantsIt
    BY <1>3 DEF Subscribe, Handles
  <2> QED BY <1>1, <1>2, <2>1, SubscribeOn, OnSubscribeGood, BecomesEnds
<1>4. CASE Modify
  <2>1. Becomes(onModify(sub), tagWaiting, tagDeletes) /\ WantsIt
    BY <1>4 DEF Modify, Handles
  <2>2. onModify(sub) = onSubscribe(onUnsubscribe(sub, TRUE))
    BY <1>2, <2>1 DEF onModify
  <2> QED BY <1>1, <1>2, <2>1, <2>2, SubscribeOn, OnModifyGood, BecomesEnds
<1>5. CASE ModifyPatch
  <2>1. /\ Becomes(onModifyPatch(sub), tagWaiting, tagDeletes)
        /\ "Patch" \in env /\ SameIntent
    BY <1>5 DEF ModifyPatch, Handles, Event
  <2>2. EndsOn(sub) /\ ~sub.isDisposed
    BY <1>1, <1>a, <2>1 DEF Wanted, SameIntent
  <2>3. onModifyPatch(sub) = tryPerformAction(sub, Item(ACTION_MODIFY_PATCH))
    BY <2>2 DEF onModifyPatch
  <2>4. ~sub.networkErrorSubscribingTimer
    BY <1>1, <2>1, WantedCalm DEF Fits
  <2>5. EndsOn(onModifyPatch(sub))
    BY <1>1, <2>2, <2>3, <2>4, NothingEnds, TryPatchOn
  <2> QED BY <1>1, <2>1, <2>5, OnModifyPatchGood, BecomesEnds
<1> QED BY <1>3, <1>4, <1>5, <1>a DEF Consumer, Unsubscribing, disposeSubscription,
        unsubscribeByTag, disposeSubscriptionByTag, Intends

(* Connection, control messages, updates and the response by tag.          *)
LEMMA StreamingWanted ==
    ASSUME IInv, Tied, Wanted, WhenWanted, Streaming, intent' = "on", ~refused'
    PROVE  EndsOn(sub')
<1>1. /\ Good(sub) /\ Fits(sub) /\ sub \in SubscriptionRecords
      /\ sub.queue \in Seq(Items)
  BY DEF IInv, Tagged, Tied, Good, SubscriptionRecords
<1>2. SameIntent
  BY DEF Streaming, ConnectionUnavailable, ConnectionAvailable, Reset, Update,
     UnparsableUpdate, UnsubscribeByTagAnswered
<1>3. EndsOn(sub)
  BY <1>2 DEF Wanted, SameIntent
<1>4. CASE ConnectionUnavailable
  <2> DEFINE t == onConnectionUnavailable(sub)
  <2>1. Becomes(t, tagWaiting, tagDeletes)
    BY <1>4 DEF ConnectionUnavailable, Handles
  <2>2. /\ Good(t) /\ t.currentState = sub.currentState
        /\ t.queue = IF sub.networkErrorSubscribingTimer
                     THEN enqueue(sub.queue, Item(ACTION_SUBSCRIBE))
                     ELSE sub.queue
    BY <1>1, OnConnectionUnavailableGood, OnConnectionUnavailableMoves
  <2> HIDE DEF t
  <2>3. /\ Followed(enqueue(sub.queue, Item(ACTION_SUBSCRIBE)), Ending,
                    {ACTION_SUBSCRIBE})
        /\ HoldsOne(enqueue(sub.queue, Item(ACTION_SUBSCRIBE)), {ACTION_SUBSCRIBE})
    <3>1. Item(ACTION_SUBSCRIBE).action = ACTION_SUBSCRIBE
      BY DEF Item
    <3> QED BY <1>1, <3>1, ItemsOf, SubscribeIsNoEnd, EnqueueLast
  <2>4. EndsOn(t)
    BY <1>3, <2>2, <2>3 DEF EndsOn
  <2> QED BY <2>1, <2>2, <2>4, BecomesEnds
<1>5. CASE ConnectionAvailable
  <2> DEFINE up == [sub EXCEPT !.connectionAvailable = TRUE]
             t == onConnectionAvailable(sub)
  <2>1. Good(up) /\ Good(t)
    BY <1>1, OnConnectionAvailableMoves, OnConnectionAvailableGood
  <2>2. /\ up.currentState = sub.currentState /\ up.queue = sub.queue
        /\ up.networkErrorSubscribingTimer = sub.networkErrorSubscribingTimer
    BY <1>1 DEF SubscriptionRecords
  <2>3. t = IF Transitioning(up) THEN up ELSE onReadyToPerformNextAction(up)
    BY DEF onConnectionAvailable
  <2>4. Becomes(t, tagWaiting, tagDeletes)
    BY <1>5 DEF ConnectionAvailable, Handles
  <2> HIDE DEF up, t
  <2>5. EndsOn(up) /\ ~TagQueued(up)
    BY <1>1, <1>3, <2>2, NothingEnds DEF EndsOn, TagQueued
  <2>6. ~Transitioning(up) => up.currentState \in {STATE_SUBSCRIBED, STATE_UNSUBSCRIBED}
    <3>1. up.currentState # STATE_READY_FOR_UNSUBSCRIBE_BY_TAG
      BY <1>1, <2>2, NothingEnds DEF isReadyForUnsubscribeByTag
    <3>2. up.currentState \in States
      BY <1>1, <2>2 DEF SubscriptionRecords
    <3> QED BY <3>1, <3>2 DEF States, Transitioning, TRANSITIONING_STATES
  <2>7. EndsOn(t)
    BY <2>1, <2>3, <2>5, <2>6, ReadyOn
  <2> QED BY <2>1, <2>4, <2>7, BecomesEnds
<1>6. CASE Reset
  <2>1. /\ Becomes(reset(sub), tagWaiting, tagDeletes) /\ ~sub.isDisposed
        /\ "Reset" \in env
    BY <1>6 DEF Reset, Handles, Event
  <2>2. sub.currentState # STATE_PATCH_REQUESTED
    BY <1>1, <2>1, WantedCalm DEF Fits, Without
  <2>3. reset(sub) = sub \/ reset(sub) = onSubscribe(onUnsubscribe(sub, TRUE))
    BY <2>2 DEF reset
  <2>4. EndsOn(reset(sub))
    BY <1>1, <1>3, <2>1, <2>3, SubscribeOn
  <2> QED BY <1>1, <2>1, <2>4, ResetGood, BecomesEnds
<1>7. CASE Update
  <2>1. Becomes(onStreamingData(sub, TRUE), tagWaiting, tagDeletes)
    BY <1>7 DEF Update, Handles
  <2>2. Good(onStreamingData(sub, TRUE)) /\ Same(sub, onStreamingData(sub, TRUE))
    BY <1>1, UpdateTells
  <2> QED BY <1>3, <2>1, <2>2, SameEnds, BecomesEnds
<1>8. CASE UnparsableUpdate
  BY <1>8, WantedCalm DEF UnparsableUpdate, Event, Without
<1>9. CASE UnsubscribeByTagAnswered
  <2>1. tagDeletes = 0
    BY WantedCalm DEF Tied
  <2> QED BY <1>9, <2>1 DEF UnsubscribeByTagAnswered
<1> QED BY <1>4, <1>5, <1>6, <1>7, <1>8, <1>9 DEF Streaming

(* The timers.                                                             *)
LEMMA TimeoutWanted ==
    ASSUME IInv, Tied, Wanted, WhenWanted, NetworkErrorTimeout
    PROVE  EndsOn(sub')
<1>1. Good(sub) /\ Fits(sub)
  BY DEF IInv, Tagged, Tied
<1>2. PICK u : /\ Good(u) /\ u.currentState = sub.currentState
               /\ u.queue = sub.queue
               /\ u.connectionAvailable = sub.connectionAvailable
               /\ Handles(onNetworkErrorTimeout(u))
  BY <1>1, LostTimeoutActs DEF NetworkErrorTimeout
<1> DEFINE t == onNetworkErrorTimeout(u)
<1>3. Good(t) /\ t = tryPerformAction(u, Item(ACTION_SUBSCRIBE))
  BY <1>2, TimeoutGood, TimeoutTries DEF Good
<1>4. Becomes(t, tagWaiting, tagDeletes)
  BY <1>2 DEF Handles
<1> HIDE DEF t
<1>5. /\ ~isReadyForUnsubscribeByTag(u)
      /\ u.connectionAvailable /\ ~Transitioning(u) => ~HoldsOne(u.queue, Ending)
  BY <1>1, <1>2, NothingEnds DEF isReadyForUnsubscribeByTag, Transitioning
<1>6. EndsOn(t)
  BY <1>2, <1>3, <1>5, TrySubscribeOn
<1> QED BY <1>3, <1>4, <1>6, BecomesEnds

-----------------------------------------------------------------------------
(* A response to a subscription whose requests go one at a time.           *)
LEMMA AnsweredFits ==
    ASSUME IInv, Tied, Orderly, Calm, NEW r \in DOMAIN sub.inFlight,
           NEW k \in RequestKinds, Waiting(r, k)
    PROVE  LET s == Received(r, k) IN
           /\ Answered(s, r) /\ Fits(s) /\ ~s.becameReady
           /\ r = referenceId(s) /\ r = referenceId(sub)
           /\ s.isDisposed = sub.isDisposed /\ s.queue = sub.queue
           /\ s.connectionAvailable = sub.connectionAvailable
           /\ s.networkErrorSubscribingTimer = sub.networkErrorSubscribingTimer
           /\ WillUnsubscribe(s) = WillUnsubscribe(sub)
           /\ TagQueued(s) = TagQueued(sub)
           /\ Immediate(s, "unsupportedFormat") = Immediate(sub, "unsupportedFormat")
           /\ k = "post" => sub.currentState = STATE_SUBSCRIBE_REQUESTED
           /\ k = "delete" => sub.currentState = STATE_UNSUBSCRIBE_REQUESTED
           /\ k = "patch" => sub.currentState = STATE_PATCH_REQUESTED
<1> DEFINE s == Received(r, k)
<1>1. /\ Answered(s, r) /\ Fits(s) /\ ~s.becameReady
      /\ r = referenceId(s) /\ referenceId(s) = Len(sub.inFlight)
      /\ k = "post" => sub.currentState = STATE_SUBSCRIBE_REQUESTED
      /\ k = "delete" => sub.currentState = STATE_UNSUBSCRIBE_REQUESTED
      /\ k = "patch" => sub.currentState = STATE_PATCH_REQUESTED
  BY AnsweredIdle
<1>2. /\ s.isDisposed = sub.isDisposed /\ s.queue = sub.queue
      /\ s.connectionAvailable = sub.connectionAvailable
      /\ s.networkErrorSubscribingTimer = sub.networkErrorSubscribingTimer
  BY ReceivedFits
<1>3. s.protobuf = sub.protobuf
  <2>1. sub \in SubscriptionRecords
    BY DEF IInv, Tagged, Good
  <2>2. \E f : s = [sub EXCEPT !.inFlight = f]
    BY DEF Received, Count
  <2> HIDE DEF s
  <2> QED BY <2>1, <2>2 DEF SubscriptionRecords
<1> HIDE DEF s
<1>4. /\ WillUnsubscribe(s) = WillUnsubscribe(sub)
      /\ TagQueued(s) = TagQueued(sub)
      /\ Immediate(s, "unsupportedFormat") = Immediate(sub, "unsupportedFormat")
  BY <1>2, <1>3 DEF WillUnsubscribe, TagQueued, Immediate
<1> QED BY <1>1, <1>2, <1>4 DEF s, referenceId

(* A POST that succeeds.                                                   *)
LEMMA SucceededWanted ==
    ASSUME IInv, Tied, Orderly, Wanted, WhenWanted, NEW r \in DOMAIN sub.inFlight,
           Waiting(r, "post"), EndsOn(sub), NEW call,
           \/ call = "none"
           \/ /\ call = "subscribe" /\ "Reentrant" \in env
              /\ ~WillUnsubscribe(sub),
           Becomes(onSubscribeSuccess(Received(r, "post"), r, call),
                   tagWaiting, tagDeletes)
    PROVE  EndsOn(sub')
<1> DEFINE s == Received(r, "post")
           t == onSubscribeSuccess(s, r, call)
<1>1. /\ Answered(s, r) /\ Fits(s) /\ r = referenceId(s) /\ s.queue = sub.queue
      /\ WillUnsubscribe(s) = WillUnsubscribe(sub)
  BY WantedCalm, AnsweredFits DEF RequestKinds
<1>2. s.updatesBeforeSubscribed # "bad" /\ ~TagQueued(s)
  BY <1>1, WantedCalm DEF Fits
<1>b. Becomes(t, tagWaiting, tagDeletes) /\ Good(t)
  BY <1>1, OnSubscribeSuccessGood
<1> HIDE DEF s
<1>3. PICK q, u, v :
          /\ Good(q) /\ q.currentState = STATE_SUBSCRIBED
          /\ q.queue = s.queue
          /\ q.updatesBeforeSubscribed = s.updatesBeforeSubscribed
          /\ IF WillUnsubscribe(s) THEN u = q
             ELSE LET c == ConsumerCall(q, call) IN
                  /\ Good(c)
                  /\ \/ Same(c, u)
                     \/ c.updatesBeforeSubscribed = "bad" /\ u = reset(c)
          /\ Good(v) /\ Same(u, v)
          /\ t = onReadyToPerformNextAction(v)
  BY <1>1, SuccessSteps
<1> HIDE DEF t
<1>4. EndsOn(q) /\ ~TagQueued(q)
  BY <1>1, <1>2, <1>3 DEF EndsOn, Subscribing, TagQueued
<1>5. \/ Same(q, u)
      \/ Same(onSubscribe(q), u) /\ call = "subscribe" /\ ~WillUnsubscribe(s)
  <2>1. CASE WillUnsubscribe(s)
    <3>1. u = q
      BY <1>3, <2>1
    <3> QED BY <3>1, SameNot
  <2>2. CASE ~WillUnsubscribe(s)
    <3> DEFINE c == ConsumerCall(q, call)
    <3>1. Acts(q, c, CallActions(call))
      BY <1>3, CallActs
    <3>2. c.updatesBeforeSubscribed # "bad"
      <4> HIDE DEF c
      <4> QED BY <1>2, <1>3, <3>1 DEF Acts, Keeps
    <3>3. Same(c, u)
      BY <1>3, <2>2, <3>2
    <3>4. c = IF call = "none" THEN q ELSE onSubscribe(q)
      BY DEF ConsumerCall
    <3> HIDE DEF c
    <3>5. CASE call = "none"
      <4>1. c = q
        BY <3>4, <3>5
      <4>2. Same(q, u)
        BY <3>3, <4>1
      <4> QED BY <4>2
    <3>6. CASE call # "none"
      <4>1. c = onSubscribe(q) /\ call = "subscribe"
        BY <3>4, <3>6
      <4> QED BY <2>2, <3>3, <4>1
    <3> QED BY <3>5, <3>6
  <2> QED BY <2>1, <2>2
<1>6. EndsOn(v) /\ ~TagQueued(v) /\ v.currentState = STATE_SUBSCRIBED
  <2>1. CASE Same(q, u) \/ q.isDisposed
    <3>1. Same(q, u)
      BY <1>5, <2>1 DEF onSubscribe
    <3> QED BY <1>3, <1>4, <3>1, SameEnds DEF Same
  <2>2. CASE ~Same(q, u) /\ ~q.isDisposed
    <3> DEFINE w == tryPerformAction(q, Item(ACTION_SUBSCRIBE))
    <3>1. Same(w, u) /\ call = "subscribe" /\ ~WillUnsubscribe(s)
      BY <1>5, <2>2 DEF onSubscribe
    <3>2. Without({"Patch", "ByTag"})
      BY <1>1, <3>1, WantedCalm
    <3>3. OnlyOnOff(q.queue) /\ ~Holds(q.queue, ACTION_MODIFY_PATCH)
          /\ ~WillUnsubscribe(q)
      <4>1. Without({"Patch"})
        BY <3>2 DEF Without
      <4> QED BY <1>1, <1>3, <3>1, <3>2, <4>1 DEF Fits, WillUnsubscribe
    <3>4. ~HoldsOne(q.queue, Ending)
      BY <1>3, <3>3, EndIsNext
    <3>5. ~isReadyForUnsubscribeByTag(q)
      BY <1>3, StateNames DEF isReadyForUnsubscribeByTag
    <3>6. EndsOn(w) /\ w.currentState = STATE_SUBSCRIBED
      BY <1>3, <3>3, <3>4, <3>5, TrySubscribeOn, SubscribeAgain
    <3>7. ~TagQueued(w)
      <4>1. Leads(q, w)
        BY <1>3, ItemsOf, TryPerformGood
      <4> QED BY <1>4, <4>1 DEF Leads
    <3> HIDE DEF w
    <3> QED BY <1>3, <3>1, <3>6, <3>7, SameEnds DEF Same
  <2> QED BY <2>1, <2>2
<1>7. EndsOn(t)
  BY <1>3, <1>6, ReadyOn
<1> QED BY <1>b, <1>7, BecomesEnds

(* A POST that fails and is tried again.                                   *)
LEMMA FailedWanted ==
    ASSUME IInv, Tied, Orderly, Wanted, WhenWanted, NEW r \in DOMAIN sub.inFlight,
           NEW response \in SubscribeErrors, SubscribeFailed(r, response),
           intent' = "on", ~refused'
    PROVE  EndsOn(sub')
<1> DEFINE s == Received(r, "post")
           t == onSubscribeError(s, r, response)
<1>1. /\ Waiting(r, "post") /\ response \in env /\ intent = "on" /\ ~refused
      /\ ~ReportsError(sub, r, response)
      /\ Becomes(t, tagWaiting, tagDeletes)
  BY DEF SubscribeFailed, Event
<1>2. /\ Answered(s, r) /\ Fits(s) /\ r = referenceId(s) /\ r = referenceId(sub)
      /\ s.queue = sub.queue
      /\ WillUnsubscribe(s) = WillUnsubscribe(sub)
      /\ Immediate(s, "unsupportedFormat") = Immediate(sub, "unsupportedFormat")
  BY <1>1, WantedCalm, AnsweredFits DEF RequestKinds
<1> HIDE DEF s
<1>3. EndsOn(sub)
  BY <1>1 DEF Wanted
<1>4. PICK q :
               /\ Good(q) /\ q.currentState = STATE_UNSUBSCRIBED
               /\ q.inFlight = s.inFlight /\ q.queue = s.queue
               /\ q.becameReady = s.becameReady /\ q.isDisposed = s.isDisposed
               /\ q.connectionAvailable = s.connectionAvailable
               /\ q.networkErrorSubscribingTimer = s.networkErrorSubscribingTimer
               /\ q.lostTimers = s.lostTimers
               /\ q.snapshotRef = s.snapshotRef /\ q.deltaRef = s.deltaRef
               /\ Good(t) /\ Served(t)
               /\ Does(q, t, {ACTION_SUBSCRIBE}) /\ Sends(q, t)
               /\ t.isDisposed = s.isDisposed
               /\ t.connectionAvailable = s.connectionAvailable
               /\ response # "network" =>
                      /\ t.networkErrorSubscribingTimer =>
                             s.networkErrorSubscribingTimer
                      /\ t.lostTimers = s.lostTimers
               /\ t.updatesBeforeSubscribed \in {s.updatesBeforeSubscribed, "none"}
               /\ t.snapshotRef = s.snapshotRef /\ t.deltaRef = s.deltaRef
               /\ \/ /\ ~WillUnsubscribe(s) /\ Immediate(s, response)
                     /\ t = tryPerformAction(q, Item(ACTION_SUBSCRIBE))
                  \/ /\ ~WillUnsubscribe(s) /\ response = "network"
                     /\ t = startTimer(q)
                  \/ /\ \/ WillUnsubscribe(s)
                        \/ ~Immediate(s, response) /\ response # "network"
                     /\ t = onReadyToPerformNextAction(q)
  <2>1. Answered(s, r) /\ r = referenceId(s)
    BY <1>2
  <2> QED BY <2>1, SubscribeErrorMoves
<1>5. Immediate(s, response) = Immediate(sub, response)
  BY <1>2 DEF Immediate
<1> HIDE DEF t
<1>6. WillUnsubscribe(s) \/ Immediate(s, response) \/ response = "network"
  BY <1>1, <1>2, <1>5 DEF ReportsError
<1>7. ~TagQueued(q) /\ ~isReadyForUnsubscribeByTag(q)
  BY <1>2, <1>4, WantedCalm, StateNames DEF Fits, TagQueued, isReadyForUnsubscribeByTag
<1>8. CASE ~WillUnsubscribe(s) /\ t = tryPerformAction(q, Item(ACTION_SUBSCRIBE))
           /\ Immediate(s, response)
  <2>1. response \in {"duplicate", "unsupportedFormat"}
    BY <1>8 DEF Immediate
  <2>2. Without({"Patch", "ByTag"})
    BY <1>1, <2>1, WantedCalm
  <2>3. OnlyOnOff(q.queue) /\ ~WillUnsubscribe(q)
    BY <1>2, <1>4, <1>8, <2>2 DEF Fits, WillUnsubscribe
  <2>4. ~HoldsOne(q.queue, Ending)
    BY <1>4, <2>3, EndIsNext
  <2>5. EndsOn(t)
    BY <1>4, <1>7, <1>8, <2>4, TrySubscribeOn
  <2> QED BY <1>1, <1>4, <2>5, BecomesEnds
<1>9. CASE t = startTimer(q)
  <2>1. t.networkErrorSubscribingTimer /\ t.queue = q.queue
    BY <1>4, <1>9 DEF startTimer, Good, SubscriptionRecords
  <2>2. EndsOn(t)
    BY <1>2, <1>3, <1>4, <2>1 DEF EndsOn
  <2> QED BY <1>1, <1>4, <2>2, BecomesEnds
<1>10. CASE WillUnsubscribe(s) /\ t = onReadyToPerformNextAction(q)
  <2>1. s.queue # <<>> /\ Head(s.queue).action \in Ending
    BY <1>10, SubscribeIsNoEnd DEF WillUnsubscribe, HeadIs, isEmpty
  <2>2. s.queue \in Seq(Items)
    BY <1>2 DEF Answered, SubscriptionRecords
  <2>3. 1 \in DOMAIN s.queue /\ Head(s.queue) = s.queue[1]
    BY <2>1, <2>2, EmptySeq
  <2>4. HoldsOne(s.queue, {ACTION_SUBSCRIBE})
    BY <1>2, <1>3, <2>1, <2>3 DEF EndsOn, Followed, HoldsOne
  <2>5. EndsOn(q)
    BY <1>2, <1>3, <1>4, <2>4 DEF EndsOn
  <2>6. EndsOn(t)
    BY <1>4, <1>7, <1>10, <2>5, ReadyOn
  <2> QED BY <1>1, <1>4, <2>6, BecomesEnds
<1> QED BY <1>4, <1>6, <1>8, <1>9, <1>10

(* The responses.                                                          *)
LEMMA ResponseWanted ==
    ASSUME IInv, Tied, Orderly, Wanted, WhenWanted, NEW r \in DOMAIN sub.inFlight,
           Response(r), intent' = "on", ~refused'
    PROVE  EndsOn(sub')
<1>1. CASE SubscribeSucceeded(r)
  <2>1. SameIntent
    BY <1>1 DEF SubscribeSucceeded
  <2>2. EndsOn(sub)
    BY <2>1 DEF Wanted, SameIntent
  <2> QED BY <1>1, <2>2, SucceededWanted DEF SubscribeSucceeded
<1>2. CASE \E call \in Calls \ {"none"} : SubscribeSucceededReentrantly(r, call)
  <2>1. PICK call \in Calls \ {"none"} : SubscribeSucceededReentrantly(r, call)
    BY <1>2
  <2>2. /\ Waiting(r, "post") /\ ~WillUnsubscribe(sub) /\ ~sub.isDisposed
        /\ "Reentrant" \in env
        /\ call = "modify" => "Modify" \in env
        /\ call = "patch" => "Patch" \in env
        /\ call = "unsubscribe" => intent' = "off"
        /\ Becomes(onSubscribeSuccess(Received(r, "post"), r, call),
                   tagWaiting, tagDeletes)
    BY <2>1 DEF SubscribeSucceededReentrantly, Event, Intends
  <2>3. call = "subscribe"
    BY <2>1, <2>2, "on" # "off" DEF Calls, WhenWanted, Without
  <2>4. EndsOn(sub)
    <3>1. Without({"Patch", "ByTag"})
      BY <2>2, WantedCalm
    <3>2. /\ OnlyOnOff(sub.queue) /\ Good(sub)
          /\ sub.currentState = STATE_SUBSCRIBE_REQUESTED
      BY <2>2, <3>1, WantedCalm, AnsweredFits DEF Tied, Fits, IInv, Tagged, RequestKinds
    <3>3. ~HoldsOne(sub.queue, Ending)
      BY <2>2, <3>2, EndIsNext
    <3> QED BY <3>2, <3>3 DEF EndsOn, Subscribing, Followed, HoldsOne
  <2> QED BY <2>2, <2>3, <2>4, SucceededWanted
<1>3. CASE \E response \in SubscribeErrors : SubscribeFailed(r, response)
  BY <1>3, FailedWanted
<1>4. ASSUME NEW k \in {"delete", "patch"}, Waiting(r, k), SameIntent, NEW t,
             Becomes(t, tagWaiting, tagDeletes),
             t = IF k = "delete" THEN onUnsubscribeResponse(Received(r, k), r)
                 ELSE onModifyPatchResponse(Received(r, k), r)
      PROVE  EndsOn(sub')
  <2> DEFINE s == Received(r, k)
             state == IF k = "delete" THEN STATE_UNSUBSCRIBED ELSE STATE_SUBSCRIBED
             q == [s EXCEPT !.currentState = state]
  <2>1. /\ Answered(s, r) /\ Fits(s) /\ r = referenceId(s) /\ s.queue = sub.queue
        /\ s.networkErrorSubscribingTimer = sub.networkErrorSubscribingTimer
        /\ TagQueued(s) = TagQueued(sub)
        /\ k = "delete" => sub.currentState = STATE_UNSUBSCRIBE_REQUESTED
        /\ k = "patch" => sub.currentState = STATE_PATCH_REQUESTED
    BY <1>4, WantedCalm, AnsweredFits DEF RequestKinds
  <2>2. Good(q) /\ t = onReadyToPerformNextAction(q)
    BY <1>4, <2>1, ResponseActs
  <2>3. /\ q.currentState = state /\ q.queue = s.queue
        /\ q.networkErrorSubscribingTimer = s.networkErrorSubscribingTimer
    BY <2>1 DEF Answered, SubscriptionRecords
  <2> HIDE DEF q, s
  <2>4. EndsOn(sub) /\ ~TagQueued(s)
    BY <1>4, <2>1, WantedCalm DEF Wanted, SameIntent, Fits
  <2>5. EndsOn(q) /\ ~TagQueued(q)
    <3>1. CASE k = "delete"
      BY <2>1, <2>3, <2>4, <3>1, StateNames DEF EndsOn, TagQueued, Subscribing
    <3>2. CASE k = "patch"
      BY <2>1, <2>3, <2>4, <3>2 DEF EndsOn, TagQueued, Subscribing
    <3> QED BY <1>4, <3>1, <3>2
  <2>6. EndsOn(t) /\ Good(t)
    BY <2>2, <2>3, <2>5, ReadyOn, ReadyToPerformGood
  <2> QED BY <1>4, <2>6, BecomesEnds
<1>5. CASE UnsubscribeAnswered(r)
  BY <1>4, <1>5 DEF UnsubscribeAnswered
<1>6. CASE ModifyPatchAnswered(r)
  BY <1>4, <1>6 DEF ModifyPatchAnswered, Handles
<1>7. CASE CleanUpAnswered(r)
  BY <1>7 DEF CleanUpAnswered, SameIntent, Wanted
<1> QED BY <1>1, <1>2, <1>3, <1>5, <1>6, <1>7 DEF Response

-----------------------------------------------------------------------------
(* The environment of a behaviour does not change.                         *)
LEMMA SameEnv == [Next]_vars => UNCHANGED env
BY DEF vars, Next, Consumer, Streaming, Response, Subscribe, Unsubscribing, Modify,
   ModifyPatch, disposeSubscription, unsubscribeByTag, disposeSubscriptionByTag,
   ConnectionUnavailable, ConnectionAvailable, Reset, Update, UnparsableUpdate,
   UnsubscribeByTagAnswered, SubscribeSucceeded, SubscribeSucceededReentrantly,
   SubscribeFailed, UnsubscribeAnswered, CleanUpAnswered, ModifyPatchAnswered,
   NetworkErrorTimeout, Deletes, Event, NoEvent

(* Every step preserves it.                                                *)
LEMMA NextWanted == IInv /\ Tied /\ Orderly /\ Wanted /\ [Next]_vars => Wanted'
<1> SUFFICES ASSUME IInv, Tied, Orderly, Wanted, [Next]_vars, WhenWanted',
                    intent' = "on", ~refused'
             PROVE  EndsOn(sub')
  BY DEF Wanted
<1>1. WhenWanted
  BY SameEnv DEF WhenWanted, Without
<1>2. CASE UNCHANGED vars
  BY <1>1, <1>2 DEF vars, Wanted
<1>3. CASE Next
  BY <1>1, <1>3, ConsumerWanted, StreamingWanted, ResponseWanted, TimeoutWanted DEF Next
<1> QED BY <1>2, <1>3

(* Initially.                                                              *)
LEMMA InitWanted == Init => Wanted
<1> SUFFICES ASSUME Init, WhenWanted PROVE EndsOn(sub)
  BY DEF Wanted
<1>1. PICK connected \in BOOLEAN, protobuf \in BOOLEAN :
          sub = onSubscribe(IF connected THEN NewSubscription(protobuf)
                            ELSE onConnectionUnavailable(NewSubscription(protobuf)))
  BY DEF Init
<1> DEFINE s == NewSubscription(protobuf)
           t == IF connected THEN s ELSE onConnectionUnavailable(s)
<1>2. Good(s)
  BY NewGood
<1>3. /\ s.currentState = STATE_UNSUBSCRIBED /\ s.queue = <<>>
      /\ s.isDisposed = FALSE /\ s.networkErrorSubscribingTimer = FALSE
  BY DEF NewSubscription
<1>a. sub = onSubscribe(t)
  BY <1>1
<1> HIDE DEF s
<1>4. /\ Good(t) /\ t.currentState = STATE_UNSUBSCRIBED /\ t.queue = <<>>
      /\ ~t.isDisposed
  <2>1. CASE connected
    BY <1>2, <1>3, <2>1
  <2>2. CASE ~connected
    BY <1>2, <1>3, <2>2, OnConnectionUnavailableGood, OnConnectionUnavailableMoves
  <2> QED BY <2>1, <2>2
<1> HIDE DEF t
<1>5. sub = tryPerformAction(t, Item(ACTION_SUBSCRIBE))
  BY <1>a, <1>4 DEF onSubscribe
<1>6. ~isReadyForUnsubscribeByTag(t) /\ ~HoldsOne(t.queue, Ending)
  BY <1>4, EmptyQueue, StateNames DEF isReadyForUnsubscribeByTag
<1> QED BY <1>4, <1>5, <1>6, TrySubscribeOn
-----------------------------------------------------------------------------
(* Under the conditions of DropsUnwanted ...                               *)
WhenUnwanted ==
    /\ OneTagCall /\ Without({"network"})
    /\ \/ Without({"Patch", "ByTag"})
       \/ Without({"Reset", "BadUpdate", "Reentrant", "duplicate",
                   "unsupportedFormat"})

(* ... what is queued and awaited will have the subscription unsubscribed, *)
(* as long as the consumer does not want it.                               *)
Unwanted == WhenUnwanted /\ intent = "off" => EndsOff(sub)

(* The conditions of DropsUnwanted include those of orderly requests.      *)
LEMMA UnwantedCalm ==
    ASSUME WhenUnwanted
    PROVE  /\ Calm /\ Without({"network"})
           /\ \A k \in {"Reset", "BadUpdate", "Reentrant", "duplicate",
                        "unsupportedFormat"} : k \in env => Without({"Patch", "ByTag"})
BY DEF WhenUnwanted, Calm, PatchNotOvertaken, OneTagCall, Without

(* Without retries nothing stays queued that could be done.                *)
LEMMA NothingWaits ==
    ASSUME Without({"network"}), NEW s, Good(s), Fits(s)
    PROVE  /\ ~s.networkErrorSubscribingTimer
           /\ s.connectionAvailable /\ ~Transitioning(s) =>
                  /\ s.queue = <<>>
                  /\ Followed(s.queue, {ACTION_SUBSCRIBE}, Ending)
BY EmptyQueue DEF Fits, Served

(* Without patches and calls by tag, a subscription that ends unsubscribed *)
(* is not reset.                                                           *)
LEMMA ResetNot ==
    ASSUME NEW s, Good(s), EndsOff(s), OnlyOnOff(s.queue),
           s.currentState # STATE_PATCH_REQUESTED
    PROVE  reset(s) = s
<1>1. s.currentState \in {STATE_SUBSCRIBE_REQUESTED, STATE_SUBSCRIBED} => WillUnsubscribe(s)
  BY EndIsNext DEF EndsOff, Subscribing
<1> QED BY <1>1 DEF reset

(* An unsubscribe of either kind has the subscription end unsubscribed,    *)
(* also when it is then disposed.                                          *)
LEMMA UnsubscribeOff ==
    ASSUME Without({"network"}), NEW s, Good(s), Fits(s)
    PROVE  /\ LET t == onUnsubscribe(s, FALSE) IN
              /\ EndsOff(t) /\ EndsOff(dispose(t))
              /\ s.currentState # STATE_SUBSCRIBE_REQUESTED =>
                     t.currentState # STATE_SUBSCRIBE_REQUESTED
           /\ LET t == onUnsubscribeByTagPending(s) IN
              ~s.becameReady => EndsOff(t) /\ EndsOff(dispose(t))
<1> DEFINE t == onUnsubscribe(s, FALSE)
           u == onUnsubscribeByTagPending(s)
<1>1. s.connectionAvailable /\ ~Transitioning(s) =>
          Followed(s.queue, {ACTION_SUBSCRIBE}, Ending)
  BY NothingWaits
<1>2. /\ Unsubscribe(FALSE) \in Items
      /\ Unsubscribe(FALSE).action \in Ending
      /\ Item(ACTION_UNSUBSCRIBE_BY_TAG_PENDING) \in Items
      /\ Item(ACTION_UNSUBSCRIBE_BY_TAG_PENDING).action \in Ending
  BY ItemsOf, SubscribeIsNoEnd DEF Unsubscribe, Item
<1>3. /\ EndsOff(t) /\ Good(t)
      /\ s.currentState # STATE_SUBSCRIBE_REQUESTED =>
             t.currentState # STATE_SUBSCRIBE_REQUESTED
  BY <1>1, <1>2, TryEndingOff, OnUnsubscribeGood DEF onUnsubscribe
<1>4. EndsOff(u) /\ (~s.becameReady => Good(u))
  BY <1>1, <1>2, TryEndingOff, OnUnsubscribeByTagPendingGood DEF onUnsubscribeByTagPending
<1> HIDE DEF t, u
<1>5. \A v : Good(v) /\ EndsOff(v) => EndsOff(dispose(v))
  BY DisposeSame DEF EndsOff
<1> QED BY <1>3, <1>4, <1>5 DEF t, u

(* The consumer's calls.                                                   *)
LEMMA ConsumerUnwanted ==
    ASSUME IInv, Tied, Unwanted, WhenUnwanted, Consumer, intent' = "off"
    PROVE  EndsOff(sub')
<1>1. Good(sub) /\ Fits(sub) /\ (sub.isDisposed => intent = "off") /\ ~sub.becameReady
      /\ Without({"network"})
  BY UnwantedCalm DEF IInv, Tagged, Tied
<1>2. ASSUME WantsIt
      PROVE  sub.isDisposed /\ EndsOff(sub)
  <2>1. sub.isDisposed
    BY <1>2, "on" # "off" DEF WantsIt, Intends
  <2> QED BY <1>1, <2>1 DEF Unwanted
<1>3. CASE Subscribe \/ Modify
  <2>1. PICK t : /\ Becomes(t, tagWaiting, tagDeletes) /\ WantsIt
                 /\ t = onSubscribe(sub) \/ t = onModify(sub)
    BY <1>3 DEF Subscribe, Modify, Handles
  <2>2. t = sub /\ EndsOff(sub)
    BY <1>2, <2>1 DEF onSubscribe, onModify
  <2> QED BY <1>1, <2>1, <2>2, BecomesEnds
<1>4. CASE ModifyPatch
  <2>1. Becomes(onModifyPatch(sub), tagWaiting, tagDeletes) /\ SameIntent
    BY <1>4 DEF ModifyPatch, Handles
  <2>2. EndsOff(sub)
    BY <2>1 DEF Unwanted, SameIntent
  <2>3. EndsOff(onModifyPatch(sub))
    BY <1>1, <2>2, TryPatchOff DEF onModifyPatch
  <2> QED BY <1>1, <2>1, <2>3, OnModifyPatchGood, BecomesEnds
<1>5. CASE Unsubscribing \/ disposeSubscription
  <2>1. PICK t : /\ Becomes(t, tagWaiting, tagDeletes)
                 /\ \/ t = onUnsubscribe(sub, FALSE)
                    \/ t = dispose(onUnsubscribe(sub, FALSE))
    BY <1>5 DEF Unsubscribing, disposeSubscription, Handles
  <2>2. Good(t) /\ EndsOff(t)
    BY <1>1, <2>1, UnsubscribeOff, OnUnsubscribeGood, DisposeGood
  <2> QED BY <2>1, <2>2, BecomesEnds
<1>6. CASE unsubscribeByTag \/ disposeSubscriptionByTag
  <2>1. PICK t : /\ Becomes(t, tagWaiting + 1, tagDeletes)
                 /\ \/ t = onUnsubscribeByTagPending(sub)
                    \/ t = dispose(onUnsubscribeByTagPending(sub))
    BY <1>6 DEF unsubscribeByTag, disposeSubscriptionByTag
  <2>2. Good(t) /\ EndsOff(t)
    BY <1>1, <2>1, UnsubscribeOff, OnUnsubscribeByTagPendingGood, DisposeGood
  <2> QED BY <2>1, <2>2, BecomesEnds
<1> QED BY <1>3, <1>4, <1>5, <1>6 DEF Consumer

(* Connection, control messages, updates and the response by tag.          *)
LEMMA StreamingUnwanted ==
    ASSUME IInv, Tied, Unwanted, WhenUnwanted, Streaming, intent' = "off"
    PROVE  EndsOff(sub')
<1>1. /\ Good(sub) /\ Fits(sub) /\ sub \in SubscriptionRecords
      /\ Without({"network"})
  BY UnwantedCalm DEF IInv, Tagged, Tied, Good
<1>2. SameIntent
  BY DEF Streaming, ConnectionUnavailable, ConnectionAvailable, Reset, Update,
     UnparsableUpdate, UnsubscribeByTagAnswered
<1>3. EndsOff(sub)
  BY <1>2 DEF Unwanted, SameIntent
<1>4. ASSUME "Reset" \in env \/ "BadUpdate" \in env
      PROVE  reset(sub) = sub
  <2>1. Without({"Patch", "ByTag"})
    BY <1>4, UnwantedCalm
  <2>2. Without({"Patch"})
    BY <2>1 DEF Without
  <2> QED BY <1>1, <1>3, <2>1, <2>2, ResetNot DEF Fits
<1>5. CASE ConnectionUnavailable
  <2> DEFINE t == onConnectionUnavailable(sub)
  <2>1. Becomes(t, tagWaiting, tagDeletes)
    BY <1>5 DEF ConnectionUnavailable, Handles
  <2>2. /\ Good(t) /\ t.currentState = sub.currentState
        /\ t.queue = sub.queue
    BY <1>1, NothingWaits, OnConnectionUnavailableGood, OnConnectionUnavailableMoves
  <2> HIDE DEF t
  <2>3. EndsOff(t)
    BY <1>3, <2>2 DEF EndsOff
  <2> QED BY <2>1, <2>2, <2>3, BecomesEnds
<1>6. CASE ConnectionAvailable
  <2> DEFINE up == [sub EXCEPT !.connectionAvailable = TRUE]
             t == onConnectionAvailable(sub)
  <2>1. Good(up) /\ Good(t)
    BY <1>1, OnConnectionAvailableMoves, OnConnectionAvailableGood
  <2>2. up.currentState = sub.currentState /\ up.queue = sub.queue
    BY <1>1 DEF SubscriptionRecords
  <2>3. t = IF Transitioning(up) THEN up ELSE onReadyToPerformNextAction(up)
    BY DEF onConnectionAvailable
  <2>4. Becomes(t, tagWaiting, tagDeletes)
    BY <1>6 DEF ConnectionAvailable, Handles
  <2> HIDE DEF up, t
  <2>5. EndsOff(up)
    BY <1>3, <2>2 DEF EndsOff
  <2>6. ~Transitioning(up) => up.currentState \notin {STATE_SUBSCRIBE_REQUESTED,
                                                      STATE_PATCH_REQUESTED}
    BY DEF Transitioning, TRANSITIONING_STATES
  <2>7. EndsOff(t)
    BY <2>1, <2>3, <2>5, <2>6, ReadyOff DEF EndsOff
  <2> QED BY <2>1, <2>4, <2>7, BecomesEnds
<1>7. CASE Reset
  BY <1>1, <1>3, <1>4, <1>7, BecomesEnds DEF Reset, Handles, Event
<1>8. CASE Update \/ UnparsableUpdate
  <2>1. PICK parses \in BOOLEAN :
            /\ Becomes(onStreamingData(sub, parses), tagWaiting, tagDeletes)
            /\ ~parses => "BadUpdate" \in env
    BY <1>8 DEF Update, UnparsableUpdate, Handles, Event
  <2> DEFINE t == onStreamingData(sub, parses)
  <2>2. Same(sub, t)
    <3>1. CASE parses
      BY <1>1, <3>1, UpdateTells
    <3>2. CASE ~parses
      <4>1. t = sub \/ Same(sub, t) \/ t = reset(sub)
        <5>1. \/ onStreamingData(sub, FALSE) = sub
              \/ Same(sub, onStreamingData(sub, FALSE))
              \/ onStreamingData(sub, FALSE) = reset(sub)
          BY <1>1, UnparsableResets
        <5>2. parses = FALSE
          BY <3>2
        <5> QED BY <5>1, <5>2
      <4>2. t = sub \/ Same(sub, t)
        BY <1>4, <2>1, <3>2, <4>1
      <4> QED BY <4>2, SameNot
    <3> QED BY <3>1, <3>2
  <2>3. Good(t)
    BY <1>1, OnStreamingDataGood
  <2>4. Becomes(t, tagWaiting, tagDeletes)
    BY <2>1
  <2> HIDE DEF t
  <2> QED BY <1>3, <2>2, <2>3, <2>4, SameEnds, BecomesEnds
<1>9. CASE UnsubscribeByTagAnswered
  <2> DEFINE u == [sub EXCEPT !.currentState = STATE_UNSUBSCRIBED]
             t == onUnsubscribeByTagComplete(sub)
  <2>1. Good(t) /\ Good(u) /\ t = onReadyToPerformNextAction(u)
    BY <1>1, OnUnsubscribeByTagCompleteGood, TagCompleteActs
  <2>2. u.currentState = STATE_UNSUBSCRIBED /\ u.queue = sub.queue
    BY <1>1 DEF SubscriptionRecords
  <2>3. Becomes(t, tagWaiting, tagDeletes - 1)
    BY <1>9 DEF UnsubscribeByTagAnswered
  <2> HIDE DEF u, t
  <2>4. EndsOff(u)
    BY <1>3, <2>2, StateNames DEF EndsOff, Subscribing
  <2>5. EndsOff(t)
    BY <2>1, <2>2, <2>4, ReadyOff, StateNames DEF EndsOff
  <2> QED BY <2>1, <2>3, <2>5, BecomesEnds
<1> QED BY <1>5, <1>6, <1>7, <1>8, <1>9 DEF Streaming

(* There are no timers without network errors.                             *)
LEMMA TimeoutUnwanted ==
    ASSUME Tied, WhenUnwanted, NetworkErrorTimeout
    PROVE  FALSE
BY UnwantedCalm DEF Tied, Fits, NetworkErrorTimeout

-----------------------------------------------------------------------------
(* A POST that succeeds.                                                   *)
LEMMA SucceededUnwanted ==
    ASSUME IInv, Tied, Orderly, WhenUnwanted, NEW r \in DOMAIN sub.inFlight,
           Waiting(r, "post"), NEW call,
           \/ call = "none" /\ EndsOff(sub)
           \/ call = "unsubscribe" /\ "Reentrant" \in env /\ ~WillUnsubscribe(sub),
           Becomes(onSubscribeSuccess(Received(r, "post"), r, call),
                   tagWaiting, tagDeletes)
    PROVE  EndsOff(sub')
<1> DEFINE s == Received(r, "post")
           t == onSubscribeSuccess(s, r, call)
<1>1. /\ Answered(s, r) /\ Fits(s) /\ r = referenceId(s) /\ s.queue = sub.queue
      /\ WillUnsubscribe(s) = WillUnsubscribe(sub)
      /\ sub.currentState = STATE_SUBSCRIBE_REQUESTED
  BY UnwantedCalm, AnsweredFits DEF RequestKinds
<1>b. Becomes(t, tagWaiting, tagDeletes) /\ Good(t)
  BY <1>1, OnSubscribeSuccessGood
<1> HIDE DEF s
<1>3. PICK q, u, v :
          /\ Good(q) /\ q.currentState = STATE_SUBSCRIBED
          /\ q.queue = s.queue
          /\ q.updatesBeforeSubscribed = s.updatesBeforeSubscribed
          /\ IF WillUnsubscribe(s) THEN u = q
             ELSE LET c == ConsumerCall(q, call) IN
                  /\ Good(c)
                  /\ \/ Same(c, u)
                     \/ c.updatesBeforeSubscribed = "bad" /\ u = reset(c)
          /\ Good(v) /\ Same(u, v)
          /\ t = onReadyToPerformNextAction(v)
  <2>1. Answered(s, r) /\ r = referenceId(s)
    BY <1>1
  <2> QED BY <2>1, SuccessSteps
<1> HIDE DEF t
<1>4. CASE call = "none" /\ EndsOff(sub)
  <2>1. EndsOff(q)
    BY <1>1, <1>3, <1>4 DEF EndsOff, Subscribing
  <2>2. Same(q, u)
    <3>1. CASE WillUnsubscribe(s)
      <4>1. u = q
        BY <1>3, <3>1
      <4> QED BY <4>1, SameNot
    <3>2. CASE ~WillUnsubscribe(s)
      <4>1. ConsumerCall(q, call) = q
        BY <1>4 DEF ConsumerCall
      <4>2. Same(q, u) \/ (q.updatesBeforeSubscribed = "bad" /\ u = reset(q))
        BY <1>3, <3>2, <4>1
      <4>3. q.updatesBeforeSubscribed # "bad"
        <5>1. SUFFICES ASSUME s.updatesBeforeSubscribed = "bad" PROVE FALSE
          BY <1>3
        <5>2. "BadUpdate" \in env
          BY <1>1, <5>1 DEF Fits, Without
        <5>3. OnlyOnOff(q.queue) /\ HoldsOne(q.queue, Ending)
          BY <1>1, <1>3, <2>1, <5>2, UnwantedCalm DEF Fits, EndsOff, Subscribing
        <5>4. WillUnsubscribe(q)
          BY <1>3, <5>3, EndIsNext
        <5> QED BY <1>3, <3>2, <5>4 DEF WillUnsubscribe
      <4> QED BY <4>2, <4>3
    <3> QED BY <3>1, <3>2
  <2>3. EndsOff(v) /\ v.currentState = STATE_SUBSCRIBED
    <3>1. EndsOff(u) /\ u.currentState = STATE_SUBSCRIBED
      BY <1>3, <2>1, <2>2, SameEnds DEF Same
    <3> QED BY <1>3, <3>1, SameEnds DEF Same
  <2>4. EndsOff(t)
    BY <1>3, <2>3, ReadyOff, StateNames DEF EndsOff
  <2> QED BY <1>b, <2>4, BecomesEnds
<1>5. CASE call = "unsubscribe" /\ "Reentrant" \in env /\ ~WillUnsubscribe(sub)
  <2>1. ~WillUnsubscribe(s) /\ ~WillUnsubscribe(q)
    BY <1>1, <1>3, <1>5 DEF WillUnsubscribe
  <2>2. OnlyOnOff(q.queue)
    BY <1>1, <1>3, <1>5, UnwantedCalm DEF Fits
  <2>3. ~HoldsOne(q.queue, Ending)
    BY <1>3, <2>1, <2>2, EndIsNext
  <2>4. Same(onUnsubscribe(q, FALSE), u) \/ u = reset(onUnsubscribe(q, FALSE))
    <3>1. ConsumerCall(q, call) = onUnsubscribe(q, FALSE)
      BY <1>5 DEF ConsumerCall
    <3> QED BY <1>3, <2>1, <3>1
  <2>5. EndsOff(t)
    BY <1>3, <2>2, <2>3, <2>4, UnsubscribeInCallback
  <2> QED BY <1>b, <2>5, BecomesEnds
<1> QED BY <1>4, <1>5

(* A POST that fails.                                                      *)
LEMMA FailedUnwanted ==
    ASSUME IInv, Tied, Orderly, WhenUnwanted, EndsOff(sub),
           NEW r \in DOMAIN sub.inFlight, NEW response \in SubscribeErrors,
           SubscribeFailed(r, response)
    PROVE  EndsOff(sub')
<1> DEFINE s == Received(r, "post")
           t == onSubscribeError(s, r, response)
<1>1. /\ Waiting(r, "post") /\ response \in env
      /\ Becomes(t, tagWaiting, tagDeletes)
  BY DEF SubscribeFailed, Event
<1>2. /\ Answered(s, r) /\ Fits(s) /\ r = referenceId(s)
      /\ s.queue = sub.queue
      /\ sub.currentState = STATE_SUBSCRIBE_REQUESTED
  BY <1>1, UnwantedCalm, AnsweredFits DEF RequestKinds
<1> HIDE DEF s
<1>4. PICK q :
          /\ Good(q) /\ q.currentState = STATE_UNSUBSCRIBED
          /\ q.queue = s.queue /\ Good(t)
          /\ \/ /\ ~WillUnsubscribe(s) /\ Immediate(s, response)
                /\ t = tryPerformAction(q, Item(ACTION_SUBSCRIBE))
             \/ ~WillUnsubscribe(s) /\ response = "network" /\ t = startTimer(q)
             \/ /\ \/ WillUnsubscribe(s)
                   \/ ~Immediate(s, response) /\ response # "network"
                /\ t = onReadyToPerformNextAction(q)
  <2>1. Answered(s, r) /\ r = referenceId(s)
    BY <1>2
  <2> QED BY <2>1, SubscribeErrorMoves
<1> HIDE DEF t
<1>5. response # "network"
  BY <1>1, UnwantedCalm DEF Without
<1>6. WillUnsubscribe(s) \/ ~Immediate(s, response)
  <2>1. SUFFICES ASSUME Immediate(s, response) PROVE WillUnsubscribe(s)
    OBVIOUS
  <2>2. response \in {"duplicate", "unsupportedFormat"}
    BY <2>1 DEF Immediate
  <2>3. Without({"Patch", "ByTag"})
    BY <1>1, <2>2, UnwantedCalm
  <2>4. OnlyOnOff(q.queue) /\ HoldsOne(q.queue, Ending)
    BY <1>2, <1>4, <2>3 DEF Fits, EndsOff, Subscribing
  <2>5. WillUnsubscribe(q)
    BY <1>4, <2>4, EndIsNext
  <2> QED BY <1>4, <2>5 DEF WillUnsubscribe
<1>7. t = onReadyToPerformNextAction(q)
  BY <1>4, <1>5, <1>6
<1>8. EndsOff(q)
  BY <1>2, <1>4, StateNames DEF EndsOff, Subscribing
<1>9. EndsOff(t)
  BY <1>4, <1>7, <1>8, ReadyOff, StateNames DEF EndsOff
<1> QED BY <1>1, <1>4, <1>9, BecomesEnds

(* The responses.                                                          *)
LEMMA ResponseUnwanted ==
    ASSUME IInv, Tied, Orderly, Unwanted, WhenUnwanted, NEW r \in DOMAIN sub.inFlight,
           Response(r), intent' = "off"
    PROVE  EndsOff(sub')
<1>1. CASE SubscribeSucceeded(r)
  BY <1>1, SucceededUnwanted DEF SubscribeSucceeded, SameIntent, Unwanted
<1>2. CASE \E call \in Calls \ {"none"} : SubscribeSucceededReentrantly(r, call)
  <2>1. PICK call \in Calls \ {"none"} : SubscribeSucceededReentrantly(r, call)
    BY <1>2
  <2>2. /\ Waiting(r, "post") /\ ~WillUnsubscribe(sub)
        /\ "Reentrant" \in env
        /\ call = "patch" => "Patch" \in env
        /\ call \in {"subscribe", "modify"} => intent' = "on"
        /\ Becomes(onSubscribeSuccess(Received(r, "post"), r, call),
                   tagWaiting, tagDeletes)
    BY <2>1 DEF SubscribeSucceededReentrantly, Event, Intends
  <2>3. call = "unsubscribe"
    <3>1. Without({"Patch", "ByTag"})
      BY <2>2, UnwantedCalm
    <3> QED BY <2>1, <2>2, <3>1, "on" # "off" DEF Calls, Without
  <2> QED BY <2>2, <2>3, SucceededUnwanted
<1>3. CASE \E response \in SubscribeErrors : SubscribeFailed(r, response)
  BY <1>3, FailedUnwanted DEF SubscribeFailed, Unwanted
<1>4. ASSUME NEW k \in {"delete", "patch"}, Waiting(r, k), SameIntent, NEW t,
             Becomes(t, tagWaiting, tagDeletes),
             t = IF k = "delete" THEN onUnsubscribeResponse(Received(r, k), r)
                 ELSE onModifyPatchResponse(Received(r, k), r)
      PROVE  EndsOff(sub')
  <2> DEFINE s == Received(r, k)
             state == IF k = "delete" THEN STATE_UNSUBSCRIBED ELSE STATE_SUBSCRIBED
             q == [s EXCEPT !.currentState = state]
  <2>1. /\ Answered(s, r) /\ r = referenceId(s) /\ s.queue = sub.queue
        /\ k = "patch" => sub.currentState = STATE_PATCH_REQUESTED
    BY <1>4, UnwantedCalm, AnsweredFits DEF RequestKinds
  <2>2. Good(q) /\ t = onReadyToPerformNextAction(q)
    BY <1>4, <2>1, ResponseActs
  <2>3. q.currentState = state /\ q.queue = s.queue
    BY <2>1 DEF Answered, SubscriptionRecords
  <2> HIDE DEF q, s
  <2>4. EndsOff(sub)
    BY <1>4 DEF Unwanted, SameIntent
  <2>5. EndsOff(q)
    <3>1. CASE k = "delete"
      BY <2>1, <2>3, <2>4, <3>1, StateNames DEF EndsOff, Subscribing
    <3>2. CASE k = "patch"
      BY <2>1, <2>3, <2>4, <3>2 DEF EndsOff, Subscribing
    <3> QED BY <1>4, <3>1, <3>2
  <2>6. q.currentState \notin {STATE_SUBSCRIBE_REQUESTED, STATE_PATCH_REQUESTED}
    BY <2>3, StateNames
  <2>7. EndsOff(t) /\ Good(t)
    BY <2>2, <2>5, <2>6, ReadyOff, ReadyToPerformGood DEF EndsOff
  <2> QED BY <1>4, <2>7, BecomesEnds
<1>5. CASE UnsubscribeAnswered(r)
  BY <1>4, <1>5 DEF UnsubscribeAnswered
<1>6. CASE ModifyPatchAnswered(r)
  BY <1>4, <1>6 DEF ModifyPatchAnswered, Handles
<1>7. CASE CleanUpAnswered(r)
  BY <1>7 DEF CleanUpAnswered, SameIntent, Unwanted
<1> QED BY <1>1, <1>2, <1>3, <1>5, <1>6, <1>7 DEF Response

(* Every step preserves it.                                                *)
LEMMA NextUnwanted == IInv /\ Tied /\ Orderly /\ Unwanted /\ [Next]_vars => Unwanted'
<1> SUFFICES ASSUME IInv, Tied, Orderly, Unwanted, [Next]_vars, WhenUnwanted',
                    intent' = "off"
             PROVE  EndsOff(sub')
  BY DEF Unwanted
<1>1. WhenUnwanted
  BY SameEnv DEF WhenUnwanted, OneTagCall, Without
<1>2. CASE UNCHANGED vars
  BY <1>1, <1>2 DEF vars, Unwanted
<1>3. CASE Next
  BY <1>1, <1>3, ConsumerUnwanted, StreamingUnwanted, ResponseUnwanted,
     TimeoutUnwanted DEF Next
<1> QED BY <1>2, <1>3

-----------------------------------------------------------------------------
(* Under the conditions of DisposedStaysSilent ...                         *)
WhenSilent ==
    /\ Without({"network"})
    /\ \/ Without({"ByTag", "Patch"})
       \/ Without({"duplicate", "unsupportedFormat"})

(* ... a subscription whose subscribes are all followed by what ends them  *)
(* and, if a refused POST can make it ask again, that has an unsubscribe   *)
(* next while it waits for one, sends no POST.                             *)
Ended(s) ==
    /\ Followed(s.queue, {ACTION_SUBSCRIBE}, Ending)
    /\ Without({"ByTag", "Patch"}) /\ s.currentState = STATE_SUBSCRIBE_REQUESTED
           => WillUnsubscribe(s)

Silent == WhenSilent /\ sub.isDisposed => Ended(sub)

(* s has become t without a POST.                                          *)
Hushes(s, t) == Ended(t) /\ Len(t.inFlight) = Len(s.inFlight)

(* What is queued for a disposed subscription sends no POST.               *)
LEMMA ReadyHushes ==
    ASSUME NEW s, Good(s), Followed(s.queue, {ACTION_SUBSCRIBE}, Ending),
           s.currentState # STATE_SUBSCRIBE_REQUESTED
    PROVE  Hushes(s, onReadyToPerformNextAction(s))
<1> DEFINE t == onReadyToPerformNextAction(s)
<1>1. Sends(s, t)
  BY ReadyActs DEF Acts
<1>2. /\ Followed(t.queue, {ACTION_SUBSCRIBE}, Ending)
      /\ t.currentState # STATE_SUBSCRIBE_REQUESTED
  BY ReadyOff
<1> HIDE DEF t
<1>3. Len(t.inFlight) = Len(s.inFlight)
  BY <1>1, <1>2, SendsLen
<1> QED BY <1>2, <1>3 DEF Hushes, Ended, t

(* Nor does an unsubscribe of either kind.                                 *)
LEMMA TryEndingHushes ==
    ASSUME Without({"network"}), NEW s, Good(s), Fits(s), ~s.becameReady,
           NEW item \in Items, item.action \in Ending,
           Without({"ByTag", "Patch"}) => item.action = ACTION_UNSUBSCRIBE
    PROVE  Hushes(s, tryPerformAction(s, item))
<1> DEFINE t == tryPerformAction(s, item)
<1>1. Sends(s, t) /\ Does(s, t, {item.action}) /\ (~s.becameReady => Good(t))
  BY TryPerformActs, TryPerformGood DEF Acts
<1>2. /\ EndsOff(t)
      /\ s.currentState # STATE_SUBSCRIBE_REQUESTED =>
             t.currentState # STATE_SUBSCRIBE_REQUESTED
  BY NothingWaits, TryEndingOff
<1> HIDE DEF t
<1>3. Len(t.inFlight) = Len(s.inFlight)
  BY <1>1, <1>2, SendsLen, StateNames DEF Sends
<1>4. ASSUME Without({"ByTag", "Patch"}), t.currentState = STATE_SUBSCRIBE_REQUESTED
      PROVE  WillUnsubscribe(t)
  <2>1. Without({"Patch", "ByTag"})
    BY <1>4 DEF Without
  <2>2. OnlyOnOff(t.queue)
    BY <1>1, <1>4, <2>1 DEF Fits, Does
  <2>3. HoldsOne(t.queue, Ending)
    BY <1>2, <1>4 DEF EndsOff, Subscribing
  <2> QED BY <1>1, <2>2, <2>3, EndIsNext
<1> QED BY <1>2, <1>3, <1>4 DEF Hushes, Ended, EndsOff, t

(* The end of a handler changes nothing about it.                          *)
LEMMA BecomesHushed ==
    ASSUME NEW t, Good(t), NEW waiting, NEW deletes, Becomes(t, waiting, deletes)
    PROVE  /\ sub'.isDisposed = t.isDisposed
           /\ Hushes(sub, t) => Hushes(sub, sub')
<1> DEFINE u == [t EXCEPT !.becameReady = FALSE]
<1>1. /\ u.currentState = t.currentState /\ u.queue = t.queue
      /\ u.inFlight = t.inFlight /\ u.isDisposed = t.isDisposed
  BY DEF Good, SubscriptionRecords
<1>2. sub' = u
  BY DEF Becomes
<1> HIDE DEF u
<1> QED BY <1>1, <1>2 DEF Hushes, Ended, WillUnsubscribe

(* Nor does dispose.                                                       *)
LEMMA DisposeHushes ==
    ASSUME NEW s, NEW t, Good(t), Hushes(s, t)
    PROVE  Hushes(s, dispose(t))
<1>1. /\ dispose(t).currentState = t.currentState /\ dispose(t).queue = t.queue
      /\ dispose(t).inFlight = t.inFlight
  BY DisposeSame
<1> QED BY <1>1 DEF Hushes, Ended, WillUnsubscribe

(* The consumer's calls.                                                   *)
LEMMA ConsumerSilent ==
    ASSUME IInv, Tied, Silent, WhenSilent, Consumer,
           sub.isDisposed \/ sub'.isDisposed
    PROVE  Hushes(sub, sub')
<1>1. Good(sub) /\ Fits(sub) /\ ~sub.becameReady /\ Without({"network"})
  BY DEF IInv, Tagged, Tied, WhenSilent
<1>2. CASE Subscribe \/ Modify \/ ModifyPatch
  <2>1. PICK t : /\ Becomes(t, tagWaiting, tagDeletes)
                 /\ t = onSubscribe(sub) \/ t = onModify(sub) \/ t = onModifyPatch(sub)
    BY <1>2 DEF Subscribe, Modify, ModifyPatch, Handles
  <2>2. Good(t)
    BY <1>1, <2>1, OnSubscribeGood, OnModifyGood, OnModifyPatchGood
  <2>3. /\ t.isDisposed = sub.isDisposed
        /\ sub.isDisposed => t = sub
    BY <1>1, <2>1, OnSubscribeActs, OnModifyActs, OnModifyPatchActs DEF Acts, Keeps
  <2>4. sub.isDisposed /\ t = sub
    BY <2>1, <2>2, <2>3, BecomesHushed
  <2>5. Hushes(sub, sub)
    BY <2>4 DEF Silent, Hushes
  <2> QED BY <2>1, <2>2, <2>4, <2>5, BecomesHushed
<1>3. CASE Unsubscribing \/ disposeSubscription
  <2> DEFINE u == onUnsubscribe(sub, FALSE)
  <2>1. PICK t : /\ Becomes(t, tagWaiting, tagDeletes)
                 /\ t = u \/ t = dispose(u)
    BY <1>3 DEF Unsubscribing, disposeSubscription, Handles
  <2>2. Unsubscribe(FALSE) \in Items /\ Unsubscribe(FALSE).action = ACTION_UNSUBSCRIBE
    BY ItemsOf DEF Unsubscribe
  <2>3. Good(u) /\ Hushes(sub, u)
    BY <1>1, <2>2, SubscribeIsNoEnd, TryEndingHushes, OnUnsubscribeGood DEF onUnsubscribe
  <2> HIDE DEF u
  <2>4. Good(t) /\ Hushes(sub, t)
    BY <2>1, <2>3, DisposeHushes, DisposeGood
  <2> QED BY <2>1, <2>4, BecomesHushed
<1>4. CASE unsubscribeByTag \/ disposeSubscriptionByTag
  <2> DEFINE u == onUnsubscribeByTagPending(sub)
             item == Item(ACTION_UNSUBSCRIBE_BY_TAG_PENDING)
  <2>1. PICK t : /\ Becomes(t, tagWaiting + 1, tagDeletes)
                 /\ t = u \/ t = dispose(u)
    BY <1>4 DEF unsubscribeByTag, disposeSubscriptionByTag
  <2>2. ~Without({"ByTag", "Patch"})
    BY <1>4 DEF unsubscribeByTag, disposeSubscriptionByTag, Event, Without
  <2>3. item \in Items /\ item.action \in Ending
    BY ItemsOf, SubscribeIsNoEnd DEF Item
  <2>4. u = tryPerformAction(sub, item)
    BY DEF onUnsubscribeByTagPending
  <2>5. Good(u)
    BY <1>1, OnUnsubscribeByTagPendingGood
  <2> HIDE DEF u, item
  <2>6. Hushes(sub, u)
    BY <1>1, <2>2, <2>3, <2>4, TryEndingHushes
  <2>7. Good(t) /\ Hushes(sub, t)
    BY <2>1, <2>5, <2>6, DisposeHushes, DisposeGood
  <2> QED BY <2>1, <2>7, BecomesHushed
<1> QED BY <1>2, <1>3, <1>4 DEF Consumer

(* Streaming tells a disposed subscription of nothing but the end of a     *)
(* call by tag.                                                            *)
LEMMA StreamingSilent ==
    ASSUME IInv, Tied, Silent, WhenSilent, Streaming,
           sub.isDisposed \/ sub'.isDisposed
    PROVE  Hushes(sub, sub')
<1>1. Good(sub) /\ Fits(sub) /\ sub \in SubscriptionRecords
  BY DEF IInv, Tagged, Tied, Good
<1>2. reset(sub).isDisposed = sub.isDisposed
  BY <1>1, ResetActs
<1>3. CASE UnsubscribeByTagAnswered
  <2> DEFINE u == [sub EXCEPT !.currentState = STATE_UNSUBSCRIBED]
             t == onUnsubscribeByTagComplete(sub)
  <2>1. Good(t) /\ Good(u) /\ t = onReadyToPerformNextAction(u)
    BY <1>1, OnUnsubscribeByTagCompleteGood, TagCompleteActs
  <2>2. /\ u.currentState = STATE_UNSUBSCRIBED /\ u.queue = sub.queue
        /\ u.isDisposed = sub.isDisposed /\ u.inFlight = sub.inFlight
    BY <1>1 DEF SubscriptionRecords
  <2>3. Becomes(t, tagWaiting, tagDeletes - 1)
    BY <1>3 DEF UnsubscribeByTagAnswered
  <2> HIDE DEF u, t
  <2>4. t.isDisposed = u.isDisposed
    BY <2>1, ReadyActs DEF Acts, Keeps
  <2>5. sub.isDisposed
    BY <2>1, <2>2, <2>3, <2>4, BecomesHushed
  <2>6. Followed(u.queue, {ACTION_SUBSCRIBE}, Ending)
    BY <2>2, <2>5 DEF Silent, Ended
  <2>7. Hushes(sub, t)
    BY <2>1, <2>2, <2>6, ReadyHushes, StateNames DEF Hushes
  <2> QED BY <2>1, <2>3, <2>7, BecomesHushed
<1>4. CASE ConnectionUnavailable
  <2> DEFINE t == onConnectionUnavailable(sub)
  <2>1. Good(t) /\ t.isDisposed = sub.isDisposed
    BY <1>1, OnConnectionUnavailableGood, OnConnectionUnavailableMoves
  <2>2. Becomes(t, tagWaiting, tagDeletes) /\ ~sub.isDisposed
    BY <1>4 DEF ConnectionUnavailable, Handles
  <2> HIDE DEF t
  <2> QED BY <2>1, <2>2, BecomesHushed
<1>5. CASE ConnectionAvailable
  <2> DEFINE up == [sub EXCEPT !.connectionAvailable = TRUE]
             t == onConnectionAvailable(sub)
  <2>1. Good(t) /\ t.isDisposed = up.isDisposed
    BY <1>1, OnConnectionAvailableGood, OnConnectionAvailableMoves DEF Acts, Keeps
  <2>2. up.isDisposed = sub.isDisposed
    BY <1>1 DEF SubscriptionRecords
  <2>3. Becomes(t, tagWaiting, tagDeletes) /\ ~sub.isDisposed
    BY <1>5 DEF ConnectionAvailable, Handles
  <2> HIDE DEF up, t
  <2> QED BY <2>1, <2>2, <2>3, BecomesHushed
<1>6. CASE Reset
  BY <1>1, <1>2, <1>6, ResetGood, BecomesHushed DEF Reset, Handles
<1>7. CASE Update \/ UnparsableUpdate
  <2>1. PICK parses \in BOOLEAN :
            /\ Becomes(onStreamingData(sub, parses), tagWaiting, tagDeletes)
            /\ ~sub.isDisposed
    BY <1>7 DEF Update, UnparsableUpdate, Handles
  <2>2. /\ onStreamingData(sub, TRUE).isDisposed = sub.isDisposed
        /\ onStreamingData(sub, FALSE).isDisposed = sub.isDisposed
    BY <1>1, <1>2, UpdateTells, UnparsableResets DEF Same
  <2>3. Good(onStreamingData(sub, parses))
    BY <1>1, OnStreamingDataGood
  <2>4. onStreamingData(sub, parses).isDisposed = sub.isDisposed
    <3>1. parses = TRUE \/ parses = FALSE
      OBVIOUS
    <3> QED BY <2>2, <3>1
  <2> QED BY <2>1, <2>3, <2>4, BecomesHushed
<1> QED BY <1>3, <1>4, <1>5, <1>6, <1>7 DEF Streaming

(* A response to a POST does not dispose.                                  *)
LEMMA SuccessDisposed ==
    ASSUME NEW s, NEW r, Answered(s, r), NEW call
    PROVE  LET t == onSubscribeSuccess(s, r, call) IN
           Good(t) /\ t.isDisposed = s.isDisposed
<1> DEFINE q == [s EXCEPT !.currentState = STATE_SUBSCRIBED]
           t == onSubscribeSuccess(s, r, call)
<1>1. Good(t)
  BY OnSubscribeSuccessGood
<1>2. CASE r # referenceId(s)
  BY <1>1, <1>2 DEF onSubscribeSuccess
<1>3. CASE r = referenceId(s)
  <2> DEFINE A == CallActions(call) \cup Again
  <2>1. CallActions(call) \subseteq A /\ Again \subseteq A
    OBVIOUS
  <2>2. q.isDisposed = s.isDisposed
    BY DEF Answered, SubscriptionRecords
  <2> HIDE DEF A
  <2>3. Leaves(q, t, A)
    BY <1>3, <2>1, SubscribeSuccessMoves
  <2> QED BY <1>1, <2>2, <2>3 DEF Leaves
<1> QED BY <1>2, <1>3

(* The consumer of a disposed subscription is still given its snapshot.     *)
LEMMA SucceededSilent ==
    ASSUME IInv, Tied, NEW r \in DOMAIN sub.inFlight, Waiting(r, "post"),
           Ended(sub), sub.isDisposed,
           Becomes(onSubscribeSuccess(Received(r, "post"), r, "none"),
                   tagWaiting, tagDeletes)
    PROVE  Hushes(sub, sub')
<1> DEFINE s == Received(r, "post")
           t == onSubscribeSuccess(s, r, "none")
<1>1. /\ Answered(s, r) /\ s.isDisposed /\ s.queue = sub.queue
      /\ s.currentState = sub.currentState /\ Len(s.inFlight) = Len(sub.inFlight)
  BY ReceivedFits DEF RequestKinds, referenceId
<1>b. Becomes(t, tagWaiting, tagDeletes) /\ Good(t)
  BY <1>1, OnSubscribeSuccessGood
<1> HIDE DEF s
<1>2. CASE r # referenceId(s)
  <2>1. t = s
    BY <1>2 DEF onSubscribeSuccess
  <2>2. Hushes(sub, s)
    BY <1>1 DEF Hushes, Ended, WillUnsubscribe
  <2> QED BY <1>b, <2>1, <2>2, BecomesHushed
<1>3. CASE r = referenceId(s)
  <2>1. PICK q, u, v :
            /\ Good(q) /\ q.currentState = STATE_SUBSCRIBED
            /\ q.inFlight = s.inFlight /\ q.queue = s.queue
            /\ q.isDisposed = s.isDisposed
            /\ IF WillUnsubscribe(s) THEN u = q
               ELSE LET c == ConsumerCall(q, "none") IN
                    /\ Good(c)
                    /\ \/ Same(c, u)
                       \/ c.updatesBeforeSubscribed = "bad" /\ u = reset(c)
            /\ Good(v) /\ Same(u, v)
            /\ t = onReadyToPerformNextAction(v)
    BY <1>1, <1>3, SuccessSteps
  <2> HIDE DEF t
  <2>2. ConsumerCall(q, "none") = q
    BY DEF ConsumerCall
  <2>3. Same(q, u) \/ u = reset(q)
    BY <2>1, <2>2, SameNot
  <2>4. reset(q) = q \/ reset(q) = onUnsubscribe(q, TRUE)
    <3> DEFINE w == onUnsubscribe(q, TRUE)
    <3>1. w.isDisposed
      BY <1>1, <2>1, OnUnsubscribeActs DEF Acts, Keeps
    <3>2. reset(q) = q \/ reset(q) = onSubscribe(w)
      BY <2>1, StateNames DEF reset
    <3> HIDE DEF w
    <3>3. onSubscribe(w) = w
      BY <3>1 DEF onSubscribe
    <3> QED BY <3>2, <3>3 DEF w
  <2>5. Followed(q.queue, {ACTION_SUBSCRIBE}, Ending)
    BY <1>1, <2>1 DEF Ended
  <2>6. CASE u = onUnsubscribe(q, TRUE)
    <3>1. Unsubscribe(TRUE) \in Items /\ Unsubscribe(TRUE).action \in Ending
      BY ItemsOf, SubscribeIsNoEnd DEF Unsubscribe
    <3>2. /\ EndsOff(u) /\ u.currentState # STATE_SUBSCRIBE_REQUESTED
      BY <2>1, <2>5, <2>6, <3>1, TryEndingOff, StateNames DEF onUnsubscribe
    <3>3. Sends(q, u)
      BY <2>1, <2>6, OnUnsubscribeActs DEF Acts
    <3>4. Len(u.inFlight) = Len(q.inFlight)
      BY <2>1, <3>2, <3>3, SendsLen
    <3>5. /\ Followed(v.queue, {ACTION_SUBSCRIBE}, Ending)
          /\ v.currentState # STATE_SUBSCRIBE_REQUESTED
          /\ Len(v.inFlight) = Len(q.inFlight)
      BY <2>1, <3>2, <3>4 DEF EndsOff, Same
    <3>6. Hushes(v, t)
      BY <2>1, <3>5, ReadyHushes
    <3>7. Hushes(sub, t)
      BY <1>1, <2>1, <3>5, <3>6 DEF Hushes
    <3> QED BY <1>b, <3>7, BecomesHushed
  <2>7. CASE Same(q, u) \/ u = q
    <3>1. Same(q, u)
      BY <2>7, SameNot
    <3>2. /\ Followed(v.queue, {ACTION_SUBSCRIBE}, Ending)
          /\ v.currentState = STATE_SUBSCRIBED
          /\ Len(v.inFlight) = Len(q.inFlight)
      BY <2>1, <2>5, <3>1 DEF Same
    <3>3. Hushes(v, t)
      BY <2>1, <3>2, ReadyHushes, StateNames
    <3>4. Hushes(sub, t)
      BY <1>1, <2>1, <3>2, <3>3 DEF Hushes
    <3> QED BY <1>b, <3>4, BecomesHushed
  <2> QED BY <2>3, <2>4, <2>6, <2>7
<1> QED BY <1>2, <1>3

(* A POST that fails is not tried again.                                   *)
LEMMA FailedSilent ==
    ASSUME IInv, Tied, Orderly, WhenSilent, NEW r \in DOMAIN sub.inFlight,
           Ended(sub), sub.isDisposed, NEW response \in SubscribeErrors,
           SubscribeFailed(r, response)
    PROVE  Hushes(sub, sub')
<1> DEFINE s == Received(r, "post")
           t == onSubscribeError(s, r, response)
<1>1. /\ Waiting(r, "post") /\ response \in env
      /\ Becomes(t, tagWaiting, tagDeletes)
  BY DEF SubscribeFailed, Event
<1>2. /\ Answered(s, r) /\ s.queue = sub.queue
      /\ s.currentState = sub.currentState /\ Len(s.inFlight) = Len(sub.inFlight)
  BY <1>1, ReceivedFits DEF RequestKinds, referenceId
<1>3. Without({"ByTag", "Patch"}) => sub.currentState = STATE_SUBSCRIBE_REQUESTED
  <2>1. ASSUME Without({"ByTag", "Patch"}) PROVE Calm
    BY <2>1 DEF Without, Calm, PatchNotOvertaken
  <2> QED BY <1>1, <2>1, AnsweredFits DEF RequestKinds
<1> HIDE DEF s
<1>4. CASE r # referenceId(s)
  <2>1. t = s /\ Good(s)
    BY <1>2, <1>4 DEF onSubscribeError, Answered
  <2>2. Hushes(sub, s)
    BY <1>2 DEF Hushes, Ended, WillUnsubscribe
  <2> QED BY <1>1, <2>1, <2>2, BecomesHushed
<1>5. CASE r = referenceId(s)
  <2>1. PICK q :
            /\ Good(q) /\ q.currentState = STATE_UNSUBSCRIBED
            /\ q.inFlight = s.inFlight /\ q.queue = s.queue /\ Good(t)
            /\ \/ /\ ~WillUnsubscribe(s) /\ Immediate(s, response)
                  /\ t = tryPerformAction(q, Item(ACTION_SUBSCRIBE))
               \/ ~WillUnsubscribe(s) /\ response = "network" /\ t = startTimer(q)
               \/ /\ \/ WillUnsubscribe(s)
                     \/ ~Immediate(s, response) /\ response # "network"
                  /\ t = onReadyToPerformNextAction(q)
    BY <1>2, <1>5, SubscribeErrorMoves
  <2> HIDE DEF t
  <2>2. response # "network"
    BY <1>1 DEF WhenSilent, Without
  <2>3. WillUnsubscribe(s) \/ ~Immediate(s, response)
    <3>1. SUFFICES ASSUME Immediate(s, response) PROVE WillUnsubscribe(s)
      OBVIOUS
    <3>2. response \in {"duplicate", "unsupportedFormat"}
      BY <3>1 DEF Immediate
    <3>3. Without({"ByTag", "Patch"})
      BY <1>1, <3>2 DEF WhenSilent, Without
    <3>4. WillUnsubscribe(sub)
      BY <1>3, <3>3 DEF Ended
    <3> QED BY <1>2, <3>4 DEF WillUnsubscribe
  <2>4. t = onReadyToPerformNextAction(q)
    BY <2>1, <2>2, <2>3
  <2>5. Hushes(q, t)
    BY <1>2, <2>1, <2>4, ReadyHushes, StateNames DEF Ended
  <2>6. Hushes(sub, t)
    BY <1>2, <2>1, <2>5 DEF Hushes
  <2> QED BY <1>1, <2>1, <2>6, BecomesHushed
<1> QED BY <1>4, <1>5

(* The responses.                                                          *)
LEMMA ResponseSilent ==
    ASSUME IInv, Tied, Orderly, Silent, WhenSilent, NEW r \in DOMAIN sub.inFlight,
           Response(r), sub.isDisposed \/ sub'.isDisposed
    PROVE  Hushes(sub, sub')
<1>1. ASSUME Waiting(r, "post")
      PROVE  Answered(Received(r, "post"), r)
             /\ Received(r, "post").isDisposed = sub.isDisposed
  BY <1>1, ReceivedFits DEF RequestKinds
<1>2. CASE SubscribeSucceeded(r)
  <2> DEFINE t == onSubscribeSuccess(Received(r, "post"), r, "none")
  <2>1. Waiting(r, "post") /\ Becomes(t, tagWaiting, tagDeletes)
    BY <1>2 DEF SubscribeSucceeded
  <2>2. Good(t) /\ t.isDisposed = sub.isDisposed
    BY <1>1, <2>1, SuccessDisposed
  <2>3. sub.isDisposed
    <3> HIDE DEF t
    <3> QED BY <2>1, <2>2, BecomesHushed
  <2> QED BY <2>1, <2>3, SucceededSilent DEF Silent
<1>3. CASE \E call \in Calls \ {"none"} : SubscribeSucceededReentrantly(r, call)
  <2>1. PICK call \in Calls \ {"none"} : SubscribeSucceededReentrantly(r, call)
    BY <1>3
  <2> DEFINE t == onSubscribeSuccess(Received(r, "post"), r, call)
  <2>2. /\ Waiting(r, "post") /\ ~sub.isDisposed
        /\ Becomes(t, tagWaiting, tagDeletes)
    BY <2>1 DEF SubscribeSucceededReentrantly
  <2>3. Good(t) /\ t.isDisposed = sub.isDisposed
    BY <1>1, <2>2, SuccessDisposed
  <2> HIDE DEF t
  <2> QED BY <2>2, <2>3, BecomesHushed
<1>4. CASE \E response \in SubscribeErrors : SubscribeFailed(r, response)
  <2>1. PICK response \in SubscribeErrors : SubscribeFailed(r, response)
    BY <1>4
  <2> DEFINE s == Received(r, "post")
             t == onSubscribeError(s, r, response)
  <2>2. Waiting(r, "post") /\ Becomes(t, tagWaiting, tagDeletes)
    BY <2>1 DEF SubscribeFailed
  <2>3. Answered(s, r) /\ s.isDisposed = sub.isDisposed
    BY <1>1, <2>2
  <2> HIDE DEF s
  <2>4. Good(t) /\ t.isDisposed = s.isDisposed
    <3>1. CASE r # referenceId(s)
      BY <2>3, <3>1 DEF onSubscribeError, Answered
    <3>2. CASE r = referenceId(s)
      BY <2>3, <3>2, SubscribeErrorMoves
    <3> QED BY <3>1, <3>2
  <2> HIDE DEF t
  <2>5. sub.isDisposed
    BY <2>2, <2>3, <2>4, BecomesHushed
  <2> QED BY <2>1, <2>5, FailedSilent DEF Silent
<1>5. ASSUME NEW k \in {"delete", "patch"}, Waiting(r, k), NEW t,
             Becomes(t, tagWaiting, tagDeletes),
             t = IF k = "delete" THEN onUnsubscribeResponse(Received(r, k), r)
                 ELSE onModifyPatchResponse(Received(r, k), r)
      PROVE  Hushes(sub, sub')
  <2> DEFINE s == Received(r, k)
             state == IF k = "delete" THEN STATE_UNSUBSCRIBED ELSE STATE_SUBSCRIBED
             q == [s EXCEPT !.currentState = state]
  <2>1. /\ Answered(s, r) /\ s.queue = sub.queue /\ s.isDisposed = sub.isDisposed
        /\ s.currentState = sub.currentState /\ Len(s.inFlight) = Len(sub.inFlight)
    BY <1>5, ReceivedFits DEF RequestKinds, referenceId
  <2>2. /\ q.currentState = state /\ q.queue = s.queue
        /\ q.isDisposed = s.isDisposed /\ q.inFlight = s.inFlight
    BY <2>1 DEF Answered, SubscriptionRecords
  <2>3. CASE r # referenceId(s)
    <3>1. t = s
      BY <1>5, <2>3 DEF onUnsubscribeResponse, onModifyPatchResponse
    <3> HIDE DEF s
    <3>2. Good(s)
      BY <2>1, <2>3 DEF Answered
    <3>3. sub.isDisposed
      BY <1>5, <2>1, <3>1, <3>2, BecomesHushed
    <3>4. Hushes(sub, s)
      BY <2>1, <3>3 DEF Silent, Hushes, Ended, WillUnsubscribe
    <3> QED BY <1>5, <3>1, <3>2, <3>4, BecomesHushed
  <2>4. CASE r = referenceId(s)
    <3>1. Good(q) /\ t = onReadyToPerformNextAction(q)
      BY <1>5, <2>1, <2>4, ResponseActs
    <3> HIDE DEF q, s
    <3>2. Good(t) /\ t.isDisposed = sub.isDisposed
      BY <2>1, <2>2, <3>1, ReadyActs, ReadyToPerformGood DEF Acts, Keeps
    <3>3. sub.isDisposed
      BY <1>5, <3>2, BecomesHushed
    <3>4. Followed(q.queue, {ACTION_SUBSCRIBE}, Ending)
      BY <2>1, <2>2, <3>3 DEF Silent, Ended
    <3>5. Hushes(q, t)
      BY <2>2, <3>1, <3>4, ReadyHushes, StateNames
    <3>6. Hushes(sub, t)
      BY <2>1, <2>2, <3>5 DEF Hushes
    <3> QED BY <1>5, <3>2, <3>6, BecomesHushed
  <2> QED BY <2>3, <2>4
<1>6. CASE UnsubscribeAnswered(r)
  BY <1>5, <1>6 DEF UnsubscribeAnswered
<1>7. CASE ModifyPatchAnswered(r)
  BY <1>5, <1>7 DEF ModifyPatchAnswered, Handles
<1>8. CASE CleanUpAnswered(r)
  BY <1>8 DEF CleanUpAnswered, Silent, Hushes
<1> QED BY <1>2, <1>3, <1>4, <1>6, <1>7, <1>8 DEF Response

(* No step of a disposed subscription sends a POST.                        *)
LEMMA NextSilent ==
    ASSUME IInv, Tied, Orderly, Silent, WhenSilent, [Next]_vars,
           sub.isDisposed \/ sub'.isDisposed
    PROVE  Hushes(sub, sub') \/ UNCHANGED sub
<1>1. ~NetworkErrorTimeout
  BY DEF Tied, Fits, WhenSilent, NetworkErrorTimeout
<1> QED BY <1>1, ConsumerSilent, StreamingSilent, ResponseSilent DEF Next, vars

(* Every step preserves it.                                                *)
LEMMA SilentStays == IInv /\ Tied /\ Orderly /\ Silent /\ [Next]_vars => Silent'
<1> SUFFICES ASSUME IInv, Tied, Orderly, Silent, [Next]_vars, WhenSilent',
                    sub'.isDisposed
             PROVE  Ended(sub)'
  BY DEF Silent
<1>1. WhenSilent /\ \A K : Without(K)' = Without(K)
  BY SameEnv DEF WhenSilent, Without
<1>2. Hushes(sub, sub') \/ UNCHANGED sub
  BY <1>1, NextSilent
<1>3. Ended(sub')
  BY <1>1, <1>2 DEF Hushes, Silent
<1> QED BY <1>1, <1>3 DEF Ended

(* A new subscription is not disposed.                                     *)
LEMMA InitSilent == Init => Silent
<1> SUFFICES ASSUME Init PROVE ~sub.isDisposed
  BY DEF Silent
<1>1. Init => Tied
  BY InitTied
<1> QED BY <1>1, "on" # "off" DEF Init, Tied

-----------------------------------------------------------------------------
(* The whole of the inductive invariant. *)
Full == IInv /\ Tied /\ Orderly /\ Wanted /\ Unwanted /\ Silent

(* The whole invariant holds initially.                                    *)
LEMMA InitFull == Init => Full
<1>1. Init => Unwanted
  BY "on" # "off" DEF Init, Unwanted
<1> QED BY <1>1, InitIInv, InitTied, InitOrderly, InitWanted, InitSilent DEF Full

(* Every step preserves the whole invariant.                               *)
LEMMA NextFull == Full /\ [Next]_vars => Full'
BY NextIInv, NextTied, NextOrderly, NextWanted, NextUnwanted, SilentStays DEF Full

(* The whole invariant holds in every behaviour.                           *)
THEOREM FullyInductive == Spec => []Full
<1> QED BY InitFull, NextFull, PTL DEF Spec

(* When all is settled nothing is waited for and nothing is left to do.    *)
LEMMA SettledRests ==
    ASSUME IInv, Tied, Settled
    PROVE  /\ sub.currentState \in {STATE_SUBSCRIBED, STATE_UNSUBSCRIBED}
           /\ sub.queue = <<>> /\ ~sub.networkErrorSubscribingTimer
<1>1. /\ Good(sub) /\ sub \in SubscriptionRecords
      /\ isReadyForUnsubscribeByTag(sub) => tagDeletes > 0
  BY DEF IInv, Tagged, Good
<1>2. sub.inFlight \in Seq([RequestKinds -> Nat])
  BY <1>1 DEF SubscriptionRecords
<1>3. DOMAIN sub.inFlight = 1..Len(sub.inFlight) /\ Len(sub.inFlight) \in Nat
  BY <1>2, LenProperties
<1>4. Len(sub.inFlight) > 0 => \A k \in RequestKinds :
          sub.inFlight[Len(sub.inFlight)][k] = 0
  <2>1. Len(sub.inFlight) > 0 => Len(sub.inFlight) \in 1..Len(sub.inFlight)
    BY <1>3
  <2> QED BY <1>3, <2>1 DEF Settled, Idle
<1>5. ~Transitioning(sub)
  BY <1>1, <1>4 DEF Transitioning, TRANSITIONING_STATES, Good, RequestKinds
<1>6. ~isReadyForUnsubscribeByTag(sub)
  BY <1>1 DEF Settled
<1>7. sub.currentState \in {STATE_SUBSCRIBED, STATE_UNSUBSCRIBED}
  <2>1. sub.currentState \in States
    BY <1>1 DEF SubscriptionRecords
  <2> QED BY <1>5, <1>6, <2>1 DEF States, Transitioning, TRANSITIONING_STATES,
          isReadyForUnsubscribeByTag
<1>8. sub.queue = <<>>
  BY <1>5 DEF Tied, Fits, Served, Settled
<1> QED BY <1>7, <1>8 DEF Settled

(* While a POST is on its way no other request of the subscription is,     *)
(* under any reference id, but the clean-up of an earlier POST.            *)
THEOREM PostsTravelAlone == Spec => []PostAlone
<1>1. ASSUME Full PROVE PostAlone
  <2> SUFFICES ASSUME Calm, NEW r \in DOMAIN sub.inFlight,
                      sub.inFlight[r]["post"] > 0
               PROVE  /\ sub.inFlight[r]["delete"] = 0
                      /\ sub.inFlight[r]["patch"] = 0
                      /\ \A other \in DOMAIN sub.inFlight \ {r} : Idle(other)
                      /\ \A other \in cleanUps : other < r
    BY DEF PostAlone, Calm
  <2>1. /\ DOMAIN sub.inFlight = 1..Len(sub.inFlight)
        /\ Len(sub.inFlight) \in Nat /\ sub \in SubscriptionRecords
    <3>1. sub \in SubscriptionRecords
      BY <1>1 DEF Full, IInv, Tagged, Good
    <3>2. sub.inFlight \in Seq([RequestKinds -> Nat])
      BY <3>1 DEF SubscriptionRecords
    <3> QED BY <3>1, <3>2, LenProperties
  <2>h. PICK h : Believes(h)
    BY <1>1 DEF Full, Orderly
  <2>2. \A i \in DOMAIN sub.inFlight, k \in RequestKinds :
            sub.inFlight[i][k] = IF i = Len(sub.inFlight)
                                    /\ k = Awaits(sub.currentState) THEN 1 ELSE 0
    BY <2>1, <2>h DEF Believes, Agrees
  <2>3. r = Len(sub.inFlight) /\ Awaits(sub.currentState) = "post"
    BY <2>2 DEF RequestKinds
  <2>4. \A other \in cleanUps : other < r
    <3>1. sub.currentState = STATE_SUBSCRIBE_REQUESTED
      BY <2>1, <2>3, AwaitsKinds
    <3>2. cleanUps \subseteq 1..Len(sub.inFlight) /\ Len(sub.inFlight) \notin cleanUps
      BY <2>h, <3>1 DEF Believes, Backs
    <3> QED BY <2>1, <2>3, <3>2
  <2> QED BY <2>2, <2>3, <2>4 DEF RequestKinds, Idle
<1> QED BY <1>1, FullyInductive, PTL

(* A DELETE by tag leaves only when no POST, PATCH or DELETE of the        *)
(* subscription's own is on its way.                                       *)
THEOREM ReadyWhenQuiet == Spec => []ReadyIsQuiet
<1>1. ASSUME Full PROVE ReadyIsQuiet
  <2> SUFFICES ASSUME Calm, isReadyForUnsubscribeByTag(sub),
                      NEW r \in DOMAIN sub.inFlight
               PROVE  Idle(r)
    BY DEF ReadyIsQuiet, Calm
  <2>1. /\ DOMAIN sub.inFlight = 1..Len(sub.inFlight)
        /\ Len(sub.inFlight) \in Nat /\ sub \in SubscriptionRecords
    <3>1. sub \in SubscriptionRecords
      BY <1>1 DEF Full, IInv, Tagged, Good
    <3>2. sub.inFlight \in Seq([RequestKinds -> Nat])
      BY <3>1 DEF SubscriptionRecords
    <3> QED BY <3>1, <3>2, LenProperties
  <2>h. PICK h : Believes(h)
    BY <1>1 DEF Full, Orderly
  <2>2. \A i \in DOMAIN sub.inFlight, k \in RequestKinds :
            sub.inFlight[i][k] = IF i = Len(sub.inFlight)
                                    /\ k = Awaits(sub.currentState) THEN 1 ELSE 0
    BY <2>1, <2>h DEF Believes, Agrees
  <2>3. Awaits(sub.currentState) = "none"
    BY AwaitsKinds DEF isReadyForUnsubscribeByTag
  <2> QED BY <2>2, <2>3 DEF RequestKinds, Idle
<1> QED BY <1>1, FullyInductive, PTL

(* When all is settled the server streams what the subscription believes,  *)
(* and nothing else unless the network or a failed DELETE hid it.          *)
THEOREM ServerAgreesInTheEnd == Spec => []ServerAgrees
<1>1. ASSUME Full PROVE ServerAgrees
  <2> DEFINE believed == IF sub.currentState = STATE_SUBSCRIBED
                         THEN {referenceId(sub)} ELSE {}
  <2> SUFFICES ASSUME Calm, Settled
               PROVE  /\ believed \subseteq live
                      /\ Without({"network", "DeleteFails"}) => live \subseteq believed
    BY DEF ServerAgrees, Calm
  <2>1. sub.currentState \in {STATE_SUBSCRIBED, STATE_UNSUBSCRIBED}
    BY <1>1, SettledRests DEF Full
  <2>2. PICK h : Believes(h)
    BY <1>1 DEF Full, Orderly
  <2>3. Agrees(sub, h) /\ Backs(sub, h, live, cleanUps)
    BY <2>2 DEF Believes
  <2>4. h = believed
    BY <2>1, <2>3, StateNames DEF Agrees, referenceId
  <2>5. cleanUps = {}
    BY DEF Settled
  <2> HIDE DEF believed
  <2> QED BY <2>3, <2>4, <2>5 DEF Backs
<1> QED BY <1>1, FullyInductive, PTL

(* No delta comes before its snapshot.                                     *)
THEOREM SnapshotFirst == Spec => []SnapshotBeforeDelta
<1>1. Full => SnapshotBeforeDelta
  BY DEF Full, SnapshotBeforeDelta, Orderly, Believes, Calm, Shown
<1> QED BY <1>1, FullyInductive, PTL

(* A subscription that is wanted and had has been given its snapshot.      *)
THEOREM SnapshotArrives == Spec => []SnapshotDelivered
<1>1. ASSUME Full PROVE SnapshotDelivered
  <2> SUFFICES ASSUME Calm, Without({"Connection"}), sub.currentState = STATE_SUBSCRIBED
               PROVE  sub.snapshotRef = referenceId(sub)
    BY DEF SnapshotDelivered, Calm
  <2>1. PICK h : Agrees(sub, h) /\ Shown(sub, h)
    BY <1>1 DEF Full, Orderly, Believes
  <2>2. h = {Len(sub.inFlight)}
    BY <2>1 DEF Agrees
  <2> QED BY <2>1, <2>2, StateNames DEF Shown, referenceId
<1> QED BY <1>1, FullyInductive, PTL

(* A consumer who wants the subscription has it when all is settled.       *)
THEOREM WantedIsKept == Spec => []KeepsWanted
<1>1. ASSUME Full PROVE KeepsWanted
  <2> SUFFICES ASSUME WhenWanted, Settled, intent = "on", ~refused
               PROVE  sub.currentState = STATE_SUBSCRIBED
    BY DEF KeepsWanted, WhenWanted, StaysSubscribed
  <2>1. /\ sub.currentState \in {STATE_SUBSCRIBED, STATE_UNSUBSCRIBED}
        /\ sub.queue = <<>> /\ ~sub.networkErrorSubscribingTimer
    BY <1>1, SettledRests DEF Full
  <2>2. EndsOn(sub)
    BY <1>1 DEF Full, Wanted
  <2> QED BY <2>1, <2>2, EmptyQueue, StateNames DEF EndsOn, Subscribing
<1> QED BY <1>1, FullyInductive, PTL

(* One who does not, does not have it.                                     *)
THEOREM UnwantedIsDropped == Spec => []DropsUnwanted
<1>1. ASSUME Full PROVE DropsUnwanted
  <2> SUFFICES ASSUME WhenUnwanted, Settled, intent = "off"
               PROVE  sub.currentState = STATE_UNSUBSCRIBED
    BY DEF DropsUnwanted, WhenUnwanted, StaysUnsubscribed
  <2>1. /\ sub.currentState \in {STATE_SUBSCRIBED, STATE_UNSUBSCRIBED}
        /\ sub.queue = <<>>
    BY <1>1, SettledRests DEF Full
  <2>2. EndsOff(sub)
    BY <1>1 DEF Full, Unwanted
  <2> QED BY <2>1, <2>2, EmptyQueue, StateNames DEF EndsOff, Subscribing
<1> QED BY <1>1, FullyInductive, PTL

(* No call, late answer, control message or report of the connection makes *)
(* a disposed subscription send a POST, where the network loses none.      *)
THEOREM DisposedIsSilent == Spec => DisposedStaysSilent
<1>1. ASSUME Full, [Next]_vars
      PROVE  [/\ Without({"network"})
              /\ \/ Without({"ByTag", "Patch"})
                 \/ Without({"duplicate", "unsupportedFormat"})
              /\ sub.isDisposed
              => referenceId(sub') = referenceId(sub)]_vars
  <2> SUFFICES ASSUME WhenSilent, sub.isDisposed
               PROVE  referenceId(sub') = referenceId(sub)
    BY DEF WhenSilent
  <2>1. Hushes(sub, sub') \/ UNCHANGED sub
    BY <1>1, NextSilent DEF Full
  <2> QED BY <2>1 DEF Hushes, referenceId
<1> QED BY <1>1, FullyInductive, PTL DEF DisposedStaysSilent, Spec
=============================================================================
