--------------------- MODULE SubscriptionHandlersProofs ---------------------
(***************************************************************************)
(* What each method and callback of a subscription does to it, for every   *)
(* subscription: the lemmas the theorems of Subscription and of Streaming  *)
(* rest on.                                                                *)
(***************************************************************************)
EXTENDS SubscriptionHandlers, SubscriptionQueueProofs

TagQueued(s) == Holds(s.queue, ACTION_UNSUBSCRIBE_BY_TAG_PENDING)

(* What a handler may rely on and leaves behind: a well typed subscription *)
(* whose state has its request in flight, and which does not become ready  *)
(* for unsubscribe by tag with another such action in its queue.           *)
Good(s) ==
    /\ s \in SubscriptionRecords
    /\ s.currentState \in {STATE_SUBSCRIBE_REQUESTED, STATE_SUBSCRIBED,
                           STATE_UNSUBSCRIBE_REQUESTED, STATE_PATCH_REQUESTED}
           => Len(s.inFlight) > 0
    /\ s.currentState = STATE_SUBSCRIBE_REQUESTED =>
           s.inFlight[Len(s.inFlight)]["post"] > 0
    /\ s.currentState = STATE_UNSUBSCRIBE_REQUESTED =>
           s.inFlight[Len(s.inFlight)]["delete"] > 0
    /\ s.currentState = STATE_PATCH_REQUESTED =>
           s.inFlight[Len(s.inFlight)]["patch"] > 0
    /\ s.becameReady => ~TagQueued(s)

(* What a handler that is not an unsubscribe by tag may do with it: it     *)
(* queues no such action and becomes ready only by a queued one.           *)
Leads(s, t) ==
    /\ TagQueued(t) => TagQueued(s)
    /\ s.becameReady => t.becameReady
    /\ t.becameReady => s.becameReady \/ TagQueued(s)
    /\ isReadyForUnsubscribeByTag(t) =>
           isReadyForUnsubscribeByTag(s) \/ t.becameReady

(* Leads is transitive.                                                    *)
LEMMA LeadsOn ==
    ASSUME NEW s, NEW t, NEW u, Leads(s, t), Leads(t, u)
    PROVE  Leads(s, u)
BY DEF Leads

(* A step that leaves state and requests alone and queues nothing by tag.  *)
LEMMA Quiet ==
    ASSUME NEW s, Good(s), NEW t \in SubscriptionRecords,
           t.currentState = s.currentState, t.inFlight = s.inFlight,
           t.becameReady = s.becameReady, TagQueued(t) => TagQueued(s)
    PROVE  Good(t) /\ Leads(s, t)
BY DEF Good, Leads, isReadyForUnsubscribeByTag

(* A response has arrived: the subscription is no longer waiting.          *)
LEMMA NotWaiting ==
    ASSUME NEW s, s.becameReady => ~TagQueued(s),
           NEW t \in SubscriptionRecords,
           t.currentState \in {STATE_SUBSCRIBED, STATE_UNSUBSCRIBED},
           t.currentState = STATE_SUBSCRIBED => Len(t.inFlight) > 0,
           t.queue = s.queue, t.becameReady = s.becameReady
    PROVE  Good(t) /\ Leads(s, t)
BY DEF Good, Leads, TagQueued, isReadyForUnsubscribeByTag,
       STATE_SUBSCRIBED, STATE_UNSUBSCRIBED, STATE_SUBSCRIBE_REQUESTED,
       STATE_UNSUBSCRIBE_REQUESTED, STATE_PATCH_REQUESTED,
       STATE_READY_FOR_UNSUBSCRIBE_BY_TAG
(* A new subscription is good.                                             *)
LEMMA NewGood ==
    ASSUME NEW protobuf \in BOOLEAN
    PROVE  /\ Good(NewSubscription(protobuf))
           /\ ~TagQueued(NewSubscription(protobuf))
           /\ ~NewSubscription(protobuf).becameReady
           /\ ~isReadyForUnsubscribeByTag(NewSubscription(protobuf))
<1> DEFINE s == NewSubscription(protobuf)
<1>1. /\ s \in SubscriptionRecords /\ s.currentState = STATE_UNSUBSCRIBED
      /\ s.queue = <<>> /\ s.becameReady = FALSE
  BY DEF NewSubscription, SubscriptionRecords, States, Buffers
<1> HIDE DEF s
<1>2. Good(s) /\ ~TagQueued(s) /\ ~isReadyForUnsubscribeByTag(s)
  BY <1>1 DEF Good, TagQueued, Holds, isReadyForUnsubscribeByTag,
       STATE_UNSUBSCRIBED, STATE_SUBSCRIBED, STATE_SUBSCRIBE_REQUESTED,
       STATE_UNSUBSCRIBE_REQUESTED, STATE_PATCH_REQUESTED,
       STATE_READY_FOR_UNSUBSCRIBE_BY_TAG
<1> QED BY <1>1, <1>2 DEF s
-----------------------------------------------------------------------------
(* Counting the requests in flight touches one number only.                *)
LEMMA CountType ==
    ASSUME NEW s \in SubscriptionRecords, NEW r \in 1..Len(s.inFlight),
           NEW k \in RequestKinds, NEW n \in Int, s.inFlight[r][k] + n \in Nat
    PROVE  /\ Count(s, r, k, n) \in SubscriptionRecords
           /\ Count(s, r, k, n).currentState = s.currentState
           /\ Count(s, r, k, n).queue = s.queue
           /\ Count(s, r, k, n).becameReady = s.becameReady
           /\ Len(Count(s, r, k, n).inFlight) = Len(s.inFlight)
           /\ Count(s, r, k, n).inFlight[r][k] = s.inFlight[r][k] + n
           /\ \A i \in 1..Len(s.inFlight) \ {r} :
                 Count(s, r, k, n).inFlight[i] = s.inFlight[i]
<1> DEFINE f == s.inFlight
           e == [f[r] EXCEPT ![k] = @ + n]
           g == [f EXCEPT ![r] = e]
<1>1. f \in Seq([RequestKinds -> Nat])
  BY DEF SubscriptionRecords
<1>2. f[r] \in [RequestKinds -> Nat]
  BY <1>1, ElementOfSeq
<1>3. e \in [RequestKinds -> Nat] /\ e[k] = f[r][k] + n
  BY <1>2
<1> HIDE DEF e
<1>4. /\ g \in Seq([RequestKinds -> Nat]) /\ Len(g) = Len(f)
      /\ \A j \in 1..Len(f) : g[j] = IF j = r THEN e ELSE f[j]
  BY <1>1, <1>3, ExceptSeq
<1>5. Count(s, r, k, n) = [s EXCEPT !.inFlight = g]
  BY DEF Count, e
<1> HIDE DEF g
<1>6. /\ Count(s, r, k, n) \in SubscriptionRecords
      /\ Count(s, r, k, n).currentState = s.currentState
      /\ Count(s, r, k, n).queue = s.queue
      /\ Count(s, r, k, n).becameReady = s.becameReady
      /\ Count(s, r, k, n).inFlight = g
  BY <1>4, <1>5 DEF SubscriptionRecords
<1> QED BY <1>3, <1>4, <1>6

(* The three requests leave a subscription that waits for the response.    *)
LEMMA SubscribeGood ==
    ASSUME NEW s, Good(s)
    PROVE  Good(subscribe(s)) /\ subscribe(s).becameReady = s.becameReady
           /\ subscribe(s).queue = s.queue
           /\ subscribe(s).currentState = STATE_SUBSCRIBE_REQUESTED
<1> DEFINE e == [k \in RequestKinds |-> IF k = "post" THEN 1 ELSE 0]
           t == subscribe(s)
<1>1. s \in SubscriptionRecords /\ s.inFlight \in Seq([RequestKinds -> Nat])
  BY DEF Good, SubscriptionRecords
<1>2. e \in [RequestKinds -> Nat] /\ e["post"] = 1
  BY DEF RequestKinds
<1> HIDE DEF e
<1>3. /\ t \in SubscriptionRecords /\ t.inFlight = Append(s.inFlight, e)
      /\ t.currentState = STATE_SUBSCRIBE_REQUESTED
      /\ t.queue = s.queue /\ t.becameReady = s.becameReady
  <2> DEFINE f == Append(s.inFlight, e)
  <2>1. f \in Seq([RequestKinds -> Nat])
    BY <1>1, <1>2
  <2>2. t = [s EXCEPT !.currentState = STATE_SUBSCRIBE_REQUESTED,
                      !.updatesBeforeSubscribed = "none", !.inFlight = f]
    BY DEF subscribe, e
  <2>3. STATE_SUBSCRIBE_REQUESTED \in States /\ "none" \in Buffers
    BY DEF States, Buffers
  <2> HIDE DEF f, t
  <2>4. /\ t \in SubscriptionRecords /\ t.inFlight = f
        /\ t.currentState = STATE_SUBSCRIBE_REQUESTED
        /\ t.queue = s.queue /\ t.becameReady = s.becameReady
    BY <1>1, <2>1, <2>2, <2>3 DEF SubscriptionRecords
  <2> QED BY <2>4 DEF f
<1>4. Len(t.inFlight) > 0 /\ t.inFlight[Len(t.inFlight)]["post"] = 1
  BY <1>1, <1>2, <1>3
<1> HIDE DEF t
<1>5. Good(t)
  BY <1>3, <1>4
  DEF Good, TagQueued, STATE_SUBSCRIBE_REQUESTED, STATE_UNSUBSCRIBE_REQUESTED,
      STATE_PATCH_REQUESTED
<1> QED BY <1>3, <1>5 DEF t

(* One more request for the current reference id.                          *)
LEMMA CountOne ==
    ASSUME NEW s, Good(s), Len(s.inFlight) > 0, NEW k \in RequestKinds
    PROVE  /\ Count(s, referenceId(s), k, 1) \in SubscriptionRecords
           /\ Count(s, referenceId(s), k, 1).queue = s.queue
           /\ Count(s, referenceId(s), k, 1).becameReady = s.becameReady
           /\ Len(Count(s, referenceId(s), k, 1).inFlight) = Len(s.inFlight)
           /\ Count(s, referenceId(s), k, 1).inFlight[Len(s.inFlight)][k] > 0
<1> DEFINE r == Len(s.inFlight)
<1>1. /\ s \in SubscriptionRecords /\ s.inFlight \in Seq([RequestKinds -> Nat])
      /\ r \in 1..r
  BY DEF Good, SubscriptionRecords
<1>2. s.inFlight[r][k] \in Nat
  <2>1. s.inFlight[r] \in [RequestKinds -> Nat]
    BY <1>1, ElementOfSeq
  <2> QED BY <2>1
<1>3. r \in 1..Len(s.inFlight) /\ r = referenceId(s)
  BY <1>1 DEF referenceId
<1> HIDE DEF r
<1>4. s.inFlight[r][k] + 1 \in Nat /\ s.inFlight[r][k] + 1 > 0 /\ 1 \in Int
  BY <1>2
<1>5. /\ Count(s, r, k, 1) \in SubscriptionRecords
      /\ Count(s, r, k, 1).queue = s.queue
      /\ Count(s, r, k, 1).becameReady = s.becameReady
      /\ Len(Count(s, r, k, 1).inFlight) = Len(s.inFlight)
      /\ Count(s, r, k, 1).inFlight[r][k] = s.inFlight[r][k] + 1
  BY <1>1, <1>3, <1>4, CountType
<1> QED BY <1>3, <1>4, <1>5 DEF r

(* unsubscribe waits for the DELETE it sends.                              *)
LEMMA UnsubscribeGood ==
    ASSUME NEW s, Good(s), Len(s.inFlight) > 0
    PROVE  /\ Good(unsubscribe(s)) /\ unsubscribe(s).queue = s.queue
           /\ unsubscribe(s).becameReady = s.becameReady
           /\ unsubscribe(s).currentState = STATE_UNSUBSCRIBE_REQUESTED
<1> DEFINE u == Count(s, referenceId(s), "delete", 1)
           t == unsubscribe(s)
<1>1. /\ u \in SubscriptionRecords /\ u.queue = s.queue
      /\ u.becameReady = s.becameReady /\ Len(u.inFlight) = Len(s.inFlight)
      /\ u.inFlight[Len(s.inFlight)]["delete"] > 0
  BY CountOne DEF RequestKinds
<1>2. t = [u EXCEPT !.currentState = STATE_UNSUBSCRIBE_REQUESTED]
  BY DEF unsubscribe
<1> HIDE DEF u, t
<1>3. /\ t \in SubscriptionRecords /\ t.inFlight = u.inFlight
      /\ t.queue = s.queue /\ t.becameReady = s.becameReady
      /\ t.currentState = STATE_UNSUBSCRIBE_REQUESTED
  BY <1>1, <1>2 DEF SubscriptionRecords, States
<1>4. Good(t)
  BY <1>1, <1>3
  DEF Good, TagQueued, STATE_SUBSCRIBE_REQUESTED, STATE_UNSUBSCRIBE_REQUESTED,
      STATE_PATCH_REQUESTED
<1> QED BY <1>3, <1>4 DEF t

(* modifyPatch waits for the PATCH it sends.                               *)
LEMMA ModifyPatchGood ==
    ASSUME NEW s, Good(s), Len(s.inFlight) > 0
    PROVE  /\ Good(modifyPatch(s)) /\ modifyPatch(s).queue = s.queue
           /\ modifyPatch(s).becameReady = s.becameReady
           /\ modifyPatch(s).currentState = STATE_PATCH_REQUESTED
<1> DEFINE u == Count(s, referenceId(s), "patch", 1)
           t == modifyPatch(s)
<1>1. /\ u \in SubscriptionRecords /\ u.queue = s.queue
      /\ u.becameReady = s.becameReady /\ Len(u.inFlight) = Len(s.inFlight)
      /\ u.inFlight[Len(s.inFlight)]["patch"] > 0
  BY CountOne DEF RequestKinds
<1>2. t = [u EXCEPT !.currentState = STATE_PATCH_REQUESTED]
  BY DEF modifyPatch
<1> HIDE DEF u, t
<1>3. /\ t \in SubscriptionRecords /\ t.inFlight = u.inFlight
      /\ t.queue = s.queue /\ t.becameReady = s.becameReady
      /\ t.currentState = STATE_PATCH_REQUESTED
  BY <1>1, <1>2 DEF SubscriptionRecords, States
<1>4. Good(t)
  BY <1>1, <1>3
  DEF Good, TagQueued, STATE_SUBSCRIBE_REQUESTED, STATE_UNSUBSCRIBE_REQUESTED,
      STATE_PATCH_REQUESTED
<1> QED BY <1>3, <1>4 DEF t
-----------------------------------------------------------------------------
(* An effective action, and what performAction does after it. *)
LEMMA PerformGood ==
    ASSUME NEW s, Good(s), NEW action \in Actions,
           Effective(action, s.currentState)
    PROVE  /\ Good(AfterPerform(Perform(s, action)))
           /\ TagQueued(AfterPerform(Perform(s, action))) => TagQueued(s)
           /\ s.becameReady => AfterPerform(Perform(s, action)).becameReady
           /\ AfterPerform(Perform(s, action)).becameReady =>
                  s.becameReady \/ action = ACTION_UNSUBSCRIBE_BY_TAG_PENDING
           /\ isReadyForUnsubscribeByTag(AfterPerform(Perform(s, action))) =>
                  AfterPerform(Perform(s, action)).becameReady
<1> DEFINE t == Perform(s, action)
<1> USE DEF isReadyForUnsubscribeByTag
<1>1. CASE action = ACTION_SUBSCRIBE
  <2> DEFINE u == [s EXCEPT !.queue = clearPatches(s.queue)]
  <2>1. t = subscribe(u)
    BY <1>1 DEF Perform, ACTION_SUBSCRIBE, ACTION_UNSUBSCRIBE,
                ACTION_MODIFY_PATCH, ACTION_UNSUBSCRIBE_BY_TAG_PENDING
  <2>2. Good(u) /\ Leads(s, u) /\ u.becameReady = s.becameReady
    <3>1. s \in SubscriptionRecords /\ s.queue \in Seq(Items)
      BY DEF Good, SubscriptionRecords
    <3>2. clearPatches(s.queue) \in Seq(Items)
          /\ (Holds(clearPatches(s.queue), ACTION_UNSUBSCRIBE_BY_TAG_PENDING)
                 => TagQueued(s))
      BY <3>1, ClearPatchesType DEF TagQueued, Actions
    <3>3. /\ u \in SubscriptionRecords /\ u.queue = clearPatches(s.queue)
          /\ u.currentState = s.currentState /\ u.inFlight = s.inFlight
          /\ u.becameReady = s.becameReady
      BY <3>1, <3>2 DEF SubscriptionRecords
    <3> HIDE DEF u
    <3> QED BY <3>2, <3>3, Quiet DEF TagQueued
  <2> HIDE DEF u
  <2>3. /\ Good(t) /\ t.becameReady = u.becameReady /\ t.queue = u.queue
        /\ t.currentState = STATE_SUBSCRIBE_REQUESTED
    BY <2>1, <2>2, SubscribeGood
  <2>4. AfterPerform(t) = t
    BY <2>3 DEF AfterPerform, Transitioning, TRANSITIONING_STATES
  <2> HIDE DEF t
  <2>5. TagQueued(t) => TagQueued(s)
    BY <2>2, <2>3 DEF Leads, TagQueued
  <2>6. t.currentState # STATE_READY_FOR_UNSUBSCRIBE_BY_TAG
    BY <2>3 DEF STATE_SUBSCRIBE_REQUESTED, STATE_READY_FOR_UNSUBSCRIBE_BY_TAG
  <2> QED BY <2>2, <2>3, <2>4, <2>5, <2>6 DEF t
<1>2. CASE action \in {ACTION_UNSUBSCRIBE, ACTION_MODIFY_PATCH}
  <2>1. s.currentState = STATE_SUBSCRIBED /\ Len(s.inFlight) > 0
    BY <1>2 DEF Effective, Good, ACTION_SUBSCRIBE, ACTION_UNSUBSCRIBE,
                ACTION_MODIFY_PATCH, ACTION_UNSUBSCRIBE_BY_TAG_PENDING
  <2>2. t = IF action = ACTION_UNSUBSCRIBE THEN unsubscribe(s) ELSE modifyPatch(s)
    BY <1>2 DEF Perform, ACTION_SUBSCRIBE, ACTION_UNSUBSCRIBE,
                ACTION_MODIFY_PATCH, ACTION_UNSUBSCRIBE_BY_TAG_PENDING
  <2>3. /\ Good(t) /\ t.becameReady = s.becameReady /\ t.queue = s.queue
        /\ t.currentState \in {STATE_UNSUBSCRIBE_REQUESTED, STATE_PATCH_REQUESTED}
    BY <2>1, <2>2, UnsubscribeGood, ModifyPatchGood
  <2>4. AfterPerform(t) = t
    BY <2>3 DEF AfterPerform, Transitioning, TRANSITIONING_STATES
  <2> HIDE DEF t
  <2>5. t.currentState # STATE_READY_FOR_UNSUBSCRIBE_BY_TAG
    BY <2>3 DEF STATE_UNSUBSCRIBE_REQUESTED, STATE_PATCH_REQUESTED,
                STATE_READY_FOR_UNSUBSCRIBE_BY_TAG
  <2> QED BY <2>3, <2>4, <2>5 DEF t, TagQueued
<1>3. CASE action = ACTION_UNSUBSCRIBE_BY_TAG_PENDING
  <2> DEFINE u == AfterPerform(t)
  <2>1. t = unsubscribeByTagPending(s)
    BY <1>3 DEF Perform, ACTION_SUBSCRIBE, ACTION_UNSUBSCRIBE,
                ACTION_MODIFY_PATCH, ACTION_UNSUBSCRIBE_BY_TAG_PENDING
  <2>2. /\ t \in SubscriptionRecords /\ t.becameReady
        /\ t.currentState = STATE_READY_FOR_UNSUBSCRIBE_BY_TAG
    BY <2>1 DEF Good, unsubscribeByTagPending, SubscriptionRecords, States
  <2> HIDE DEF t
  <2>3. u = [t EXCEPT !.queue = <<>>]
    BY <2>2 DEF AfterPerform, Transitioning, TRANSITIONING_STATES,
         STATE_READY_FOR_UNSUBSCRIBE_BY_TAG, STATE_SUBSCRIBE_REQUESTED,
         STATE_UNSUBSCRIBE_REQUESTED, STATE_PATCH_REQUESTED
  <2>4. /\ u \in SubscriptionRecords /\ u.becameReady /\ u.queue = <<>>
        /\ u.currentState = STATE_READY_FOR_UNSUBSCRIBE_BY_TAG
    <3>1. <<>> \in Seq(Items)
      OBVIOUS
    <3> QED BY <2>2, <2>3, <3>1 DEF SubscriptionRecords
  <2> HIDE DEF u
  <2>5. ~TagQueued(u)
    BY <2>4 DEF TagQueued, Holds
  <2>6. Good(u)
    BY <2>4, <2>5 DEF Good, STATE_READY_FOR_UNSUBSCRIBE_BY_TAG,
         STATE_SUBSCRIBE_REQUESTED, STATE_SUBSCRIBED,
         STATE_UNSUBSCRIBE_REQUESTED, STATE_PATCH_REQUESTED
  <2> QED BY <1>3, <2>4, <2>5, <2>6 DEF t, u
<1> QED BY <1>1, <1>2, <1>3 DEF Actions

(* The queue replaced by another that holds no more actions by tag.        *)
LEMMA QueueChange ==
    ASSUME NEW s, Good(s), NEW t, NEW q \in Seq(Items),
           t = [s EXCEPT !.queue = q],
           Holds(q, ACTION_UNSUBSCRIBE_BY_TAG_PENDING) => TagQueued(s)
    PROVE  /\ Good(t) /\ Leads(s, t) /\ t.queue = q
           /\ t.currentState = s.currentState
           /\ t.becameReady = s.becameReady
<1>1. /\ t \in SubscriptionRecords /\ t.queue = q /\ t.inFlight = s.inFlight
      /\ t.currentState = s.currentState /\ t.becameReady = s.becameReady
  BY DEF Good, SubscriptionRecords
<1> QED BY <1>1, Quiet DEF TagQueued

(* performAction over the queue leaves nothing that waits in vain.         *)
LEMMA PerformQueueGood ==
    ASSUME NEW s, Good(s)
    PROVE  Good(performQueue(s)) /\ Leads(s, performQueue(s))
<1> DEFINE order == DequeueOrder(s.queue)
           effective == {i \in DOMAIN order :
                            Effective(order[i].action, s.currentState)}
           first == Min(effective)
           rest == SubSeq(order, first + 1, Len(order))
           t == [s EXCEPT !.queue = rest]
           drained == [s EXCEPT !.queue = <<>>]
<1>1. s.queue \in Seq(Items)
  BY DEF Good, SubscriptionRecords
<1>2. /\ order \in Seq(Items)
      /\ \A a \in Actions : Holds(order, a) => Holds(s.queue, a)
  BY <1>1, DequeueOrderType
<1>3. performQueue(s) =
          IF effective = {} THEN drained
          ELSE AfterPerform(Perform(t, order[first].action))
  BY DEF performQueue
<1>4. CASE effective = {}
  <2>1. <<>> \in Seq(Items) /\ ~Holds(<<>>, ACTION_UNSUBSCRIBE_BY_TAG_PENDING)
    BY DEF Holds
  <2>2. Good(drained) /\ Leads(s, drained)
    BY <2>1, QueueChange
  <2> QED BY <1>3, <1>4, <2>2
<1>5. CASE effective # {}
  <2>1. DOMAIN order = 1..Len(order) /\ Len(order) \in Nat
    BY <1>2, LenProperties
  <2>2. first \in effective
    <3>1. effective \subseteq Nat
      BY <2>1
    <3> HIDE DEF effective
    <3> QED BY <1>5, <3>1, MinOf
  <2>3. /\ first \in 1..Len(order)
        /\ Effective(order[first].action, s.currentState)
    BY <2>1, <2>2
  <2> DEFINE a == order[first].action
  <2> HIDE DEF effective, first, order
  <2>4. a \in Actions /\ Holds(order, a)
    <3>1. order[first] \in Items
      BY <1>2, <2>3, ElementOfSeq
    <3> QED BY <2>1, <2>3, <3>1 DEF Items, Holds
  <2>5. /\ rest \in Seq(Items)
        /\ Holds(rest, ACTION_UNSUBSCRIBE_BY_TAG_PENDING) => TagQueued(s)
    <3>1. first + 1 \in Nat \ {0} /\ Len(order) \in 0..Len(order)
      BY <2>1, <2>3
    <3>2. ACTION_UNSUBSCRIBE_BY_TAG_PENDING \in Actions
      BY DEF Actions
    <3> QED BY <1>2, <3>1, <3>2, PartOfQueue DEF TagQueued
  <2> HIDE DEF rest
  <2>6. /\ Good(t) /\ Leads(s, t) /\ t.currentState = s.currentState
        /\ t.becameReady = s.becameReady
    BY <2>5, QueueChange
  <2> HIDE DEF t, a
  <2> DEFINE u == AfterPerform(Perform(t, a))
  <2>7. /\ Good(u) /\ (TagQueued(u) => TagQueued(t))
        /\ (t.becameReady => u.becameReady)
        /\ (u.becameReady =>
               t.becameReady \/ a = ACTION_UNSUBSCRIBE_BY_TAG_PENDING)
        /\ (isReadyForUnsubscribeByTag(u) => u.becameReady)
    BY <2>3, <2>4, <2>6, PerformGood DEF a
  <2>8. performQueue(s) = u
    BY <1>3, <1>5 DEF a, t, rest
  <2> HIDE DEF u
  <2>9. Leads(s, u)
    BY <1>2, <2>4, <2>6, <2>7 DEF Leads, TagQueued
  <2> QED BY <2>7, <2>8, <2>9
<1> QED BY <1>4, <1>5

(* performAction leaves nothing that waits in vain.                        *)
LEMMA PerformActionGood ==
    ASSUME NEW s, Good(s), NEW action \in Actions
    PROVE  /\ Good(performAction(s, action))
           /\ isReadyForUnsubscribeByTag(performAction(s, action)) =>
                  isReadyForUnsubscribeByTag(s)
                  \/ performAction(s, action).becameReady
           /\ action # ACTION_UNSUBSCRIBE_BY_TAG_PENDING =>
                  Leads(s, performAction(s, action))
<1>1. CASE Effective(action, s.currentState)
  BY <1>1, PerformGood DEF performAction, Leads
<1>2. CASE ~Effective(action, s.currentState)
  BY <1>2, PerformQueueGood DEF performAction, Leads
<1> QED BY <1>1, <1>2

(* Nor does onReadyToPerformNextAction.                                    *)
LEMMA ReadyToPerformGood ==
    ASSUME NEW s, Good(s)
    PROVE  /\ Good(onReadyToPerformNextAction(s))
           /\ Leads(s, onReadyToPerformNextAction(s))
<1>1. Leads(s, s)
  BY DEF Leads
<1>2. CASE ~s.connectionAvailable \/ isEmpty(s.queue)
  BY <1>1, <1>2 DEF onReadyToPerformNextAction
<1>3. CASE ~(~s.connectionAvailable \/ isEmpty(s.queue)) /\ Transitioning(s)
  <2> DEFINE q == dequeue(s.queue).rest
             t == [s EXCEPT !.queue = q]
  <2>1. s.queue \in Seq(Items) /\ s.queue # <<>>
    BY <1>3 DEF Good, SubscriptionRecords, isEmpty
  <2>2. /\ q \in Seq(Items)
        /\ Holds(q, ACTION_UNSUBSCRIBE_BY_TAG_PENDING) => TagQueued(s)
    BY <2>1, DequeueType DEF TagQueued, Actions
  <2>3. onReadyToPerformNextAction(s) = t
    BY <1>3 DEF onReadyToPerformNextAction
  <2> HIDE DEF q
  <2>4. Good(t) /\ Leads(s, t)
    BY <2>2, QueueChange
  <2> QED BY <2>3, <2>4
<1>4. CASE ~(~s.connectionAvailable \/ isEmpty(s.queue)) /\ ~Transitioning(s)
  BY <1>4, PerformQueueGood DEF onReadyToPerformNextAction
<1> QED BY <1>2, <1>3, <1>4

(* The way in of every caller.  Only an unsubscribe by tag can queue one.  *)
LEMMA TryPerformGood ==
    ASSUME NEW s, Good(s), NEW item \in Items,
           item.action = ACTION_UNSUBSCRIBE_BY_TAG_PENDING => ~s.becameReady
    PROVE  /\ Good(tryPerformAction(s, item))
           /\ isReadyForUnsubscribeByTag(tryPerformAction(s, item)) =>
                  isReadyForUnsubscribeByTag(s)
                  \/ tryPerformAction(s, item).becameReady
           /\ item.action # ACTION_UNSUBSCRIBE_BY_TAG_PENDING =>
                  Leads(s, tryPerformAction(s, item))
<1> DEFINE t == [s EXCEPT !.networkErrorSubscribingTimer = FALSE]
           q == enqueue(t.queue, item)
           u == [t EXCEPT !.queue = q]
<1>1. /\ t \in SubscriptionRecords /\ t.currentState = s.currentState
      /\ t.inFlight = s.inFlight /\ t.queue = s.queue
      /\ t.becameReady = s.becameReady
  BY DEF Good, SubscriptionRecords
<1>2. tryPerformAction(s, item) =
          IF ~t.connectionAvailable \/ Transitioning(t) THEN u
          ELSE performAction(t, item.action)
  BY DEF tryPerformAction
<1> HIDE DEF t
<1>3. Good(t) /\ Leads(s, t)
  BY <1>1, Quiet DEF TagQueued
<1>4. item.action \in Actions
  BY DEF Items
<1>5. CASE ~t.connectionAvailable \/ Transitioning(t)
  <2>1. t.queue \in Seq(Items)
    BY <1>1 DEF SubscriptionRecords
  <2>2. /\ q \in Seq(Items)
        /\ Holds(q, ACTION_UNSUBSCRIBE_BY_TAG_PENDING) =>
               \/ TagQueued(s)
               \/ item.action = ACTION_UNSUBSCRIBE_BY_TAG_PENDING
    BY <1>1, <2>1, EnqueueType DEF TagQueued, Actions
  <2> HIDE DEF q
  <2>3. /\ u \in SubscriptionRecords /\ u.currentState = s.currentState
        /\ u.inFlight = s.inFlight /\ u.queue = q
        /\ u.becameReady = s.becameReady
    BY <1>1, <2>2 DEF SubscriptionRecords
  <2> HIDE DEF u
  <2>4. /\ Good(u)
        /\ isReadyForUnsubscribeByTag(u) => isReadyForUnsubscribeByTag(s)
        /\ item.action # ACTION_UNSUBSCRIBE_BY_TAG_PENDING => Leads(s, u)
    BY <2>2, <2>3 DEF Good, Leads, TagQueued, isReadyForUnsubscribeByTag
  <2> QED BY <1>2, <1>5, <2>4
<1>6. CASE ~(~t.connectionAvailable \/ Transitioning(t))
  <2> DEFINE v == performAction(t, item.action)
  <2>1. /\ Good(v)
        /\ isReadyForUnsubscribeByTag(v) =>
               isReadyForUnsubscribeByTag(t) \/ v.becameReady
        /\ item.action # ACTION_UNSUBSCRIBE_BY_TAG_PENDING => Leads(t, v)
    BY <1>3, <1>4, PerformActionGood
  <2>2. tryPerformAction(s, item) = v
    BY <1>2, <1>6
  <2> HIDE DEF v
  <2>3. isReadyForUnsubscribeByTag(t) <=> isReadyForUnsubscribeByTag(s)
    BY <1>1 DEF isReadyForUnsubscribeByTag
  <2> QED BY <1>3, <2>1, <2>2, <2>3, LeadsOn
<1> QED BY <1>5, <1>6
-----------------------------------------------------------------------------
(* The handlers. *)
LEMMA ItemsOf ==
    /\ Item(ACTION_SUBSCRIBE) \in Items
    /\ Item(ACTION_SUBSCRIBE).action # ACTION_UNSUBSCRIBE_BY_TAG_PENDING
    /\ Item(ACTION_MODIFY_PATCH) \in Items
    /\ Item(ACTION_MODIFY_PATCH).action # ACTION_UNSUBSCRIBE_BY_TAG_PENDING
    /\ \A force \in BOOLEAN :
          /\ Unsubscribe(force) \in Items
          /\ Unsubscribe(force).action # ACTION_UNSUBSCRIBE_BY_TAG_PENDING
    /\ Item(ACTION_UNSUBSCRIBE_BY_TAG_PENDING) \in Items
    /\ Item(ACTION_UNSUBSCRIBE_BY_TAG_PENDING).action
           = ACTION_UNSUBSCRIBE_BY_TAG_PENDING
BY DEF Item, Unsubscribe, Items, Actions, ACTION_SUBSCRIBE, ACTION_UNSUBSCRIBE,
       ACTION_MODIFY_PATCH, ACTION_UNSUBSCRIBE_BY_TAG_PENDING

(* A subscription that is not called leads on from itself.                 *)
LEMMA StaysPut ==
    ASSUME NEW s
    PROVE  Leads(s, s)
BY DEF Leads

(* onSubscribe.                                                            *)
LEMMA OnSubscribeGood ==
    ASSUME NEW s, Good(s)
    PROVE  Good(onSubscribe(s)) /\ Leads(s, onSubscribe(s))
BY ItemsOf, StaysPut, TryPerformGood DEF onSubscribe

(* onUnsubscribe.                                                          *)
LEMMA OnUnsubscribeGood ==
    ASSUME NEW s, Good(s), NEW force \in BOOLEAN
    PROVE  Good(onUnsubscribe(s, force)) /\ Leads(s, onUnsubscribe(s, force))
BY ItemsOf, TryPerformGood DEF onUnsubscribe

(* A forced unsubscribe and a subscribe, as in onModify and reset.         *)
LEMMA ResubscribeGood ==
    ASSUME NEW s, Good(s)
    PROVE  /\ Good(onSubscribe(onUnsubscribe(s, TRUE)))
           /\ Leads(s, onSubscribe(onUnsubscribe(s, TRUE)))
<1> DEFINE t == onUnsubscribe(s, TRUE)
<1>1. Good(t) /\ Leads(s, t)
  BY OnUnsubscribeGood
<1> HIDE DEF t
<1>2. Good(onSubscribe(t)) /\ Leads(t, onSubscribe(t))
  BY <1>1, OnSubscribeGood
<1> QED BY <1>1, <1>2, LeadsOn DEF t

(* onModify.                                                               *)
LEMMA OnModifyGood ==
    ASSUME NEW s, Good(s)
    PROVE  Good(onModify(s)) /\ Leads(s, onModify(s))
BY ResubscribeGood, StaysPut DEF onModify

(* onModifyPatch.                                                          *)
LEMMA OnModifyPatchGood ==
    ASSUME NEW s, Good(s)
    PROVE  Good(onModifyPatch(s)) /\ Leads(s, onModifyPatch(s))
BY ItemsOf, StaysPut, TryPerformGood DEF onModifyPatch

(* onUnsubscribeByTagPending.                                              *)
LEMMA OnUnsubscribeByTagPendingGood ==
    ASSUME NEW s, Good(s), ~s.becameReady
    PROVE  /\ Good(onUnsubscribeByTagPending(s))
           /\ isReadyForUnsubscribeByTag(onUnsubscribeByTagPending(s)) =>
                  isReadyForUnsubscribeByTag(s)
                  \/ onUnsubscribeByTagPending(s).becameReady
BY ItemsOf, TryPerformGood DEF onUnsubscribeByTagPending

(* dispose.                                                                *)
LEMMA DisposeGood ==
    ASSUME NEW s, Good(s)
    PROVE  /\ Good(dispose(s)) /\ Leads(s, dispose(s))
           /\ dispose(s).becameReady = s.becameReady
           /\ dispose(s).currentState = s.currentState
<1> DEFINE t == dispose(s)
<1>1. /\ t \in SubscriptionRecords /\ t.currentState = s.currentState
      /\ t.inFlight = s.inFlight /\ t.queue = s.queue
      /\ t.becameReady = s.becameReady
  BY DEF Good, SubscriptionRecords, dispose
<1> HIDE DEF t
<1> QED BY <1>1, Quiet DEF TagQueued, t

(* onConnectionUnavailable.                                                *)
LEMMA OnConnectionUnavailableGood ==
    ASSUME NEW s, Good(s)
    PROVE  Good(onConnectionUnavailable(s)) /\ Leads(s, onConnectionUnavailable(s))
<1> DEFINE t == [s EXCEPT !.connectionAvailable = FALSE]
<1>1. /\ t \in SubscriptionRecords /\ t.currentState = s.currentState
      /\ t.inFlight = s.inFlight /\ t.queue = s.queue
      /\ t.becameReady = s.becameReady
  BY DEF Good, SubscriptionRecords
<1>2. onConnectionUnavailable(s) =
          IF s.networkErrorSubscribingTimer
          THEN tryPerformAction(t, Item(ACTION_SUBSCRIBE)) ELSE t
  BY DEF onConnectionUnavailable
<1> HIDE DEF t
<1>3. Good(t) /\ Leads(s, t)
  BY <1>1, Quiet DEF TagQueued
<1> QED BY <1>2, <1>3, ItemsOf, TryPerformGood, LeadsOn

(* onConnectionAvailable.                                                  *)
LEMMA OnConnectionAvailableGood ==
    ASSUME NEW s, Good(s)
    PROVE  Good(onConnectionAvailable(s)) /\ Leads(s, onConnectionAvailable(s))
<1> DEFINE t == [s EXCEPT !.connectionAvailable = TRUE]
<1>1. /\ t \in SubscriptionRecords /\ t.currentState = s.currentState
      /\ t.inFlight = s.inFlight /\ t.queue = s.queue
      /\ t.becameReady = s.becameReady
  BY DEF Good, SubscriptionRecords
<1>2. onConnectionAvailable(s) =
          IF Transitioning(t) THEN t ELSE onReadyToPerformNextAction(t)
  BY DEF onConnectionAvailable
<1> HIDE DEF t
<1>3. Good(t) /\ Leads(s, t)
  BY <1>1, Quiet DEF TagQueued
<1> QED BY <1>2, <1>3, ReadyToPerformGood, LeadsOn

(* A reset of a subscription with a PATCH in flight is a step from the     *)
(* subscribed state.                                                       *)
LEMMA ResetGood ==
    ASSUME NEW s, Good(s)
    PROVE  Good(reset(s)) /\ Leads(s, reset(s))
<1>1. CASE s.currentState = STATE_PATCH_REQUESTED
  <2> DEFINE t == [s EXCEPT !.currentState = STATE_SUBSCRIBED]
  <2>1. reset(s) = onSubscribe(onUnsubscribe(t, TRUE))
    BY <1>1 DEF reset, STATE_PATCH_REQUESTED, STATE_SUBSCRIBE_REQUESTED,
                STATE_SUBSCRIBED
  <2>2. /\ t \in SubscriptionRecords /\ t.currentState = STATE_SUBSCRIBED
        /\ t.inFlight = s.inFlight /\ t.queue = s.queue
        /\ t.becameReady = s.becameReady /\ Len(t.inFlight) > 0
    BY <1>1 DEF Good, SubscriptionRecords, States
  <2> HIDE DEF t
  <2>3. Good(t) /\ Leads(s, t)
    BY <2>2, NotWaiting DEF Good
  <2> QED BY <2>1, <2>3, ResubscribeGood, LeadsOn
<1>2. CASE s.currentState # STATE_PATCH_REQUESTED
  <2>1. reset(s) = s \/ reset(s) = onSubscribe(onUnsubscribe(s, TRUE))
    BY <1>2 DEF reset
  <2> QED BY <2>1, ResubscribeGood, StaysPut
<1> QED BY <1>1, <1>2

(* onStreamingData.                                                        *)
LEMMA OnStreamingDataGood ==
    ASSUME NEW s, Good(s), NEW parses \in BOOLEAN
    PROVE  Good(onStreamingData(s, parses)) /\ Leads(s, onStreamingData(s, parses))
<1> DEFINE b == IF parses /\ s.updatesBeforeSubscribed # "bad"
                THEN "good" ELSE "bad"
           t == [s EXCEPT !.updatesBeforeSubscribed = b]
           u == [s EXCEPT !.deltaRef = referenceId(s)]
<1>1. /\ t \in SubscriptionRecords /\ t.currentState = s.currentState
      /\ t.inFlight = s.inFlight /\ t.queue = s.queue
      /\ t.becameReady = s.becameReady
  BY DEF Good, SubscriptionRecords, Buffers
<1>2. /\ u \in SubscriptionRecords /\ u.currentState = s.currentState
      /\ u.inFlight = s.inFlight /\ u.queue = s.queue
      /\ u.becameReady = s.becameReady
  <2>1. referenceId(s) \in Nat
    BY LenProperties DEF Good, SubscriptionRecords, referenceId
  <2> QED BY <2>1 DEF Good, SubscriptionRecords
<1>3. \/ onStreamingData(s, parses) = s
      \/ onStreamingData(s, parses) = t
      \/ onStreamingData(s, parses) = u
      \/ onStreamingData(s, parses) = reset(s)
  BY DEF onStreamingData
<1> HIDE DEF t, u
<1>4. Good(t) /\ Leads(s, t) /\ Good(u) /\ Leads(s, u)
  BY <1>1, <1>2, Quiet DEF TagQueued
<1> QED BY <1>3, <1>4, ResetGood, StaysPut

(* A call from inside a callback.                                          *)
LEMMA ConsumerCallGood ==
    ASSUME NEW s, Good(s), NEW call
    PROVE  Good(ConsumerCall(s, call)) /\ Leads(s, ConsumerCall(s, call))
<1>1. \/ ConsumerCall(s, call) = onSubscribe(s)
      \/ ConsumerCall(s, call) = onUnsubscribe(s, FALSE)
      \/ ConsumerCall(s, call) = onModify(s)
      \/ ConsumerCall(s, call) = onModifyPatch(s)
      \/ ConsumerCall(s, call) = s
  BY DEF ConsumerCall
<1> QED BY <1>1, OnSubscribeGood, OnUnsubscribeGood, OnModifyGood,
           OnModifyPatchGood, StaysPut

(* The snapshot, what the consumer calls then, and the buffered updates.   *)
LEMMA DeliverGood ==
    ASSUME NEW s, Good(s), NEW call
    PROVE  Good(Deliver(s, call)) /\ Leads(s, Deliver(s, call))
<1> DEFINE t == [s EXCEPT !.snapshotRef = referenceId(s)]
           u == ConsumerCall(t, call)
           good == u.updatesBeforeSubscribed = "good"
<1>1. /\ t \in SubscriptionRecords /\ t.currentState = s.currentState
      /\ t.inFlight = s.inFlight /\ t.queue = s.queue
      /\ t.becameReady = s.becameReady
  <2>1. referenceId(s) \in Nat
    BY LenProperties DEF Good, SubscriptionRecords, referenceId
  <2> QED BY <2>1 DEF Good, SubscriptionRecords
<1>2. \/ Deliver(s, call) = u
      \/ Deliver(s, call) = onStreamingData(u, good)
  BY DEF Deliver
<1> HIDE DEF t
<1>3. Good(t) /\ Leads(s, t)
  BY <1>1, Quiet DEF TagQueued
<1>4. Good(u) /\ Leads(t, u)
  BY <1>3, ConsumerCallGood
<1>5. good \in BOOLEAN
  OBVIOUS
<1> HIDE DEF u, good
<1>6. Good(onStreamingData(u, good)) /\ Leads(u, onStreamingData(u, good))
  BY <1>4, <1>5, OnStreamingDataGood
<1> QED BY <1>2, <1>3, <1>4, <1>6, LeadsOn

(* A request of the current reference id has been answered, or one of an   *)
(* earlier id, which leaves the subscription as it was.                    *)
Answered(s, r) ==
    /\ s \in SubscriptionRecords
    /\ Len(s.inFlight) > 0
    /\ s.becameReady => ~TagQueued(s)
    /\ r # referenceId(s) => Good(s)

(* onSubscribeSuccess.                                                     *)
LEMMA OnSubscribeSuccessGood ==
    ASSUME NEW s, NEW r, NEW call, Answered(s, r)
    PROVE  /\ Good(onSubscribeSuccess(s, r, call))
           /\ Leads(s, onSubscribeSuccess(s, r, call))
<1> DEFINE t == [s EXCEPT !.currentState = STATE_SUBSCRIBED]
           u == IF WillUnsubscribe(t) THEN t ELSE Deliver(t, call)
           v == [u EXCEPT !.updatesBeforeSubscribed = "none"]
<1>1. /\ t \in SubscriptionRecords /\ t.currentState = STATE_SUBSCRIBED
      /\ t.inFlight = s.inFlight /\ t.queue = s.queue
      /\ t.becameReady = s.becameReady
  BY DEF Answered, SubscriptionRecords, States
<1>2. \/ r # referenceId(s) /\ onSubscribeSuccess(s, r, call) = s
      \/ onSubscribeSuccess(s, r, call) = onReadyToPerformNextAction(v)
  BY DEF onSubscribeSuccess
<1> HIDE DEF t
<1>3. Good(t) /\ Leads(s, t)
  BY <1>1, NotWaiting DEF Answered
<1>4. Good(u) /\ Leads(t, u)
  BY <1>3, DeliverGood, StaysPut
<1> HIDE DEF u
<1>5. /\ v \in SubscriptionRecords /\ v.currentState = u.currentState
      /\ v.inFlight = u.inFlight /\ v.queue = u.queue
      /\ v.becameReady = u.becameReady
  BY <1>4 DEF Good, SubscriptionRecords, Buffers
<1> HIDE DEF v
<1>6. Good(v) /\ Leads(u, v)
  BY <1>4, <1>5, Quiet DEF TagQueued
<1>7. /\ Good(onReadyToPerformNextAction(v))
      /\ Leads(v, onReadyToPerformNextAction(v))
  BY <1>6, ReadyToPerformGood
<1>8. Leads(s, u)
  BY <1>3, <1>4, LeadsOn
<1>9. Leads(s, onReadyToPerformNextAction(v))
  BY <1>6, <1>7, <1>8, LeadsOn
<1> QED BY <1>2, <1>4, <1>7, <1>8, <1>9, StaysPut DEF Answered

(* The timer after a network error.                                        *)
LEMMA StartTimerGood ==
    ASSUME NEW s, Good(s)
    PROVE  Good(startTimer(s)) /\ Leads(s, startTimer(s))
<1> DEFINE n == IF s.networkErrorSubscribingTimer
                THEN s.lostTimers + 1 ELSE s.lostTimers
           t == startTimer(s)
<1>1. /\ t \in SubscriptionRecords /\ t.currentState = s.currentState
      /\ t.inFlight = s.inFlight /\ t.queue = s.queue
      /\ t.becameReady = s.becameReady
  <2>1. n \in Nat
    BY DEF Good, SubscriptionRecords
  <2>2. t = [s EXCEPT !.networkErrorSubscribingTimer = TRUE, !.lostTimers = n]
    BY DEF startTimer
  <2> HIDE DEF n, t
  <2> QED BY <2>1, <2>2 DEF Good, SubscriptionRecords
<1> HIDE DEF t
<1> QED BY <1>1, Quiet DEF TagQueued, t

(* onSubscribeError.                                                       *)
LEMMA OnSubscribeErrorGood ==
    ASSUME NEW s, NEW r, NEW response, Answered(s, r)
    PROVE  /\ Good(onSubscribeError(s, r, response))
           /\ Leads(s, onSubscribeError(s, r, response))
<1> DEFINE p == s.protobuf /\ response # "unsupportedFormat"
           t == [s EXCEPT !.currentState = STATE_UNSUBSCRIBED, !.protobuf = p]
<1>1. /\ t \in SubscriptionRecords /\ t.currentState = STATE_UNSUBSCRIBED
      /\ t.queue = s.queue /\ t.becameReady = s.becameReady
  BY DEF Answered, SubscriptionRecords, States
<1>2. \/ r # referenceId(s) /\ onSubscribeError(s, r, response) = s
      \/ onSubscribeError(s, r, response) = tryPerformAction(t, Item(ACTION_SUBSCRIBE))
      \/ onSubscribeError(s, r, response) = startTimer(t)
      \/ onSubscribeError(s, r, response) = onReadyToPerformNextAction(t)
  BY DEF onSubscribeError
<1> HIDE DEF t
<1>3. Good(t) /\ Leads(s, t)
  BY <1>1, NotWaiting
  DEF Answered, STATE_UNSUBSCRIBED, STATE_SUBSCRIBED
<1>4. /\ Good(tryPerformAction(t, Item(ACTION_SUBSCRIBE)))
      /\ Leads(t, tryPerformAction(t, Item(ACTION_SUBSCRIBE)))
  BY <1>3, ItemsOf, TryPerformGood
<1>5. Good(startTimer(t)) /\ Leads(t, startTimer(t))
  BY <1>3, StartTimerGood
<1>6. Good(onReadyToPerformNextAction(t)) /\ Leads(t, onReadyToPerformNextAction(t))
  BY <1>3, ReadyToPerformGood
<1> QED BY <1>2, <1>3, <1>4, <1>5, <1>6, LeadsOn, StaysPut DEF Answered

(* The timer fires.                                                        *)
LEMMA TimeoutGood ==
    ASSUME NEW s, Good(s)
    PROVE  Good(onNetworkErrorTimeout(s)) /\ Leads(s, onNetworkErrorTimeout(s))
<1> DEFINE t == [s EXCEPT !.networkErrorSubscribingTimer = FALSE]
<1>1. /\ t \in SubscriptionRecords /\ t.currentState = s.currentState
      /\ t.inFlight = s.inFlight /\ t.queue = s.queue
      /\ t.becameReady = s.becameReady
  BY DEF Good, SubscriptionRecords
<1>2. onNetworkErrorTimeout(s) = tryPerformAction(t, Item(ACTION_SUBSCRIBE))
  BY DEF onNetworkErrorTimeout
<1> HIDE DEF t
<1>3. Good(t) /\ Leads(s, t)
  BY <1>1, Quiet DEF TagQueued
<1> QED BY <1>2, <1>3, ItemsOf, TryPerformGood, LeadsOn

(* A timer whose handle was lost fires.                                    *)
LEMMA LostTimeoutGood ==
    ASSUME NEW s, Good(s), s.lostTimers > 0
    PROVE  Good(onLostTimeout(s)) /\ Leads(s, onLostTimeout(s))
<1> DEFINE n == IF s.networkErrorSubscribingTimer
                THEN s.lostTimers ELSE s.lostTimers - 1
           t == [s EXCEPT !.lostTimers = n]
<1>1. n \in Nat
  BY DEF Good, SubscriptionRecords
<1>2. onLostTimeout(s) = onNetworkErrorTimeout(t)
  BY DEF onLostTimeout
<1> HIDE DEF n
<1>3. /\ t \in SubscriptionRecords /\ t.currentState = s.currentState
      /\ t.inFlight = s.inFlight /\ t.queue = s.queue
      /\ t.becameReady = s.becameReady
  BY <1>1 DEF Good, SubscriptionRecords
<1> HIDE DEF t
<1>4. Good(t) /\ Leads(s, t)
  BY <1>3, Quiet DEF TagQueued
<1> QED BY <1>2, <1>4, TimeoutGood, LeadsOn

(* The response to a DELETE.                                               *)
LEMMA OnUnsubscribeResponseGood ==
    ASSUME NEW s, NEW r, Answered(s, r)
    PROVE  /\ Good(onUnsubscribeResponse(s, r))
           /\ Leads(s, onUnsubscribeResponse(s, r))
<1> DEFINE t == [s EXCEPT !.currentState = STATE_UNSUBSCRIBED]
<1>1. /\ t \in SubscriptionRecords /\ t.currentState = STATE_UNSUBSCRIBED
      /\ t.queue = s.queue /\ t.becameReady = s.becameReady
  BY DEF Answered, SubscriptionRecords, States
<1>2. \/ r # referenceId(s) /\ onUnsubscribeResponse(s, r) = s
      \/ onUnsubscribeResponse(s, r) = onReadyToPerformNextAction(t)
  BY DEF onUnsubscribeResponse
<1> HIDE DEF t
<1>3. Good(t) /\ Leads(s, t)
  BY <1>1, NotWaiting DEF Answered, STATE_UNSUBSCRIBED, STATE_SUBSCRIBED
<1>4. Good(onReadyToPerformNextAction(t)) /\ Leads(t, onReadyToPerformNextAction(t))
  BY <1>3, ReadyToPerformGood
<1> QED BY <1>2, <1>3, <1>4, LeadsOn, StaysPut DEF Answered

(* The response to a PATCH.                                                *)
LEMMA OnModifyPatchResponseGood ==
    ASSUME NEW s, NEW r, Answered(s, r)
    PROVE  /\ Good(onModifyPatchResponse(s, r))
           /\ Leads(s, onModifyPatchResponse(s, r))
<1> DEFINE t == [s EXCEPT !.currentState = STATE_SUBSCRIBED]
<1>1. /\ t \in SubscriptionRecords /\ t.currentState = STATE_SUBSCRIBED
      /\ t.queue = s.queue /\ t.becameReady = s.becameReady
      /\ Len(t.inFlight) > 0
  BY DEF Answered, SubscriptionRecords, States
<1>2. \/ r # referenceId(s) /\ onModifyPatchResponse(s, r) = s
      \/ onModifyPatchResponse(s, r) = onReadyToPerformNextAction(t)
  BY DEF onModifyPatchResponse
<1> HIDE DEF t
<1>3. Good(t) /\ Leads(s, t)
  BY <1>1, NotWaiting DEF Answered
<1>4. Good(onReadyToPerformNextAction(t)) /\ Leads(t, onReadyToPerformNextAction(t))
  BY <1>3, ReadyToPerformGood
<1> QED BY <1>2, <1>3, <1>4, LeadsOn, StaysPut DEF Answered

(* After the DELETE by tag the subscription is ready no more, unless the   *)
(* queue makes it ready again.                                             *)
LEMMA OnUnsubscribeByTagCompleteGood ==
    ASSUME NEW s, Good(s)
    PROVE  /\ Good(onUnsubscribeByTagComplete(s))
           /\ Leads(s, onUnsubscribeByTagComplete(s))
           /\ isReadyForUnsubscribeByTag(onUnsubscribeByTagComplete(s)) =>
                  onUnsubscribeByTagComplete(s).becameReady
<1> DEFINE t == [s EXCEPT !.currentState = STATE_UNSUBSCRIBED]
<1>1. /\ t \in SubscriptionRecords /\ t.currentState = STATE_UNSUBSCRIBED
      /\ t.queue = s.queue /\ t.becameReady = s.becameReady
  BY DEF Good, SubscriptionRecords, States
<1>2. onUnsubscribeByTagComplete(s) = onReadyToPerformNextAction(t)
  BY DEF onUnsubscribeByTagComplete
<1> HIDE DEF t
<1>3. Good(t) /\ Leads(s, t) /\ ~isReadyForUnsubscribeByTag(t)
  BY <1>1, NotWaiting
  DEF Good, STATE_UNSUBSCRIBED, STATE_SUBSCRIBED,
      isReadyForUnsubscribeByTag, STATE_READY_FOR_UNSUBSCRIBE_BY_TAG
<1>4. Good(onReadyToPerformNextAction(t)) /\ Leads(t, onReadyToPerformNextAction(t))
  BY <1>3, ReadyToPerformGood
<1>5. Leads(s, onReadyToPerformNextAction(t))
  BY <1>3, <1>4, LeadsOn
<1>6. isReadyForUnsubscribeByTag(onReadyToPerformNextAction(t)) =>
          onReadyToPerformNextAction(t).becameReady
  BY <1>3, <1>4 DEF Leads
<1> QED BY <1>2, <1>4, <1>5, <1>6

(* A response that arrives was waited for, and is the only thing that      *)
(* changes.                                                                *)
LEMMA ReceivedAnswered ==
    ASSUME NEW s, Good(s), NEW r \in 1..Len(s.inFlight), NEW k \in RequestKinds,
           s.inFlight[r][k] > 0
    PROVE  /\ Answered(Count(s, r, k, -1), r)
           /\ Leads(s, Count(s, r, k, -1))
           /\ Count(s, r, k, -1).becameReady = s.becameReady
<1>1. s \in SubscriptionRecords /\ s.inFlight \in Seq([RequestKinds -> Nat])
  BY DEF Good, SubscriptionRecords
<1>2. s.inFlight[r][k] \in Nat
  <2>1. s.inFlight[r] \in [RequestKinds -> Nat]
    BY <1>1, ElementOfSeq
  <2> QED BY <2>1
<1>3. s.inFlight[r][k] + (-1) \in Nat /\ -1 \in Int
  BY <1>2
<1> DEFINE t == Count(s, r, k, -1)
<1>4. /\ t \in SubscriptionRecords
      /\ t.currentState = s.currentState
      /\ t.queue = s.queue
      /\ t.becameReady = s.becameReady
      /\ Len(t.inFlight) = Len(s.inFlight)
      /\ \A i \in 1..Len(s.inFlight) \ {r} : t.inFlight[i] = s.inFlight[i]
  BY <1>1, <1>3, CountType
<1> HIDE DEF t
<1>5. Len(s.inFlight) \in Nat /\ Len(s.inFlight) > 0
  BY <1>1, LenProperties
<1>6. ASSUME r # referenceId(t)
      PROVE  Good(t)
  <2>1. Len(s.inFlight) \in 1..Len(s.inFlight) \ {r}
    BY <1>4, <1>5, <1>6 DEF referenceId
  <2>2. t.inFlight[Len(t.inFlight)] = s.inFlight[Len(s.inFlight)]
    BY <1>4, <2>1
  <2> QED BY <1>4, <2>2 DEF Good, TagQueued
<1>7. Answered(t, r)
  BY <1>4, <1>5, <1>6 DEF Answered, Good, TagQueued
<1>8. Leads(s, t)
  BY <1>4 DEF Leads, TagQueued, isReadyForUnsubscribeByTag
<1> QED BY <1>4, <1>7, <1>8 DEF t
-----------------------------------------------------------------------------
(* What the actions leave alone. *)
Keeps(s, t) ==
    /\ t.isDisposed = s.isDisposed
    /\ t.connectionAvailable = s.connectionAvailable
    /\ t.networkErrorSubscribingTimer => s.networkErrorSubscribingTimer
    /\ t.lostTimers = s.lostTimers
    /\ t.protobuf = s.protobuf
    /\ t.updatesBeforeSubscribed \in {s.updatesBeforeSubscribed, "none"}
    /\ t.snapshotRef = s.snapshotRef
    /\ t.deltaRef = s.deltaRef

(* At most one request is sent, and only by a subscription that waits for  *)
(* nothing, not even for the connection or for a call by tag.              *)
Sends(s, t) ==
    \/ t.currentState = s.currentState /\ t.inFlight = s.inFlight
    \/ /\ s.connectionAvailable
       /\ \/ /\ s.currentState \in {STATE_SUBSCRIBED, STATE_UNSUBSCRIBED}
             /\ isReadyForUnsubscribeByTag(t) /\ t.inFlight = s.inFlight
          \/ /\ s.currentState = STATE_UNSUBSCRIBED
             /\ t.currentState = STATE_SUBSCRIBE_REQUESTED
             /\ t.inFlight = subscribe(s).inFlight
          \/ /\ s.currentState = STATE_SUBSCRIBED
             /\ t.currentState = STATE_UNSUBSCRIBE_REQUESTED
             /\ t.inFlight = unsubscribe(s).inFlight
          \/ /\ s.currentState = STATE_SUBSCRIBED
             /\ t.currentState = STATE_PATCH_REQUESTED
             /\ t.inFlight = modifyPatch(s).inFlight

(* Only the given actions, and those already queued, are queued or done.   *)
Does(s, t, actions) ==
    /\ \A a \in Actions : Holds(t.queue, a) => Holds(s.queue, a) \/ a \in actions
    /\ t.currentState = STATE_SUBSCRIBE_REQUESTED =>
           \/ s.currentState = STATE_SUBSCRIBE_REQUESTED
           \/ Holds(s.queue, ACTION_SUBSCRIBE) \/ ACTION_SUBSCRIBE \in actions
    /\ t.currentState = STATE_PATCH_REQUESTED =>
           \/ s.currentState = STATE_PATCH_REQUESTED
           \/ Holds(s.queue, ACTION_MODIFY_PATCH) \/ ACTION_MODIFY_PATCH \in actions
    /\ isReadyForUnsubscribeByTag(t) =>
           \/ isReadyForUnsubscribeByTag(s)
           \/ Holds(s.queue, ACTION_UNSUBSCRIBE_BY_TAG_PENDING)
           \/ ACTION_UNSUBSCRIBE_BY_TAG_PENDING \in actions
    /\ t.becameReady => s.becameReady \/ isReadyForUnsubscribeByTag(t)
    /\ s.becameReady => t.becameReady
    /\ TagAtHead(s.queue) => TagAtHead(t.queue)
    /\ OnlyOnOff(s.queue) /\ actions \subseteq {ACTION_SUBSCRIBE, ACTION_UNSUBSCRIBE}
           => OnlyOnOff(t.queue)

Acts(s, t, actions) == Keeps(s, t) /\ Sends(s, t) /\ Does(s, t, actions)

(* The six states differ, STATE_READY_FOR_UNSUBSCRIBE_BY_TAG although it   *)
(* has no value of its own.                                                *)
LEMMA StateNames ==
    /\ STATE_SUBSCRIBE_REQUESTED \notin {STATE_SUBSCRIBED, STATE_UNSUBSCRIBE_REQUESTED,
           STATE_UNSUBSCRIBED, STATE_PATCH_REQUESTED, STATE_READY_FOR_UNSUBSCRIBE_BY_TAG}
    /\ STATE_SUBSCRIBED \notin {STATE_UNSUBSCRIBE_REQUESTED, STATE_UNSUBSCRIBED,
           STATE_PATCH_REQUESTED, STATE_READY_FOR_UNSUBSCRIBE_BY_TAG}
    /\ STATE_UNSUBSCRIBE_REQUESTED \notin {STATE_UNSUBSCRIBED,
           STATE_PATCH_REQUESTED, STATE_READY_FOR_UNSUBSCRIBE_BY_TAG}
    /\ STATE_UNSUBSCRIBED \notin {STATE_PATCH_REQUESTED,
           STATE_READY_FOR_UNSUBSCRIBE_BY_TAG}
    /\ STATE_PATCH_REQUESTED # STATE_READY_FOR_UNSUBSCRIBE_BY_TAG
BY DEF STATE_SUBSCRIBE_REQUESTED, STATE_SUBSCRIBED, STATE_UNSUBSCRIBE_REQUESTED,
       STATE_UNSUBSCRIBED, STATE_PATCH_REQUESTED, STATE_READY_FOR_UNSUBSCRIBE_BY_TAG

(* Two steps that each send at most one request send at most one together: *)
(* after the first the subscription waits.                                 *)
LEMMA SendsOn ==
    ASSUME NEW s \in SubscriptionRecords, NEW t \in SubscriptionRecords, NEW u,
           t.connectionAvailable = s.connectionAvailable,
           Sends(s, t), Sends(t, u)
    PROVE  Sends(s, u)
<1>1. CASE t.currentState = s.currentState /\ t.inFlight = s.inFlight
  <2>1. /\ subscribe(t).inFlight = subscribe(s).inFlight
        /\ unsubscribe(t).inFlight = unsubscribe(s).inFlight
        /\ modifyPatch(t).inFlight = modifyPatch(s).inFlight
    BY <1>1 DEF subscribe, unsubscribe, modifyPatch, Count, referenceId,
         SubscriptionRecords
  <2> QED BY <1>1, <2>1 DEF Sends
<1>2. CASE ~(t.currentState = s.currentState /\ t.inFlight = s.inFlight)
  <2>1. t.currentState \in {STATE_READY_FOR_UNSUBSCRIBE_BY_TAG,
            STATE_SUBSCRIBE_REQUESTED, STATE_UNSUBSCRIBE_REQUESTED,
            STATE_PATCH_REQUESTED}
    BY <1>2 DEF Sends, isReadyForUnsubscribeByTag
  <2>2. u.currentState = t.currentState /\ u.inFlight = t.inFlight
    BY <2>1, StateNames DEF Sends
  <2> QED BY <2>2 DEF Sends, isReadyForUnsubscribeByTag
<1> QED BY <1>1, <1>2

(* A subscription that is ready for unsubscribe by tag does nothing before *)
(* it is answered.                                                         *)
LEMMA StaysReady ==
    ASSUME NEW s, NEW t, Sends(s, t), isReadyForUnsubscribeByTag(s)
    PROVE  isReadyForUnsubscribeByTag(t)
BY StateNames DEF Sends, isReadyForUnsubscribeByTag

(* What two steps do, they do in a row.                                    *)
LEMMA DoesOn ==
    ASSUME NEW s, NEW t, NEW u, NEW A, NEW B, NEW C, A \subseteq C, B \subseteq C,
           Does(s, t, A), Does(t, u, B),
           isReadyForUnsubscribeByTag(t) => isReadyForUnsubscribeByTag(u)
    PROVE  Does(s, u, C)
<1>1. /\ ACTION_SUBSCRIBE \in Actions /\ ACTION_MODIFY_PATCH \in Actions
      /\ ACTION_UNSUBSCRIBE_BY_TAG_PENDING \in Actions
  BY DEF Actions
<1>2. isReadyForUnsubscribeByTag(t) => isReadyForUnsubscribeByTag(u)
  OBVIOUS
<1>3. \A a \in Actions : Holds(u.queue, a) => Holds(s.queue, a) \/ a \in C
  BY DEF Does
<1>4. u.currentState = STATE_SUBSCRIBE_REQUESTED =>
         \/ s.currentState = STATE_SUBSCRIBE_REQUESTED
         \/ Holds(s.queue, ACTION_SUBSCRIBE) \/ ACTION_SUBSCRIBE \in C
  BY <1>1 DEF Does
<1>5. u.currentState = STATE_PATCH_REQUESTED =>
         \/ s.currentState = STATE_PATCH_REQUESTED
         \/ Holds(s.queue, ACTION_MODIFY_PATCH) \/ ACTION_MODIFY_PATCH \in C
  BY <1>1 DEF Does
<1>6. isReadyForUnsubscribeByTag(u) =>
         \/ isReadyForUnsubscribeByTag(s)
         \/ Holds(s.queue, ACTION_UNSUBSCRIBE_BY_TAG_PENDING)
         \/ ACTION_UNSUBSCRIBE_BY_TAG_PENDING \in C
  BY <1>1 DEF Does
<1>7. /\ u.becameReady => s.becameReady \/ isReadyForUnsubscribeByTag(u)
      /\ s.becameReady => u.becameReady
      /\ TagAtHead(s.queue) => TagAtHead(u.queue)
      /\ OnlyOnOff(s.queue) /\ C \subseteq {ACTION_SUBSCRIBE, ACTION_UNSUBSCRIBE}
             => OnlyOnOff(u.queue)
  BY <1>2 DEF Does
<1> QED BY <1>3, <1>4, <1>5, <1>6, <1>7 DEF Does

(* Acts composes.                                                          *)
LEMMA ActsOn ==
    ASSUME NEW s \in SubscriptionRecords, NEW t \in SubscriptionRecords, NEW u,
           NEW A, NEW B, NEW C, A \subseteq C, B \subseteq C,
           Acts(s, t, A), Acts(t, u, B)
    PROVE  Acts(s, u, C)
<1>1. Keeps(s, u)
  BY DEF Acts, Keeps
<1>2. Sends(s, u)
  BY SendsOn DEF Acts, Keeps
<1>3. Does(s, u, C)
  BY DoesOn, StaysReady DEF Acts
<1> QED BY <1>1, <1>2, <1>3 DEF Acts

(* The same of a handler that also tells the consumer something. *)
Moves(s, t, actions) ==
    /\ t.isDisposed = s.isDisposed
    /\ t.connectionAvailable = s.connectionAvailable
    /\ t.networkErrorSubscribingTimer => s.networkErrorSubscribingTimer
    /\ t.lostTimers = s.lostTimers
    /\ Sends(s, t)
    /\ Does(s, t, actions)

(* An action is a move, and may be seen as one of more actions.            *)
LEMMA ActsMoves ==
    ASSUME NEW s, NEW t, NEW A, NEW B, A \subseteq B, Acts(s, t, A)
    PROVE  Moves(s, t, B)
BY DEF Acts, Keeps, Does, Moves

(* Moves composes.                                                         *)
LEMMA MovesOn ==
    ASSUME NEW s \in SubscriptionRecords, NEW t \in SubscriptionRecords, NEW u,
           NEW A, NEW B, NEW C, A \subseteq C, B \subseteq C,
           Moves(s, t, A), Moves(t, u, B)
    PROVE  Moves(s, u, C)
<1>1. Sends(s, u)
  BY SendsOn DEF Moves
<1>2. Does(s, u, C)
  BY DoesOn, StaysReady DEF Moves
<1> QED BY <1>1, <1>2 DEF Moves

(* To do nothing is to act.                                                *)
LEMMA ActsNot ==
    ASSUME NEW s
    PROVE  Acts(s, s, {})
BY DEF Acts, Keeps, Sends, Does

(* A subscription that may act has no queue left, but for one that is to   *)
(* try again after a network error.                                        *)
Served(s) ==
    s.connectionAvailable /\ ~Transitioning(s) /\ s.queue # <<>> =>
        /\ s.currentState = STATE_UNSUBSCRIBED
        /\ s.networkErrorSubscribingTimer
        /\ ~WillUnsubscribe(s)

(* To change the queue, with nothing new in it, is to act.                 *)
LEMMA QueueActs ==
    ASSUME NEW s \in SubscriptionRecords, NEW q \in Seq(Items), NEW t, NEW A,
           t = [s EXCEPT !.queue = q],
           \A a \in Actions : Holds(q, a) => Holds(s.queue, a) \/ a \in A,
           TagAtHead(s.queue) => TagAtHead(q),
           OnlyOnOff(s.queue) /\ A \subseteq {ACTION_SUBSCRIBE, ACTION_UNSUBSCRIBE}
               => OnlyOnOff(q)
    PROVE  Acts(s, t, A)
<1>1. /\ t.queue = q /\ t.currentState = s.currentState /\ t.inFlight = s.inFlight
      /\ t.isDisposed = s.isDisposed /\ t.connectionAvailable = s.connectionAvailable
      /\ t.networkErrorSubscribingTimer = s.networkErrorSubscribingTimer
      /\ t.lostTimers = s.lostTimers /\ t.protobuf = s.protobuf
      /\ t.updatesBeforeSubscribed = s.updatesBeforeSubscribed
      /\ t.snapshotRef = s.snapshotRef /\ t.deltaRef = s.deltaRef
      /\ t.becameReady = s.becameReady
  BY DEF SubscriptionRecords
<1> QED BY <1>1 DEF Acts, Keeps, Sends, Does, isReadyForUnsubscribeByTag

(* subscribe sends a POST.                                                 *)
LEMMA SubscribeActs ==
    ASSUME NEW s \in SubscriptionRecords, s.currentState = STATE_UNSUBSCRIBED, s.connectionAvailable
    PROVE  Acts(s, subscribe(s), {ACTION_SUBSCRIBE})
<1> DEFINE f == subscribe(s).inFlight
           t == subscribe(s)
<1>1. /\ t.queue = s.queue /\ t.currentState = STATE_SUBSCRIBE_REQUESTED
      /\ t.isDisposed = s.isDisposed /\ t.connectionAvailable = s.connectionAvailable
      /\ t.networkErrorSubscribingTimer = s.networkErrorSubscribingTimer
      /\ t.lostTimers = s.lostTimers /\ t.protobuf = s.protobuf
      /\ t.updatesBeforeSubscribed = "none"
      /\ t.snapshotRef = s.snapshotRef /\ t.deltaRef = s.deltaRef
      /\ t.becameReady = s.becameReady
  BY DEF SubscriptionRecords, subscribe
<1> HIDE DEF t
<1> QED BY <1>1, StateNames DEF Acts, Keeps, Sends, Does, isReadyForUnsubscribeByTag, t

(* unsubscribe and modifyPatch send a DELETE and a PATCH.                  *)
LEMMA UnsubscribeActs ==
    ASSUME NEW s \in SubscriptionRecords, s.currentState = STATE_SUBSCRIBED, s.connectionAvailable
    PROVE  /\ Acts(s, unsubscribe(s), {ACTION_UNSUBSCRIBE})
           /\ Acts(s, modifyPatch(s), {ACTION_MODIFY_PATCH})
<1>1. ASSUME NEW t, NEW f, NEW state,
             t = [s EXCEPT !.inFlight = f, !.currentState = state]
      PROVE  /\ t.queue = s.queue /\ t.currentState = state
             /\ t.becameReady = s.becameReady /\ Keeps(s, t)
  <2>1. /\ t.queue = s.queue /\ t.currentState = state
        /\ t.isDisposed = s.isDisposed /\ t.connectionAvailable = s.connectionAvailable
        /\ t.networkErrorSubscribingTimer = s.networkErrorSubscribingTimer
        /\ t.lostTimers = s.lostTimers /\ t.protobuf = s.protobuf
        /\ t.updatesBeforeSubscribed = s.updatesBeforeSubscribed
        /\ t.snapshotRef = s.snapshotRef /\ t.deltaRef = s.deltaRef
        /\ t.becameReady = s.becameReady
    BY <1>1 DEF SubscriptionRecords
  <2> QED BY <2>1 DEF Keeps
<1> DEFINE t == unsubscribe(s)
           u == modifyPatch(s)
<1>2. PICK f, g : /\ t = [s EXCEPT !.inFlight = f,
                                   !.currentState = STATE_UNSUBSCRIBE_REQUESTED]
                  /\ u = [s EXCEPT !.inFlight = g,
                                   !.currentState = STATE_PATCH_REQUESTED]
  BY DEF unsubscribe, modifyPatch, Count
<1>5. t.inFlight = unsubscribe(s).inFlight /\ u.inFlight = modifyPatch(s).inFlight
  OBVIOUS
<1> HIDE DEF t, u
<1>3. Acts(s, t, {ACTION_UNSUBSCRIBE})
  <2>1. /\ t.queue = s.queue /\ t.currentState = STATE_UNSUBSCRIBE_REQUESTED
        /\ Keeps(s, t) /\ t.becameReady = s.becameReady
    BY <1>1, <1>2
  <2> QED BY <1>5, <2>1, StateNames DEF Acts, Sends, Does, isReadyForUnsubscribeByTag
<1>4. Acts(s, u, {ACTION_MODIFY_PATCH})
  <2>1. /\ u.queue = s.queue /\ u.currentState = STATE_PATCH_REQUESTED
        /\ Keeps(s, u) /\ u.becameReady = s.becameReady
    BY <1>1, <1>2
  <2> QED BY <1>5, <2>1, StateNames DEF Acts, Sends, Does, isReadyForUnsubscribeByTag
<1> QED BY <1>3, <1>4 DEF t, u

(* The by-tag action sends nothing and drops the queue.                    *)
LEMMA TagActs ==
    ASSUME NEW s \in SubscriptionRecords,
           s.currentState \in {STATE_SUBSCRIBED, STATE_UNSUBSCRIBED}, s.connectionAvailable
    PROVE  LET t == [unsubscribeByTagPending(s) EXCEPT !.queue = <<>>] IN
           /\ Acts(s, t, {ACTION_UNSUBSCRIBE_BY_TAG_PENDING})
           /\ t.queue = <<>>
           /\ t.currentState = STATE_READY_FOR_UNSUBSCRIBE_BY_TAG
<1> DEFINE t == [unsubscribeByTagPending(s) EXCEPT !.queue = <<>>]
<1>1. /\ t.queue = <<>> /\ t.currentState = STATE_READY_FOR_UNSUBSCRIBE_BY_TAG
      /\ t.isDisposed = s.isDisposed /\ t.connectionAvailable = s.connectionAvailable
      /\ t.networkErrorSubscribingTimer = s.networkErrorSubscribingTimer
      /\ t.lostTimers = s.lostTimers /\ t.protobuf = s.protobuf
      /\ t.updatesBeforeSubscribed = s.updatesBeforeSubscribed
      /\ t.snapshotRef = s.snapshotRef /\ t.deltaRef = s.deltaRef
      /\ t.becameReady = TRUE /\ t.inFlight = s.inFlight
  BY DEF SubscriptionRecords, unsubscribeByTagPending
<1> HIDE DEF t
<1>2. \A a : ~Holds(t.queue, a)
  BY <1>1 DEF Holds
<1>3. TagAtHead(t.queue) /\ OnlyOnOff(t.queue)
  BY <1>1 DEF TagAtHead, OnlyOnOff
<1> QED BY <1>1, <1>2, <1>3, StateNames
        DEF Acts, Keeps, Sends, Does, isReadyForUnsubscribeByTag, t

(* An effective action acts, and leaves the subscription waiting or its    *)
(* queue empty.                                                            *)
LEMMA PerformActs ==
    ASSUME NEW s \in SubscriptionRecords, NEW action \in Actions,
           Effective(action, s.currentState), s.connectionAvailable
    PROVE  LET t == AfterPerform(Perform(s, action)) IN
           /\ Acts(s, t, {action})
           /\ Transitioning(t) \/ t.queue = <<>>
           /\ action = ACTION_SUBSCRIBE =>
                  t = subscribe([s EXCEPT !.queue = clearPatches(s.queue)])
           /\ action = ACTION_UNSUBSCRIBE => t = unsubscribe(s)
           /\ action = ACTION_MODIFY_PATCH => t = modifyPatch(s)
           /\ action = ACTION_UNSUBSCRIBE_BY_TAG_PENDING =>
                  /\ t.currentState = STATE_READY_FOR_UNSUBSCRIBE_BY_TAG
                  /\ t.queue = <<>>
<1> DEFINE t == AfterPerform(Perform(s, action))
<1>a. /\ ACTION_SUBSCRIBE \notin {ACTION_UNSUBSCRIBE, ACTION_MODIFY_PATCH, ACTION_UNSUBSCRIBE_BY_TAG_PENDING}
      /\ ACTION_UNSUBSCRIBE \notin {ACTION_MODIFY_PATCH, ACTION_UNSUBSCRIBE_BY_TAG_PENDING}
      /\ ACTION_MODIFY_PATCH # ACTION_UNSUBSCRIBE_BY_TAG_PENDING
  BY DEF ACTION_SUBSCRIBE, ACTION_UNSUBSCRIBE, ACTION_MODIFY_PATCH,
         ACTION_UNSUBSCRIBE_BY_TAG_PENDING
<1>1. CASE action = ACTION_SUBSCRIBE
  <2> DEFINE u == [s EXCEPT !.queue = clearPatches(s.queue)]
  <2>1. Perform(s, action) = subscribe(u)
    BY <1>1, <1>a DEF Perform
  <2>2. /\ s.queue \in Seq(Items)
        /\ clearPatches(s.queue) \in Seq(Items)
        /\ \A a \in Actions : Holds(clearPatches(s.queue), a) => Holds(s.queue, a)
        /\ TagAtHead(clearPatches(s.queue))
        /\ OnlyOnOff(s.queue) => OnlyOnOff(clearPatches(s.queue))
    BY ClearPatchesType, ClearPatchesShape DEF SubscriptionRecords
  <2>3. Acts(s, u, {})
    BY <2>2, QueueActs
  <2>4. /\ u \in SubscriptionRecords /\ u.currentState = STATE_UNSUBSCRIBED
        /\ u.connectionAvailable
    BY <1>1, <1>a, <2>2 DEF SubscriptionRecords, Effective
  <2> HIDE DEF u
  <2>5. Acts(u, subscribe(u), {ACTION_SUBSCRIBE})
    BY <2>4, SubscribeActs
  <2>6. Acts(s, subscribe(u), {ACTION_SUBSCRIBE})
    BY <2>3, <2>4, <2>5, ActsOn
  <2>7. subscribe(u).currentState = STATE_SUBSCRIBE_REQUESTED
    BY <2>4 DEF subscribe, SubscriptionRecords
  <2>8. Transitioning(subscribe(u)) /\ t = subscribe(u)
    BY <2>1, <2>7 DEF AfterPerform, Transitioning, TRANSITIONING_STATES
  <2> QED BY <1>1, <1>a, <2>6, <2>8 DEF u
<1>2. CASE action \in {ACTION_UNSUBSCRIBE, ACTION_MODIFY_PATCH}
  <2>1. s.currentState = STATE_SUBSCRIBED
    BY <1>2, <1>a DEF Effective
  <2>2. Perform(s, action) = IF action = ACTION_UNSUBSCRIBE THEN unsubscribe(s)
                             ELSE modifyPatch(s)
    BY <1>2, <1>a DEF Perform
  <2>3. /\ unsubscribe(s).currentState = STATE_UNSUBSCRIBE_REQUESTED
        /\ modifyPatch(s).currentState = STATE_PATCH_REQUESTED
    <3>1. /\ \E f : unsubscribe(s) = [s EXCEPT !.inFlight = f,
                                           !.currentState = STATE_UNSUBSCRIBE_REQUESTED]
          /\ \E f : modifyPatch(s) = [s EXCEPT !.inFlight = f,
                                           !.currentState = STATE_PATCH_REQUESTED]
      BY DEF unsubscribe, modifyPatch, Count
    <3> QED BY <3>1 DEF SubscriptionRecords
  <2>4. Transitioning(Perform(s, action))
    BY <2>2, <2>3 DEF Transitioning, TRANSITIONING_STATES
  <2>5. t = Perform(s, action)
    BY <2>4 DEF AfterPerform
  <2> QED BY <1>2, <1>a, <2>1, <2>2, <2>4, <2>5, UnsubscribeActs
<1>3. CASE action = ACTION_UNSUBSCRIBE_BY_TAG_PENDING
  <2>1. Perform(s, action) = unsubscribeByTagPending(s)
    BY <1>3, <1>a DEF Perform
  <2>2. s.currentState \in {STATE_SUBSCRIBED, STATE_UNSUBSCRIBED}
    BY <1>3, <1>a DEF Effective
  <2>3. unsubscribeByTagPending(s).currentState = STATE_READY_FOR_UNSUBSCRIBE_BY_TAG
    BY DEF unsubscribeByTagPending, SubscriptionRecords
  <2>4. t = [unsubscribeByTagPending(s) EXCEPT !.queue = <<>>]
    BY <2>1, <2>3, StateNames DEF AfterPerform, Transitioning, TRANSITIONING_STATES
  <2> DEFINE u == [unsubscribeByTagPending(s) EXCEPT !.queue = <<>>]
  <2>5. /\ Acts(s, u, {ACTION_UNSUBSCRIBE_BY_TAG_PENDING}) /\ u.queue = <<>>
        /\ u.currentState = STATE_READY_FOR_UNSUBSCRIBE_BY_TAG
    BY <2>2, TagActs
  <2> HIDE DEF t, u
  <2> QED BY <1>3, <1>a, <2>4, <2>5 DEF t, u
<1> QED BY <1>1, <1>2, <1>3 DEF Actions

(* The first effective action of the queue is performed, or the queue is   *)
(* drained.                                                                *)
LEMMA PerformQueueShape ==
    ASSUME NEW s, s.queue \in Seq(Items)
    PROVE  LET order == DequeueOrder(s.queue)
               Works(i) == Effective(order[i].action, s.currentState)
           IN  \/ /\ \A i \in 1..Len(order) : ~Works(i)
                  /\ performQueue(s) = [s EXCEPT !.queue = <<>>]
               \/ \E n \in 1..Len(order) :
                     /\ Works(n) /\ \A i \in 1..(n - 1) : ~Works(i)
                     /\ performQueue(s) =
                            AfterPerform(Perform(
                                [s EXCEPT !.queue = SubSeq(order, n + 1, Len(order))],
                                order[n].action))
<1> DEFINE order == DequeueOrder(s.queue)
           effective == {i \in DOMAIN order :
                            Effective(order[i].action, s.currentState)}
           n == Min(effective)
<1>1. DOMAIN order = 1..Len(order) /\ Len(order) \in Nat
  BY DequeueOrderShape
<1>2. performQueue(s) =
          IF effective = {} THEN [s EXCEPT !.queue = <<>>]
          ELSE AfterPerform(
                   Perform([s EXCEPT !.queue = SubSeq(order, n + 1, Len(order))],
                           order[n].action))
  BY DEF performQueue
<1>3. CASE effective = {}
  <2>1. \A i \in 1..Len(order) : ~Effective(order[i].action, s.currentState)
    BY <1>1, <1>3
  <2> QED BY <1>2, <1>3, <2>1
<1>4. CASE effective # {}
  <2>1. n \in effective /\ \A i \in effective : n <= i
    <3>1. effective \subseteq Nat
      BY <1>1
    <3> HIDE DEF effective
    <3>2. \E x \in effective : \A y \in effective : x <= y
      BY <1>4, <3>1, Least
    <3> QED BY <3>2, Zenon DEF Min
  <2>2. n \in 1..Len(order) /\ Effective(order[n].action, s.currentState)
    BY <1>1, <2>1
  <2>3. ASSUME NEW i \in 1..(n - 1), Effective(order[i].action, s.currentState)
        PROVE  FALSE
    <3>1. i \in 1..Len(order) /\ i < n
      BY <1>1, <2>2, <2>3
    <3>2. i \in effective
      BY <1>1, <2>3, <3>1
    <3>3. n <= i
      BY <2>1, <3>2
    <3> HIDE DEF n
    <3> QED BY <2>2, <3>1, <3>3
  <2>4. performQueue(s) =
            AfterPerform(Perform(
                [s EXCEPT !.queue = SubSeq(order, n + 1, Len(order))],
                order[n].action))
    BY <1>2, <1>4
  <2> HIDE DEF effective, n, order
  <2> QED BY <2>2, <2>3, <2>4 DEF order
<1> QED BY <1>3, <1>4

(* So does performAction over the queue ...                                *)
LEMMA PerformQueueActs ==
    ASSUME NEW s, Good(s), s.connectionAvailable
    PROVE  LET t == performQueue(s) IN
           Acts(s, t, {}) /\ (Transitioning(t) \/ t.queue = <<>>)
<1> DEFINE order == DequeueOrder(s.queue)
           t == performQueue(s)
<1>1. s \in SubscriptionRecords /\ s.queue \in Seq(Items)
  BY DEF Good, SubscriptionRecords
<1>2. /\ order \in Seq(Items) /\ DOMAIN order = 1..Len(order) /\ Len(order) \in Nat
      /\ \A a \in Actions : Holds(order, a) => Holds(s.queue, a)
      /\ TagAtHead(s.queue) => TagAtHead(order)
      /\ OnlyOnOff(s.queue) => OnlyOnOff(order)
  BY <1>1, DequeueOrderShape, DequeueOrderType, OrderKeeps
<1>3. CASE t = [s EXCEPT !.queue = <<>>]
  <2>1. <<>> \in Seq(Items) /\ (\A a : ~Holds(<<>>, a)) /\ TagAtHead(<<>>)
          /\ OnlyOnOff(<<>>)
    BY DEF Holds, TagAtHead, OnlyOnOff
  <2>2. t.queue = <<>>
    BY <1>1, <1>3 DEF SubscriptionRecords
  <2>3. Acts(s, t, {})
    BY <1>1, <1>3, <2>1, QueueActs
  <2> QED BY <2>2, <2>3
<1>4. ASSUME NEW n \in 1..Len(order),
             Effective(order[n].action, s.currentState),
             t = AfterPerform(Perform(
                     [s EXCEPT !.queue = SubSeq(order, n + 1, Len(order))],
                     order[n].action))
      PROVE  Acts(s, t, {}) /\ (Transitioning(t) \/ t.queue = <<>>)
  <2> DEFINE rest == SubSeq(order, n + 1, Len(order))
             u == [s EXCEPT !.queue = rest]
             a == order[n].action
  <2> HIDE DEF order
  <2>1. a \in Actions /\ Holds(s.queue, a)
        /\ (OnlyOnOff(s.queue) => a \in {ACTION_SUBSCRIBE, ACTION_UNSUBSCRIBE})
    <3>1. order[n] \in Items
      BY <1>2, ElementOfSeq
    <3>2. Holds(order, a)
      BY <1>2 DEF Holds
    <3>3. a \in Actions
      BY <3>1 DEF Items
    <3>4. OnlyOnOff(order) => a \in {ACTION_SUBSCRIBE, ACTION_UNSUBSCRIBE}
      BY <1>2 DEF OnlyOnOff
    <3> QED BY <1>2, <3>2, <3>3, <3>4
  <2>2. /\ rest \in Seq(Items)
        /\ \A b \in Actions : Holds(rest, b) => Holds(s.queue, b)
        /\ TagAtHead(s.queue) => TagAtHead(rest)
        /\ OnlyOnOff(s.queue) => OnlyOnOff(rest)
    <3>1. n + 1 \in Nat \ {0} /\ Len(order) \in 0..Len(order)
      BY <1>2
    <3>2. /\ rest \in Seq(Items)
          /\ \A b \in Actions : Holds(rest, b) => Holds(order, b)
      BY <1>2, <3>1, PartOfQueue
    <3>3. /\ TagAtHead(order) => ~HoldsOne(rest, {ACTION_UNSUBSCRIBE_BY_TAG_PENDING})
          /\ OnlyOnOff(order) => OnlyOnOff(rest)
      BY <1>2, BehindKeeps
    <3> HIDE DEF rest
    <3> QED BY <1>2, <3>2, <3>3 DEF TagAtHead, HoldsOne
  <2> HIDE DEF rest, a
  <2>3. Acts(s, u, {})
    BY <1>1, <2>2, QueueActs
  <2>4. /\ u \in SubscriptionRecords /\ u.currentState = s.currentState
        /\ u.connectionAvailable
    BY <1>1, <2>2 DEF SubscriptionRecords
  <2> HIDE DEF u
  <2> DEFINE v == AfterPerform(Perform(u, a))
  <2>5. Acts(u, v, {a}) /\ (Transitioning(v) \/ v.queue = <<>>)
    BY <1>4, <2>1, <2>4, PerformActs DEF a
  <2>6. t = v
    BY <1>4 DEF u, rest, a
  <2> HIDE DEF v
  <2>7. Acts(s, v, {a})
    BY <1>1, <2>3, <2>4, <2>5, ActsOn
  <2>8. Acts(s, v, {})
    BY <2>1, <2>7 DEF Acts, Does
  <2> QED BY <2>5, <2>6, <2>8
<1> QED BY <1>1, <1>3, <1>4, PerformQueueShape

(* ... and performAction of an action that was not queued.                 *)
LEMMA PerformActionActs ==
    ASSUME NEW s, Good(s), NEW action \in Actions, s.connectionAvailable
    PROVE  LET t == performAction(s, action) IN
           Acts(s, t, {action}) /\ (Transitioning(t) \/ t.queue = <<>>)
<1>1. s \in SubscriptionRecords
  BY DEF Good
<1>2. CASE Effective(action, s.currentState)
  <2>1. performAction(s, action) = AfterPerform(Perform(s, action))
    BY <1>2 DEF performAction
  <2> QED BY <1>1, <1>2, <2>1, PerformActs
<1>3. CASE ~Effective(action, s.currentState)
  <2>1. performAction(s, action) = performQueue(s)
    BY <1>3 DEF performAction
  <2>2. Acts(s, performQueue(s), {action})
    BY PerformQueueActs DEF Acts, Does
  <2> QED BY <2>1, <2>2, PerformQueueActs
<1> QED BY <1>2, <1>3

(* onReadyToPerformNextAction acts and serves the queue.                   *)
LEMMA ReadyActs ==
    ASSUME NEW s, Good(s)
    PROVE  LET t == onReadyToPerformNextAction(s) IN
           Acts(s, t, {}) /\ Served(t)
<1> DEFINE t == onReadyToPerformNextAction(s)
<1>1. s \in SubscriptionRecords /\ s.queue \in Seq(Items)
  BY DEF Good, SubscriptionRecords
<1>2. CASE ~s.connectionAvailable \/ isEmpty(s.queue)
  <2>1. t = s
    BY <1>2 DEF onReadyToPerformNextAction
  <2>2. Served(s)
    BY <1>2 DEF Served, isEmpty
  <2> QED BY <2>1, <2>2, ActsNot
<1>3. CASE ~(~s.connectionAvailable \/ isEmpty(s.queue)) /\ Transitioning(s)
  <2> DEFINE q == dequeue(s.queue).rest
             order == DequeueOrder(s.queue)
  <2>1. t = [s EXCEPT !.queue = q]
    BY <1>3 DEF onReadyToPerformNextAction
  <2>2. /\ q \in Seq(Items)
        /\ \A a \in Actions : Holds(q, a) => Holds(s.queue, a)
    BY <1>1, <1>3, DequeueType DEF isEmpty
  <2>3. /\ TagAtHead(s.queue) => TagAtHead(q)
        /\ OnlyOnOff(s.queue) => OnlyOnOff(q)
    <3>1. /\ order \in Seq(Items) /\ (TagAtHead(s.queue) => TagAtHead(order))
          /\ OnlyOnOff(s.queue) => OnlyOnOff(order)
      BY <1>1, DequeueOrderShape, OrderKeeps
    <3>2. order # <<>>
      BY <1>1, <1>3, DequeueNotEmpty DEF isEmpty
    <3>3. q = SubSeq(order, 2, Len(order)) /\ 1 \in 1..Len(order)
      <4>1. q = Tail(order)
        BY DEF dequeue
      <4> HIDE DEF order, q
      <4> QED BY <3>1, <3>2, <4>1, TailIsSubSeq, EmptySeq, LenProperties
    <3>4. SubSeq(order, 1 + 1, Len(order)) = SubSeq(order, 2, Len(order))
      OBVIOUS
    <3> HIDE DEF order, q
    <3>5. /\ TagAtHead(order) => ~HoldsOne(q, {ACTION_UNSUBSCRIBE_BY_TAG_PENDING})
          /\ OnlyOnOff(order) => OnlyOnOff(q)
      BY <3>1, <3>3, <3>4, BehindKeeps
    <3> QED BY <3>1, <3>5 DEF TagAtHead, HoldsOne
  <2> HIDE DEF q
  <2>4. Acts(s, t, {})
    BY <1>1, <2>1, <2>2, <2>3, QueueActs
  <2>5. t.currentState = s.currentState
    BY <1>1, <2>1 DEF SubscriptionRecords
  <2>6. Served(t)
    BY <1>3, <2>5 DEF Served, Transitioning
  <2> QED BY <2>4, <2>6
<1>4. CASE ~(~s.connectionAvailable \/ isEmpty(s.queue)) /\ ~Transitioning(s)
  <2>1. t = performQueue(s)
    BY <1>4 DEF onReadyToPerformNextAction
  <2> QED BY <1>4, <2>1, PerformQueueActs DEF Served
<1> QED BY <1>2, <1>3, <1>4

(* So does tryPerformAction.                                               *)
LEMMA TryPerformActs ==
    ASSUME NEW s, Good(s), NEW item \in Items
    PROVE  LET t == tryPerformAction(s, item) IN
           /\ Acts(s, t, {item.action}) /\ Served(t)
<1> DEFINE u == [s EXCEPT !.networkErrorSubscribingTimer = FALSE]
           q == enqueue(u.queue, item)
           v == [u EXCEPT !.queue = q]
           t == tryPerformAction(s, item)
<1>1. s \in SubscriptionRecords /\ s.queue \in Seq(Items)
  BY DEF Good, SubscriptionRecords
<1>2. /\ u \in SubscriptionRecords /\ u.currentState = s.currentState
      /\ u.inFlight = s.inFlight /\ u.queue = s.queue
      /\ u.becameReady = s.becameReady
      /\ u.connectionAvailable = s.connectionAvailable
      /\ Keeps(s, u)
  BY <1>1 DEF Keeps, SubscriptionRecords
<1>3. t = IF ~u.connectionAvailable \/ Transitioning(u) THEN v
          ELSE performAction(u, item.action)
  BY DEF tryPerformAction
<1> HIDE DEF u, t
<1>4. Good(u) /\ Acts(s, u, {})
  BY <1>2, Quiet DEF TagQueued, Acts, Sends, Does, isReadyForUnsubscribeByTag
<1>5. item.action \in Actions
  BY DEF Items
<1>6. CASE ~u.connectionAvailable \/ Transitioning(u)
  <2>1. /\ q \in Seq(Items)
        /\ \A a \in Actions : Holds(q, a) => Holds(u.queue, a) \/ a \in {item.action}
        /\ TagAtHead(u.queue) => TagAtHead(q)
        /\ OnlyOnOff(u.queue)
               /\ {item.action} \subseteq {ACTION_SUBSCRIBE, ACTION_UNSUBSCRIBE}
               => OnlyOnOff(q)
    BY <1>1, <1>2, EnqueueType, EnqueueTagAtHead, EnqueueOnlyOnOff
  <2> HIDE DEF q
  <2>2. Acts(u, v, {item.action})
    BY <1>2, <2>1, QueueActs
  <2>3. v.currentState = u.currentState /\ v.connectionAvailable = u.connectionAvailable
    BY <1>2 DEF SubscriptionRecords
  <2> HIDE DEF v
  <2>4. Served(v)
    BY <1>6, <2>3 DEF Served, Transitioning
  <2> QED BY <1>1, <1>2, <1>3, <1>4, <1>6, <2>2, <2>4, ActsOn DEF t
<1>7. CASE ~(~u.connectionAvailable \/ Transitioning(u))
  <2> DEFINE w == performAction(u, item.action)
  <2>1. Acts(u, w, {item.action}) /\ (Transitioning(w) \/ w.queue = <<>>)
    BY <1>4, <1>5, <1>7, PerformActionActs
  <2>2. t = w
    BY <1>3, <1>7
  <2> HIDE DEF w
  <2>3. Acts(s, w, {item.action})
    BY <1>1, <1>2, <1>4, <2>1, ActsOn
  <2> QED BY <2>1, <2>2, <2>3 DEF t, Served
<1> QED BY <1>6, <1>7

(* onSubscribe acts, and does nothing once disposed.                       *)
LEMMA OnSubscribeActs ==
    ASSUME NEW s, Good(s)
    PROVE  LET t == onSubscribe(s) IN
           /\ Acts(s, t, {ACTION_SUBSCRIBE})
           /\ s.isDisposed => t = s
           /\ ~s.isDisposed => Served(t)
<1>1. CASE s.isDisposed
  <2>1. onSubscribe(s) = s
    BY <1>1 DEF onSubscribe
  <2>2. Acts(s, s, {ACTION_SUBSCRIBE})
    BY ActsNot DEF Acts, Does
  <2> QED BY <1>1, <2>1, <2>2
<1>2. CASE ~s.isDisposed
  <2>1. onSubscribe(s) = tryPerformAction(s, Item(ACTION_SUBSCRIBE))
    BY <1>2 DEF onSubscribe
  <2>2. Item(ACTION_SUBSCRIBE) \in Items /\ Item(ACTION_SUBSCRIBE).action = ACTION_SUBSCRIBE
    BY ItemsOf DEF Item
  <2>3. /\ Acts(s, tryPerformAction(s, Item(ACTION_SUBSCRIBE)), {ACTION_SUBSCRIBE})
        /\ Served(tryPerformAction(s, Item(ACTION_SUBSCRIBE)))
    BY <2>2, TryPerformActs
  <2> QED BY <1>2, <2>1, <2>3
<1> QED BY <1>1, <1>2

(* onUnsubscribe acts.                                                     *)
LEMMA OnUnsubscribeActs ==
    ASSUME NEW s, Good(s), NEW force \in BOOLEAN
    PROVE  LET t == onUnsubscribe(s, force) IN
           Acts(s, t, {ACTION_UNSUBSCRIBE}) /\ Served(t)
<1>1. Unsubscribe(force) \in Items /\ Unsubscribe(force).action = ACTION_UNSUBSCRIBE
  BY ItemsOf DEF Unsubscribe
<1>2. /\ Acts(s, tryPerformAction(s, Unsubscribe(force)), {ACTION_UNSUBSCRIBE})
      /\ Served(tryPerformAction(s, Unsubscribe(force)))
  BY <1>1, TryPerformActs
<1> QED BY <1>2 DEF onUnsubscribe

Again == {ACTION_UNSUBSCRIBE, ACTION_SUBSCRIBE}

(* So do a forced unsubscribe and a subscribe.                             *)
LEMMA ResubscribeActs ==
    ASSUME NEW s, Good(s)
    PROVE  LET t == onSubscribe(onUnsubscribe(s, TRUE)) IN
           Acts(s, t, Again) /\ Served(t)
<1> DEFINE u == onUnsubscribe(s, TRUE)
           t == onSubscribe(u)
<1>1. Good(u) /\ Acts(s, u, {ACTION_UNSUBSCRIBE}) /\ Served(u)
  BY OnUnsubscribeGood, OnUnsubscribeActs
<1> HIDE DEF u
<1>2. Acts(u, t, {ACTION_SUBSCRIBE}) /\ (t = u \/ Served(t))
  BY <1>1, OnSubscribeActs
<1> HIDE DEF t
<1>3. s \in SubscriptionRecords /\ u \in SubscriptionRecords
  BY <1>1 DEF Good
<1>4. Acts(s, t, Again)
  BY <1>1, <1>2, <1>3, ActsOn DEF Again
<1> QED BY <1>1, <1>2, <1>4 DEF t, u

(* onModify acts, and does nothing once disposed.                          *)
LEMMA OnModifyActs ==
    ASSUME NEW s, Good(s)
    PROVE  /\ Acts(s, onModify(s), Again)
           /\ s.isDisposed => onModify(s) = s
           /\ ~s.isDisposed => Served(onModify(s))
<1>1. Acts(s, s, Again)
  BY ActsNot DEF Acts, Does
<1> QED BY <1>1, ResubscribeActs DEF onModify

(* So does onModifyPatch.                                                  *)
LEMMA OnModifyPatchActs ==
    ASSUME NEW s, Good(s)
    PROVE  /\ Acts(s, onModifyPatch(s), {ACTION_MODIFY_PATCH})
           /\ s.isDisposed => onModifyPatch(s) = s
           /\ ~s.isDisposed => Served(onModifyPatch(s))
<1>1. Acts(s, s, {ACTION_MODIFY_PATCH})
  BY ActsNot DEF Acts, Does
<1>2. Item(ACTION_MODIFY_PATCH) \in Items
      /\ Item(ACTION_MODIFY_PATCH).action = ACTION_MODIFY_PATCH
  BY ItemsOf DEF Item
<1>3. /\ Acts(s, tryPerformAction(s, Item(ACTION_MODIFY_PATCH)), {ACTION_MODIFY_PATCH})
      /\ Served(tryPerformAction(s, Item(ACTION_MODIFY_PATCH)))
  BY <1>2, TryPerformActs
<1> QED BY <1>1, <1>3 DEF onModifyPatch

(* onUnsubscribeByTagPending acts.                                         *)
LEMMA OnUnsubscribeByTagPendingActs ==
    ASSUME NEW s, Good(s)
    PROVE  LET t == onUnsubscribeByTagPending(s) IN
           Acts(s, t, {ACTION_UNSUBSCRIBE_BY_TAG_PENDING}) /\ Served(t)
<1>1. /\ Item(ACTION_UNSUBSCRIBE_BY_TAG_PENDING) \in Items
      /\ Item(ACTION_UNSUBSCRIBE_BY_TAG_PENDING).action =
             ACTION_UNSUBSCRIBE_BY_TAG_PENDING
  BY ItemsOf
<1> QED BY <1>1, TryPerformActs DEF onUnsubscribeByTagPending

(* A reset that cuts into a PATCH forgets it first. *)
LEMMA ResetActs ==
    ASSUME NEW s, Good(s)
    PROVE  LET t == reset(s) IN
           /\ s.currentState # STATE_PATCH_REQUESTED => Acts(s, t, Again)
           /\ t.isDisposed = s.isDisposed
           /\ t.connectionAvailable = s.connectionAvailable
           /\ t.networkErrorSubscribingTimer => s.networkErrorSubscribingTimer
           /\ t.lostTimers = s.lostTimers
           /\ t.snapshotRef = s.snapshotRef /\ t.deltaRef = s.deltaRef
           /\ t.updatesBeforeSubscribed \in {s.updatesBeforeSubscribed, "none"}
           /\ Does(s, t, Again)
           /\ t = s \/ Served(t)
<1>1. CASE s.currentState = STATE_PATCH_REQUESTED
  <2> DEFINE u == [s EXCEPT !.currentState = STATE_SUBSCRIBED]
             t == onSubscribe(onUnsubscribe(u, TRUE))
  <2>1. reset(s) = t
    BY <1>1, StateNames DEF reset
  <2>2. /\ u \in SubscriptionRecords /\ u.currentState = STATE_SUBSCRIBED
        /\ u.inFlight = s.inFlight /\ u.queue = s.queue
        /\ u.becameReady = s.becameReady /\ Len(u.inFlight) > 0
        /\ s.becameReady => ~TagQueued(s)
    BY <1>1 DEF Good, SubscriptionRecords, States
  <2>3. Keeps(s, u)
    BY DEF Keeps, Good, SubscriptionRecords
  <2> HIDE DEF u
  <2>4. Good(u)
    BY <2>2, NotWaiting
  <2>5. Acts(u, t, Again) /\ Served(t)
    BY <2>4, ResubscribeActs
  <2> HIDE DEF t
  <2>6. Does(s, u, Again)
    BY <2>2, StateNames DEF Does, isReadyForUnsubscribeByTag
  <2>7. Does(s, t, Again)
    BY <2>5, <2>6, DoesOn, StaysReady DEF Acts
  <2> QED BY <1>1, <2>1, <2>3, <2>5, <2>7 DEF Acts, Keeps
<1>2. CASE s.currentState # STATE_PATCH_REQUESTED
  <2>1. reset(s) = s \/ reset(s) = onSubscribe(onUnsubscribe(s, TRUE))
    BY <1>2 DEF reset
  <2>2. Acts(s, s, Again)
    BY ActsNot DEF Acts, Does
  <2>3. Acts(s, reset(s), Again) /\ (reset(s) = s \/ Served(reset(s)))
    BY <2>1, <2>2, ResubscribeActs
  <2> QED BY <1>2, <2>3 DEF Acts, Keeps
<1> QED BY <1>1, <1>2

-----------------------------------------------------------------------------
(* Two subscriptions that differ in nothing that decides what they do.     *)
Same(s, t) ==
    /\ t.currentState = s.currentState /\ t.inFlight = s.inFlight
    /\ t.queue = s.queue /\ t.becameReady = s.becameReady
    /\ t.isDisposed = s.isDisposed
    /\ t.connectionAvailable = s.connectionAvailable
    /\ t.networkErrorSubscribingTimer = s.networkErrorSubscribingTimer
    /\ t.lostTimers = s.lostTimers

(* A subscription that is told something moves nowhere.                    *)
LEMMA SameMoves ==
    ASSUME NEW s, NEW t, Same(s, t), NEW A
    PROVE  Moves(s, t, A) /\ (Served(s) => Served(t))
BY DEF Same, Moves, Sends, Does, isReadyForUnsubscribeByTag, Served, Transitioning,
       WillUnsubscribe

(* It stays good.                                                          *)
LEMMA SameGood ==
    ASSUME NEW s, NEW t \in SubscriptionRecords, Good(s), Same(s, t)
    PROVE  Good(t)
BY DEF Same, Good, TagQueued

(* An update that can be parsed is given to the consumer or buffered.      *)
LEMMA UpdateTells ==
    ASSUME NEW s, Good(s)
    PROVE  LET t == onStreamingData(s, TRUE) IN
           /\ Good(t) /\ Same(s, t) /\ t.snapshotRef = s.snapshotRef
           /\ t.deltaRef = s.deltaRef \/ t.deltaRef = Len(s.inFlight)
           /\ s.currentState \in {STATE_SUBSCRIBE_REQUESTED,
                  STATE_UNSUBSCRIBE_REQUESTED, STATE_UNSUBSCRIBED}
                  => t.deltaRef = s.deltaRef
           /\ t.updatesBeforeSubscribed = "bad" => s.updatesBeforeSubscribed = "bad"
<1> DEFINE b == IF s.updatesBeforeSubscribed # "bad" THEN "good" ELSE "bad"
           n == Len(s.inFlight)
           t == [s EXCEPT !.updatesBeforeSubscribed = b]
           u == [s EXCEPT !.deltaRef = n]
<1>1. s \in SubscriptionRecords /\ n \in Nat /\ b \in Buffers
  BY LenProperties DEF Good, SubscriptionRecords, Buffers
<1>2. /\ t \in SubscriptionRecords /\ Same(s, t) /\ t.snapshotRef = s.snapshotRef
      /\ t.deltaRef = s.deltaRef /\ t.updatesBeforeSubscribed = b
  BY <1>1 DEF Same, SubscriptionRecords
<1>3. /\ u \in SubscriptionRecords /\ Same(s, u) /\ u.snapshotRef = s.snapshotRef
      /\ u.deltaRef = n /\ u.updatesBeforeSubscribed = s.updatesBeforeSubscribed
  BY <1>1 DEF Same, SubscriptionRecords
<1>4. /\ b = "bad" => s.updatesBeforeSubscribed = "bad"
      /\ Same(s, s)
  BY DEF Same
<1>5. Good(t) /\ Good(u)
  BY <1>1, <1>2, <1>3, SameGood
<1>6. onStreamingData(s, TRUE) =
        IF s.currentState \in {STATE_UNSUBSCRIBE_REQUESTED, STATE_UNSUBSCRIBED} THEN s
        ELSE IF s.currentState = STATE_SUBSCRIBE_REQUESTED THEN t ELSE u
  BY StateNames DEF onStreamingData, referenceId
<1> HIDE DEF t, u, b, n
<1> QED BY <1>2, <1>3, <1>4, <1>5, <1>6, StateNames DEF n

(* One that cannot is buffered, or resets the subscription.                *)
LEMMA UnparsableResets ==
    ASSUME NEW s, Good(s)
    PROVE  LET t == onStreamingData(s, FALSE) IN
           \/ t = s
           \/ /\ s.currentState = STATE_SUBSCRIBE_REQUESTED
              /\ Good(t) /\ Same(s, t) /\ t.snapshotRef = s.snapshotRef
              /\ t.deltaRef = s.deltaRef
           \/ /\ s.currentState \in {STATE_SUBSCRIBED, STATE_PATCH_REQUESTED,
                                     STATE_READY_FOR_UNSUBSCRIBE_BY_TAG}
              /\ t = reset(s)
<1> DEFINE t == [s EXCEPT !.updatesBeforeSubscribed = "bad"]
<1>1. s \in SubscriptionRecords
  BY DEF Good
<1>2. /\ t \in SubscriptionRecords /\ Same(s, t) /\ t.snapshotRef = s.snapshotRef
      /\ t.deltaRef = s.deltaRef
  BY <1>1 DEF Same, SubscriptionRecords, Buffers
<1>3. Good(t)
  BY <1>1, <1>2, SameGood
<1>4. onStreamingData(s, FALSE) =
        IF s.currentState \in {STATE_UNSUBSCRIBE_REQUESTED, STATE_UNSUBSCRIBED} THEN s
        ELSE IF s.currentState = STATE_SUBSCRIBE_REQUESTED THEN t ELSE reset(s)
  BY StateNames DEF onStreamingData
<1> HIDE DEF t
<1>5. s.currentState \in States
  BY <1>1 DEF SubscriptionRecords
<1> QED BY <1>2, <1>3, <1>4, <1>5 DEF States

(* What a handler may lead to, whatever it has sent.                       *)
Leaves(s, t, actions) ==
    /\ t.isDisposed = s.isDisposed
    /\ t.connectionAvailable = s.connectionAvailable
    /\ t.networkErrorSubscribingTimer => s.networkErrorSubscribingTimer
    /\ t.lostTimers = s.lostTimers
    /\ Does(s, t, actions)

(* A move is a step that sends at most one request.                        *)
LEMMA MovesLeaves ==
    ASSUME NEW s, NEW t, NEW A
    PROVE  Moves(s, t, A) <=> Leaves(s, t, A) /\ Sends(s, t)
BY DEF Moves, Leaves

(* Leaves composes.                                                        *)
LEMMA LeavesOn ==
    ASSUME NEW s, NEW t, NEW u, NEW A, NEW B, NEW C, A \subseteq C, B \subseteq C,
           Leaves(s, t, A), Leaves(t, u, B),
           isReadyForUnsubscribeByTag(t) => isReadyForUnsubscribeByTag(u)
    PROVE  Leaves(s, u, C)
<1>1. Does(s, u, C)
  BY DoesOn DEF Leaves
<1> QED BY <1>1 DEF Leaves

(* The actions a call of the consumer asks for.                            *)
CallActions(call) ==
    CASE call = "subscribe" -> {ACTION_SUBSCRIBE}
      [] call = "unsubscribe" -> {ACTION_UNSUBSCRIBE}
      [] call = "modify" -> Again
      [] call = "patch" -> {ACTION_MODIFY_PATCH}
      [] OTHER -> {}

(* A call from inside a callback acts.                                     *)
LEMMA CallActs ==
    ASSUME NEW s, Good(s), NEW call
    PROVE  LET t == ConsumerCall(s, call) IN
           Acts(s, t, CallActions(call)) /\ (Served(s) => Served(t))
<1>1. CASE call = "subscribe"
  BY <1>1, OnSubscribeActs DEF ConsumerCall, CallActions
<1>2. CASE call = "unsubscribe"
  BY <1>2, OnUnsubscribeActs DEF ConsumerCall, CallActions
<1>3. CASE call = "modify"
  BY <1>3, OnModifyActs DEF ConsumerCall, CallActions
<1>4. CASE call = "patch"
  BY <1>4, OnModifyPatchActs DEF ConsumerCall, CallActions
<1>5. CASE call \notin {"subscribe", "unsubscribe", "modify", "patch"}
  BY <1>5, ActsNot DEF ConsumerCall, CallActions
<1> QED BY <1>1, <1>2, <1>3, <1>4, <1>5

(* Only a POST makes a new reference id.                                   *)
LEMMA SendsLen ==
    ASSUME NEW s, Good(s), NEW t, Sends(s, t)
    PROVE  \/ Len(t.inFlight) = Len(s.inFlight)
           \/ /\ s.connectionAvailable
              /\ s.currentState = STATE_UNSUBSCRIBED
              /\ t.currentState = STATE_SUBSCRIBE_REQUESTED
              /\ t.inFlight = subscribe(s).inFlight
<1>1. /\ s \in SubscriptionRecords /\ s.inFlight \in Seq([RequestKinds -> Nat])
      /\ "delete" \in RequestKinds /\ "patch" \in RequestKinds
  BY DEF Good, SubscriptionRecords, RequestKinds
<1>2. ASSUME NEW k \in RequestKinds, s.currentState = STATE_SUBSCRIBED
      PROVE  Len(Count(s, referenceId(s), k, 1).inFlight) = Len(s.inFlight)
  <2>1. Len(s.inFlight) > 0
    BY <1>2 DEF Good
  <2> QED BY <2>1, CountOne
<1>3. ASSUME s.currentState = STATE_SUBSCRIBED
      PROVE  /\ Len(unsubscribe(s).inFlight) = Len(s.inFlight)
             /\ Len(modifyPatch(s).inFlight) = Len(s.inFlight)
  <2>1. ASSUME NEW w, NEW state
        PROVE  [w EXCEPT !.currentState = state].inFlight = w.inFlight
    OBVIOUS
  <2>2. /\ unsubscribe(s).inFlight = Count(s, referenceId(s), "delete", 1).inFlight
        /\ modifyPatch(s).inFlight = Count(s, referenceId(s), "patch", 1).inFlight
    BY <2>1 DEF unsubscribe, modifyPatch
  <2> QED BY <1>1, <1>2, <1>3, <2>2
<1> QED BY <1>3 DEF Sends

(* A subscription that has been subscribed keeps its reference id while    *)
(* the consumer is given the snapshot, whatever it calls.                  *)
LEMMA DeliverMoves ==
    ASSUME NEW s, Good(s), s.currentState = STATE_SUBSCRIBED, NEW call,
           NEW A, CallActions(call) \subseteq A,
           s.updatesBeforeSubscribed = "bad" => Again \subseteq A
    PROVE  LET t == Deliver(s, call) IN
           /\ Good(t) /\ Leaves(s, t, A)
           /\ \/ s.updatesBeforeSubscribed # "bad"
              \/ call # "patch" /\ ~Holds(s.queue, ACTION_MODIFY_PATCH)
              => Sends(s, t)
           /\ t.snapshotRef = Len(s.inFlight)
           /\ t.deltaRef = s.deltaRef \/ t.deltaRef = Len(s.inFlight)
<1> DEFINE n == Len(s.inFlight)
           t == [s EXCEPT !.snapshotRef = n]
           u == ConsumerCall(t, call)
           v == Deliver(s, call)
<1>1. s \in SubscriptionRecords /\ n \in Nat
  BY LenProperties DEF Good, SubscriptionRecords
<1>2. /\ t \in SubscriptionRecords /\ Same(s, t) /\ t.snapshotRef = n
      /\ t.deltaRef = s.deltaRef
      /\ t.updatesBeforeSubscribed = s.updatesBeforeSubscribed
  BY <1>1 DEF Same, SubscriptionRecords
<1>3. v = IF u.updatesBeforeSubscribed = "none" THEN u
          ELSE onStreamingData(u, u.updatesBeforeSubscribed = "good")
  BY DEF Deliver, referenceId
<1> HIDE DEF t, n, v
<1>4. Good(t)
  BY <1>1, <1>2, SameGood
<1>5. Good(u) /\ Acts(t, u, CallActions(call))
  BY <1>4, CallActs, ConsumerCallGood
<1> HIDE DEF u
<1>6. /\ Moves(s, t, {}) /\ Moves(t, u, CallActions(call))
      /\ t.currentState = STATE_SUBSCRIBED /\ t.inFlight = s.inFlight
      /\ t.queue = s.queue
  BY <1>2, <1>5, SameMoves, ActsMoves DEF Same
<1>7. Moves(s, u, CallActions(call))
  BY <1>1, <1>2, <1>6, MovesOn
<1>8. Moves(s, u, A)
  BY <1>7 DEF Moves, Does
<1>9. /\ u.snapshotRef = n /\ u.deltaRef = s.deltaRef
      /\ u.updatesBeforeSubscribed \in {s.updatesBeforeSubscribed, "none"}
  BY <1>2, <1>5 DEF Acts, Keeps
<1>10. Len(u.inFlight) = n /\ u.currentState # STATE_SUBSCRIBE_REQUESTED
  <2>1. Good(s) /\ Sends(s, u)
    BY <1>8 DEF Moves
  <2> QED BY <2>1, SendsLen, StateNames DEF n, Sends, isReadyForUnsubscribeByTag
<1>11. CASE u.updatesBeforeSubscribed = "none"
  BY <1>3, <1>5, <1>8, <1>9, <1>11, MovesLeaves DEF n, v
<1>12. CASE u.updatesBeforeSubscribed = "good"
  <2>1. v = onStreamingData(u, TRUE)
    BY <1>3, <1>12
  <2>2. /\ Good(v) /\ Same(u, v) /\ v.snapshotRef = u.snapshotRef
        /\ v.deltaRef = u.deltaRef \/ v.deltaRef = n
    BY <1>5, <1>10, <2>1, UpdateTells
  <2>3. Moves(u, v, {})
    BY <2>2, SameMoves
  <2>4. u \in SubscriptionRecords
    BY <1>5 DEF Good
  <2>5. Moves(s, v, A)
    BY <1>1, <1>8, <2>3, <2>4, MovesOn
  <2> QED BY <1>9, <2>2, <2>5, MovesLeaves DEF n, v
<1>13. CASE u.updatesBeforeSubscribed \notin {"none", "good"}
  <2>1. u.updatesBeforeSubscribed = "bad" /\ s.updatesBeforeSubscribed = "bad"
    <3>1. u.updatesBeforeSubscribed \in Buffers
      BY <1>5 DEF Good, SubscriptionRecords
    <3> QED BY <1>9, <1>13, <3>1 DEF Buffers
  <2>2. v = onStreamingData(u, FALSE)
    BY <1>3, <2>1
  <2>3. v = u \/ (v = reset(u) /\ u.currentState \in
            {STATE_SUBSCRIBED, STATE_PATCH_REQUESTED, STATE_READY_FOR_UNSUBSCRIBE_BY_TAG})
    BY <1>5, <1>10, <2>2, UnparsableResets
  <2>4. CASE v = u
    BY <1>5, <1>8, <1>9, <2>4, MovesLeaves DEF n, v
  <2>5. CASE v = reset(u)
    <3> DEFINE w == reset(u)
    <3>1. Good(w)
      BY <1>5, ResetGood
    <3>2. /\ u.currentState # STATE_PATCH_REQUESTED => Acts(u, w, Again)
          /\ w.isDisposed = u.isDisposed
          /\ w.connectionAvailable = u.connectionAvailable
          /\ w.networkErrorSubscribingTimer => u.networkErrorSubscribingTimer
          /\ w.lostTimers = u.lostTimers
          /\ w.snapshotRef = u.snapshotRef /\ w.deltaRef = u.deltaRef
          /\ Does(u, w, Again)
      BY <1>5, ResetActs
    <3> HIDE DEF w
    <3>3. Leaves(u, w, Again) /\ Leaves(s, u, A)
      BY <1>8, <3>2, MovesLeaves DEF Leaves
    <3>4. isReadyForUnsubscribeByTag(u) => isReadyForUnsubscribeByTag(w)
      BY <3>2, StaysReady, StateNames DEF isReadyForUnsubscribeByTag, Acts
    <3>5. Leaves(s, w, A)
      BY <2>1, <3>3, <3>4, LeavesOn
    <3>6. ASSUME call # "patch", ~Holds(s.queue, ACTION_MODIFY_PATCH)
          PROVE  Sends(s, w)
      <4>1. ACTION_MODIFY_PATCH \notin CallActions(call)
        BY <3>6 DEF CallActions, Again, ACTION_SUBSCRIBE, ACTION_UNSUBSCRIBE,
             ACTION_MODIFY_PATCH
      <4>2. u.currentState # STATE_PATCH_REQUESTED
        BY <1>7, <3>6, <4>1, StateNames DEF Moves, Does
      <4>3. /\ u \in SubscriptionRecords /\ Sends(s, u)
            /\ u.connectionAvailable = s.connectionAvailable
        BY <1>5, <1>7 DEF Good, Moves
      <4> QED BY <1>1, <3>2, <4>2, <4>3, SendsOn DEF Acts
    <3>7. w = v
      BY <2>5 DEF w
    <3> QED BY <1>9, <2>1, <3>1, <3>2, <3>5, <3>6, <3>7 DEF n, v
  <2> QED BY <2>3, <2>4, <2>5
<1> QED BY <1>11, <1>12, <1>13

-----------------------------------------------------------------------------
(* An unsubscribe that is next is sent as soon as there is something to    *)
(* unsubscribe.                                                            *)
LEMMA UnsubscribeIsNext ==
    ASSUME NEW s, Good(s), s.currentState = STATE_SUBSCRIBED,
           s.connectionAvailable, WillUnsubscribe(s), TagAtHead(s.queue)
    PROVE  onReadyToPerformNextAction(s).currentState = STATE_UNSUBSCRIBE_REQUESTED
<1> DEFINE order == DequeueOrder(s.queue)
           t == performQueue(s)
<1>1. s \in SubscriptionRecords /\ s.queue \in Seq(Items)
  BY DEF Good, SubscriptionRecords
<1>2. onReadyToPerformNextAction(s) = t
  <2>1. ~Transitioning(s)
    BY StateNames DEF Transitioning, TRANSITIONING_STATES
  <2> QED BY <2>1 DEF onReadyToPerformNextAction, WillUnsubscribe, HeadIs
<1>3. Len(order) > 0 /\ order[1].action = ACTION_UNSUBSCRIBE
  BY <1>1, OrderKeeps DEF WillUnsubscribe
<1>4. order \in Seq(Items) /\ Len(order) \in Nat
  BY <1>1, DequeueOrderShape
<1> HIDE DEF order, t
<1>5. Effective(order[1].action, s.currentState) /\ 1 \in 1..Len(order)
  BY <1>3, <1>4 DEF Effective
<1>6. PICK n \in 1..Len(order) :
          /\ Effective(order[n].action, s.currentState)
          /\ \A i \in 1..(n - 1) : ~Effective(order[i].action, s.currentState)
          /\ t = AfterPerform(Perform(
                     [s EXCEPT !.queue = SubSeq(order, n + 1, Len(order))],
                     order[n].action))
  BY <1>1, <1>5, PerformQueueShape DEF order, t
<1>7. n = 1
  <2>1. CASE n > 1
    BY <1>4, <1>5, <1>6, <2>1
  <2> QED BY <1>4, <2>1
<1> DEFINE rest == SubSeq(order, 1 + 1, Len(order))
           u == [s EXCEPT !.queue = rest]
<1>8. rest \in Seq(Items)
  BY <1>4, <1>5, BehindKeeps
<1> HIDE DEF rest
<1>9. /\ u \in SubscriptionRecords /\ u.currentState = s.currentState
      /\ u.connectionAvailable
  BY <1>1, <1>8 DEF SubscriptionRecords
<1>10. t = AfterPerform(Perform(u, ACTION_UNSUBSCRIBE))
  BY <1>3, <1>6, <1>7 DEF rest
<1> HIDE DEF u
<1>11. t = unsubscribe(u)
  BY <1>3, <1>5, <1>9, <1>10, PerformActs DEF Actions
<1>12. unsubscribe(u).currentState = STATE_UNSUBSCRIBE_REQUESTED
  <2>1. \E f : unsubscribe(u) = [u EXCEPT !.inFlight = f,
                                   !.currentState = STATE_UNSUBSCRIBE_REQUESTED]
    BY DEF unsubscribe, Count
  <2> QED BY <1>9, <2>1 DEF SubscriptionRecords
<1> QED BY <1>2, <1>11, <1>12

(* The response to the POST of the current reference id. *)
LEMMA SubscribeSuccessMoves ==
    ASSUME NEW s, NEW r, r = referenceId(s), Answered(s, r), NEW call,
           NEW A, CallActions(call) \subseteq A,
           s.updatesBeforeSubscribed = "bad" => Again \subseteq A
    PROVE  LET subscribed == [s EXCEPT !.currentState = STATE_SUBSCRIBED]
               t == onSubscribeSuccess(s, r, call)
           IN  /\ Good(subscribed) /\ Good(t)
               /\ Leaves(subscribed, t, A) /\ Served(t)
               /\ \/ s.updatesBeforeSubscribed # "bad"
                  \/ call # "patch" /\ ~Holds(s.queue, ACTION_MODIFY_PATCH)
                  => Sends(subscribed, t)
               /\ t.updatesBeforeSubscribed = "none"
               /\ IF WillUnsubscribe(s)
                  THEN /\ t.snapshotRef = s.snapshotRef /\ t.deltaRef = s.deltaRef
                       /\ s.connectionAvailable /\ TagAtHead(s.queue) =>
                              t.currentState = STATE_UNSUBSCRIBE_REQUESTED
                  ELSE /\ t.snapshotRef = Len(s.inFlight)
                       /\ t.deltaRef = s.deltaRef \/ t.deltaRef = Len(s.inFlight)
<1> DEFINE q == [s EXCEPT !.currentState = STATE_SUBSCRIBED]
           u == IF WillUnsubscribe(q) THEN q ELSE Deliver(q, call)
           v == [u EXCEPT !.updatesBeforeSubscribed = "none"]
           t == onReadyToPerformNextAction(v)
<1>1. /\ q \in SubscriptionRecords /\ q.currentState = STATE_SUBSCRIBED
      /\ q.inFlight = s.inFlight /\ q.queue = s.queue
      /\ q.becameReady = s.becameReady
      /\ q.connectionAvailable = s.connectionAvailable
      /\ q.updatesBeforeSubscribed = s.updatesBeforeSubscribed
      /\ q.snapshotRef = s.snapshotRef /\ q.deltaRef = s.deltaRef
  BY DEF Answered, SubscriptionRecords, States
<1>2. onSubscribeSuccess(s, r, call) = t
  BY DEF onSubscribeSuccess
<1>3. WillUnsubscribe(q) = WillUnsubscribe(s)
  BY <1>1 DEF WillUnsubscribe
<1> HIDE DEF q
<1>4. Good(q)
  BY <1>1, NotWaiting DEF Answered
<1>5. /\ Good(u) /\ Leaves(q, u, A)
      /\ \/ s.updatesBeforeSubscribed # "bad"
         \/ call # "patch" /\ ~Holds(s.queue, ACTION_MODIFY_PATCH)
         => Sends(q, u)
      /\ IF WillUnsubscribe(s)
         THEN u = q
         ELSE /\ u.snapshotRef = Len(s.inFlight)
              /\ u.deltaRef = s.deltaRef \/ u.deltaRef = Len(s.inFlight)
  <2>1. CASE WillUnsubscribe(s)
    <3>1. Leaves(q, q, A) /\ Sends(q, q)
      BY ActsNot, ActsMoves, MovesLeaves
    <3> QED BY <1>3, <1>4, <2>1, <3>1
  <2>2. CASE ~WillUnsubscribe(s)
    <3>1. u = Deliver(q, call)
      BY <1>3, <2>2
    <3> HIDE DEF u
    <3> QED BY <1>1, <1>4, <2>2, <3>1, DeliverMoves
  <2> QED BY <2>1, <2>2
<1> HIDE DEF u
<1>6. /\ v \in SubscriptionRecords /\ Same(u, v)
      /\ v.updatesBeforeSubscribed = "none"
      /\ v.snapshotRef = u.snapshotRef /\ v.deltaRef = u.deltaRef
  BY <1>5 DEF Good, SubscriptionRecords, Buffers, Same
<1> HIDE DEF v
<1>7. Good(v)
  BY <1>5, <1>6, SameGood
<1>8. /\ Acts(v, t, {}) /\ Served(t) /\ Good(t)
  BY <1>7, ReadyActs, ReadyToPerformGood
<1> HIDE DEF t
<1>9. Moves(u, v, {}) /\ Moves(v, t, {})
  BY <1>6, <1>8, SameMoves, ActsMoves
<1>10. Moves(u, t, {})
  BY <1>5, <1>6, <1>9, MovesOn DEF Good
<1>11. Leaves(q, t, A)
  <2>1. isReadyForUnsubscribeByTag(u) => isReadyForUnsubscribeByTag(t)
    BY <1>10, StaysReady DEF Moves
  <2> QED BY <1>5, <1>10, <2>1, LeavesOn, MovesLeaves
<1>12. Sends(q, u) => Sends(q, t)
  BY <1>1, <1>5, <1>10, SendsOn DEF Moves, Good, Leaves
<1>13. /\ t.updatesBeforeSubscribed = "none"
       /\ t.snapshotRef = u.snapshotRef /\ t.deltaRef = u.deltaRef
  BY <1>6, <1>8 DEF Acts, Keeps
<1>14. ASSUME WillUnsubscribe(s), s.connectionAvailable, TagAtHead(s.queue)
       PROVE  t.currentState = STATE_UNSUBSCRIBE_REQUESTED
  <2>1. /\ v.currentState = STATE_SUBSCRIBED /\ v.connectionAvailable
        /\ v.queue = s.queue
    BY <1>1, <1>5, <1>6, <1>14 DEF Same
  <2>2. WillUnsubscribe(v) /\ TagAtHead(v.queue)
    BY <1>14, <2>1 DEF WillUnsubscribe
  <2> QED BY <1>7, <2>1, <2>2, UnsubscribeIsNext DEF t
<1> QED BY <1>1, <1>2, <1>4, <1>5, <1>8, <1>11, <1>12, <1>13, <1>14 DEF q

(* An error: the POST is sent again, now or in five seconds, or given up.  *)
LEMMA SubscribeErrorMoves ==
    ASSUME NEW s, NEW r, r = referenceId(s), Answered(s, r),
           NEW response \in SubscribeErrors
    PROVE  LET t == onSubscribeError(s, r, response) IN
           \E q :
               /\ Good(q) /\ q.currentState = STATE_UNSUBSCRIBED
               /\ q.inFlight = s.inFlight /\ q.queue = s.queue
               /\ q.becameReady = s.becameReady /\ q.isDisposed = s.isDisposed
               /\ q.connectionAvailable = s.connectionAvailable
               /\ q.networkErrorSubscribingTimer = s.networkErrorSubscribingTimer
               /\ q.lostTimers = s.lostTimers
               /\ q.snapshotRef = s.snapshotRef /\ q.deltaRef = s.deltaRef
               /\ Good(t) /\ Served(t)
               /\ Does(q, t, {ACTION_SUBSCRIBE}) /\ Sends(q, t)
               /\ t.isDisposed = s.isDisposed
               /\ t.connectionAvailable = s.connectionAvailable
               /\ response # "network" =>
                      /\ t.networkErrorSubscribingTimer =>
                             s.networkErrorSubscribingTimer
                      /\ t.lostTimers = s.lostTimers
               /\ t.updatesBeforeSubscribed \in {s.updatesBeforeSubscribed, "none"}
               /\ t.snapshotRef = s.snapshotRef /\ t.deltaRef = s.deltaRef
               /\ \/ /\ ~WillUnsubscribe(s) /\ Immediate(s, response)
                     /\ t = tryPerformAction(q, Item(ACTION_SUBSCRIBE))
                  \/ /\ ~WillUnsubscribe(s) /\ response = "network"
                     /\ t = startTimer(q)
                  \/ /\ \/ WillUnsubscribe(s)
                        \/ ~Immediate(s, response) /\ response # "network"
                     /\ t = onReadyToPerformNextAction(q)
<1> DEFINE p == s.protobuf /\ response # "unsupportedFormat"
           q == [s EXCEPT !.currentState = STATE_UNSUBSCRIBED, !.protobuf = p]
           t == onSubscribeError(s, r, response)
<1>1. /\ q \in SubscriptionRecords /\ q.currentState = STATE_UNSUBSCRIBED
      /\ q.inFlight = s.inFlight
      /\ q.queue = s.queue /\ q.becameReady = s.becameReady
      /\ q.isDisposed = s.isDisposed
      /\ q.connectionAvailable = s.connectionAvailable
      /\ q.networkErrorSubscribingTimer = s.networkErrorSubscribingTimer
      /\ q.lostTimers = s.lostTimers
      /\ q.updatesBeforeSubscribed = s.updatesBeforeSubscribed
      /\ q.snapshotRef = s.snapshotRef /\ q.deltaRef = s.deltaRef
  BY DEF Answered, SubscriptionRecords, States
<1>2. t = IF ~WillUnsubscribe(s) /\ Immediate(s, response)
          THEN tryPerformAction(q, Item(ACTION_SUBSCRIBE))
          ELSE IF ~WillUnsubscribe(s) /\ response = "network"
          THEN startTimer(q)
          ELSE onReadyToPerformNextAction(q)
  BY DEF onSubscribeError
<1>3. Good(t)
  BY OnSubscribeErrorGood
<1>4. WillUnsubscribe(q) = WillUnsubscribe(s)
  BY <1>1 DEF WillUnsubscribe
<1> HIDE DEF q, t
<1>5. Good(q)
  BY <1>1, NotWaiting, StateNames DEF Answered
<1>6. ASSUME Acts(q, t, {ACTION_SUBSCRIBE}), Served(t)
      PROVE  /\ Served(t) /\ Does(q, t, {ACTION_SUBSCRIBE}) /\ Sends(q, t)
             /\ t.isDisposed = s.isDisposed
             /\ t.connectionAvailable = s.connectionAvailable
             /\ t.networkErrorSubscribingTimer => s.networkErrorSubscribingTimer
             /\ t.lostTimers = s.lostTimers
             /\ t.updatesBeforeSubscribed \in {s.updatesBeforeSubscribed, "none"}
             /\ t.snapshotRef = s.snapshotRef /\ t.deltaRef = s.deltaRef
  BY <1>1, <1>6 DEF Acts, Keeps
<1>7. CASE ~WillUnsubscribe(s) /\ Immediate(s, response)
  <2>1. t = tryPerformAction(q, Item(ACTION_SUBSCRIBE))
    BY <1>2, <1>7
  <2>2. Item(ACTION_SUBSCRIBE) \in Items /\ Item(ACTION_SUBSCRIBE).action = ACTION_SUBSCRIBE
    BY ItemsOf DEF Item
  <2>3. Acts(q, t, {ACTION_SUBSCRIBE}) /\ Served(t)
    BY <1>5, <2>1, <2>2, TryPerformActs
  <2> QED BY <1>1, <1>3, <1>5, <1>6, <1>7, <2>1, <2>3 DEF t
<1>8. CASE /\ ~(~WillUnsubscribe(s) /\ Immediate(s, response))
           /\ ~WillUnsubscribe(s) /\ response = "network"
  <2> DEFINE n == IF q.networkErrorSubscribingTimer
                  THEN q.lostTimers + 1 ELSE q.lostTimers
  <2>1. t = startTimer(q)
    BY <1>2, <1>8
  <2>2. n \in Nat
    BY <1>1 DEF SubscriptionRecords
  <2>3. t = [q EXCEPT !.networkErrorSubscribingTimer = TRUE, !.lostTimers = n]
    BY <2>1 DEF startTimer
  <2> HIDE DEF n
  <2>4. /\ t.currentState = q.currentState /\ t.inFlight = q.inFlight
        /\ t.queue = q.queue /\ t.becameReady = q.becameReady
        /\ t.isDisposed = s.isDisposed
        /\ t.connectionAvailable = s.connectionAvailable
        /\ t.networkErrorSubscribingTimer
        /\ t.updatesBeforeSubscribed = s.updatesBeforeSubscribed
        /\ t.snapshotRef = s.snapshotRef /\ t.deltaRef = s.deltaRef
    BY <1>1, <2>2, <2>3 DEF SubscriptionRecords
  <2>5. Does(q, t, {ACTION_SUBSCRIBE}) /\ Sends(q, t)
    BY <2>4 DEF Does, Sends, isReadyForUnsubscribeByTag
  <2>6. Served(t)
    BY <1>1, <1>4, <1>8, <2>4 DEF Served, WillUnsubscribe
  <2> QED BY <1>1, <1>3, <1>5, <1>8, <2>1, <2>4, <2>5, <2>6 DEF t
<1>9. CASE /\ ~(~WillUnsubscribe(s) /\ Immediate(s, response))
           /\ ~(~WillUnsubscribe(s) /\ response = "network")
  <2>1. t = onReadyToPerformNextAction(q)
    BY <1>2, <1>9
  <2>2. Acts(q, t, {}) /\ Served(t)
    BY <1>5, <2>1, ReadyActs
  <2>3. Acts(q, t, {ACTION_SUBSCRIBE})
    BY <2>2 DEF Acts, Does
  <2> QED BY <1>1, <1>3, <1>5, <1>6, <1>9, <2>1, <2>2, <2>3 DEF t
<1> QED BY <1>7, <1>8, <1>9

-----------------------------------------------------------------------------
(* dispose changes only isDisposed.                                        *)
LEMMA DisposeSame ==
    ASSUME NEW s, Good(s)
    PROVE  LET t == dispose(s) IN
           /\ t.isDisposed /\ t.currentState = s.currentState
           /\ t.inFlight = s.inFlight /\ t.queue = s.queue
           /\ t.becameReady = s.becameReady
           /\ t.connectionAvailable = s.connectionAvailable
           /\ t.networkErrorSubscribingTimer = s.networkErrorSubscribingTimer
           /\ t.lostTimers = s.lostTimers
           /\ t.updatesBeforeSubscribed = s.updatesBeforeSubscribed
           /\ t.snapshotRef = s.snapshotRef /\ t.deltaRef = s.deltaRef
BY DEF Good, SubscriptionRecords, dispose

(* A retry that is pending is queued instead.                              *)
LEMMA OnConnectionUnavailableMoves ==
    ASSUME NEW s, Good(s)
    PROVE  LET down == [s EXCEPT !.connectionAvailable = FALSE]
               t == onConnectionUnavailable(s)
           IN  /\ ~t.connectionAvailable /\ t.isDisposed = s.isDisposed
               /\ ~t.networkErrorSubscribingTimer
               /\ t.lostTimers = s.lostTimers
               /\ Does(s, t, {ACTION_SUBSCRIBE})
               /\ t.currentState = s.currentState /\ t.inFlight = s.inFlight
               /\ t.updatesBeforeSubscribed \in {s.updatesBeforeSubscribed, "none"}
               /\ t.snapshotRef = s.snapshotRef /\ t.deltaRef = s.deltaRef
               /\ t.queue = IF s.networkErrorSubscribingTimer
                            THEN enqueue(s.queue, Item(ACTION_SUBSCRIBE))
                            ELSE s.queue
<1> DEFINE d == [s EXCEPT !.connectionAvailable = FALSE]
           t == onConnectionUnavailable(s)
<1>1. s \in SubscriptionRecords /\ s.queue \in Seq(Items)
  BY DEF Good, SubscriptionRecords
<1>2. /\ d \in SubscriptionRecords /\ d.currentState = s.currentState
      /\ d.inFlight = s.inFlight /\ d.queue = s.queue
      /\ d.becameReady = s.becameReady /\ d.isDisposed = s.isDisposed
      /\ ~d.connectionAvailable
      /\ d.networkErrorSubscribingTimer = s.networkErrorSubscribingTimer
      /\ d.lostTimers = s.lostTimers
      /\ d.updatesBeforeSubscribed = s.updatesBeforeSubscribed
      /\ d.snapshotRef = s.snapshotRef /\ d.deltaRef = s.deltaRef
  BY <1>1 DEF SubscriptionRecords
<1>3. t = IF s.networkErrorSubscribingTimer
          THEN tryPerformAction(d, Item(ACTION_SUBSCRIBE)) ELSE d
  BY DEF onConnectionUnavailable
<1> HIDE DEF d, t
<1>4. Good(d)
  BY <1>2, Quiet DEF TagQueued
<1>5. Does(s, d, {}) /\ Sends(s, d)
  BY <1>2 DEF Does, Sends, isReadyForUnsubscribeByTag
<1>6. CASE s.networkErrorSubscribingTimer
  <2> DEFINE item == Item(ACTION_SUBSCRIBE)
             q == enqueue(d.queue, item)
             e == [d EXCEPT !.networkErrorSubscribingTimer = FALSE]
  <2>1. item \in Items /\ item.action = ACTION_SUBSCRIBE
    BY ItemsOf DEF Item
  <2>2. /\ e.queue = d.queue /\ ~e.connectionAvailable
        /\ e \in SubscriptionRecords /\ ~e.networkErrorSubscribingTimer
        /\ e.currentState = d.currentState /\ e.inFlight = d.inFlight
    BY <1>2 DEF SubscriptionRecords
  <2>3. t = [e EXCEPT !.queue = enqueue(e.queue, item)]
    BY <1>3, <1>6, <2>2 DEF tryPerformAction
  <2>4. q \in Seq(Items)
    BY <1>1, <1>2, <2>1, EnqueueType
  <2> HIDE DEF e, q
  <2>5. /\ t.queue = q /\ t.currentState = d.currentState /\ t.inFlight = d.inFlight
        /\ ~t.networkErrorSubscribingTimer
    BY <2>2, <2>3, <2>4 DEF SubscriptionRecords, q
  <2> HIDE DEF item
  <2>6. Acts(d, t, {ACTION_SUBSCRIBE})
    BY <1>3, <1>4, <1>6, <2>1, TryPerformActs DEF item
  <2>7. Does(s, t, {ACTION_SUBSCRIBE})
    BY <1>5, <2>6, DoesOn, StaysReady DEF Acts
  <2> QED BY <1>2, <1>6, <2>5, <2>6, <2>7 DEF Acts, Keeps, t, q, item
<1>7. CASE ~s.networkErrorSubscribingTimer
  <2>1. t = d
    BY <1>3, <1>7
  <2>2. Does(s, t, {ACTION_SUBSCRIBE})
    BY <1>5, <2>1 DEF Does
  <2> QED BY <1>2, <1>7, <2>1, <2>2 DEF t
<1> QED BY <1>6, <1>7

(* When the connection is back the queue is served, unless a response is   *)
(* waited for.                                                             *)
LEMMA OnConnectionAvailableMoves ==
    ASSUME NEW s, Good(s)
    PROVE  LET up == [s EXCEPT !.connectionAvailable = TRUE]
               t == onConnectionAvailable(s)
           IN  /\ Good(up) /\ Acts(up, t, {}) /\ Served(t)
               /\ Does(s, t, {})
               /\ (t = up /\ Transitioning(up)) \/ t = onReadyToPerformNextAction(up)
<1> DEFINE u == [s EXCEPT !.connectionAvailable = TRUE]
           t == onConnectionAvailable(s)
<1>1. s \in SubscriptionRecords
  BY DEF Good
<1>2. /\ u \in SubscriptionRecords /\ u.currentState = s.currentState
      /\ u.inFlight = s.inFlight /\ u.queue = s.queue
      /\ u.becameReady = s.becameReady
  BY <1>1 DEF SubscriptionRecords
<1>3. t = IF Transitioning(u) THEN u ELSE onReadyToPerformNextAction(u)
  BY DEF onConnectionAvailable
<1> HIDE DEF u, t
<1>4. Good(u)
  BY <1>2, Quiet DEF TagQueued
<1>5. Does(s, u, {}) /\ Sends(s, u)
  BY <1>2 DEF Does, Sends, isReadyForUnsubscribeByTag
<1>6. Acts(u, t, {}) /\ Served(t)
  <2>1. CASE Transitioning(u)
    BY <1>3, <2>1, ActsNot DEF Served
  <2>2. CASE ~Transitioning(u)
    BY <1>3, <1>4, <2>2, ReadyActs
  <2> QED BY <2>1, <2>2
<1>7. Does(s, t, {})
  BY <1>5, <1>6, DoesOn, StaysReady DEF Acts
<1> QED BY <1>3, <1>4, <1>6, <1>7 DEF u, t

(* The timer that fires has the subscription subscribe.                    *)
LEMMA TimeoutActs ==
    ASSUME NEW s, Good(s)
    PROVE  LET t == onNetworkErrorTimeout(s) IN
           /\ Good(t) /\ Acts(s, t, {ACTION_SUBSCRIBE}) /\ Served(t)
           /\ t = tryPerformAction([s EXCEPT !.networkErrorSubscribingTimer = FALSE],
                                   Item(ACTION_SUBSCRIBE))
<1> DEFINE u == [s EXCEPT !.networkErrorSubscribingTimer = FALSE]
           t == onNetworkErrorTimeout(s)
<1>1. s \in SubscriptionRecords
  BY DEF Good
<1>2. /\ u \in SubscriptionRecords /\ u.currentState = s.currentState
      /\ u.inFlight = s.inFlight /\ u.queue = s.queue
      /\ u.becameReady = s.becameReady /\ Keeps(s, u)
  BY <1>1 DEF Keeps, SubscriptionRecords
<1>3. t = tryPerformAction(u, Item(ACTION_SUBSCRIBE))
  BY DEF onNetworkErrorTimeout
<1> HIDE DEF u, t
<1>4. Good(u) /\ Acts(s, u, {})
  BY <1>2, Quiet DEF TagQueued, Acts, Sends, Does, isReadyForUnsubscribeByTag
<1>5. Item(ACTION_SUBSCRIBE) \in Items /\ Item(ACTION_SUBSCRIBE).action = ACTION_SUBSCRIBE
  BY ItemsOf DEF Item
<1>6. Acts(u, t, {ACTION_SUBSCRIBE}) /\ Served(t)
  BY <1>3, <1>4, <1>5, TryPerformActs
<1>7. Acts(s, t, {ACTION_SUBSCRIBE})
  BY <1>1, <1>2, <1>4, <1>6, ActsOn
<1>8. Good(t)
  BY TimeoutGood DEF t
<1> QED BY <1>3, <1>6, <1>7, <1>8 DEF u, t

(* A lost timer does as the other one would.                               *)
LEMMA LostTimeoutActs ==
    ASSUME NEW s, Good(s), s.lostTimers > 0
    PROVE  \E u : /\ Good(u) /\ u.currentState = s.currentState
                  /\ u.inFlight = s.inFlight /\ u.queue = s.queue
                  /\ u.becameReady = s.becameReady /\ u.isDisposed = s.isDisposed
                  /\ u.connectionAvailable = s.connectionAvailable
                  /\ u.networkErrorSubscribingTimer = s.networkErrorSubscribingTimer
                  /\ u.updatesBeforeSubscribed = s.updatesBeforeSubscribed
                  /\ u.snapshotRef = s.snapshotRef /\ u.deltaRef = s.deltaRef
                  /\ onLostTimeout(s) = onNetworkErrorTimeout(u)
<1> DEFINE n == IF s.networkErrorSubscribingTimer
                THEN s.lostTimers ELSE s.lostTimers - 1
           u == [s EXCEPT !.lostTimers = n]
<1>1. s \in SubscriptionRecords /\ n \in Nat
  BY DEF Good, SubscriptionRecords
<1>2. onLostTimeout(s) = onNetworkErrorTimeout(u)
  BY DEF onLostTimeout
<1> HIDE DEF n
<1>3. /\ u \in SubscriptionRecords /\ u.currentState = s.currentState
      /\ u.inFlight = s.inFlight /\ u.queue = s.queue
      /\ u.becameReady = s.becameReady /\ u.isDisposed = s.isDisposed
      /\ u.connectionAvailable = s.connectionAvailable
      /\ u.networkErrorSubscribingTimer = s.networkErrorSubscribingTimer
      /\ u.updatesBeforeSubscribed = s.updatesBeforeSubscribed
      /\ u.snapshotRef = s.snapshotRef /\ u.deltaRef = s.deltaRef
  BY <1>1 DEF SubscriptionRecords
<1> HIDE DEF u
<1>4. Good(u)
  BY <1>3, Quiet DEF TagQueued
<1> QED BY <1>2, <1>3, <1>4

(* The responses to DELETE and PATCH, and to the DELETE by tag.            *)
LEMMA ResponseActs ==
    ASSUME NEW s, NEW r, r = referenceId(s), Answered(s, r)
    PROVE  LET unsubscribed == [s EXCEPT !.currentState = STATE_UNSUBSCRIBED]
               patched == [s EXCEPT !.currentState = STATE_SUBSCRIBED]
           IN  /\ Good(unsubscribed) /\ Good(patched)
               /\ onUnsubscribeResponse(s, r) = onReadyToPerformNextAction(unsubscribed)
               /\ onModifyPatchResponse(s, r) = onReadyToPerformNextAction(patched)
<1> DEFINE u == [s EXCEPT !.currentState = STATE_UNSUBSCRIBED]
           p == [s EXCEPT !.currentState = STATE_SUBSCRIBED]
<1>1. /\ u \in SubscriptionRecords /\ u.currentState = STATE_UNSUBSCRIBED
      /\ u.queue = s.queue /\ u.becameReady = s.becameReady
      /\ p \in SubscriptionRecords /\ p.currentState = STATE_SUBSCRIBED
      /\ p.inFlight = s.inFlight
      /\ p.queue = s.queue /\ p.becameReady = s.becameReady
  BY DEF Answered, SubscriptionRecords, States
<1>2. /\ onUnsubscribeResponse(s, r) = onReadyToPerformNextAction(u)
      /\ onModifyPatchResponse(s, r) = onReadyToPerformNextAction(p)
  BY DEF onUnsubscribeResponse, onModifyPatchResponse
<1> HIDE DEF u, p
<1>3. Good(u) /\ Good(p)
  BY <1>1, NotWaiting, StateNames DEF Answered
<1> QED BY <1>2, <1>3 DEF u, p

(* The response to a DELETE by tag.                                        *)
LEMMA TagCompleteActs ==
    ASSUME NEW s, Good(s)
    PROVE  LET unsubscribed == [s EXCEPT !.currentState = STATE_UNSUBSCRIBED]
           IN  /\ Good(unsubscribed)
               /\ onUnsubscribeByTagComplete(s) = onReadyToPerformNextAction(unsubscribed)
<1> DEFINE u == [s EXCEPT !.currentState = STATE_UNSUBSCRIBED]
<1>1. /\ u \in SubscriptionRecords /\ u.currentState = STATE_UNSUBSCRIBED
      /\ u.queue = s.queue /\ u.becameReady = s.becameReady
  BY DEF Good, SubscriptionRecords, States
<1>2. onUnsubscribeByTagComplete(s) = onReadyToPerformNextAction(u)
  BY DEF onUnsubscribeByTagComplete
<1> HIDE DEF u
<1>3. Good(u)
  BY <1>1, NotWaiting, StateNames DEF Good
<1> QED BY <1>2, <1>3 DEF u

-----------------------------------------------------------------------------
(* What an effective action makes of the state and the queue.              *)
LEMMA PerformTo ==
    ASSUME NEW s \in SubscriptionRecords, NEW action \in Actions,
           Effective(action, s.currentState), s.connectionAvailable
    PROVE  LET t == AfterPerform(Perform(s, action)) IN
           /\ t.networkErrorSubscribingTimer = s.networkErrorSubscribingTimer
           /\ \/ /\ action = ACTION_SUBSCRIBE
                 /\ s.currentState = STATE_UNSUBSCRIBED
                 /\ t.currentState = STATE_SUBSCRIBE_REQUESTED
                 /\ t.queue = clearPatches(s.queue)
              \/ /\ action = ACTION_UNSUBSCRIBE
                 /\ s.currentState = STATE_SUBSCRIBED
                 /\ t.currentState = STATE_UNSUBSCRIBE_REQUESTED
                 /\ t.queue = s.queue
              \/ /\ action = ACTION_MODIFY_PATCH
                 /\ s.currentState = STATE_SUBSCRIBED
                 /\ t.currentState = STATE_PATCH_REQUESTED
                 /\ t.queue = s.queue
              \/ /\ action = ACTION_UNSUBSCRIBE_BY_TAG_PENDING
                 /\ t.currentState = STATE_READY_FOR_UNSUBSCRIBE_BY_TAG
                 /\ t.queue = <<>>
<1> DEFINE t == AfterPerform(Perform(s, action))
<1>1. /\ action = ACTION_SUBSCRIBE =>
             t = subscribe([s EXCEPT !.queue = clearPatches(s.queue)])
      /\ action = ACTION_UNSUBSCRIBE => t = unsubscribe(s)
      /\ action = ACTION_MODIFY_PATCH => t = modifyPatch(s)
      /\ action = ACTION_UNSUBSCRIBE_BY_TAG_PENDING =>
             /\ t.currentState = STATE_READY_FOR_UNSUBSCRIBE_BY_TAG
             /\ t.queue = <<>>
  BY PerformActs
<1>2. action = ACTION_UNSUBSCRIBE_BY_TAG_PENDING =>
          t.networkErrorSubscribingTimer = s.networkErrorSubscribingTimer
  <2>1. ASSUME action = ACTION_UNSUBSCRIBE_BY_TAG_PENDING
        PROVE  Perform(s, action) = unsubscribeByTagPending(s)
    BY <2>1 DEF Perform, ACTION_SUBSCRIBE, ACTION_UNSUBSCRIBE, ACTION_MODIFY_PATCH,
       ACTION_UNSUBSCRIBE_BY_TAG_PENDING
  <2>2. unsubscribeByTagPending(s).networkErrorSubscribingTimer =
            s.networkErrorSubscribingTimer
        /\ unsubscribeByTagPending(s) \in SubscriptionRecords
    BY DEF unsubscribeByTagPending, SubscriptionRecords, States
  <2> HIDE DEF t
  <2>3. ASSUME action = ACTION_UNSUBSCRIBE_BY_TAG_PENDING
        PROVE  \/ t = unsubscribeByTagPending(s)
               \/ t = [unsubscribeByTagPending(s) EXCEPT !.queue = <<>>]
    BY <2>1, <2>3 DEF t, AfterPerform
  <2>4. ASSUME NEW u \in SubscriptionRecords
        PROVE  [u EXCEPT !.queue = <<>>].networkErrorSubscribingTimer
                   = u.networkErrorSubscribingTimer
    BY DEF SubscriptionRecords
  <2> QED BY <2>2, <2>3, <2>4
<1> HIDE DEF t
<1>3. \/ action = ACTION_SUBSCRIBE /\ s.currentState = STATE_UNSUBSCRIBED
      \/ action = ACTION_UNSUBSCRIBE /\ s.currentState = STATE_SUBSCRIBED
      \/ action = ACTION_MODIFY_PATCH /\ s.currentState = STATE_SUBSCRIBED
      \/ action = ACTION_UNSUBSCRIBE_BY_TAG_PENDING
  BY DEF Effective
<1>4. CASE action = ACTION_SUBSCRIBE
  <2> DEFINE c == clearPatches(s.queue)
             u == [s EXCEPT !.queue = c]
  <2>1. t = subscribe(u)
    BY <1>1, <1>4
  <2> HIDE DEF c
  <2>2. /\ u.queue = c
        /\ u.networkErrorSubscribingTimer = s.networkErrorSubscribingTimer
    BY DEF SubscriptionRecords
  <2>3. subscribe(u).queue = u.queue
        /\ subscribe(u).networkErrorSubscribingTimer = u.networkErrorSubscribingTimer
        /\ subscribe(u).currentState = STATE_SUBSCRIBE_REQUESTED
    BY DEF subscribe, SubscriptionRecords
  <2> HIDE DEF u
  <2>4. /\ t.queue = c /\ t.currentState = STATE_SUBSCRIBE_REQUESTED
        /\ t.networkErrorSubscribingTimer = s.networkErrorSubscribingTimer
    BY <2>1, <2>2, <2>3
  <2>5. s.currentState = STATE_UNSUBSCRIBED
    BY <1>3, <1>4 DEF ACTION_SUBSCRIBE, ACTION_UNSUBSCRIBE,
       ACTION_MODIFY_PATCH, ACTION_UNSUBSCRIBE_BY_TAG_PENDING
  <2> QED BY <1>4, <2>4, <2>5 DEF t, c
<1>5. CASE action \in {ACTION_UNSUBSCRIBE, ACTION_MODIFY_PATCH}
  <2>1. \A k, state : LET u == [Count(s, referenceId(s), k, 1) EXCEPT
                                    !.currentState = state] IN
            /\ u.queue = s.queue /\ u.currentState = state
            /\ u.networkErrorSubscribingTimer = s.networkErrorSubscribingTimer
    BY DEF Count, SubscriptionRecords
  <2>2. /\ unsubscribe(s).queue = s.queue /\ modifyPatch(s).queue = s.queue
        /\ unsubscribe(s).currentState = STATE_UNSUBSCRIBE_REQUESTED
        /\ modifyPatch(s).currentState = STATE_PATCH_REQUESTED
        /\ unsubscribe(s).networkErrorSubscribingTimer = s.networkErrorSubscribingTimer
        /\ modifyPatch(s).networkErrorSubscribingTimer = s.networkErrorSubscribingTimer
    BY <2>1 DEF unsubscribe, modifyPatch
  <2> QED BY <1>1, <1>3, <1>5, <2>2 DEF t, ACTION_SUBSCRIBE, ACTION_UNSUBSCRIBE,
             ACTION_MODIFY_PATCH, ACTION_UNSUBSCRIBE_BY_TAG_PENDING
<1>6. CASE action = ACTION_UNSUBSCRIBE_BY_TAG_PENDING
  BY <1>1, <1>2, <1>6 DEF t
<1> QED BY <1>3, <1>4, <1>5, <1>6

(* The first effective action of the queue is performed.                   *)
LEMMA PerformQueueTo ==
    ASSUME NEW s, Good(s), s.connectionAvailable
    PROVE  LET t == performQueue(s)
               order == DequeueOrder(s.queue)
           IN
           /\ t.networkErrorSubscribingTimer = s.networkErrorSubscribingTimer
           /\ \/ /\ \A i \in 1..Len(order) :
                       ~Effective(order[i].action, s.currentState)
                 /\ t.currentState = s.currentState /\ t.queue = <<>>
              \/ \E n \in 1..Len(order) :
                 LET rest == SubSeq(order, n + 1, Len(order))
                     action == order[n].action
                 IN
                 /\ \A i \in 1..(n - 1) :
                       ~Effective(order[i].action, s.currentState)
                 /\ \/ /\ action = ACTION_SUBSCRIBE
                       /\ s.currentState = STATE_UNSUBSCRIBED
                       /\ t.currentState = STATE_SUBSCRIBE_REQUESTED
                       /\ t.queue = clearPatches(rest)
                    \/ /\ action = ACTION_UNSUBSCRIBE
                       /\ s.currentState = STATE_SUBSCRIBED
                       /\ t.currentState = STATE_UNSUBSCRIBE_REQUESTED
                       /\ t.queue = rest
                    \/ /\ action = ACTION_MODIFY_PATCH
                       /\ s.currentState = STATE_SUBSCRIBED
                       /\ t.currentState = STATE_PATCH_REQUESTED
                       /\ t.queue = rest
                    \/ /\ action = ACTION_UNSUBSCRIBE_BY_TAG_PENDING
                       /\ t.currentState = STATE_READY_FOR_UNSUBSCRIBE_BY_TAG
                       /\ t.queue = <<>>
<1> DEFINE t == performQueue(s)
           order == DequeueOrder(s.queue)
<1>1. s \in SubscriptionRecords /\ s.queue \in Seq(Items)
  BY DEF Good, SubscriptionRecords
<1>2. order \in Seq(Items) /\ DOMAIN order = 1..Len(order) /\ Len(order) \in Nat
  BY <1>1, DequeueOrderShape
<1>3. CASE /\ \A i \in 1..Len(order) : ~Effective(order[i].action, s.currentState)
           /\ t = [s EXCEPT !.queue = <<>>]
  <2> HIDE DEF order
  <2>1. /\ t.networkErrorSubscribingTimer = s.networkErrorSubscribingTimer
        /\ t.currentState = s.currentState /\ t.queue = <<>>
    BY <1>1, <1>3 DEF SubscriptionRecords
  <2> QED BY <1>3, <2>1 DEF order
<1>4. ASSUME NEW n \in 1..Len(order), Effective(order[n].action, s.currentState),
             \A i \in 1..(n - 1) : ~Effective(order[i].action, s.currentState),
             t = AfterPerform(Perform(
                     [s EXCEPT !.queue = SubSeq(order, n + 1, Len(order))],
                     order[n].action))
      PROVE  LET rest == SubSeq(order, n + 1, Len(order))
                 action == order[n].action
             IN
             /\ t.networkErrorSubscribingTimer = s.networkErrorSubscribingTimer
             /\ \/ /\ action = ACTION_SUBSCRIBE
                   /\ s.currentState = STATE_UNSUBSCRIBED
                   /\ t.currentState = STATE_SUBSCRIBE_REQUESTED
                   /\ t.queue = clearPatches(rest)
                \/ /\ action = ACTION_UNSUBSCRIBE
                   /\ s.currentState = STATE_SUBSCRIBED
                   /\ t.currentState = STATE_UNSUBSCRIBE_REQUESTED
                   /\ t.queue = rest
                \/ /\ action = ACTION_MODIFY_PATCH
                   /\ s.currentState = STATE_SUBSCRIBED
                   /\ t.currentState = STATE_PATCH_REQUESTED
                   /\ t.queue = rest
                \/ /\ action = ACTION_UNSUBSCRIBE_BY_TAG_PENDING
                   /\ t.currentState = STATE_READY_FOR_UNSUBSCRIBE_BY_TAG
                   /\ t.queue = <<>>
  <2> DEFINE rest == SubSeq(order, n + 1, Len(order))
             u == [s EXCEPT !.queue = rest]
             a == order[n].action
             v == AfterPerform(Perform(u, a))
  <2> HIDE DEF order
  <2>1. a \in Actions
    <3>1. order[n] \in Items
      BY <1>2, ElementOfSeq
    <3> QED BY <3>1 DEF Items
  <2>2. rest \in Seq(Items)
    BY <1>2, BehindKeeps
  <2>3. t = v
    BY <1>4
  <2> HIDE DEF rest, a, t
  <2>4. /\ u \in SubscriptionRecords /\ u.currentState = s.currentState
        /\ u.connectionAvailable /\ u.queue = rest
        /\ u.networkErrorSubscribingTimer = s.networkErrorSubscribingTimer
    BY <1>1, <2>2 DEF SubscriptionRecords
  <2>5. Effective(a, u.currentState)
    BY <1>4, <2>4 DEF a
  <2> HIDE DEF u
  <2>6. /\ v.networkErrorSubscribingTimer = u.networkErrorSubscribingTimer
        /\ \/ /\ a = ACTION_SUBSCRIBE
              /\ u.currentState = STATE_UNSUBSCRIBED
              /\ v.currentState = STATE_SUBSCRIBE_REQUESTED
              /\ v.queue = clearPatches(u.queue)
           \/ /\ a = ACTION_UNSUBSCRIBE
              /\ u.currentState = STATE_SUBSCRIBED
              /\ v.currentState = STATE_UNSUBSCRIBE_REQUESTED
              /\ v.queue = u.queue
           \/ /\ a = ACTION_MODIFY_PATCH
              /\ u.currentState = STATE_SUBSCRIBED
              /\ v.currentState = STATE_PATCH_REQUESTED
              /\ v.queue = u.queue
           \/ /\ a = ACTION_UNSUBSCRIBE_BY_TAG_PENDING
              /\ v.currentState = STATE_READY_FOR_UNSUBSCRIBE_BY_TAG
              /\ v.queue = <<>>
    BY <2>1, <2>4, <2>5, PerformTo
  <2> HIDE DEF v
  <2> QED BY <2>3, <2>4, <2>6 DEF a, rest, t
<1>5. \/ /\ \A i \in 1..Len(order) : ~Effective(order[i].action, s.currentState)
         /\ t = [s EXCEPT !.queue = <<>>]
      \/ \E n \in 1..Len(order) :
            /\ Effective(order[n].action, s.currentState)
            /\ \A i \in 1..(n - 1) : ~Effective(order[i].action, s.currentState)
            /\ t = AfterPerform(Perform(
                       [s EXCEPT !.queue = SubSeq(order, n + 1, Len(order))],
                       order[n].action))
  BY <1>1, PerformQueueShape
<1>6. CASE \E n \in 1..Len(order) :
            /\ Effective(order[n].action, s.currentState)
            /\ \A i \in 1..(n - 1) : ~Effective(order[i].action, s.currentState)
            /\ t = AfterPerform(Perform(
                       [s EXCEPT !.queue = SubSeq(order, n + 1, Len(order))],
                       order[n].action))
  <2>1. PICK n \in 1..Len(order) :
            /\ Effective(order[n].action, s.currentState)
            /\ \A i \in 1..(n - 1) : ~Effective(order[i].action, s.currentState)
            /\ t = AfterPerform(Perform(
                       [s EXCEPT !.queue = SubSeq(order, n + 1, Len(order))],
                       order[n].action))
    BY <1>6
  <2> HIDE DEF t, order
  <2> QED BY <1>4, <2>1 DEF t, order
<1> HIDE DEF t, order
<1> QED BY <1>3, <1>5, <1>6 DEF t, order

-----------------------------------------------------------------------------
Subscribing == {STATE_SUBSCRIBE_REQUESTED, STATE_SUBSCRIBED, STATE_PATCH_REQUESTED}

(* What is queued, awaited and timed ends with the subscription subscribed:*)
(* whatever ends it is followed by a subscribe.                            *)
EndsOn(s) ==
    /\ Followed(s.queue, Ending, {ACTION_SUBSCRIBE})
    /\ \/ s.currentState \in Subscribing
       \/ HoldsOne(s.queue, {ACTION_SUBSCRIBE})
       \/ s.networkErrorSubscribingTimer

(* It ends with the subscription unsubscribed.                             *)
EndsOff(s) ==
    /\ Followed(s.queue, {ACTION_SUBSCRIBE}, Ending)
    /\ s.currentState \in Subscribing => HoldsOne(s.queue, Ending)

(* An empty queue holds nothing.                                           *)
LEMMA EmptyQueue ==
    \A as, bs : Followed(<<>>, as, bs) /\ ~HoldsOne(<<>>, as)
BY DEF Followed, HoldsOne

(* The actions that end a subscription are the two unsubscribes.           *)
LEMMA SubscribeIsNoEnd ==
    /\ ACTION_SUBSCRIBE \notin Ending /\ ACTION_MODIFY_PATCH \notin Ending
    /\ ACTION_UNSUBSCRIBE \in Ending /\ ACTION_UNSUBSCRIBE_BY_TAG_PENDING \in Ending
    /\ ACTION_SUBSCRIBE # ACTION_MODIFY_PATCH
BY DEF Ending, ACTION_SUBSCRIBE, ACTION_UNSUBSCRIBE, ACTION_MODIFY_PATCH,
       ACTION_UNSUBSCRIBE_BY_TAG_PENDING

(* To perform what is queued leaves a subscription that ends subscribed.   *)
LEMMA PerformQueueOn ==
    ASSUME NEW s, Good(s), s.connectionAvailable, ~TagQueued(s),
           s.currentState \in {STATE_SUBSCRIBED, STATE_UNSUBSCRIBED}, EndsOn(s)
    PROVE  EndsOn(performQueue(s))
<1> DEFINE t == performQueue(s)
           order == DequeueOrder(s.queue)
           works(i) == Effective(order[i].action, s.currentState)
<1>1. s.queue \in Seq(Items)
  BY DEF Good, SubscriptionRecords
<1>2. /\ order \in Seq(Items) /\ DOMAIN order = 1..Len(order) /\ Len(order) \in Nat
      /\ ~Holds(order, ACTION_UNSUBSCRIBE_BY_TAG_PENDING)
      /\ Followed(order, Ending, {ACTION_SUBSCRIBE})
      /\ HoldsOne(s.queue, {ACTION_SUBSCRIBE}) => HoldsOne(order, {ACTION_SUBSCRIBE})
      /\ \A i \in 1..Len(order) : i > 1 => order[i].action \notin Ending
  BY <1>1, DequeueOrderType, DequeueOrderShape, OrderKeeps DEF TagQueued, EndsOn, Actions
<1>3. t.networkErrorSubscribingTimer = s.networkErrorSubscribingTimer
  BY PerformQueueTo
<1> HIDE DEF order, t
<1>4. CASE /\ \A i \in 1..Len(order) : ~works(i)
           /\ t.currentState = s.currentState /\ t.queue = <<>>
  <2>1. CASE s.currentState = STATE_SUBSCRIBED
    BY <1>4, <2>1, EmptyQueue DEF EndsOn, Subscribing, t
  <2>2. CASE s.currentState = STATE_UNSUBSCRIBED
    <3>1. ~HoldsOne(order, {ACTION_SUBSCRIBE})
      BY <1>2, <1>4, <2>2 DEF HoldsOne, Effective
    <3>2. s.networkErrorSubscribingTimer
      BY <1>2, <2>2, <3>1, StateNames DEF EndsOn, Subscribing
    <3> QED BY <1>3, <1>4, <3>2, EmptyQueue DEF EndsOn, t
  <2> QED BY <2>1, <2>2
<1>5. ASSUME NEW n \in 1..Len(order)
      PROVE  LET rest == SubSeq(order, n + 1, Len(order))
                 action == order[n].action
             IN
             /\ action # ACTION_UNSUBSCRIBE_BY_TAG_PENDING
             /\ action = ACTION_SUBSCRIBE => clearPatches(rest) = <<>>
             /\ Followed(rest, Ending, {ACTION_SUBSCRIBE})
             /\ action = ACTION_UNSUBSCRIBE => HoldsOne(rest, {ACTION_SUBSCRIBE})
  <2> DEFINE rest == SubSeq(order, n + 1, Len(order))
  <2>1. /\ rest \in Seq(Items) /\ ~HoldsOne(rest, Ending)
        /\ Followed(rest, Ending, {ACTION_SUBSCRIBE})
        /\ order[n].action \in Ending => HoldsOne(rest, {ACTION_SUBSCRIBE})
    BY <1>2, BehindKeeps
  <2>2. order[n].action # ACTION_UNSUBSCRIBE_BY_TAG_PENDING
    BY <1>2 DEF Holds
  <2> HIDE DEF rest
  <2>3. clearPatches(rest) = <<>>
    BY <2>1, ClearPatchesShape
  <2> QED BY <2>1, <2>2, <2>3, SubscribeIsNoEnd DEF rest
<1>6. CASE \E n \in 1..Len(order) :
                 LET rest == SubSeq(order, n + 1, Len(order))
                     action == order[n].action
                 IN
                 \/ /\ action = ACTION_SUBSCRIBE
                    /\ t.currentState = STATE_SUBSCRIBE_REQUESTED
                    /\ t.queue = clearPatches(rest)
                 \/ /\ action = ACTION_UNSUBSCRIBE
                    /\ t.currentState = STATE_UNSUBSCRIBE_REQUESTED
                    /\ t.queue = rest
                 \/ /\ action = ACTION_MODIFY_PATCH
                    /\ t.currentState = STATE_PATCH_REQUESTED
                    /\ t.queue = rest
                 \/ action = ACTION_UNSUBSCRIBE_BY_TAG_PENDING
  <2> DEFINE rest(n) == SubSeq(order, n + 1, Len(order))
  <2>1. PICK n \in 1..Len(order) :
                 \/ /\ order[n].action = ACTION_SUBSCRIBE
                    /\ t.currentState = STATE_SUBSCRIBE_REQUESTED
                    /\ t.queue = clearPatches(rest(n))
                 \/ /\ order[n].action = ACTION_UNSUBSCRIBE
                    /\ t.currentState = STATE_UNSUBSCRIBE_REQUESTED
                    /\ t.queue = rest(n)
                 \/ /\ order[n].action = ACTION_MODIFY_PATCH
                    /\ t.currentState = STATE_PATCH_REQUESTED
                    /\ t.queue = rest(n)
                 \/ order[n].action = ACTION_UNSUBSCRIBE_BY_TAG_PENDING
    BY <1>6
  <2>2. /\ order[n].action # ACTION_UNSUBSCRIBE_BY_TAG_PENDING
        /\ order[n].action = ACTION_SUBSCRIBE => clearPatches(rest(n)) = <<>>
        /\ Followed(rest(n), Ending, {ACTION_SUBSCRIBE})
        /\ order[n].action = ACTION_UNSUBSCRIBE => HoldsOne(rest(n), {ACTION_SUBSCRIBE})
    BY <1>5
  <2> HIDE DEF rest
  <2> QED BY <2>1, <2>2, EmptyQueue DEF EndsOn, Subscribing, t
<1>7. \/ /\ \A i \in 1..Len(order) : ~works(i)
         /\ t.currentState = s.currentState /\ t.queue = <<>>
      \/ \E n \in 1..Len(order) :
             LET rest == SubSeq(order, n + 1, Len(order))
                 action == order[n].action
             IN
             \/ /\ action = ACTION_SUBSCRIBE
                /\ t.currentState = STATE_SUBSCRIBE_REQUESTED
                /\ t.queue = clearPatches(rest)
             \/ /\ action = ACTION_UNSUBSCRIBE
                /\ t.currentState = STATE_UNSUBSCRIBE_REQUESTED
                /\ t.queue = rest
             \/ /\ action = ACTION_MODIFY_PATCH
                /\ t.currentState = STATE_PATCH_REQUESTED
                /\ t.queue = rest
             \/ action = ACTION_UNSUBSCRIBE_BY_TAG_PENDING
  BY PerformQueueTo DEF t, order
<1> QED BY <1>4, <1>6, <1>7

(* So does onReadyToPerformNextAction.                                     *)
LEMMA ReadyOn ==
    ASSUME NEW s, Good(s), ~TagQueued(s), EndsOn(s),
           s.currentState \in {STATE_SUBSCRIBED, STATE_UNSUBSCRIBED}
    PROVE  EndsOn(onReadyToPerformNextAction(s))
<1>1. ~Transitioning(s)
  BY StateNames DEF Transitioning, TRANSITIONING_STATES
<1> QED BY <1>1, PerformQueueOn DEF onReadyToPerformNextAction

(* A subscribe that is queued comes last; one that is performed leaves     *)
(* nothing behind that ends the subscription.                              *)
LEMMA TrySubscribeOn ==
    ASSUME NEW s, Good(s), ~isReadyForUnsubscribeByTag(s),
           s.connectionAvailable /\ ~Transitioning(s) => ~HoldsOne(s.queue, Ending)
    PROVE  EndsOn(tryPerformAction(s, Item(ACTION_SUBSCRIBE)))
<1> DEFINE u == [s EXCEPT !.networkErrorSubscribingTimer = FALSE]
           item == Item(ACTION_SUBSCRIBE)
           q == enqueue(u.queue, item)
           t == tryPerformAction(s, item)
<1>1. s \in SubscriptionRecords /\ s.queue \in Seq(Items)
  BY DEF Good, SubscriptionRecords
<1>2. /\ u \in SubscriptionRecords /\ u.currentState = s.currentState
      /\ u.inFlight = s.inFlight /\ u.queue = s.queue
      /\ u.becameReady = s.becameReady
      /\ u.connectionAvailable = s.connectionAvailable
  BY <1>1 DEF SubscriptionRecords
<1>a. item \in Items /\ item.action = ACTION_SUBSCRIBE
  BY ItemsOf DEF Item
<1>3. t = IF ~u.connectionAvailable \/ Transitioning(u) THEN [u EXCEPT !.queue = q]
          ELSE performAction(u, ACTION_SUBSCRIBE)
  BY <1>a DEF tryPerformAction
<1> HIDE DEF u, t, item
<1>4. Good(u)
  BY <1>2, Quiet DEF TagQueued
<1>5. CASE ~u.connectionAvailable \/ Transitioning(u)
  <2>1. Followed(q, Ending, {ACTION_SUBSCRIBE}) /\ HoldsOne(q, {ACTION_SUBSCRIBE})
    BY <1>1, <1>2, <1>a, EnqueueLast, SubscribeIsNoEnd
  <2> HIDE DEF q
  <2>2. t.queue = q
    BY <1>2, <1>3, <1>5 DEF SubscriptionRecords
  <2> QED BY <2>1, <2>2 DEF EndsOn, t, item
<1>6. CASE ~(~u.connectionAvailable \/ Transitioning(u))
  <2>1. ~HoldsOne(u.queue, Ending)
    BY <1>2, <1>6 DEF Transitioning
  <2>2. u.currentState \in {STATE_SUBSCRIBED, STATE_UNSUBSCRIBED}
    BY <1>2, <1>6 DEF Transitioning, TRANSITIONING_STATES, SubscriptionRecords, States,
       isReadyForUnsubscribeByTag
  <2>3. CASE u.currentState = STATE_UNSUBSCRIBED
    <3>1. Effective(ACTION_SUBSCRIBE, u.currentState)
      BY <2>3 DEF Effective
    <3> DEFINE v == AfterPerform(Perform(u, ACTION_SUBSCRIBE))
    <3>2. t = v
      BY <1>3, <1>6, <3>1 DEF performAction
    <3>3. v.currentState = STATE_SUBSCRIBE_REQUESTED /\ v.queue = clearPatches(u.queue)
      <4>1. ACTION_SUBSCRIBE \in Actions /\ u.connectionAvailable
        BY <1>6 DEF Actions
      <4> QED BY <1>2, <3>1, <4>1, PerformTo, SubscribeIsNoEnd
    <3>4. clearPatches(u.queue) = <<>>
      BY <1>1, <1>2, <2>1, ClearPatchesShape
    <3> HIDE DEF v
    <3> QED BY <3>2, <3>3, <3>4, EmptyQueue DEF EndsOn, Subscribing, t, item
  <2>4. CASE u.currentState = STATE_SUBSCRIBED
    <3>1. ~Effective(ACTION_SUBSCRIBE, u.currentState)
      BY <2>4, StateNames, SubscribeIsNoEnd DEF Effective
    <3>2. t = performQueue(u)
      BY <1>3, <1>6, <3>1 DEF performAction
    <3>3. Followed(u.queue, Ending, {ACTION_SUBSCRIBE}) /\ ~TagQueued(u)
      BY <2>1, SubscribeIsNoEnd DEF Followed, HoldsOne, TagQueued, Holds
    <3>4. EndsOn(u)
      BY <2>4, <3>3 DEF EndsOn, Subscribing
    <3> QED BY <1>4, <1>6, <2>4, <3>2, <3>3, <3>4, PerformQueueOn DEF t, item
  <2> QED BY <2>2, <2>3, <2>4
<1> QED BY <1>5, <1>6

(* A patch changes nothing about that.                                     *)
LEMMA TryPatchOn ==
    ASSUME NEW s, Good(s), ~isReadyForUnsubscribeByTag(s), ~TagQueued(s),
           ~s.networkErrorSubscribingTimer, EndsOn(s)
    PROVE  EndsOn(tryPerformAction(s, Item(ACTION_MODIFY_PATCH)))
<1> DEFINE u == [s EXCEPT !.networkErrorSubscribingTimer = FALSE]
           item == Item(ACTION_MODIFY_PATCH)
           q == enqueue(u.queue, item)
           t == tryPerformAction(s, item)
<1>1. s \in SubscriptionRecords /\ s.queue \in Seq(Items)
  BY DEF Good, SubscriptionRecords
<1>2. /\ u \in SubscriptionRecords /\ u.currentState = s.currentState
      /\ u.inFlight = s.inFlight /\ u.queue = s.queue
      /\ u.becameReady = s.becameReady
      /\ u.connectionAvailable = s.connectionAvailable
  BY <1>1 DEF SubscriptionRecords
<1>a. item \in Items /\ item.action = ACTION_MODIFY_PATCH
  BY ItemsOf DEF Item
<1>3. t = IF ~u.connectionAvailable \/ Transitioning(u) THEN [u EXCEPT !.queue = q]
          ELSE performAction(u, ACTION_MODIFY_PATCH)
  BY <1>a DEF tryPerformAction
<1> HIDE DEF u, t, item
<1>4. Good(u) /\ ~TagQueued(u) /\ EndsOn(u)
  <2>1. TagQueued(u) = TagQueued(s)
    BY <1>2 DEF TagQueued
  <2>2. EndsOn(u)
    BY <1>2 DEF EndsOn
  <2> QED BY <1>2, <2>1, <2>2, Quiet
<1>5. CASE ~u.connectionAvailable \/ Transitioning(u)
  <2>1. /\ Followed(q, Ending, {ACTION_SUBSCRIBE})
        /\ HoldsOne(u.queue, {ACTION_SUBSCRIBE}) => HoldsOne(q, {ACTION_SUBSCRIBE})
    BY <1>1, <1>2, <1>4, <1>a, EnqueuePatch, SubscribeIsNoEnd DEF EndsOn
  <2> HIDE DEF q
  <2>2. t.queue = q /\ t.currentState = u.currentState
    BY <1>2, <1>3, <1>5 DEF SubscriptionRecords
  <2>3. EndsOn(t)
    BY <1>2, <2>1, <2>2 DEF EndsOn
  <2> QED BY <2>3 DEF t, item
<1>6. CASE ~(~u.connectionAvailable \/ Transitioning(u))
  <2>1. u.currentState \in {STATE_SUBSCRIBED, STATE_UNSUBSCRIBED}
    BY <1>2, <1>6 DEF Transitioning, TRANSITIONING_STATES, SubscriptionRecords, States,
       isReadyForUnsubscribeByTag
  <2>2. CASE Effective(ACTION_MODIFY_PATCH, u.currentState)
    <3> DEFINE v == AfterPerform(Perform(u, ACTION_MODIFY_PATCH))
    <3>2. t = v
      BY <1>3, <1>6, <2>2 DEF performAction
    <3>3. v.currentState = STATE_PATCH_REQUESTED /\ v.queue = u.queue
      <4>1. ACTION_MODIFY_PATCH \in Actions /\ u.connectionAvailable
        BY <1>6 DEF Actions
      <4> QED BY <1>2, <2>2, <4>1, PerformTo, SubscribeIsNoEnd
    <3> HIDE DEF v
    <3> QED BY <1>4, <3>2, <3>3 DEF EndsOn, Subscribing, t, item
  <2>3. CASE ~Effective(ACTION_MODIFY_PATCH, u.currentState)
    <3>2. t = performQueue(u)
      BY <1>3, <1>6, <2>3 DEF performAction
    <3> QED BY <1>4, <1>6, <2>1, <3>2, PerformQueueOn DEF t, item
  <2> QED BY <2>2, <2>3
<1> QED BY <1>5, <1>6

-----------------------------------------------------------------------------
(* A queue in which every subscribe is followed by an end leads to no      *)
(* subscribe.                                                              *)
LEMMA PerformQueueOff ==
    ASSUME NEW s, Good(s), s.connectionAvailable, ~Transitioning(s),
           Followed(s.queue, {ACTION_SUBSCRIBE}, Ending)
    PROVE  LET t == performQueue(s) IN
           /\ Followed(t.queue, {ACTION_SUBSCRIBE}, Ending)
           /\ t.currentState # STATE_SUBSCRIBE_REQUESTED
           /\ EndsOff(s) => EndsOff(t)
<1> DEFINE t == performQueue(s)
           order == DequeueOrder(s.queue)
           works(i) == Effective(order[i].action, s.currentState)
           rest(n) == SubSeq(order, n + 1, Len(order))
<1>1. s.queue \in Seq(Items)
  BY DEF Good, SubscriptionRecords
<1>2. /\ order \in Seq(Items) /\ DOMAIN order = 1..Len(order) /\ Len(order) \in Nat
      /\ ~HoldsOne(order, {ACTION_SUBSCRIBE})
      /\ HoldsOne(s.queue, Ending) => Len(order) > 0 /\ order[1].action \in Ending
  BY <1>1, DequeueOrderShape, OrderKeeps
<1> HIDE DEF order, t
<1>3. ASSUME s.currentState = STATE_SUBSCRIBED, EndsOff(s)
      PROVE  Len(order) > 0 /\ works(1) /\ order[1].action \in Ending
  BY <1>2, <1>3, StateNames DEF EndsOff, Subscribing, Ending, Effective
<1>a. s.currentState # STATE_SUBSCRIBED => s.currentState \notin Subscribing
  BY DEF Subscribing, Transitioning, TRANSITIONING_STATES
<1>4. CASE /\ \A i \in 1..Len(order) : ~works(i)
           /\ t.currentState = s.currentState /\ t.queue = <<>>
  <2>1. ~(s.currentState = STATE_SUBSCRIBED /\ EndsOff(s))
    BY <1>2, <1>3, <1>4
  <2>2. s.currentState # STATE_SUBSCRIBE_REQUESTED
    BY DEF Transitioning, TRANSITIONING_STATES
  <2> QED BY <1>4, <1>a, <2>1, <2>2, EmptyQueue DEF EndsOff, t
<1>5. ASSUME NEW n \in 1..Len(order), \A i \in 1..(n - 1) : ~works(i),
             \/ /\ order[n].action = ACTION_SUBSCRIBE
                /\ t.currentState = STATE_SUBSCRIBE_REQUESTED
             \/ /\ order[n].action = ACTION_UNSUBSCRIBE
                /\ t.currentState = STATE_UNSUBSCRIBE_REQUESTED
                /\ t.queue = rest(n)
             \/ /\ order[n].action = ACTION_MODIFY_PATCH
                /\ s.currentState = STATE_SUBSCRIBED
                /\ t.currentState = STATE_PATCH_REQUESTED
                /\ t.queue = rest(n)
             \/ /\ t.currentState = STATE_READY_FOR_UNSUBSCRIBE_BY_TAG
                /\ t.queue = <<>>
      PROVE  /\ Followed(t.queue, {ACTION_SUBSCRIBE}, Ending)
             /\ t.currentState # STATE_SUBSCRIBE_REQUESTED
             /\ EndsOff(s) => EndsOff(t)
  <2>1. order[n].action # ACTION_SUBSCRIBE
    BY <1>2 DEF HoldsOne
  <2>2. ~HoldsOne(rest(n), {ACTION_SUBSCRIBE})
    BY <1>2, BehindKeeps
  <2> HIDE DEF rest
  <2>3. Followed(rest(n), {ACTION_SUBSCRIBE}, Ending)
    BY <2>2 DEF Followed, HoldsOne
  <2>4. Followed(t.queue, {ACTION_SUBSCRIBE}, Ending)
    BY <1>5, <2>1, <2>3, EmptyQueue
  <2>5. ASSUME t.currentState = STATE_PATCH_REQUESTED, EndsOff(s) PROVE FALSE
    <3>1. order[n].action = ACTION_MODIFY_PATCH /\ s.currentState = STATE_SUBSCRIBED
      BY <1>5, <2>5, StateNames
    <3>2. works(1) /\ order[1].action \in Ending
      BY <1>3, <2>5, <3>1
    <3>3. n = 1
      <4>1. n \in Nat /\ n > 0 /\ ~(1 \in 1..(n - 1))
        BY <1>2, <1>5, <3>2
      <4> QED BY <4>1
    <3> QED BY <3>1, <3>2, <3>3, SubscribeIsNoEnd
  <2>6. t.currentState \in {STATE_UNSUBSCRIBE_REQUESTED, STATE_PATCH_REQUESTED,
                            STATE_READY_FOR_UNSUBSCRIBE_BY_TAG}
    BY <1>5, <2>1
  <2>7. EndsOff(s) => t.currentState \notin Subscribing
    BY <2>5, <2>6, StateNames DEF Subscribing
  <2> QED BY <2>4, <2>6, <2>7, StateNames DEF EndsOff
<1>6. \/ /\ \A i \in 1..Len(order) : ~works(i)
         /\ t.currentState = s.currentState /\ t.queue = <<>>
      \/ \E n \in 1..Len(order) :
             /\ \A i \in 1..(n - 1) : ~works(i)
             /\ \/ /\ order[n].action = ACTION_SUBSCRIBE
                   /\ t.currentState = STATE_SUBSCRIBE_REQUESTED
                \/ /\ order[n].action = ACTION_UNSUBSCRIBE
                   /\ t.currentState = STATE_UNSUBSCRIBE_REQUESTED
                   /\ t.queue = rest(n)
                \/ /\ order[n].action = ACTION_MODIFY_PATCH
                   /\ s.currentState = STATE_SUBSCRIBED
                   /\ t.currentState = STATE_PATCH_REQUESTED
                   /\ t.queue = rest(n)
                \/ /\ t.currentState = STATE_READY_FOR_UNSUBSCRIBE_BY_TAG
                   /\ t.queue = <<>>
  BY PerformQueueTo DEF t, order
<1> QED BY <1>4, <1>5, <1>6 DEF t

(* onReadyToPerformNextAction sends no POST either, nor keeps a            *)
(* subscription that is to end.                                            *)
LEMMA ReadyOff ==
    ASSUME NEW s, Good(s), Followed(s.queue, {ACTION_SUBSCRIBE}, Ending)
    PROVE  LET t == onReadyToPerformNextAction(s) IN
           /\ Followed(t.queue, {ACTION_SUBSCRIBE}, Ending)
           /\ s.currentState # STATE_SUBSCRIBE_REQUESTED =>
                  t.currentState # STATE_SUBSCRIBE_REQUESTED
           /\ EndsOff(s) /\ s.currentState \notin {STATE_SUBSCRIBE_REQUESTED,
                                                   STATE_PATCH_REQUESTED}
                  => EndsOff(t)
<1> DEFINE t == onReadyToPerformNextAction(s)
<1>1. s \in SubscriptionRecords /\ s.queue \in Seq(Items)
  BY DEF Good, SubscriptionRecords
<1>2. CASE ~s.connectionAvailable \/ isEmpty(s.queue)
  BY <1>2 DEF onReadyToPerformNextAction
<1>3. CASE ~(~s.connectionAvailable \/ isEmpty(s.queue)) /\ Transitioning(s)
  <2> DEFINE q == dequeue(s.queue).rest
             order == DequeueOrder(s.queue)
  <2>1. t = [s EXCEPT !.queue = q]
    BY <1>3 DEF onReadyToPerformNextAction
  <2>2. /\ order \in Seq(Items) /\ ~HoldsOne(order, {ACTION_SUBSCRIBE})
        /\ order # <<>>
    BY <1>1, <1>3, DequeueOrderShape, OrderKeeps, DequeueNotEmpty DEF isEmpty
  <2>3. q = SubSeq(order, 1 + 1, Len(order)) /\ 1 \in 1..Len(order)
    <3>1. q = Tail(order)
      BY DEF dequeue
    <3>2. Tail(order) = SubSeq(order, 2, Len(order))
      BY <2>2, TailIsSubSeq
    <3>3. SubSeq(order, 1 + 1, Len(order)) = SubSeq(order, 2, Len(order))
      OBVIOUS
    <3> HIDE DEF order, q
    <3> QED BY <2>2, <3>1, <3>2, <3>3, EmptySeq, LenProperties
  <2> HIDE DEF order, q
  <2>4. ~HoldsOne(q, {ACTION_SUBSCRIBE})
    BY <2>2, <2>3, BehindKeeps
  <2>5. Followed(q, {ACTION_SUBSCRIBE}, Ending)
    BY <2>4 DEF Followed, HoldsOne
  <2>6. t.queue = q /\ t.currentState = s.currentState
    BY <1>1, <2>1 DEF SubscriptionRecords
  <2>7. s.currentState \notin {STATE_SUBSCRIBE_REQUESTED, STATE_PATCH_REQUESTED} =>
            s.currentState \notin Subscribing
    BY <1>3, StateNames DEF Subscribing, Transitioning, TRANSITIONING_STATES
  <2> QED BY <2>5, <2>6, <2>7 DEF EndsOff
<1>4. CASE ~(~s.connectionAvailable \/ isEmpty(s.queue)) /\ ~Transitioning(s)
  <2>1. t = performQueue(s)
    BY <1>4 DEF onReadyToPerformNextAction
  <2> QED BY <1>4, <2>1, PerformQueueOff
<1> QED BY <1>2, <1>3, <1>4

(* What ends the subscription is queued last, or performed.                *)
LEMMA TryEndingOff ==
    ASSUME NEW s, Good(s), NEW item \in Items, item.action \in Ending,
           s.connectionAvailable /\ ~Transitioning(s) =>
               Followed(s.queue, {ACTION_SUBSCRIBE}, Ending)
    PROVE  LET t == tryPerformAction(s, item) IN
           /\ EndsOff(t)
           /\ s.currentState # STATE_SUBSCRIBE_REQUESTED =>
                  t.currentState # STATE_SUBSCRIBE_REQUESTED
<1> DEFINE u == [s EXCEPT !.networkErrorSubscribingTimer = FALSE]
           q == enqueue(u.queue, item)
           t == tryPerformAction(s, item)
<1>1. s \in SubscriptionRecords /\ s.queue \in Seq(Items)
  BY DEF Good, SubscriptionRecords
<1>2. /\ u \in SubscriptionRecords /\ u.currentState = s.currentState
      /\ u.inFlight = s.inFlight /\ u.queue = s.queue
      /\ u.becameReady = s.becameReady
      /\ u.connectionAvailable = s.connectionAvailable
  BY <1>1 DEF SubscriptionRecords
<1>3. t = IF ~u.connectionAvailable \/ Transitioning(u) THEN [u EXCEPT !.queue = q]
          ELSE performAction(u, item.action)
  BY DEF tryPerformAction
<1> HIDE DEF u, t
<1>4. Good(u)
  BY <1>2, Quiet DEF TagQueued
<1>5. CASE ~u.connectionAvailable \/ Transitioning(u)
  <2>1. Followed(q, {ACTION_SUBSCRIBE}, Ending) /\ HoldsOne(q, Ending)
    BY <1>1, <1>2, EnqueueLast, SubscribeIsNoEnd
  <2> HIDE DEF q
  <2>2. t.queue = q /\ t.currentState = u.currentState
    BY <1>2, <1>3, <1>5 DEF SubscriptionRecords
  <2> QED BY <1>2, <2>1, <2>2 DEF EndsOff, t
<1>6. CASE ~(~u.connectionAvailable \/ Transitioning(u))
  <2>1. Followed(u.queue, {ACTION_SUBSCRIBE}, Ending)
    BY <1>2, <1>6 DEF Transitioning
  <2>2. item.action \in Actions /\ u.connectionAvailable
    BY <1>6 DEF Items
  <2>3. CASE Effective(item.action, u.currentState)
    <3> DEFINE v == AfterPerform(Perform(u, item.action))
    <3>1. t = v
      BY <1>3, <1>6, <2>3 DEF performAction
    <3>2. \/ /\ v.currentState = STATE_UNSUBSCRIBE_REQUESTED /\ v.queue = u.queue
          \/ /\ v.currentState = STATE_READY_FOR_UNSUBSCRIBE_BY_TAG /\ v.queue = <<>>
      BY <1>2, <2>2, <2>3, PerformTo, SubscribeIsNoEnd
    <3> HIDE DEF v
    <3> QED BY <2>1, <3>1, <3>2, EmptyQueue, StateNames DEF EndsOff, Subscribing, t
  <2>4. CASE ~Effective(item.action, u.currentState)
    <3>1. t = performQueue(u)
      BY <1>3, <1>6, <2>4 DEF performAction
    <3>2. u.currentState \notin Subscribing
      BY <1>6, <2>4 DEF Subscribing, Effective, Ending, Transitioning,
         TRANSITIONING_STATES
    <3>3. EndsOff(u)
      BY <2>1, <3>2 DEF EndsOff
    <3> QED BY <1>4, <1>6, <2>1, <3>1, <3>3, PerformQueueOff DEF t
  <2> QED BY <2>3, <2>4
<1> QED BY <1>5, <1>6

(* A patch changes nothing about how the subscription ends.                *)
LEMMA TryPatchOff ==
    ASSUME NEW s, Good(s), EndsOff(s)
    PROVE  EndsOff(tryPerformAction(s, Item(ACTION_MODIFY_PATCH)))
<1> DEFINE u == [s EXCEPT !.networkErrorSubscribingTimer = FALSE]
           item == Item(ACTION_MODIFY_PATCH)
           q == enqueue(u.queue, item)
           t == tryPerformAction(s, item)
<1>1. s \in SubscriptionRecords /\ s.queue \in Seq(Items)
  BY DEF Good, SubscriptionRecords
<1>2. /\ u \in SubscriptionRecords /\ u.currentState = s.currentState
      /\ u.inFlight = s.inFlight /\ u.queue = s.queue
      /\ u.becameReady = s.becameReady
      /\ u.connectionAvailable = s.connectionAvailable
  BY <1>1 DEF SubscriptionRecords
<1>a. item \in Items /\ item.action = ACTION_MODIFY_PATCH
  BY ItemsOf DEF Item
<1>3. t = IF ~u.connectionAvailable \/ Transitioning(u) THEN [u EXCEPT !.queue = q]
          ELSE performAction(u, ACTION_MODIFY_PATCH)
  BY <1>a DEF tryPerformAction
<1> HIDE DEF u, t, item
<1>4. Good(u) /\ EndsOff(u)
  BY <1>2, Quiet DEF TagQueued, EndsOff
<1>5. CASE ~u.connectionAvailable \/ Transitioning(u)
  <2>1. /\ Followed(q, {ACTION_SUBSCRIBE}, Ending)
        /\ HoldsOne(u.queue, Ending) => HoldsOne(q, Ending)
    BY <1>1, <1>2, <1>4, <1>a, EnqueuePatch, SubscribeIsNoEnd DEF EndsOff
  <2> HIDE DEF q
  <2>2. t.queue = q /\ t.currentState = u.currentState
    BY <1>2, <1>3, <1>5 DEF SubscriptionRecords
  <2> QED BY <1>4, <2>1, <2>2 DEF EndsOff, t, item
<1>6. CASE ~(~u.connectionAvailable \/ Transitioning(u))
  <2>2. CASE Effective(ACTION_MODIFY_PATCH, u.currentState)
    <3> DEFINE v == AfterPerform(Perform(u, ACTION_MODIFY_PATCH))
    <3>1. t = v
      BY <1>3, <1>6, <2>2 DEF performAction
    <3>2. /\ v.queue = u.queue /\ u.currentState = STATE_SUBSCRIBED
      <4>1. ACTION_MODIFY_PATCH \in Actions /\ u.connectionAvailable
        BY <1>6 DEF Actions
      <4> QED BY <1>2, <2>2, <4>1, PerformTo, SubscribeIsNoEnd
    <3> HIDE DEF v
    <3> QED BY <1>4, <3>1, <3>2 DEF EndsOff, Subscribing, t, item
  <2>3. CASE ~Effective(ACTION_MODIFY_PATCH, u.currentState)
    <3>1. t = performQueue(u)
      BY <1>3, <1>6, <2>3 DEF performAction
    <3> QED BY <1>4, <1>6, <3>1, PerformQueueOff DEF EndsOff, t, item
  <2> QED BY <2>2, <2>3
<1> QED BY <1>5, <1>6

(* Without patches and calls by tag, what ends the subscription is next.   *)
LEMMA EndIsNext ==
    ASSUME NEW s, Good(s), OnlyOnOff(s.queue)
    PROVE  HoldsOne(s.queue, Ending) <=> WillUnsubscribe(s)
<1> DEFINE q == s.queue
<1>1. q \in Seq(Items)
  BY DEF Good, SubscriptionRecords
<1> HIDE DEF q
<1>2. DOMAIN q = 1..Len(q) /\ Len(q) \in Nat
  BY <1>1, LenProperties
<1>3. ASSUME NEW i \in 1..Len(q), q[i].action \in Ending
      PROVE  q[1].action = ACTION_UNSUBSCRIBE /\ q # <<>>
  <2>1. 1 \in 1..Len(q)
    BY <1>2, <1>3
  <2>2. q[1].action \in {ACTION_SUBSCRIBE, ACTION_UNSUBSCRIBE}
        /\ (q[1].action = ACTION_SUBSCRIBE => 1 = Len(q))
    BY <1>2, <2>1 DEF OnlyOnOff, q
  <2>3. CASE q[1].action = ACTION_SUBSCRIBE
    <3>1. 1 = Len(q)
      BY <2>2, <2>3
    <3>2. i = 1
      <4>1. i \in 1..1
        BY <1>3, <3>1, Zenon
      <4> QED BY <4>1
    <3> QED BY <1>3, <2>3, <3>2, SubscribeIsNoEnd
  <2> QED BY <1>2, <2>1, <2>2, <2>3
<1>4. ASSUME HeadIs(q, ACTION_UNSUBSCRIBE)
      PROVE  1 \in 1..Len(q) /\ q[1].action \in Ending
  <2>1. q # <<>> /\ Head(q).action = ACTION_UNSUBSCRIBE
    BY <1>4 DEF HeadIs, isEmpty
  <2>2. Head(q) = q[1] /\ 1 \in 1..Len(q)
    BY <1>1, <1>2, <2>1, EmptySeq
  <2> QED BY <2>1, <2>2, SubscribeIsNoEnd
<1>5. ASSUME q # <<>> PROVE Head(q) = q[1]
  BY <1>1, <1>5
<1> QED BY <1>2, <1>3, <1>4, <1>5 DEF HoldsOne, WillUnsubscribe, HeadIs, isEmpty, q

-----------------------------------------------------------------------------
(* A subscription is the same as itself.                                   *)
LEMMA SameNot == \A s : Same(s, s)
BY DEF Same

(* What is the same ends the same.                                         *)
LEMMA SameEnds ==
    ASSUME NEW s, NEW t, Same(s, t)
    PROVE  /\ EndsOn(s) <=> EndsOn(t)
           /\ EndsOff(s) <=> EndsOff(t)
           /\ TagQueued(s) <=> TagQueued(t)
BY DEF Same, EndsOn, EndsOff, TagQueued

(* A successful response in steps: the consumer may call back, buffered    *)
(* updates that do not parse reset the subscription, and what is queued is *)
(* done.                                                                   *)
LEMMA SuccessSteps ==
    ASSUME NEW s, NEW r, r = referenceId(s), Answered(s, r), NEW call
    PROVE  \E q, u, v :
               /\ Good(q) /\ q.currentState = STATE_SUBSCRIBED
               /\ q.inFlight = s.inFlight /\ q.queue = s.queue
               /\ q.connectionAvailable = s.connectionAvailable
               /\ q.isDisposed = s.isDisposed
               /\ q.becameReady = s.becameReady
               /\ q.networkErrorSubscribingTimer = s.networkErrorSubscribingTimer
               /\ q.updatesBeforeSubscribed = s.updatesBeforeSubscribed
               /\ IF WillUnsubscribe(s) THEN u = q
                  ELSE LET c == ConsumerCall(q, call) IN
                       /\ Good(c)
                       /\ \/ Same(c, u)
                          \/ c.updatesBeforeSubscribed = "bad" /\ u = reset(c)
               /\ Good(u) /\ Good(v) /\ Same(u, v)
               /\ onSubscribeSuccess(s, r, call) = onReadyToPerformNextAction(v)
<1> DEFINE n == Len(s.inFlight)
           p == [s EXCEPT !.currentState = STATE_SUBSCRIBED]
           q == [p EXCEPT !.snapshotRef = n]
           d == IF WillUnsubscribe(p) THEN p ELSE q
           c == ConsumerCall(q, call)
           u == IF WillUnsubscribe(p) THEN p ELSE Deliver(p, call)
           v == [u EXCEPT !.updatesBeforeSubscribed = "none"]
<1>1. s \in SubscriptionRecords /\ n \in Nat
  BY LenProperties DEF Answered, SubscriptionRecords
<1>2. /\ p \in SubscriptionRecords /\ p.currentState = STATE_SUBSCRIBED
      /\ p.inFlight = s.inFlight /\ p.queue = s.queue
      /\ p.becameReady = s.becameReady /\ p.isDisposed = s.isDisposed
      /\ p.connectionAvailable = s.connectionAvailable
      /\ p.networkErrorSubscribingTimer = s.networkErrorSubscribingTimer
      /\ p.updatesBeforeSubscribed = s.updatesBeforeSubscribed
  BY <1>1 DEF SubscriptionRecords, States
<1>3. onSubscribeSuccess(s, r, call) = onReadyToPerformNextAction(v)
  BY DEF onSubscribeSuccess
<1>4. WillUnsubscribe(p) = WillUnsubscribe(s)
  BY <1>2 DEF WillUnsubscribe
<1>5. Deliver(p, call) = IF c.updatesBeforeSubscribed = "none" THEN c
                         ELSE onStreamingData(c, c.updatesBeforeSubscribed = "good")
  BY <1>2 DEF Deliver, referenceId
<1> HIDE DEF p, c
<1>6. Good(p)
  BY <1>1, <1>2, NotWaiting DEF Answered
<1>7. /\ q \in SubscriptionRecords /\ Same(p, q)
      /\ q.updatesBeforeSubscribed = p.updatesBeforeSubscribed
  BY <1>1, <1>2 DEF Same, SubscriptionRecords
<1> HIDE DEF q
<1>8. Good(q)
  BY <1>6, <1>7, SameGood
<1>9. Good(c)
  BY <1>8, ConsumerCallGood DEF c
<1>10. /\ Good(u)
       /\ IF WillUnsubscribe(s) THEN u = p
          ELSE \/ Same(c, u)
               \/ c.updatesBeforeSubscribed = "bad" /\ u = reset(c)
  <2>1. CASE WillUnsubscribe(s)
    BY <1>4, <1>6, <2>1
  <2>2. CASE ~WillUnsubscribe(s)
    <3>1. u = Deliver(p, call)
      BY <1>4, <2>2
    <3>2. Good(u)
      BY <1>6, <3>1, DeliverGood
    <3>3. CASE c.updatesBeforeSubscribed = "none"
      BY <1>5, <2>2, <3>1, <3>2, <3>3 DEF Same
    <3>4. CASE c.updatesBeforeSubscribed = "good"
      BY <1>5, <1>9, <2>2, <3>1, <3>2, <3>4, UpdateTells
    <3>5. CASE c.updatesBeforeSubscribed = "bad"
      <4>1. u = onStreamingData(c, FALSE)
        BY <1>5, <3>1, <3>5
      <4>2. onStreamingData(c, FALSE) = c \/ Same(c, onStreamingData(c, FALSE))
            \/ onStreamingData(c, FALSE) = reset(c)
        <5> HIDE DEF c
        <5> QED BY <1>9, UnparsableResets
      <4> QED BY <2>2, <3>2, <3>5, <4>1, <4>2 DEF Same
    <3>6. c.updatesBeforeSubscribed \in {"none", "good", "bad"}
      BY <1>9 DEF Good, SubscriptionRecords, Buffers
    <3> QED BY <3>3, <3>4, <3>5, <3>6
  <2> QED BY <2>1, <2>2
<1> HIDE DEF u
<1>11. v \in SubscriptionRecords /\ Same(u, v)
  BY <1>10 DEF Good, SubscriptionRecords, Buffers, Same
<1> HIDE DEF v
<1>12. Good(v)
  BY <1>10, <1>11, SameGood
<1>13. CASE WillUnsubscribe(s)
  BY <1>2, <1>3, <1>6, <1>10, <1>11, <1>12, <1>13
<1>14. CASE ~WillUnsubscribe(s)
  <2>1. /\ q.currentState = STATE_SUBSCRIBED
        /\ q.inFlight = s.inFlight /\ q.queue = s.queue
        /\ q.connectionAvailable = s.connectionAvailable
        /\ q.isDisposed = s.isDisposed /\ q.becameReady = s.becameReady
        /\ q.networkErrorSubscribingTimer = s.networkErrorSubscribingTimer
        /\ q.updatesBeforeSubscribed = s.updatesBeforeSubscribed
    BY <1>2, <1>7 DEF Same
  <2> QED BY <1>3, <1>8, <1>9, <1>10, <1>11, <1>12, <1>14, <2>1 DEF c
<1> QED BY <1>13, <1>14

-----------------------------------------------------------------------------
(* The timer that fires is cancelled once more by tryPerformAction. *)
LEMMA TimeoutTries ==
    ASSUME NEW s \in SubscriptionRecords
    PROVE  onNetworkErrorTimeout(s) = tryPerformAction(s, Item(ACTION_SUBSCRIBE))
<1> DEFINE t == [s EXCEPT !.networkErrorSubscribingTimer = FALSE]
<1>1. [t EXCEPT !.networkErrorSubscribingTimer = FALSE] = t
  BY DEF SubscriptionRecords
<1> HIDE DEF t
<1>2. tryPerformAction(t, Item(ACTION_SUBSCRIBE))
          = tryPerformAction(s, Item(ACTION_SUBSCRIBE))
  BY <1>1 DEF tryPerformAction, t
<1> QED BY <1>2 DEF onNetworkErrorTimeout, t

(* To subscribe again when subscribed changes nothing but the queue.       *)
LEMMA SubscribeAgain ==
    ASSUME NEW s, Good(s), s.currentState = STATE_SUBSCRIBED,
           ~HoldsOne(s.queue, Ending), ~Holds(s.queue, ACTION_MODIFY_PATCH)
    PROVE  tryPerformAction(s, Item(ACTION_SUBSCRIBE)).currentState = STATE_SUBSCRIBED
<1> DEFINE u == [s EXCEPT !.networkErrorSubscribingTimer = FALSE]
           item == Item(ACTION_SUBSCRIBE)
           t == tryPerformAction(s, item)
<1>1. s \in SubscriptionRecords
  BY DEF Good
<1>2. /\ u \in SubscriptionRecords /\ Good(u) /\ u.queue = s.queue
      /\ u.currentState = STATE_SUBSCRIBED /\ ~Transitioning(u)
  <2>1. /\ u \in SubscriptionRecords /\ u.queue = s.queue
        /\ u.currentState = s.currentState /\ u.inFlight = s.inFlight
        /\ u.becameReady = s.becameReady
    BY <1>1 DEF SubscriptionRecords
  <2> HIDE DEF u
  <2>2. TagQueued(u) = TagQueued(s)
    BY <2>1 DEF TagQueued
  <2>3. ~Transitioning(u)
    BY <2>1, StateNames DEF Transitioning, TRANSITIONING_STATES
  <2> QED BY <2>1, <2>2, <2>3, Quiet
<1>3. item.action = ACTION_SUBSCRIBE
  BY DEF Item
<1>4. t = IF ~u.connectionAvailable THEN [u EXCEPT !.queue = enqueue(@, item)]
          ELSE performQueue(u)
  <2>1. t = IF ~u.connectionAvailable \/ Transitioning(u)
            THEN [u EXCEPT !.queue = enqueue(@, item)]
            ELSE performAction(u, item.action)
    BY DEF tryPerformAction
  <2>2. ~Effective(ACTION_SUBSCRIBE, STATE_SUBSCRIBED)
    BY StateNames, SubscribeIsNoEnd DEF Effective, Ending
  <2> HIDE DEF u, t, item
  <2>3. performAction(u, item.action) = performQueue(u)
    BY <1>2, <1>3, <2>2 DEF performAction
  <2> QED BY <1>2, <2>1, <2>3
<1> HIDE DEF u, t
<1>5. CASE ~u.connectionAvailable
  BY <1>2, <1>4, <1>5 DEF SubscriptionRecords, t
<1>6. CASE u.connectionAvailable
  <2> DEFINE v == performQueue(u)
             order == DequeueOrder(u.queue)
  <2>1. \/ v.currentState = u.currentState
        \/ \E n \in 1..Len(order) :
              order[n].action \in {ACTION_UNSUBSCRIBE, ACTION_MODIFY_PATCH,
                                   ACTION_UNSUBSCRIBE_BY_TAG_PENDING}
    BY <1>2, <1>6, StateNames, PerformQueueTo
  <2>2. u.queue \in Seq(Items)
    BY <1>2 DEF SubscriptionRecords
  <2>3. /\ order \in Seq(Items) /\ DOMAIN order = 1..Len(order)
        /\ \A a \in Actions : Holds(order, a) => Holds(u.queue, a)
    BY <2>2, DequeueOrderType, LenProperties
  <2> HIDE DEF v, order
  <2>4. ASSUME NEW n \in 1..Len(order),
               order[n].action \in {ACTION_UNSUBSCRIBE, ACTION_MODIFY_PATCH,
                                    ACTION_UNSUBSCRIBE_BY_TAG_PENDING}
        PROVE  FALSE
    <3>2. order[n].action \in Actions
      BY <2>4 DEF Actions
    <3>3. Holds(s.queue, order[n].action)
      BY <1>2, <2>3, <3>2 DEF Holds
    <3>4. ~Holds(s.queue, ACTION_UNSUBSCRIBE)
          /\ ~Holds(s.queue, ACTION_UNSUBSCRIBE_BY_TAG_PENDING)
      BY SubscribeIsNoEnd DEF HoldsOne, Holds
    <3> QED BY <2>4, <3>3, <3>4
  <2> QED BY <1>2, <1>4, <1>6, <2>1, <2>4 DEF t, v
<1> QED BY <1>5, <1>6 DEF t, item

-----------------------------------------------------------------------------
(* The only queued item is taken.                                          *)
LEMMA DequeueOnly ==
    ASSUME NEW q \in Seq(Items), Len(q) = 1
    PROVE  dequeue(q).rest = <<>>
<1>1. DequeueOrder(q) = q
  <2>1. ~(\E i \in DOMAIN q : i > 1)
    <3>1. DOMAIN q = 1..1
      BY LenProperties
    <3> QED BY <3>1
  <2>2. {i \in DOMAIN q : i > 1 /\ q[i].action \in Ending} = {}
    BY <2>1
  <2> QED BY <2>2 DEF DequeueOrder
<1>2. Tail(q) \in Seq(Items) /\ Len(Tail(q)) = 0
  <2>1. q # <<>>
    BY EmptySeq
  <2>2. Tail(q) \in Seq(Items) /\ Len(Tail(q)) = Len(q) - 1
    BY <2>1, HeadTailProperties
  <2> QED BY <2>2
<1>3. Tail(q) = <<>>
  BY <1>2, EmptySeq
<1> QED BY <1>1, <1>3 DEF dequeue

(* A consumer that unsubscribes while it is given the snapshot, with at    *)
(* most a subscribe queued, ends unsubscribed: with the connection up the  *)
(* DELETE leaves at once and the subscribe is dropped; else the            *)
(* unsubscribe takes its place.                                            *)
LEMMA UnsubscribeInCallback ==
    ASSUME NEW s, Good(s), s.currentState = STATE_SUBSCRIBED,
           OnlyOnOff(s.queue), ~HoldsOne(s.queue, Ending),
           NEW u, \/ Same(onUnsubscribe(s, FALSE), u)
                  \/ u = reset(onUnsubscribe(s, FALSE)),
           NEW v, Good(v), Same(u, v)
    PROVE  EndsOff(onReadyToPerformNextAction(v))
<1> DEFINE w == [s EXCEPT !.networkErrorSubscribingTimer = FALSE]
           item == Unsubscribe(FALSE)
           c == onUnsubscribe(s, FALSE)
           t == onReadyToPerformNextAction(v)
<1>1. s \in SubscriptionRecords /\ s.queue \in Seq(Items)
  BY DEF Good, SubscriptionRecords
<1>2. /\ w \in SubscriptionRecords /\ w.queue = s.queue
      /\ w.currentState = STATE_SUBSCRIBED
      /\ w.connectionAvailable = s.connectionAvailable
  BY <1>1 DEF SubscriptionRecords
<1>3. item \in Items /\ item.action = ACTION_UNSUBSCRIBE
  BY ItemsOf DEF Unsubscribe
<1>4. c = IF ~w.connectionAvailable \/ Transitioning(w)
          THEN [w EXCEPT !.queue = enqueue(@, item)]
          ELSE performAction(w, item.action)
  BY DEF onUnsubscribe, tryPerformAction
<1> HIDE DEF w, item
<1>5. ~Transitioning(w)
  BY <1>2, StateNames DEF Transitioning, TRANSITIONING_STATES
<1>6. Good(c) /\ Acts(s, c, {ACTION_UNSUBSCRIBE})
  BY OnUnsubscribeGood, OnUnsubscribeActs
<1>7. CASE s.connectionAvailable
  <2> DEFINE x == AfterPerform(Perform(w, ACTION_UNSUBSCRIBE))
  <2>1. Effective(ACTION_UNSUBSCRIBE, w.currentState) /\ ACTION_UNSUBSCRIBE \in Actions
    BY <1>2 DEF Effective, Actions
  <2>2. c = x
    BY <1>2, <1>3, <1>4, <1>5, <1>7, <2>1 DEF performAction
  <2>3. x.currentState = STATE_UNSUBSCRIBE_REQUESTED /\ x.queue = s.queue
    BY <1>2, <1>7, <2>1, PerformTo DEF ACTION_SUBSCRIBE, ACTION_UNSUBSCRIBE,
       ACTION_MODIFY_PATCH, ACTION_UNSUBSCRIBE_BY_TAG_PENDING
  <2> HIDE DEF x, c
  <2>4. reset(c) = c
    BY <2>2, <2>3, StateNames DEF reset
  <2>5. Same(c, u)
    BY <2>4, SameNot DEF c
  <2>6. /\ v.currentState = STATE_UNSUBSCRIBE_REQUESTED /\ v.queue = s.queue
        /\ v.connectionAvailable
    BY <1>6, <1>7, <2>2, <2>3, <2>5 DEF Same, Acts, Keeps
  <2>7. t = IF s.queue = <<>> THEN v ELSE [v EXCEPT !.queue = dequeue(@).rest]
    BY <2>6 DEF onReadyToPerformNextAction, Transitioning, TRANSITIONING_STATES, isEmpty
  <2>8. s.queue # <<>> => Len(s.queue) = 1
    <3>1. SUFFICES ASSUME s.queue # <<>> PROVE Len(s.queue) = 1
      OBVIOUS
    <3>2. 1 \in DOMAIN s.queue
      BY <1>1, <3>1, EmptySeq, LenProperties
    <3>3. s.queue[1].action = ACTION_SUBSCRIBE
      BY <3>2, SubscribeIsNoEnd DEF OnlyOnOff, HoldsOne
    <3> QED BY <3>2, <3>3 DEF OnlyOnOff
  <2>9. t.queue = <<>> /\ t.currentState = STATE_UNSUBSCRIBE_REQUESTED
    <3>1. CASE s.queue = <<>>
      BY <2>6, <2>7, <3>1
    <3>2. CASE s.queue # <<>>
      <4>1. dequeue(v.queue).rest = <<>>
        BY <1>1, <2>6, <2>8, <3>2, DequeueOnly
      <4> QED BY <2>6, <2>7, <3>2, <4>1 DEF Good, SubscriptionRecords
    <3> QED BY <3>1, <3>2
  <2> HIDE DEF t
  <2>10. EndsOff(t)
    BY <2>9, EmptyQueue, StateNames DEF EndsOff, Subscribing
  <2> QED BY <2>10 DEF t
<1>8. CASE ~s.connectionAvailable
  <2>1. EndsOff(c)
    BY <1>3, <1>8, TryEndingOff, SubscribeIsNoEnd DEF onUnsubscribe, item
  <2>2. c.currentState = STATE_SUBSCRIBED
    BY <1>2, <1>4, <1>8 DEF SubscriptionRecords
  <2>3. OnlyOnOff(c.queue)
    BY <1>6 DEF Acts, Does
  <2> HIDE DEF c
  <2>4. reset(c) = c
    <3>1. WillUnsubscribe(c)
      BY <1>6, <2>1, <2>2, <2>3, EndIsNext DEF EndsOff, Subscribing
    <3> QED BY <2>2, <3>1, StateNames DEF reset
  <2>5. Same(c, u)
    BY <2>4, SameNot DEF c
  <2>6. EndsOff(v) /\ ~v.connectionAvailable
    <3>1. EndsOff(u) /\ ~u.connectionAvailable
      BY <1>6, <1>8, <2>1, <2>5, SameEnds DEF Same, Acts, Keeps
    <3> QED BY <3>1, SameEnds DEF Same
  <2> QED BY <2>6 DEF onReadyToPerformNextAction
<1> QED BY <1>7, <1>8
=============================================================================
