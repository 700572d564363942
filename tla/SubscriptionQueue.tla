------------------------- MODULE SubscriptionQueue -------------------------
(***************************************************************************)
(* The queue of pending actions of a streaming subscription                *)
(* (src/openapi/streaming/subscription-queue.js).  The code mutates a list *)
(* in place; here a queue is a sequence of items and every method is an    *)
(* operator from the old sequence to the new one.  Two loops of the code   *)
(* are given in closed form: the self-call of enqueue, which pops the last *)
(* item as long as the new one makes it unnecessary, and repeated calls of *)
(* dequeue.  MCSubscriptionQueue compares both with a step by step         *)
(* transcription.                                                          *)
(***************************************************************************)
EXTENDS Integers, Sequences, FiniteSets, FiniteSetsExt

ACTION_SUBSCRIBE                  == "SUBSCRIBE"
ACTION_UNSUBSCRIBE                == "UNSUBSCRIBE"
ACTION_MODIFY_PATCH               == "MODIFY_PATCH"
ACTION_UNSUBSCRIBE_BY_TAG_PENDING == "UNSUBSCRIBE_BY_TAG_PENDING"

Actions == {ACTION_SUBSCRIBE, ACTION_UNSUBSCRIBE, ACTION_MODIFY_PATCH,
            ACTION_UNSUBSCRIBE_BY_TAG_PENDING}

(* A queued item.  force is the argument of an unsubscribe; no other       *)
(* action has one.                                                         *)
Items == [action : Actions, force : BOOLEAN]

Item(action) == [action |-> action, force |-> FALSE]
Unsubscribe(force) == [action |-> ACTION_UNSUBSCRIBE, force |-> force]

(* The two actions that end a subscription. *)
Ending == {ACTION_UNSUBSCRIBE, ACTION_UNSUBSCRIBE_BY_TAG_PENDING}

isEmpty(q) == q = <<>>

(* Whether the action at the head of the queue is the given one; an empty  *)
(* queue has no action (undefined).                                        *)
HeadIs(q, action) == ~isEmpty(q) /\ Head(q).action = action
-----------------------------------------------------------------------------
(* Mutant: a forced unsubscribe is taken back like any other. *)
UnsubscribeAlwaysTakenBack(prev, item) ==
    prev.action = ACTION_UNSUBSCRIBE /\ item.action = ACTION_SUBSCRIBE

(* A subscribe takes back a queued unsubscribe, unless that is forced. *)
UnsubscribeTakenBack(prev, item) ==
    /\ prev.action = ACTION_UNSUBSCRIBE
    /\ item.action = ACTION_SUBSCRIBE
    /\ ~prev.force

(* What ends the subscription takes back a queued subscribe. *)
SubscribeTakenBack(prev, item) ==
    prev.action = ACTION_SUBSCRIBE /\ item.action \in Ending

(* A patch is needless before an unsubscribe that is sure to happen. *)
PatchNeedless(prev, item) ==
    /\ prev.action = ACTION_MODIFY_PATCH
    /\ \/ item.action = ACTION_UNSUBSCRIBE /\ item.force
       \/ item.action = ACTION_UNSUBSCRIBE_BY_TAG_PENDING

(* An unsubscribe by tag takes the place of an unsubscribe. *)
UnsubscribeReplaced(prev, item) ==
    /\ prev.action = ACTION_UNSUBSCRIBE
    /\ item.action = ACTION_UNSUBSCRIBE_BY_TAG_PENDING

(* A queued item that the new item makes unnecessary. *)
Eliminates(prev, item) ==
    \/ UnsubscribeTakenBack(prev, item)
    \/ SubscribeTakenBack(prev, item)
    \/ PatchNeedless(prev, item)
    \/ UnsubscribeReplaced(prev, item)

(* The same action twice is a noop, unless it is a patch. *)
SameAction(prev, item) ==
    prev.action = item.action /\ item.action # ACTION_MODIFY_PATCH

(* Mutant: only the last item can be eliminated. *)
SurvivorsOnce(q, item) ==
    IF q # <<>> /\ Eliminates(q[Len(q)], item)
    THEN SubSeq(q, 1, Len(q) - 1) ELSE q

(* What is left of the queue once the new item has eliminated the items it *)
(* makes unnecessary, the last first.                                      *)
Survivors(q, item) ==
    SubSeq(q, 1, Max({0} \cup {i \in DOMAIN q : ~Eliminates(q[i], item)}))

enqueue(q, item) ==
    LET kept == Survivors(q, item)
        last == Len(kept)
    IN  IF kept # <<>> /\ SameAction(kept[last], item)
        THEN [kept EXCEPT ![last].force = @ \/ item.force]
        ELSE Append(kept, item)

(* Called when the subscription is about to subscribe: only the first item *)
(* that neither subscribes nor patches is kept.                            *)
clearPatches(q) ==
    LET kept == {i \in DOMAIN q : q[i].action \in Ending}
    IN  IF kept = {} THEN <<>> ELSE <<q[Min(kept)]>>

(* Mutant: what stands behind the last unsubscribe is lost with the rest. *)
DequeueOrderCut(q) ==
    LET skipTo == {i \in DOMAIN q : i > 1 /\ q[i].action \in Ending}
    IN  IF skipTo = {} THEN q ELSE <<q[Max(skipTo)]>>

(* The items that successive calls of dequeue return.  The first call      *)
(* skips to the last unsubscribe that stands behind the head.              *)
DequeueOrder(q) ==
    LET skipTo == {i \in DOMAIN q : i > 1 /\ q[i].action \in Ending}
    IN  IF skipTo = {} THEN q ELSE SubSeq(q, Max(skipTo), Len(q))

(* One call of dequeue on a queue that is not empty. *)
dequeue(q) == [item |-> Head(DequeueOrder(q)), rest |-> Tail(DequeueOrder(q))]
=============================================================================
