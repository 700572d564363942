------------------------ MODULE MCSubscriptionQueue ------------------------
(***************************************************************************)
(* The queue of SubscriptionQueue used in every way up to a bounded        *)
(* length, next to a list that the methods of subscription-queue.js change *)
(* step by step.                                                           *)
(***************************************************************************)
EXTENDS SubscriptionQueue

CONSTANT MaxLength   \* bound on the length of the queue

MCItems == {Item(action) : action \in Actions} \cup {Unsubscribe(TRUE)}

(* SubscriptionQueue.prototype.enqueue, one call at a time. *)
RECURSIVE EnqueueCall(_, _)
EnqueueCall(items, item) ==
    LET last == Len(items)
        prev == items[last]
    IN  IF items = <<>> THEN <<item>>
        ELSE IF item.action = prev.action /\ item.action # ACTION_MODIFY_PATCH
        THEN IF item.action = ACTION_UNSUBSCRIBE /\ item.force /\ ~prev.force
             THEN [items EXCEPT ![last].force = TRUE]
             ELSE items
        ELSE IF Eliminates(prev, item)
        THEN EnqueueCall(SubSeq(items, 1, last - 1), item)
        ELSE Append(items, item)

(* The loop of SubscriptionQueue.prototype.dequeue, from position i down. *)
RECURSIVE LastEnding(_, _)
LastEnding(items, i) ==
    IF i = 0 THEN 0
    ELSE IF items[i].action \in Ending THEN i
    ELSE LastEnding(items, i - 1)

DequeueCall(items) ==
    LET shifted == Tail(items)
        i == LastEnding(shifted, Len(shifted))
    IN  IF i = 0 THEN [item |-> Head(items), rest |-> shifted]
        ELSE [item |-> shifted[i], rest |-> SubSeq(shifted, i + 1, Len(shifted))]

RECURSIVE DequeueAll(_)
DequeueAll(items) ==
    IF items = <<>> THEN <<>>
    ELSE <<DequeueCall(items).item>> \o DequeueAll(DequeueCall(items).rest)

(* The loop of SubscriptionQueue.prototype.clearPatches. *)
RECURSIVE ClearLoop(_)
ClearLoop(items) ==
    IF items = <<>> THEN <<>>
    ELSE IF Head(items).action \in {ACTION_SUBSCRIBE, ACTION_MODIFY_PATCH}
    THEN ClearLoop(Tail(items))
    ELSE <<Head(items)>>
-----------------------------------------------------------------------------
VARIABLES
    queue,    \* the queue as SubscriptionQueue computes it
    items,    \* the same, computed step by step
    asked,    \* the last subscribe or ending action asked for, or "none"
    forced    \* a forced unsubscribe has been asked for

vars == <<queue, items, asked, forced>>

Nothing == queue = <<>> /\ items = <<>> /\ asked = "none" /\ forced = FALSE

Enqueue ==
    \E item \in MCItems :
        /\ queue' = enqueue(queue, item)
        /\ items' = EnqueueCall(items, item)
        /\ Len(items') <= MaxLength
        /\ asked' = IF item.action = ACTION_MODIFY_PATCH THEN asked ELSE item.action
        /\ forced' = (forced \/ item.force)

(* A queue is worked off until it is empty or a request is sent, and what  *)
(* is asked for after that counts afresh.                                  *)
Dequeue ==
    /\ queue # <<>>
    /\ queue' = dequeue(queue).rest
    /\ items' = DequeueCall(items).rest
    /\ asked' = IF \E i \in DOMAIN items' : items'[i].action # ACTION_MODIFY_PATCH
                THEN asked ELSE "none"
    /\ forced' = FALSE

ClearPatches ==
    /\ queue' = clearPatches(queue)
    /\ items' = ClearLoop(items)
    /\ asked' = IF items' = <<>> THEN "none" ELSE Head(items').action
    /\ forced' = FALSE

Next == Enqueue \/ Dequeue \/ ClearPatches

Spec == Nothing /\ [][Next]_vars
-----------------------------------------------------------------------------
(* The closed forms are the code: the self-call of enqueue ends with the   *)
(* queue that enqueue gives, clearPatches and dequeue leave the same rest, *)
(* and successive dequeues return DequeueOrder.                            *)
ClosedForms ==
    /\ queue = items
    /\ DequeueOrder(queue) = DequeueAll(items)

(* Merging and skipping lose nothing the consumer would notice: the last   *)
(* subscribe or unsubscribe to be dequeued is the last one asked for.      *)
LastRequestWins ==
    LET order == DequeueOrder(queue)
        decisive == {i \in DOMAIN order : order[i].action # ACTION_MODIFY_PATCH}
    IN  IF decisive = {} THEN asked = "none"
        ELSE order[Max(decisive)].action = asked

(* A subscribe that is to take the place of the present subscription, as   *)
(* for a modification, is never reduced to a noop: what ends the present   *)
(* one is dequeued first.                                                  *)
ForcedIsKept ==
    forced /\ asked = ACTION_SUBSCRIBE =>
        \E i \in DOMAIN DequeueOrder(queue) :
            DequeueOrder(queue)[i].action \in Ending
=============================================================================
