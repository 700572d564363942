----------------------- MODULE SubscriptionQueueProofs -----------------------
(***************************************************************************)
(* What the methods of the subscription queue return, for every queue.     *)
(***************************************************************************)
EXTENDS SubscriptionQueue, SequenceTheorems, WellFoundedInduction, TLAPS

(* The queue holds an item with the given action. *)
Holds(q, action) == \E i \in DOMAIN q : q[i].action = action
-----------------------------------------------------------------------------
(* Every set of numbers that is not empty has a least element, and a       *)
(* greatest if it is bounded: what Min and Max choose exists.              *)
LEMMA Least ==
    ASSUME NEW T, T \subseteq Nat, T # {}
    PROVE  \E x \in T : \A y \in T : x <= y
<1> DEFINE R == OpToRel(<, Nat)
<1>1. IsWellFoundedOn(R, Nat)
  BY NatLessThanWellFounded
<1>2. \E x \in T : \A y \in T : <<y, x>> \notin R
  <2> HIDE DEF R
  <2> QED BY <1>1, WFMin, Zenon
<1>3. \A x, y \in Nat : <<y, x>> \notin R => x <= y
  BY DEF OpToRel
<1> QED BY <1>2, <1>3

(* The least of a set of positions.                                        *)
LEMMA MinOf ==
    ASSUME NEW T, T \subseteq Nat, T # {}
    PROVE  Min(T) \in T
BY Least DEF Min

(* A finite set of numbers has a greatest one.                             *)
LEMMA Greatest ==
    ASSUME NEW n \in Nat, NEW T, T \subseteq 0..n, T # {}
    PROVE  \E x \in T : \A y \in T : y <= x
<1> DEFINE C == {m \in 0..n : n - m \in T}
<1>1. C \subseteq Nat
  OBVIOUS
<1>2. C # {}
  <2>1. PICK t \in T : TRUE
    OBVIOUS
  <2>2. n - t \in C /\ n - (n - t) = t
    OBVIOUS
  <2> QED BY <2>2
<1>3. PICK c \in C : \A d \in C : c <= d
  <2> HIDE DEF C
  <2> QED BY <1>1, <1>2, Least
<1>4. \A y \in T : n - y \in C /\ y \in 0..n
  <2> TAKE y \in T
  <2>1. n - (n - y) = y
    OBVIOUS
  <2> QED BY <2>1
<1> QED BY <1>3, <1>4

(* The greatest of a set of positions.                                     *)
LEMMA MaxOf ==
    ASSUME NEW n \in Nat, NEW T, T \subseteq 0..n, T # {}
    PROVE  Max(T) \in T
<1>1. \E x \in T : \A y \in T : x >= y
  <2>1. PICK x \in T : \A y \in T : y <= x
    BY Greatest
  <2>2. \A y \in T : x >= y
    BY <2>1
  <2> QED BY <2>2
<1> QED BY <1>1, Zenon DEF Max
-----------------------------------------------------------------------------
(* A part of a queue is a queue, and holds nothing that the queue does not.*)
LEMMA PartOfQueue ==
    ASSUME NEW q \in Seq(Items), NEW m \in Nat \ {0}, NEW n \in 0..Len(q)
    PROVE  /\ SubSeq(q, m, n) \in Seq(Items)
           /\ \A a \in Actions : Holds(SubSeq(q, m, n), a) => Holds(q, a)
<1> DEFINE p == SubSeq(q, m, n)
<1>1. \A i \in m..n : q[i] \in Items
  BY ElementOfSeq, LenProperties
<1>2. /\ p \in Seq(Items)
      /\ Len(p) = IF m <= n THEN n - m + 1 ELSE 0
      /\ \A i \in 1..(n - m + 1) : p[i] = q[m + i - 1]
  BY <1>1, SubSeqProperties
<1>3. DOMAIN p = 1..Len(p) /\ DOMAIN q = 1..Len(q)
  BY <1>2, LenProperties
<1>4. ASSUME NEW a \in Actions, Holds(p, a)
      PROVE  Holds(q, a)
  <2>1. PICK i \in DOMAIN p : p[i].action = a
    BY <1>4 DEF Holds
  <2> HIDE DEF p
  <2>2. i \in 1..(n - m + 1) /\ m + i - 1 \in DOMAIN q
    BY <1>2, <1>3, <2>1
  <2> QED BY <1>2, <2>1, <2>2 DEF Holds
<1> QED BY <1>2, <1>4

(* What an item that is queued lets stay are queued items.                 *)
LEMMA SurvivorsType ==
    ASSUME NEW q \in Seq(Items), NEW item
    PROVE  /\ Survivors(q, item) \in Seq(Items)
           /\ \A a \in Actions : Holds(Survivors(q, item), a) => Holds(q, a)
<1> DEFINE T == {0} \cup {i \in DOMAIN q : ~Eliminates(q[i], item)}
<1>1. T \subseteq 0..Len(q) /\ T # {} /\ Len(q) \in Nat
  BY LenProperties
<1>2. Max(T) \in 0..Len(q)
  <2> HIDE DEF T
  <2> QED BY <1>1, MaxOf
<1>3. Survivors(q, item) = SubSeq(q, 1, Max(T)) /\ 1 \in Nat \ {0}
  BY DEF Survivors
<1> HIDE DEF T
<1> QED BY <1>2, <1>3, PartOfQueue

(* enqueue adds the action of the new item and no other. *)
LEMMA EnqueueType ==
    ASSUME NEW q \in Seq(Items), NEW item \in Items
    PROVE  /\ enqueue(q, item) \in Seq(Items)
           /\ \A a \in Actions : Holds(enqueue(q, item), a) =>
                                     Holds(q, a) \/ a = item.action
<1> DEFINE kept == Survivors(q, item)
           last == Len(kept)
           joined == [kept[last] EXCEPT !.force = @ \/ item.force]
<1>1. /\ kept \in Seq(Items)
      /\ \A a \in Actions : Holds(kept, a) => Holds(q, a)
  BY SurvivorsType
<1> HIDE DEF kept
<1>2. last \in Nat /\ DOMAIN kept = 1..last
  BY <1>1, LenProperties
<1>3. CASE kept # <<>> /\ SameAction(kept[last], item)
  <2>1. last \in 1..last
    BY <1>1, <1>2, <1>3, EmptySeq
  <2>2. kept[last] \in Items
    BY <1>1, <2>1, ElementOfSeq
  <2>3. joined \in Items /\ joined.action = kept[last].action
    BY <2>2 DEF Items
  <2> DEFINE r == [kept EXCEPT ![last] = joined]
  <2>4. enqueue(q, item) = r
    BY <1>3 DEF enqueue, kept
  <2> HIDE DEF joined
  <2>5. /\ r \in Seq(Items)
        /\ Len(r) = last
        /\ \A j \in 1..last : r[j] = IF j = last THEN joined ELSE kept[j]
    BY <1>1, <2>1, <2>3, ExceptSeq
  <2>6. \A j \in DOMAIN r : j \in DOMAIN kept /\ r[j].action = kept[j].action
    BY <1>2, <2>3, <2>5, LenProperties
  <2> HIDE DEF r
  <2>7. \A a \in Actions : Holds(r, a) => Holds(kept, a)
    BY <2>6 DEF Holds
  <2> QED BY <1>1, <2>4, <2>5, <2>7
<1>4. CASE ~(kept # <<>> /\ SameAction(kept[last], item))
  <2> DEFINE r == Append(kept, item)
  <2>1. enqueue(q, item) = r
    BY <1>4 DEF enqueue, kept
  <2>2. /\ r \in Seq(Items) /\ DOMAIN r = 1..(last + 1)
        /\ \A j \in 1..last : r[j] = kept[j]
        /\ r[last + 1] = item
    BY <1>1, <1>2
  <2> HIDE DEF r
  <2>3. ASSUME NEW a \in Actions, Holds(r, a)
        PROVE  Holds(kept, a) \/ a = item.action
    <3>1. PICK j \in DOMAIN r : r[j].action = a
      BY <2>3 DEF Holds
    <3> QED BY <1>2, <2>2, <3>1 DEF Holds
  <2> QED BY <1>1, <2>1, <2>2, <2>3
<1> QED BY <1>3, <1>4

(* Clearing the patches leaves queued items.                               *)
LEMMA ClearPatchesType ==
    ASSUME NEW q \in Seq(Items)
    PROVE  /\ clearPatches(q) \in Seq(Items)
           /\ \A a \in Actions : Holds(clearPatches(q), a) => Holds(q, a)
<1> DEFINE kept == {i \in DOMAIN q : q[i].action \in Ending}
<1>1. DOMAIN q = 1..Len(q) /\ Len(q) \in Nat
  BY LenProperties
<1>2. CASE kept = {}
  BY <1>2 DEF clearPatches, Holds
<1>3. CASE kept # {}
  <2>1. Min(kept) \in DOMAIN q
    <3>1. kept \subseteq Nat /\ kept \subseteq DOMAIN q
      BY <1>1
    <3> HIDE DEF kept
    <3> QED BY <1>3, <3>1, MinOf
  <2>2. q[Min(kept)] \in Items
    BY <1>1, <2>1, ElementOfSeq
  <2> DEFINE e == q[Min(kept)]
  <2>3. clearPatches(q) = <<e>>
    BY <1>3 DEF clearPatches
  <2> HIDE DEF kept
  <2>4. \A a : Holds(<<e>>, a) => Holds(q, a)
    BY <2>1 DEF Holds
  <2> QED BY <2>2, <2>3, <2>4
<1> QED BY <1>2, <1>3

(* The order in which items are taken holds only queued items.             *)
LEMMA DequeueOrderType ==
    ASSUME NEW q \in Seq(Items)
    PROVE  /\ DequeueOrder(q) \in Seq(Items)
           /\ \A a \in Actions : Holds(DequeueOrder(q), a) => Holds(q, a)
<1> DEFINE T == {i \in DOMAIN q : i > 1 /\ q[i].action \in Ending}
<1>1. DOMAIN q = 1..Len(q) /\ Len(q) \in Nat
  BY LenProperties
<1>2. CASE T = {}
  BY <1>2 DEF DequeueOrder
<1>3. CASE T # {}
  <2>1. Max(T) \in T /\ T \subseteq 0..Len(q)
    <3>1. T \subseteq 0..Len(q)
      BY <1>1
    <3> HIDE DEF T
    <3> QED BY <1>1, <1>3, <3>1, MaxOf
  <2>2. Max(T) \in Nat \ {0}
    BY <2>1
  <2>3. DequeueOrder(q) = SubSeq(q, Max(T), Len(q))
    BY <1>3 DEF DequeueOrder
  <2> HIDE DEF T
  <2>4. Len(q) \in 0..Len(q)
    BY <1>1
  <2> QED BY <2>2, <2>3, <2>4, PartOfQueue
<1> QED BY <1>2, <1>3

(* A queue that is not empty has a next item. *)
LEMMA DequeueNotEmpty ==
    ASSUME NEW q \in Seq(Items), q # <<>>
    PROVE  DequeueOrder(q) # <<>>
<1> DEFINE T == {i \in DOMAIN q : i > 1 /\ q[i].action \in Ending}
<1>1. CASE T = {}
  BY <1>1 DEF DequeueOrder
<1>2. CASE T # {}
  <2>1. DOMAIN q = 1..Len(q) /\ Len(q) \in Nat
    BY LenProperties
  <2>2. T \subseteq 0..Len(q) /\ T \subseteq 1..Len(q)
    BY <2>1
  <2>3. DequeueOrder(q) = SubSeq(q, Max(T), Len(q))
    BY <1>2 DEF DequeueOrder
  <2> HIDE DEF T
  <2>4. Max(T) \in 1..Len(q)
    BY <1>2, <2>1, <2>2, MaxOf
  <2>5. \A i \in Max(T)..Len(q) : q[i] \in Items
    BY <2>4, ElementOfSeq
  <2>6. Len(DequeueOrder(q)) = IF Max(T) <= Len(q) THEN Len(q) - Max(T) + 1 ELSE 0
    BY <2>1, <2>3, <2>4, <2>5, SubSeqProperties
  <2>7. Len(DequeueOrder(q)) > 0
    BY <2>1, <2>4, <2>6
  <2> QED BY <2>7, EmptySeq
<1> QED BY <1>1, <1>2

(* What dequeue leaves is a queue, and holds no action the queue did not. *)
LEMMA DequeueType ==
    ASSUME NEW q \in Seq(Items), q # <<>>
    PROVE  /\ dequeue(q).rest \in Seq(Items)
           /\ \A a \in Actions : Holds(dequeue(q).rest, a) => Holds(q, a)
<1> DEFINE order == DequeueOrder(q)
<1>1. /\ order \in Seq(Items)
      /\ \A a \in Actions : Holds(order, a) => Holds(q, a)
  BY DequeueOrderType
<1>2. order # <<>>
  BY DequeueNotEmpty
<1> HIDE DEF order
<1>3. Tail(order) = SubSeq(order, 2, Len(order))
  BY <1>1, <1>2, TailIsSubSeq
<1>4. /\ Tail(order) \in Seq(Items)
      /\ \A a \in Actions : Holds(Tail(order), a) => Holds(order, a)
  <2>1. Len(order) \in 0..Len(order) /\ 2 \in Nat \ {0}
    BY <1>1, LenProperties
  <2>2. /\ SubSeq(order, 2, Len(order)) \in Seq(Items)
        /\ \A a \in Actions :
              Holds(SubSeq(order, 2, Len(order)), a) => Holds(order, a)
    BY <1>1, <2>1, PartOfQueue
  <2> QED BY <1>3, <2>2
<1>5. dequeue(q).rest = Tail(order)
  BY DEF dequeue, order
<1> QED BY <1>1, <1>4, <1>5
-----------------------------------------------------------------------------
(* The queue holds an item with one of the actions. *)
HoldsOne(q, actions) == \E i \in DOMAIN q : q[i].action \in actions

(* Each of the first actions in the queue has one of the second behind it. *)
Followed(q, first, second) ==
    \A i \in DOMAIN q : q[i].action \in first =>
        \E j \in DOMAIN q : j > i /\ q[j].action \in second

(* An action by tag is never behind another. *)
TagAtHead(q) ==
    \A i \in DOMAIN q : q[i].action = ACTION_UNSUBSCRIBE_BY_TAG_PENDING => i = 1

(* What an item that is queued lets stay is the front of the queue.        *)
LEMMA SurvivorsShape ==
    ASSUME NEW q \in Seq(Items), NEW item \in Items
    PROVE  /\ Survivors(q, item) \in Seq(Items)
           /\ Len(Survivors(q, item)) \in 0..Len(q)
           /\ \A i \in 1..Len(Survivors(q, item)) : Survivors(q, item)[i] = q[i]
           /\ Len(Survivors(q, item)) > 0 =>
                  ~Eliminates(q[Len(Survivors(q, item))], item)
           /\ \A i \in 1..Len(q) :
                  i > Len(Survivors(q, item)) => Eliminates(q[i], item)
<1> DEFINE T == {0} \cup {i \in DOMAIN q : ~Eliminates(q[i], item)}
           n == Max(T)
           kept == Survivors(q, item)
<1>1. T \subseteq 0..Len(q) /\ T # {} /\ Len(q) \in Nat /\ DOMAIN q = 1..Len(q)
  BY LenProperties
<1>2. n \in T /\ \A i \in T : i <= n
  <2>1. \E x \in T : \A y \in T : x >= y
    <3>1. PICK x \in T : \A y \in T : y <= x
      <4> HIDE DEF T
      <4> QED BY <1>1, Greatest
    <3>2. \A y \in T : x >= y
      BY <1>1, <3>1
    <3> QED BY <3>2
  <2>2. n \in T /\ \A y \in T : n >= y
    <3> HIDE DEF T
    <3> QED BY <2>1, Zenon DEF Max
  <2> QED BY <1>1, <2>2
<1>3. kept = SubSeq(q, 1, n)
  BY DEF Survivors
<1>4. n \in 0..Len(q) /\ (n > 0 => ~Eliminates(q[n], item))
      /\ \A i \in 1..Len(q) : i > n => Eliminates(q[i], item)
  BY <1>1, <1>2
<1> HIDE DEF T, n
<1>5. /\ kept \in Seq(Items) /\ Len(kept) = n
      /\ \A i \in 1..n : kept[i] = q[i]
  <2>1. \A i \in 1..n : q[i] \in Items
    BY <1>4, ElementOfSeq, LenProperties
  <2>2. /\ kept \in Seq(Items)
        /\ Len(kept) = IF 1 <= n THEN n - 1 + 1 ELSE 0
        /\ \A i \in 1..(n - 1 + 1) : kept[i] = q[1 + i - 1]
    BY <1>3, <1>4, <2>1, SubSeqProperties
  <2> QED BY <1>4, <2>2
<1> QED BY <1>4, <1>5

(* enqueue leaves a part of the queue and puts the new action behind it.   *)
LEMMA EnqueueShape ==
    ASSUME NEW q \in Seq(Items), NEW item \in Items
    PROVE  LET r == enqueue(q, item) IN
           /\ r \in Seq(Items) /\ DOMAIN r = 1..Len(r) /\ DOMAIN q = 1..Len(q)
           /\ Len(r) \in 1..(Len(q) + 1) /\ Len(q) \in Nat
           /\ r[Len(r)].action = item.action
           /\ \A i \in 1..(Len(r) - 1) : r[i] = q[i]
           /\ item.action = ACTION_MODIFY_PATCH => Len(r) = Len(q) + 1
           /\ \/ Len(r) <= Len(q) /\ SameAction(q[Len(r)], item)
              \/ Len(r) > 1 => /\ ~Eliminates(q[Len(r) - 1], item)
                               /\ ~SameAction(q[Len(r) - 1], item)
<1> DEFINE kept == Survivors(q, item)
           n == Len(kept)
           joined == [kept[n] EXCEPT !.force = @ \/ item.force]
           r == enqueue(q, item)
<1>1. /\ kept \in Seq(Items) /\ n \in 0..Len(q)
      /\ \A i \in 1..n : kept[i] = q[i]
      /\ n > 0 => ~Eliminates(q[n], item)
      /\ \A i \in 1..Len(q) : i > n => Eliminates(q[i], item)
  BY SurvivorsShape
<1>2. Len(q) \in Nat /\ n \in Nat /\ n <= Len(q)
  BY <1>1, LenProperties
<1>6. DOMAIN q = 1..Len(q) /\ DOMAIN kept = 1..n
  BY <1>1, LenProperties
<1>3. item.action = ACTION_MODIFY_PATCH => n = Len(q)
  <2>1. item.action = ACTION_MODIFY_PATCH => \A i \in 1..Len(q) : ~Eliminates(q[i], item)
    BY DEF Eliminates, UnsubscribeTakenBack, SubscribeTakenBack, PatchNeedless,
           UnsubscribeReplaced, ACTION_MODIFY_PATCH, ACTION_SUBSCRIBE, Ending,
           ACTION_UNSUBSCRIBE, ACTION_UNSUBSCRIBE_BY_TAG_PENDING
  <2>2. n < Len(q) => n + 1 \in 1..Len(q) /\ n + 1 > n
    BY <1>1, <1>2
  <2>3. n < Len(q) => Eliminates(q[n + 1], item)
    BY <1>1, <2>2
  <2>4. item.action = ACTION_MODIFY_PATCH => ~(n < Len(q))
    BY <2>1, <2>2, <2>3
  <2> HIDE DEF n
  <2> QED BY <1>2, <2>4
<1>4. CASE kept # <<>> /\ SameAction(kept[n], item)
  <2> HIDE DEF kept
  <2>1. n \in 1..n
    BY <1>1, <1>2, <1>4, EmptySeq
  <2>2. kept[n] \in Items
    BY <1>1, <2>1, ElementOfSeq
  <2>3. joined \in Items /\ joined.action = kept[n].action
    BY <2>2 DEF Items
  <2>4. r = [kept EXCEPT ![n] = joined]
    BY <1>4 DEF enqueue, kept
  <2> HIDE DEF joined, r
  <2>5. /\ r \in Seq(Items) /\ Len(r) = n
        /\ \A j \in 1..n : r[j] = IF j = n THEN joined ELSE kept[j]
    BY <1>1, <2>1, <2>3, <2>4, ExceptSeq
  <2>6. r[n].action = item.action
    BY <1>4, <2>1, <2>3, <2>5 DEF SameAction
  <2>7. item.action # ACTION_MODIFY_PATCH /\ SameAction(q[n], item)
    BY <1>1, <1>4, <2>1 DEF SameAction
  <2> HIDE DEF joined
  <2>8. DOMAIN r = 1..Len(r) /\ SameAction(q[Len(r)], item)
    BY <2>5, <2>7, LenProperties
  <2>9. Len(r) \in 1..(Len(q) + 1) /\ Len(r) <= Len(q)
    BY <1>1, <1>2, <2>1, <2>5
  <2>10. ASSUME NEW i \in 1..(Len(r) - 1)
         PROVE  r[i] = q[i]
    <3>1. i \in 1..n /\ i # n
      BY <1>2, <2>5, <2>10
    <3> QED BY <1>1, <2>5, <3>1
  <2> QED BY <1>2, <1>6, <2>5, <2>6, <2>7, <2>8, <2>9, <2>10 DEF r
<1>5. CASE ~(kept # <<>> /\ SameAction(kept[n], item))
  <2> HIDE DEF kept
  <2>1. r = Append(kept, item)
    BY <1>5 DEF enqueue, kept
  <2> HIDE DEF r
  <2>2. /\ r \in Seq(Items) /\ Len(r) = n + 1 /\ DOMAIN r = 1..(n + 1)
        /\ \A j \in 1..n : r[j] = kept[j]
        /\ r[n + 1] = item
    BY <1>1, <1>2, <2>1
  <2>3. n > 0 => ~Eliminates(q[n], item) /\ ~SameAction(q[n], item)
    BY <1>1, <1>2, <1>5, EmptySeq
  <2>4. /\ Len(r) \in 1..(Len(q) + 1) /\ Len(r) - 1 = n
        /\ \A i \in 1..(Len(r) - 1) : r[i] = q[i]
        /\ Len(r) > 1 => n > 0
    BY <1>1, <1>2, <2>2
  <2> QED BY <1>2, <1>3, <1>6, <2>2, <2>3, <2>4 DEF r
<1> QED BY <1>4, <1>5

(* The last action asked for is the last in the queue. *)
LEMMA EnqueueLast ==
    ASSUME NEW q \in Seq(Items), NEW item \in Items, NEW first, NEW second,
           item.action \in second, item.action \notin first
    PROVE  /\ Followed(enqueue(q, item), first, second)
           /\ HoldsOne(enqueue(q, item), second)
<1> DEFINE r == enqueue(q, item)
<1>1. /\ DOMAIN r = 1..Len(r) /\ Len(r) \in 1..(Len(q) + 1) /\ Len(q) \in Nat
      /\ r[Len(r)].action = item.action
  BY EnqueueShape
<1> HIDE DEF r
<1>2. Len(r) \in DOMAIN r
  BY <1>1
<1>3. ASSUME NEW i \in DOMAIN r, r[i].action \in first
      PROVE  Len(r) > i
  BY <1>1, <1>3
<1> QED BY <1>1, <1>2, <1>3 DEF Followed, HoldsOne, r

(* A patch is put behind the others and eliminates none. *)
LEMMA EnqueuePatch ==
    ASSUME NEW q \in Seq(Items), NEW item \in Items, NEW first, NEW second,
           item.action = ACTION_MODIFY_PATCH, ACTION_MODIFY_PATCH \notin first
    PROVE  /\ Followed(q, first, second) => Followed(enqueue(q, item), first, second)
           /\ HoldsOne(q, second) => HoldsOne(enqueue(q, item), second)
<1> DEFINE r == enqueue(q, item)
<1>1. /\ DOMAIN r = 1..Len(r) /\ DOMAIN q = 1..Len(q)
      /\ Len(r) = Len(q) + 1 /\ Len(q) \in Nat
      /\ r[Len(r)].action = ACTION_MODIFY_PATCH
      /\ \A i \in 1..(Len(r) - 1) : r[i] = q[i]
  BY EnqueueShape
<1> HIDE DEF r
<1>2. \A i \in DOMAIN q : i \in DOMAIN r /\ r[i] = q[i]
  BY <1>1
<1>3. \A i \in DOMAIN r : r[i].action \in first => i \in DOMAIN q
  BY <1>1
<1> QED BY <1>2, <1>3 DEF Followed, HoldsOne, r

(* A by-tag action is queued at the head or not at all.                    *)
LEMMA EnqueueTagAtHead ==
    ASSUME NEW q \in Seq(Items), NEW item \in Items, TagAtHead(q)
    PROVE  TagAtHead(enqueue(q, item))
<1> DEFINE r == enqueue(q, item)
<1>1. /\ r \in Seq(Items) /\ DOMAIN r = 1..Len(r) /\ DOMAIN q = 1..Len(q)
      /\ Len(r) \in 1..(Len(q) + 1) /\ Len(q) \in Nat
      /\ r[Len(r)].action = item.action
      /\ \A i \in 1..(Len(r) - 1) : r[i] = q[i]
      /\ \/ Len(r) <= Len(q) /\ SameAction(q[Len(r)], item)
         \/ Len(r) > 1 => /\ ~Eliminates(q[Len(r) - 1], item)
                          /\ ~SameAction(q[Len(r) - 1], item)
  BY EnqueueShape
<1> HIDE DEF r
<1> SUFFICES ASSUME NEW i \in DOMAIN r, i # 1,
                    r[i].action = ACTION_UNSUBSCRIBE_BY_TAG_PENDING
             PROVE  FALSE
  BY DEF TagAtHead, r
<1>2. CASE i # Len(r)
  <2>1. i \in 1..(Len(r) - 1) /\ i \in DOMAIN q
    BY <1>1, <1>2
  <2>2. q[i].action = ACTION_UNSUBSCRIBE_BY_TAG_PENDING
    BY <1>1, <2>1
  <2> QED BY <2>1, <2>2 DEF TagAtHead
<1>3. CASE i = Len(r)
  <2>1. item.action = ACTION_UNSUBSCRIBE_BY_TAG_PENDING /\ Len(r) > 1
    BY <1>1, <1>3
  <2>2. CASE Len(r) <= Len(q) /\ SameAction(q[Len(r)], item)
    <3>1. Len(r) \in DOMAIN q /\ Len(r) # 1
      BY <1>1, <2>1, <2>2
    <3> QED BY <2>1, <2>2, <3>1 DEF TagAtHead, SameAction
  <2>3. CASE ~Eliminates(q[Len(r) - 1], item) /\ ~SameAction(q[Len(r) - 1], item)
    <3>1. Len(r) - 1 \in 1..Len(q)
      BY <1>1, <2>1
    <3>2. q[Len(r) - 1] \in Items
      BY <3>1, ElementOfSeq
    <3> DEFINE x == q[Len(r) - 1]
    <3> HIDE DEF x
    <3>3. x.action \in Actions /\ ~Eliminates(x, item) /\ ~SameAction(x, item)
      BY <2>3, <3>2 DEF x, Items
    <3> QED BY <2>1, <3>3
        DEF Eliminates, UnsubscribeTakenBack, SubscribeTakenBack, PatchNeedless,
            UnsubscribeReplaced, SameAction, Actions, Ending, ACTION_MODIFY_PATCH,
            ACTION_SUBSCRIBE, ACTION_UNSUBSCRIBE, ACTION_UNSUBSCRIBE_BY_TAG_PENDING
  <2> QED BY <1>1, <2>1, <2>2, <2>3
<1> QED BY <1>2, <1>3

(* Without patches and calls by tag nothing stands behind a subscribe. *)
OnlyOnOff(q) ==
    \A i \in DOMAIN q : /\ q[i].action \in {ACTION_SUBSCRIBE, ACTION_UNSUBSCRIBE}
                        /\ q[i].action = ACTION_SUBSCRIBE => i = Len(q)

(* A queue of unsubscribes and one last subscribe stays so when one of the *)
(* two is queued.                                                          *)
LEMMA EnqueueOnlyOnOff ==
    ASSUME NEW q \in Seq(Items), NEW item \in Items, OnlyOnOff(q),
           item.action \in {ACTION_SUBSCRIBE, ACTION_UNSUBSCRIBE}
    PROVE  OnlyOnOff(enqueue(q, item))
<1> DEFINE r == enqueue(q, item)
<1>1. /\ r \in Seq(Items) /\ DOMAIN r = 1..Len(r) /\ DOMAIN q = 1..Len(q)
      /\ Len(r) \in 1..(Len(q) + 1) /\ Len(q) \in Nat
      /\ r[Len(r)].action = item.action
      /\ \A i \in 1..(Len(r) - 1) : r[i] = q[i]
      /\ \/ Len(r) <= Len(q) /\ SameAction(q[Len(r)], item)
         \/ Len(r) > 1 => /\ ~Eliminates(q[Len(r) - 1], item)
                          /\ ~SameAction(q[Len(r) - 1], item)
  BY EnqueueShape
<1> HIDE DEF r
<1> SUFFICES ASSUME NEW i \in DOMAIN r
             PROVE  /\ r[i].action \in {ACTION_SUBSCRIBE, ACTION_UNSUBSCRIBE}
                    /\ r[i].action = ACTION_SUBSCRIBE => i = Len(r)
  BY DEF OnlyOnOff, r
<1>2. CASE i # Len(r)
  <2>1. i \in 1..(Len(r) - 1) /\ i \in DOMAIN q /\ r[i] = q[i]
    BY <1>1, <1>2
  <2>2. r[i].action \in {ACTION_SUBSCRIBE, ACTION_UNSUBSCRIBE}
    BY <2>1 DEF OnlyOnOff
  <2>3. ASSUME r[i].action = ACTION_SUBSCRIBE
        PROVE  FALSE
    <3>1. i = Len(q)
      BY <2>1, <2>3 DEF OnlyOnOff
    <3>4. Len(r) \in 1..(Len(q) + 1) /\ Len(q) \in Nat
      BY <1>1
    <3>2. Len(r) - 1 = i /\ Len(r) > 1 /\ ~(Len(r) <= Len(q))
      BY <2>1, <3>1, <3>4
    <3>3. ~Eliminates(q[i], item) /\ ~SameAction(q[i], item)
      BY <1>1, <3>2
    <3> QED BY <2>1, <2>3, <3>3
        DEF Eliminates, SubscribeTakenBack, SameAction, Ending, ACTION_MODIFY_PATCH,
            ACTION_SUBSCRIBE, ACTION_UNSUBSCRIBE, ACTION_UNSUBSCRIBE_BY_TAG_PENDING
  <2> QED BY <2>2, <2>3
<1>3. CASE i = Len(r)
  BY <1>1, <1>3
<1> QED BY <1>2, <1>3
-----------------------------------------------------------------------------
(* What DequeueOrder skips is a part of the queue up to the last action    *)
(* that ends the subscription.                                             *)
LEMMA DequeueOrderShape ==
    ASSUME NEW q \in Seq(Items)
    PROVE  LET order == DequeueOrder(q) IN
           /\ order \in Seq(Items)
           /\ Len(order) \in Nat /\ Len(q) \in Nat
           /\ DOMAIN order = 1..Len(order) /\ DOMAIN q = 1..Len(q)
           /\ \E m \in 0..Len(q) :
                 /\ Len(order) = Len(q) - m
                 /\ \A i \in 1..Len(order) : order[i] = q[i + m]
                 /\ m > 0 => Len(order) > 0 /\ order[1].action \in Ending
           /\ \A i \in 1..Len(order) : i > 1 => order[i].action \notin Ending
<1> DEFINE T == {i \in DOMAIN q : i > 1 /\ q[i].action \in Ending}
           n == Max(T)
           order == DequeueOrder(q)
<1>1. DOMAIN q = 1..Len(q) /\ Len(q) \in Nat
  BY LenProperties
<1>2. order \in Seq(Items)
  BY DequeueOrderType
<1>3. Len(order) \in Nat /\ DOMAIN order = 1..Len(order)
  BY <1>2, LenProperties
<1>4. CASE T = {}
  <2>1. order = q
    BY <1>4 DEF DequeueOrder
  <2>2. \A i \in 1..Len(q) : i > 1 => q[i].action \notin Ending
    BY <1>1, <1>4
  <2>3. \E m \in 0..Len(q) :
           /\ Len(q) = Len(q) - m
           /\ \A i \in 1..Len(q) : q[i] = q[i + m]
           /\ m > 0 => Len(q) > 0 /\ q[1].action \in Ending
    <3>1. 0 \in 0..Len(q)
      BY <1>1
    <3>2. Len(q) = Len(q) - 0 /\ \A i \in 1..Len(q) : i = i + 0
      BY <1>1
    <3> WITNESS 0 \in 0..Len(q)
    <3> QED BY <3>2
  <2> QED BY <1>1, <2>1, <2>2, <2>3
<1>5. CASE T # {}
  <2>1. T \subseteq 0..Len(q)
    BY <1>1
  <2>2. n \in T /\ \A i \in T : i <= n
    <3>1. \E x \in T : \A y \in T : x >= y
      <4>1. PICK x \in T : \A y \in T : y <= x
        <5> HIDE DEF T
        <5> QED BY <1>1, <1>5, <2>1, Greatest
      <4>2. \A y \in T : x >= y
        BY <2>1, <4>1
      <4> QED BY <4>2
    <3>2. n \in T /\ \A y \in T : n >= y
      <4> HIDE DEF T
      <4> QED BY <3>1, Zenon DEF Max
    <3> QED BY <2>1, <3>2
  <2>3. order = SubSeq(q, n, Len(q))
    BY <1>5 DEF DequeueOrder
  <2>11. n \in 2..Len(q) /\ q[n].action \in Ending
    BY <1>1, <2>2
  <2>12. ASSUME NEW i \in 1..Len(q), i > n, q[i].action \in Ending
         PROVE  FALSE
    <3>1. i \in T
      BY <1>1, <2>11, <2>12
    <3>2. i <= n
      BY <2>2, <3>1
    <3> HIDE DEF n
    <3> QED BY <2>11, <2>12, <3>2
  <2> HIDE DEF T, n, order
  <2>4. /\ n \in 2..Len(q) /\ q[n].action \in Ending
        /\ \A i \in 1..Len(q) : i > n => q[i].action \notin Ending
    BY <2>11, <2>12
  <2>5. \A i \in n..Len(q) : q[i] \in Items
    BY <1>1, <2>4, ElementOfSeq
  <2>6. /\ Len(order) = IF n <= Len(q) THEN Len(q) - n + 1 ELSE 0
        /\ \A i \in 1..(Len(q) - n + 1) : order[i] = q[n + i - 1]
    BY <1>1, <2>3, <2>4, <2>5, SubSeqProperties
  <2>7. Len(order) = Len(q) - (n - 1) /\ Len(order) > 0 /\ n - 1 \in 0..Len(q)
    BY <1>1, <2>4, <2>6
  <2>8. \A i \in 1..Len(order) : order[i] = q[i + (n - 1)]
    BY <1>1, <2>4, <2>6, <2>7
  <2>9. order[1].action \in Ending
    BY <1>1, <2>4, <2>7, <2>8
  <2>10. ASSUME NEW i \in 1..Len(order), i > 1
         PROVE  order[i].action \notin Ending
    <3>1. i + (n - 1) \in 1..Len(q) /\ i + (n - 1) > n
      BY <1>1, <2>4, <2>7, <2>10
    <3> QED BY <2>4, <2>8, <3>1
  <2> QED BY <1>1, <1>2, <1>3, <2>7, <2>8, <2>9, <2>10 DEF order
<1> QED BY <1>4, <1>5

(* dequeue returns one item of the queue, and all that stood behind it, in *)
(* the order it had: what is skipped stands before the last action that    *)
(* ends the subscription, which is then the item.  Nothing behind the item *)
(* ends the subscription, so no such request is ever skipped for good.     *)
THEOREM DequeueTakesOne ==
    ASSUME NEW q \in Seq(Items), q # <<>>
    PROVE  \E k \in DOMAIN q :
              /\ dequeue(q).item = q[k]
              /\ Len(dequeue(q).rest) = Len(q) - k
              /\ \A i \in DOMAIN dequeue(q).rest : dequeue(q).rest[i] = q[k + i]
              /\ k > 1 => q[k].action \in Ending
              /\ \A i \in DOMAIN q : i > k => q[i].action \notin Ending
<1> DEFINE order == DequeueOrder(q)
<1>1. /\ order \in Seq(Items)
      /\ Len(order) \in Nat /\ Len(q) \in Nat
      /\ DOMAIN order = 1..Len(order) /\ DOMAIN q = 1..Len(q)
      /\ \A i \in 1..Len(order) : i > 1 => order[i].action \notin Ending
  BY DequeueOrderShape
<1>2. PICK m \in 0..Len(q) :
          /\ Len(order) = Len(q) - m
          /\ \A i \in 1..Len(order) : order[i] = q[i + m]
          /\ m > 0 => Len(order) > 0 /\ order[1].action \in Ending
  BY DequeueOrderShape
<1>3. order # <<>>
  BY DequeueNotEmpty
<1>4. dequeue(q).item = Head(order) /\ dequeue(q).rest = Tail(order)
  BY DEF dequeue
<1> HIDE DEF order
<1>5. Len(order) > 0
  BY <1>1, <1>3, EmptySeq
<1>6. /\ Head(order) = order[1]
      /\ Len(Tail(order)) = Len(order) - 1
      /\ \A i \in 1..(Len(order) - 1) : Tail(order)[i] = order[i + 1]
  BY <1>1, <1>3, HeadTailProperties
<1>7. DOMAIN Tail(order) = 1..(Len(order) - 1)
  BY <1>1, <1>3, <1>6, HeadTailProperties, LenProperties
<1>8. m + 1 \in DOMAIN q
  BY <1>1, <1>2, <1>5
<1>9. order[1] = q[m + 1]
  BY <1>1, <1>2, <1>5
<1>10. Len(Tail(order)) = Len(q) - (m + 1)
  <2>1. Len(order) = Len(q) - m /\ Len(q) \in Nat /\ m \in Nat
    BY <1>1, <1>2
  <2>2. Len(Tail(order)) = (Len(q) - m) - 1
    BY <1>6, <2>1
  <2>3. (Len(q) - m) - 1 = Len(q) - (m + 1)
    BY <2>1
  <2> QED BY <2>2, <2>3
<1>11. \A i \in DOMAIN Tail(order) : Tail(order)[i] = q[(m + 1) + i]
  <2> SUFFICES ASSUME NEW i \in 1..(Len(order) - 1)
               PROVE  Tail(order)[i] = q[(m + 1) + i]
    BY <1>7
  <2>1. i + 1 \in 1..Len(order) /\ (i + 1) + m = (m + 1) + i
    BY <1>1, <1>2
  <2>2. Tail(order)[i] = order[i + 1] /\ order[i + 1] = q[(i + 1) + m]
    BY <1>2, <1>6, <2>1
  <2> QED BY <2>1, <2>2
<1>12. m + 1 > 1 => q[m + 1].action \in Ending
  BY <1>1, <1>2, <1>9
<1>13. ASSUME NEW i \in DOMAIN q, i > m + 1
       PROVE  q[i].action \notin Ending
  <2>1. i - m \in 1..Len(order) /\ i - m > 1 /\ (i - m) + m = i
    BY <1>1, <1>2, <1>13
  <2>2. order[i - m].action \notin Ending /\ order[i - m] = q[(i - m) + m]
    BY <1>1, <1>2, <2>1
  <2> QED BY <2>1, <2>2
<1> QED BY <1>4, <1>6, <1>8, <1>9, <1>10, <1>11, <1>12, <1>13

(* In the order in which items are taken, what followed still follows.     *)
LEMMA OrderKeeps ==
    ASSUME NEW q \in Seq(Items), NEW first, NEW second
    PROVE  LET order == DequeueOrder(q) IN
           /\ Followed(q, first, second) => Followed(order, first, second)
           /\ Followed(q, first, Ending) => ~HoldsOne(order, first)
           /\ Followed(q, Ending, second) /\ HoldsOne(q, second) =>
                  HoldsOne(order, second)
           /\ HoldsOne(q, Ending) => Len(order) > 0 /\ order[1].action \in Ending
           /\ TagAtHead(q) => TagAtHead(order)
           /\ TagAtHead(q) /\ HeadIs(q, ACTION_UNSUBSCRIBE) =>
                  Len(order) > 0 /\ order[1].action = ACTION_UNSUBSCRIBE
           /\ OnlyOnOff(q) => OnlyOnOff(order)
<1> DEFINE order == DequeueOrder(q)
<1>1. /\ order \in Seq(Items)
      /\ Len(order) \in Nat /\ Len(q) \in Nat
      /\ DOMAIN order = 1..Len(order) /\ DOMAIN q = 1..Len(q)
      /\ \A i \in 1..Len(order) : i > 1 => order[i].action \notin Ending
  BY DequeueOrderShape
<1>2. PICK m \in 0..Len(q) :
          /\ Len(order) = Len(q) - m
          /\ \A i \in 1..Len(order) : order[i] = q[i + m]
          /\ m > 0 => Len(order) > 0 /\ order[1].action \in Ending
  BY DequeueOrderShape
<1> HIDE DEF order
<1>3. \A i \in DOMAIN order : i \in 1..Len(order) /\ i + m \in DOMAIN q /\ order[i] = q[i + m]
  BY <1>1, <1>2
<1>4. ASSUME NEW j \in DOMAIN q, j > m
      PROVE  j - m \in DOMAIN order /\ order[j - m] = q[j]
  <2>1. j - m \in 1..Len(order) /\ (j - m) + m = j
    BY <1>1, <1>2, <1>4
  <2> QED BY <1>1, <1>2, <2>1
<1>5. ASSUME NEW A, NEW B, Followed(q, A, B)
      PROVE  Followed(order, A, B)
  <2> SUFFICES ASSUME NEW i \in DOMAIN order, order[i].action \in A
               PROVE  \E j \in DOMAIN order : j > i /\ order[j].action \in B
    BY DEF Followed
  <2>1. PICK j \in DOMAIN q : j > i + m /\ q[j].action \in B
    BY <1>3, <1>5 DEF Followed
  <2>2. j > m /\ j - m > i
    BY <1>1, <1>2, <1>3, <2>1
  <2> QED BY <1>4, <2>1, <2>2
<1>6. ASSUME Followed(q, first, Ending)
      PROVE  ~HoldsOne(order, first)
  <2>1. Followed(order, first, Ending)
    BY <1>5, <1>6
  <2>2. \A i \in DOMAIN order : i >= 1
    BY <1>1
  <2>3. \A i, j \in DOMAIN order : j > i => j > 1
    BY <1>1
  <2> QED BY <1>1, <2>1, <2>3 DEF Followed, HoldsOne
<1>7. ASSUME Followed(q, Ending, second), HoldsOne(q, second)
      PROVE  HoldsOne(order, second)
  <2>1. CASE m = 0
    <3>1. \A j \in DOMAIN q : j \in DOMAIN order /\ order[j] = q[j]
      BY <1>1, <1>4, <2>1
    <3> QED BY <1>7, <3>1 DEF HoldsOne
  <2>2. CASE m > 0
    <3>1. 1 \in DOMAIN order /\ order[1].action \in Ending
      BY <1>1, <1>2, <2>2
    <3> QED BY <1>5, <1>7, <3>1 DEF Followed, HoldsOne
  <2> QED BY <1>2, <2>1, <2>2
<1>8. ASSUME HoldsOne(q, Ending)
      PROVE  Len(order) > 0 /\ order[1].action \in Ending
  <2>1. CASE m = 0
    <3>1. PICK i \in DOMAIN q : q[i].action \in Ending
      BY <1>8 DEF HoldsOne
    <3>2. i \in 1..Len(order) /\ order[i].action \in Ending
      BY <1>1, <1>4, <2>1, <3>1
    <3>3. i = 1
      BY <1>1, <3>2
    <3> QED BY <1>1, <3>2, <3>3
  <2> QED BY <1>2, <2>1
<1>9. ASSUME TagAtHead(q)
      PROVE  TagAtHead(order)
  <2> SUFFICES ASSUME NEW i \in DOMAIN order,
                      order[i].action = ACTION_UNSUBSCRIBE_BY_TAG_PENDING
               PROVE  i = 1
    BY DEF TagAtHead
  <2>1. i + m = 1
    BY <1>3, <1>9 DEF TagAtHead
  <2> QED BY <1>1, <1>2, <2>1
<1>10. ASSUME TagAtHead(q), HeadIs(q, ACTION_UNSUBSCRIBE)
       PROVE  Len(order) > 0 /\ order[1].action = ACTION_UNSUBSCRIBE
  <2>1. q # <<>> /\ q[1].action = ACTION_UNSUBSCRIBE
    BY <1>10 DEF HeadIs, isEmpty
  <2>2. CASE m = 0
    <3>1. Len(q) > 0
      BY <1>1, <2>1, EmptySeq
    <3> QED BY <1>1, <1>2, <2>1, <2>2, <3>1
  <2>3. CASE m > 0
    <3>1. 1 \in DOMAIN order /\ order[1].action \in Ending
      BY <1>1, <1>2, <2>3
    <3>2. 1 + m \in DOMAIN q /\ order[1] = q[1 + m] /\ 1 + m # 1
      BY <1>2, <1>3, <2>3, <3>1
    <3>3. order[1].action # ACTION_UNSUBSCRIBE_BY_TAG_PENDING
      BY <1>10, <3>2 DEF TagAtHead
    <3> QED BY <1>2, <2>3, <3>1, <3>3 DEF Ending
  <2> QED BY <1>2, <2>2, <2>3
<1>11. ASSUME OnlyOnOff(q)
       PROVE  OnlyOnOff(order)
  <2> SUFFICES ASSUME NEW i \in DOMAIN order
               PROVE  /\ order[i].action \in {ACTION_SUBSCRIBE, ACTION_UNSUBSCRIBE}
                      /\ order[i].action = ACTION_SUBSCRIBE => i = Len(order)
    BY DEF OnlyOnOff
  <2>1. /\ order[i].action \in {ACTION_SUBSCRIBE, ACTION_UNSUBSCRIBE}
        /\ order[i].action = ACTION_SUBSCRIBE => i + m = Len(q)
    BY <1>3, <1>11 DEF OnlyOnOff
  <2>2. i \in 1..Len(order)
    BY <1>3
  <2> QED BY <1>1, <1>2, <2>1, <2>2
<1> QED BY <1>5, <1>6, <1>7, <1>8, <1>9, <1>10, <1>11 DEF order

(* What is left of a queue behind its first items. *)
LEMMA BehindKeeps ==
    ASSUME NEW q \in Seq(Items), NEW n \in 1..Len(q), NEW first, NEW second
    PROVE  LET rest == SubSeq(q, n + 1, Len(q)) IN
           /\ rest \in Seq(Items)
           /\ Followed(q, first, second) => Followed(rest, first, second)
           /\ ~HoldsOne(q, first) => ~HoldsOne(rest, first)
           /\ TagAtHead(q) => ~HoldsOne(rest, {ACTION_UNSUBSCRIBE_BY_TAG_PENDING})
           /\ OnlyOnOff(q) => OnlyOnOff(rest)
           /\ q[n].action \in first /\ Followed(q, first, second) =>
                  HoldsOne(rest, second)
           /\ (\A i \in 1..Len(q) : i > 1 => q[i].action \notin Ending) =>
                  ~HoldsOne(rest, Ending)
<1> DEFINE rest == SubSeq(q, n + 1, Len(q))
<1>1. /\ rest \in Seq(Items)
      /\ Len(rest) = Len(q) - n
      /\ \A i \in 1..Len(rest) : rest[i] = q[i + n]
      /\ Len(q) \in Nat /\ n \in Nat
  <2>1. Len(q) \in Nat /\ n + 1 \in Nat \ {0} /\ n \in Nat
    BY LenProperties
  <2>2. \A i \in (n + 1)..Len(q) : q[i] \in Items
    BY <2>1, ElementOfSeq
  <2>3. /\ rest \in Seq(Items)
        /\ Len(rest) = IF n + 1 <= Len(q) THEN Len(q) - (n + 1) + 1 ELSE 0
        /\ \A i \in 1..(Len(q) - (n + 1) + 1) : rest[i] = q[(n + 1) + i - 1]
    BY <2>1, <2>2, SubSeqProperties
  <2> HIDE DEF rest
  <2>4. Len(rest) = Len(q) - n
    BY <2>1, <2>3
  <2>5. \A i \in 1..Len(rest) : rest[i] = q[i + n]
    BY <2>1, <2>3, <2>4
  <2> QED BY <2>1, <2>3, <2>4, <2>5
<1>2. DOMAIN q = 1..Len(q) /\ DOMAIN rest = 1..Len(rest)
  BY <1>1, LenProperties
<1> HIDE DEF rest
<1>3. \A i \in DOMAIN rest : i + n \in DOMAIN q /\ i + n > 1 /\ rest[i] = q[i + n]
  BY <1>1, <1>2
<1>4. ASSUME NEW j \in DOMAIN q, j > n
      PROVE  j - n \in DOMAIN rest /\ rest[j - n] = q[j]
  <2>1. j - n \in 1..Len(rest) /\ (j - n) + n = j
    BY <1>1, <1>2, <1>4
  <2> QED BY <1>1, <1>2, <2>1
<1>5. ASSUME Followed(q, first, second)
      PROVE  Followed(rest, first, second)
  <2> SUFFICES ASSUME NEW i \in DOMAIN rest, rest[i].action \in first
               PROVE  \E j \in DOMAIN rest : j > i /\ rest[j].action \in second
    BY DEF Followed
  <2>1. PICK j \in DOMAIN q : j > i + n /\ q[j].action \in second
    BY <1>3, <1>5 DEF Followed
  <2>2. j > n /\ j - n > i
    BY <1>1, <1>2, <1>3, <2>1
  <2> QED BY <1>4, <2>1, <2>2
<1>6. ~HoldsOne(q, first) => ~HoldsOne(rest, first)
  BY <1>3 DEF HoldsOne
<1>7. TagAtHead(q) => ~HoldsOne(rest, {ACTION_UNSUBSCRIBE_BY_TAG_PENDING})
  <2>1. \A i \in DOMAIN rest : i + n # 1
    BY <1>1, <1>2
  <2> QED BY <1>3, <2>1 DEF HoldsOne, TagAtHead
<1>8. ASSUME OnlyOnOff(q)
      PROVE  OnlyOnOff(rest)
  <2> SUFFICES ASSUME NEW i \in DOMAIN rest
               PROVE  /\ rest[i].action \in {ACTION_SUBSCRIBE, ACTION_UNSUBSCRIBE}
                      /\ rest[i].action = ACTION_SUBSCRIBE => i = Len(rest)
    BY DEF OnlyOnOff
  <2>1. /\ rest[i].action \in {ACTION_SUBSCRIBE, ACTION_UNSUBSCRIBE}
        /\ rest[i].action = ACTION_SUBSCRIBE => i + n = Len(q)
    BY <1>3, <1>8 DEF OnlyOnOff
  <2>2. i \in 1..Len(rest)
    BY <1>2
  <2> QED BY <1>1, <2>1, <2>2
<1>9. ASSUME q[n].action \in first, Followed(q, first, second)
      PROVE  HoldsOne(rest, second)
  <2>1. PICK j \in DOMAIN q : j > n /\ q[j].action \in second
    BY <1>2, <1>9 DEF Followed
  <2> QED BY <1>4, <2>1 DEF HoldsOne
<1>10. ASSUME \A i \in 1..Len(q) : i > 1 => q[i].action \notin Ending
       PROVE  ~HoldsOne(rest, Ending)
  BY <1>2, <1>3, <1>10 DEF HoldsOne
<1> QED BY <1>1, <1>5, <1>6, <1>7, <1>8, <1>9, <1>10 DEF rest

(* Clearing the patches keeps the shape of the queue.                      *)
LEMMA ClearPatchesShape ==
    ASSUME NEW q \in Seq(Items)
    PROVE  /\ Len(clearPatches(q)) <= 1
           /\ ~HoldsOne(clearPatches(q), {ACTION_SUBSCRIBE, ACTION_MODIFY_PATCH})
           /\ TagAtHead(clearPatches(q))
           /\ ~HoldsOne(q, Ending) => clearPatches(q) = <<>>
           /\ OnlyOnOff(q) => OnlyOnOff(clearPatches(q))
<1> DEFINE kept == {i \in DOMAIN q : q[i].action \in Ending}
<1>1. DOMAIN q = 1..Len(q) /\ Len(q) \in Nat
  BY LenProperties
<1>2. CASE kept = {}
  <2>1. clearPatches(q) = <<>>
    BY <1>2 DEF clearPatches
  <2> QED BY <2>1 DEF HoldsOne, TagAtHead, OnlyOnOff
<1>3. CASE kept # {}
  <2>1. Min(kept) \in kept
    <3>1. kept \subseteq Nat
      BY <1>1
    <3> HIDE DEF kept
    <3> QED BY <1>3, <3>1, MinOf
  <2> DEFINE e == q[Min(kept)]
  <2>2. e.action \in Ending /\ Min(kept) \in DOMAIN q
    BY <2>1
  <2>3. clearPatches(q) = <<e>>
    BY <1>3 DEF clearPatches
  <2>4. HoldsOne(q, Ending)
    BY <2>2 DEF HoldsOne
  <2>5. OnlyOnOff(q) => e.action \in {ACTION_SUBSCRIBE, ACTION_UNSUBSCRIBE}
    BY <2>2 DEF OnlyOnOff
  <2> HIDE DEF e
  <2>6. DOMAIN <<e>> = {1} /\ <<e>>[1] = e /\ Len(<<e>>) = 1
    OBVIOUS
  <2>7. e.action \notin {ACTION_SUBSCRIBE, ACTION_MODIFY_PATCH}
    BY <2>2 DEF Ending, ACTION_MODIFY_PATCH, ACTION_SUBSCRIBE, ACTION_UNSUBSCRIBE,
                ACTION_UNSUBSCRIBE_BY_TAG_PENDING
  <2> QED BY <2>3, <2>4, <2>5, <2>6, <2>7 DEF HoldsOne, TagAtHead, OnlyOnOff
<1> QED BY <1>2, <1>3
=============================================================================
