------------------------ MODULE StreamingHandlersProofs ------------------------
(***************************************************************************)
(* What each method and callback of Streaming does to it, for every        *)
(* streaming and any number of subscriptions: the lemmas that the theorems *)
(* of StreamingProofs rest on.                                             *)
(*                                                                         *)
(* A call is taken apart into what it does to its subscriptions (Clean,    *)
(* Mild; Called and Gentle of all of them), to the orphan finder (Settles, *)
(* Clock, Watched), and to the connection (Kept, Connects, Inits, Ends,    *)
(* Stops ...).  A call is quiet when it makes no subscription and tells    *)
(* none that the connection is there; most are, and what is quiet can be   *)
(* put together.                                                           *)
(*                                                                         *)
(* First come the theorems about OrphanFinder, which stand for any delays  *)
(* and any number of subscriptions.                                        *)
(***************************************************************************)
EXTENDS Streaming, SubscriptionHandlersProofs, FiniteSetTheorems,
        WellFoundedInduction

(***************************************************************************)
(* The orphan finder.  Whatever is done to it, its next update is armed,   *)
(* and an update that does not report a subscription will be followed by   *)
(* another in time.                                                        *)
(***************************************************************************)
(* At time n the update at nextUpdateTime has come, or a timer will bring  *)
(* it.                                                                     *)
Armed(f, n) ==
    \/ f.nextUpdateTime = Infinity
    \/ f.nextUpdateTime <= n
    \/ f.nextUpdateTime = f.timer
    \/ \E k \in DOMAIN f.lost : f.lost[k] = f.nextUpdateTime

(* When the timers of a finder are due.                                    *)
Due(f) == {f.lost[k] : k \in DOMAIN f.lost} \cup ({f.timer} \ {Infinity})

(* left is defined for some subscriptions.                                 *)
Lefts(left) == \A i \in DOMAIN left : left[i] \in Int
-----------------------------------------------------------------------------
(* A finite set of numbers has a least one.                                *)
LEMMA Soonest ==
    ASSUME NEW T, T \subseteq Nat, T # {}
    PROVE  \E x \in T : \A y \in T : x <= y
<1> DEFINE R == OpToRel(<, Nat)
<1>1. IsWellFoundedOn(R, Nat)
  BY NatLessThanWellFounded
<1>2. \E x \in T : \A y \in T : <<y, x>> \notin R
  <2> HIDE DEF R
  <2> QED
    BY <1>1, WFMin, Zenon
<1>3. \A x, y \in Nat : <<y, x>> \notin R => x <= y
  BY DEF OpToRel
<1> QED
  BY <1>2, <1>3

(* Taking an element out keeps the others.                                 *)
LEMMA RemoveAtKeeps ==
    ASSUME NEW q \in Seq(Nat), NEW i \in DOMAIN q
    PROVE  /\ RemoveAt(q, i) \in Seq(Nat)
           /\ \A k \in DOMAIN q : k # i =>
                 \E j \in DOMAIN RemoveAt(q, i) : RemoveAt(q, i)[j] = q[k]
<1> DEFINE a == SubSeq(q, 1, i - 1)
           b == SubSeq(q, i + 1, Len(q))
<1>1. Len(q) \in Nat /\ i \in 1 .. Len(q) /\ DOMAIN q = 1 .. Len(q)
  OBVIOUS
<1>2. /\ a \in Seq(Nat) /\ Len(a) = i - 1
      /\ \A j \in 1 .. i - 1 : a[j] = q[j]
  <2>1. /\ \A j \in 1 .. i - 1 : q[j] \in Nat
        /\ 1 \in Int /\ i - 1 \in Int
    BY <1>1
  <2>2. /\ a \in Seq(Nat)
        /\ Len(a) = IF 1 <= i - 1 THEN (i - 1) - 1 + 1 ELSE 0
        /\ \A j \in 1 .. (i - 1) - 1 + 1 : a[j] = q[1 + j - 1]
    BY <2>1, SubSeqProperties
  <2> HIDE DEF a
  <2> QED
    BY <1>1, <2>2
<1>3. /\ b \in Seq(Nat) /\ Len(b) = Len(q) - i
      /\ \A j \in 1 .. Len(q) - i : b[j] = q[i + j]
  <2>1. /\ \A j \in i + 1 .. Len(q) : q[j] \in Nat
        /\ i + 1 \in Int /\ Len(q) \in Int
    BY <1>1
  <2>2. /\ b \in Seq(Nat)
        /\ Len(b) = IF i + 1 <= Len(q) THEN Len(q) - (i + 1) + 1 ELSE 0
        /\ \A j \in 1 .. Len(q) - (i + 1) + 1 : b[j] = q[(i + 1) + j - 1]
    BY SMTT(30), <2>1, SubSeqProperties
  <2> HIDE DEF b
  <2>3. PICK n \in Nat : n = Len(q)
    BY <1>1
  <2>4. i \in Int /\ i <= n /\ i >= 1
    BY <1>1, <2>3
  <2>5. /\ n - (i + 1) + 1 = n - i
        /\ (IF i + 1 <= n THEN n - (i + 1) + 1 ELSE 0) = n - i
    BY <2>4
  <2>6. ASSUME NEW j \in 1 .. n - i PROVE b[j] = q[i + j]
    <3>1. (i + 1) + j - 1 = i + j
      BY <2>4
    <3> QED
      BY <2>2, <2>3, <2>5, <3>1
  <2> QED
    BY <2>2, <2>3, <2>5, <2>6
<1>4. RemoveAt(q, i) = a \o b
  BY DEF RemoveAt
<1> HIDE DEF a, b
<1>5. /\ DOMAIN (a \o b) = 1 .. Len(q) - 1
      /\ \A j \in 1 .. i - 1 : (a \o b)[j] = q[j]
      /\ \A j \in 1 .. Len(q) - i : (a \o b)[i - 1 + j] = q[i + j]
  <2>1. /\ Len(a \o b) = Len(a) + Len(b)
        /\ \A j \in 1 .. Len(a) + Len(b) :
              (a \o b)[j] = IF j <= Len(a) THEN a[j] ELSE b[j - Len(a)]
        /\ a \o b \in Seq(Nat)
    BY <1>2, <1>3, ConcatProperties
  <2>2. Len(a) + Len(b) = Len(q) - 1
    BY <1>1, <1>2, <1>3
  <2>3. DOMAIN (a \o b) = 1 .. Len(q) - 1
    BY <2>1, <2>2
  <2> DEFINE ab == a \o b
  <2> HIDE DEF ab
  <2>4. ASSUME NEW j \in 1 .. i - 1 PROVE ab[j] = q[j]
    <3>1. j \in 1 .. Len(a) + Len(b) /\ j <= Len(a)
      BY <1>1, <1>2, <1>3
    <3> QED
      BY <1>2, <2>1, <3>1 DEF ab
  <2>5. ASSUME NEW j \in 1 .. Len(q) - i PROVE ab[i - 1 + j] = q[i + j]
    <3>1. /\ i - 1 + j \in 1 .. Len(a) + Len(b) /\ ~ (i - 1 + j <= Len(a))
          /\ (i - 1 + j) - Len(a) = j
      <4>1. PICK n \in Nat : n = Len(q)
        BY <1>1
      <4>2. i \in 1 .. n /\ j \in 1 .. n - i
        BY <1>1, <4>1
      <4>3. Len(a) = i - 1 /\ Len(b) = n - i
        BY <1>2, <1>3, <4>1
      <4>4. i - 1 + j \in 1 .. (i - 1) + (n - i) /\ ~ (i - 1 + j <= i - 1)
        BY SMTT(30), <4>2
      <4> QED
        BY <4>2, <4>3, <4>4
    <3>2. ab[i - 1 + j] = b[(i - 1 + j) - Len(a)]
      BY <2>1, <3>1 DEF ab
    <3> QED
      BY <1>3, <3>1, <3>2
  <2> QED
    BY <2>3, <2>4, <2>5 DEF ab
<1>6. ASSUME NEW k \in DOMAIN q, k # i
      PROVE  \E j \in DOMAIN RemoveAt(q, i) : RemoveAt(q, i)[j] = q[k]
  <2>1. CASE k < i
    <3>1. k \in 1 .. i - 1 /\ k \in 1 .. Len(q) - 1
      BY <1>1, <2>1
    <3> QED
      BY <1>4, <1>5, <3>1
  <2>2. CASE k > i
    <3> DEFINE j == k - i
    <3>1. /\ j \in 1 .. Len(q) - i /\ i - 1 + j \in 1 .. Len(q) - 1
          /\ i + j = k
      BY SMTT(30), <1>1, <2>2
    <3> HIDE DEF j
    <3> QED
      BY <1>4, <1>5, <3>1
  <2> QED
    BY <1>1, <1>6, <2>1, <2>2
<1>7. a \o b \in Seq(Nat)
  BY <1>2, <1>3, ConcatProperties
<1> QED
  BY <1>4, <1>6, <1>7
-----------------------------------------------------------------------------
(* stop.                                                                   *)
LEMMA StopArmed ==
    ASSUME NEW f \in Finders, NEW n \in Nat, Armed(f, n)
    PROVE  Armed(stop(f), n)
<1>1. /\ stop(f).lost = f.lost /\ stop(f).timer = Infinity
      /\ stop(f).nextUpdateTime = IF f.timer = Infinity
                                  THEN f.nextUpdateTime ELSE Infinity
  BY DEF stop, Finders
<1> QED
  BY <1>1 DEF Armed

(* The timer fires.                                                        *)
LEMMA FiresArmed ==
    ASSUME NEW f \in Finders, NEW n \in Nat, Armed(f, n),
           NEW due \in Due(f), due <= n
    PROVE  Armed(TimerFires(f, due), n)
<1> DEFINE g == TimerFires(f, due)
           held == IF f.timer = Infinity THEN <<>> ELSE <<f.timer>>
           i == CHOOSE k \in DOMAIN f.lost : f.lost[k] = due
<1>1. /\ f.lost \in Seq(Nat) /\ f.nextUpdateTime \in Nat
      /\ f.timer \in Nat
  BY DEF Finders
<1>2. /\ g.nextUpdateTime = f.nextUpdateTime
      /\ g.lost = IF due = f.timer THEN f.lost
                  ELSE RemoveAt(f.lost, i) \o held
  <2> DEFINE lost == IF due = f.timer THEN f.lost
                     ELSE RemoveAt(f.lost, i) \o held
             new == [f EXCEPT !.timer = Infinity, !.lost = lost]
  <2>1. g = new
    BY DEF TimerFires
  <2> HIDE DEF lost, g
  <2>2. new.nextUpdateTime = f.nextUpdateTime /\ new.lost = lost
    BY DEF Finders
  <2> QED
    BY <2>1, <2>2 DEF lost
<1>3. CASE due = f.timer
  BY <1>2, <1>3 DEF Armed
<1>4. CASE due # f.timer
  <2>1. i \in DOMAIN f.lost /\ f.lost[i] = due
    BY <1>4 DEF Due
  <2> DEFINE rest == RemoveAt(f.lost, i)
  <2>2. rest \in Seq(Nat)
    BY <1>1, <2>1, RemoveAtKeeps
  <2>3. held \in Seq(Nat)
    BY <1>1
  <2>4. \A k \in DOMAIN f.lost :
           k # i => \E j \in DOMAIN rest : rest[j] = f.lost[k]
    BY <1>1, <2>1, RemoveAtKeeps
  <2> HIDE DEF rest, i
  <2>5. \A j \in DOMAIN rest :
           j \in DOMAIN (rest \o held) /\ (rest \o held)[j] = rest[j]
    BY <2>2, <2>3
  <2>6. f.timer # Infinity =>
            \E j \in DOMAIN (rest \o held) : (rest \o held)[j] = f.timer
    <3> SUFFICES ASSUME f.timer # Infinity
                 PROVE  /\ Len(rest) + 1 \in DOMAIN (rest \o <<f.timer>>)
                        /\ (rest \o <<f.timer>>)[Len(rest) + 1] = f.timer
      OBVIOUS
    <3> QED
      BY <1>1, <2>2
  <2>7. g.lost = rest \o held
    BY <1>2, <1>4 DEF rest
  <2> HIDE DEF held, g
  <2>8. CASE f.nextUpdateTime = f.timer
    <3>1. \/ f.timer = Infinity
          \/ \E j \in DOMAIN g.lost : g.lost[j] = f.timer
      BY <2>6, <2>7
    <3> QED
      BY <1>2, <2>8, <3>1 DEF Armed, g
  <2>9. ASSUME NEW k \in DOMAIN f.lost, f.lost[k] = f.nextUpdateTime
        PROVE  Armed(g, n)
    <3>1. CASE k = i
      BY <1>2, <2>1, <2>9, <3>1 DEF Armed
    <3>2. CASE k # i
      <4>1. PICK j \in DOMAIN rest : rest[j] = f.nextUpdateTime
        BY <2>4, <2>9, <3>2
      <4>2. j \in DOMAIN g.lost /\ g.lost[j] = f.nextUpdateTime
        BY <2>5, <2>7, <4>1
      <4> QED
        BY <1>2, <4>2 DEF Armed
    <3> QED
      BY <3>1, <3>2
  <2> QED
    BY <1>2, <2>8, <2>9 DEF Armed, g
<1> QED
  BY <1>3, <1>4

(* update.                                                                 *)
LEMMA UpdateArmed ==
    ASSUME NEW f \in Finders, NEW n \in Nat, Armed(f, n),
           NEW left, NEW stopped \in BOOLEAN
    PROVE  Armed(update(f, n, left, stopped), n)
<1> DEFINE g == IF stopped THEN stop(f) ELSE f
           at == At(newNextUpdateIn(f, n, left), n)
<1>1. Armed(g, n)
  BY StopArmed
<1>2. Armed(Postponed(f, n), n)
  BY DEF Armed, Postponed, Finders
<1>3. Armed([g EXCEPT !.timer = at, !.nextUpdateTime = at], n)
  <2>1. stop(f) \in Finders
    BY FinderAssumption DEF stop, Finders
  <2> QED
    BY <2>1 DEF Armed, Finders
<1> HIDE DEF g
<1>4. update(f, n, left, stopped) \in
          {f, g, Postponed(f, n),
           [g EXCEPT !.timer = at, !.nextUpdateTime = at]}
  BY DEF update, g
<1> QED
  BY <1>1, <1>2, <1>3, <1>4

(* Whatever happens to a finder, its next update stays armed: no timer is  *)
(* lost by a stop, a start, an update, a late one or a timer that fires.   *)
THEOREM StaysArmed ==
    ASSUME NEW f \in Finders, NEW n \in Nat, Armed(f, n)
    PROVE  /\ \A later \in Nat : later >= n => Armed(f, later)
           /\ Armed(stop(f), n)
           /\ \A due \in Due(f) :
                 due <= n => Armed(TimerFires(f, due), n)
           /\ \A left : \A stopped \in BOOLEAN :
                 Armed(update(f, n, left, stopped), n)
           /\ \A left : Armed(start(f, n, left), n)
<1>1. ASSUME NEW later \in Nat, later >= n PROVE Armed(f, later)
  BY <1>1 DEF Armed, Finders
<1>2. ASSUME NEW left PROVE Armed(start(f, n, left), n)
  <2> DEFINE g == [f EXCEPT !.enabled = TRUE,
                            !.minCheckTime = n + startDelay]
  <2>1. g \in Finders
    <3>1. n + startDelay \in Nat
      BY FinderAssumption
    <3> QED
      BY <3>1 DEF Finders
  <2>2. Armed(g, n)
    BY DEF Armed, Finders
  <2>3. start(f, n, left) = update(g, n, left, FALSE)
    BY DEF start
  <2> HIDE DEF g
  <2> QED
    BY <2>1, <2>2, <2>3, UpdateArmed
<1> QED
  BY <1>1, <1>2, StopArmed, FiresArmed, UpdateArmed
-----------------------------------------------------------------------------
(* How long an update waits for the next: not past the time the            *)
(* subscription i may be found, or past the start delay.                   *)
LEMMA NextInTime ==
    ASSUME NEW f \in Finders, NEW n \in Nat, NEW left, Lefts(left),
           NEW i \in DOMAIN left, n + left[i] < Infinity,
           f.minCheckTime < Infinity,
           f.enabled, ~ IsLate(f, n), i \notin Orphans(f, n, left)
    PROVE  LET next == newNextUpdateIn(f, n, left)
           IN  /\ next \in Nat /\ next > 0 /\ n + next < Infinity
               /\ n + next <= n + left[i] \/ n + next <= f.minCheckTime
<1> DEFINE ahead == {left[j] : j \in DOMAIN left} \cap (1 .. Infinity)
           soonest == CHOOSE d \in ahead \cup {Infinity} :
                          \A e \in ahead : d <= e
           ends == f.minCheckTime - n
           next == newNextUpdateIn(f, n, left)
<1>1. /\ f.minCheckTime \in Nat /\ ends \in Int /\ left[i] \in Int
      /\ Infinity \in Nat
  BY FinderAssumption DEF Finders, Lefts
<1>2. /\ soonest \in ahead \cup {Infinity}
      /\ \A e \in ahead : soonest <= e
  <2>1. \E d \in ahead \cup {Infinity} : \A e \in ahead \cup {Infinity} : d <= e
    <3>1. ahead \cup {Infinity} \subseteq Nat /\ ahead \cup {Infinity} # {}
      BY <1>1
    <3> HIDE DEF ahead
    <3> QED
      BY <3>1, Soonest
  <2> QED
    BY <2>1
<1>3. left[i] > 0 => left[i] \in ahead
  BY <1>1
<1>4. left[i] > 0 => /\ soonest \in Nat /\ soonest > 0
                     /\ soonest <= left[i] /\ n + soonest < Infinity
  BY <1>1, <1>2, <1>3
<1>5. next = IF ends <= 0 THEN soonest
             ELSE IF \E j \in DOMAIN left : left[j] <= 0 THEN ends
             ELSE IF ends > soonest THEN ends ELSE soonest
  BY DEF newNextUpdateIn
<1> HIDE DEF soonest, next
<1>6. CASE ends <= 0
  <2>1. left[i] > 0
    BY <1>1, <1>6 DEF Orphans
  <2> QED
    BY <1>1, <1>4, <1>5, <1>6, <2>1 DEF next
<1>7. CASE ends > 0 /\ \E j \in DOMAIN left : left[j] <= 0
  BY <1>1, <1>5, <1>7 DEF next
<1>8. CASE ends > 0 /\ ~ \E j \in DOMAIN left : left[j] <= 0
  <2>1. left[i] > 0
    BY <1>1, <1>8
  <2> QED
    BY <1>1, <1>4, <1>5, <1>8, <2>1 DEF next
<1> QED
  BY <1>1, <1>6, <1>7, <1>8

(* An update reports a subscription, or leaves a timer that is due by the  *)
(* time it is orphaned or by the end of the start delay.  To leave the     *)
(* timer as it is when the interval has not changed                        *)
(* (orphan-finder.js:127), and to overwrite it without clearing it after a *)
(* sleep (86), never leave an enabled finder without one.                  *)
THEOREM OrphanAwaited ==
    ASSUME NEW f \in Finders, NEW n \in Nat, Armed(f, n), f.enabled,
           NEW left, Lefts(left),
           NEW i \in DOMAIN left, n + left[i] < Infinity,
           f.minCheckTime < Infinity, n + startDelay < Infinity
    PROVE  LET g == update(f, n, left, FALSE)
           IN  \/ i \in Orphans(f, n, left)
               \/ \E due \in Due(g) :
                     due <= n + left[i] \/ due <= g.minCheckTime
<1> DEFINE next == newNextUpdateIn(f, n, left)
           g == update(f, n, left, FALSE)
<1>1. CASE IsLate(f, n)
  <2>1. g = Postponed(f, n)
    BY <1>1 DEF update
  <2>2. g.timer = n + startDelay /\ g.minCheckTime = n + startDelay
    BY <2>1 DEF Postponed, Finders
  <2>3. n + startDelay \in Nat
    BY FinderAssumption
  <2> HIDE DEF g
  <2>4. g.timer \in Due(g) /\ g.timer <= g.minCheckTime
    BY <2>2, <2>3, FinderAssumption DEF Due
  <2> QED
    BY <2>4 DEF g
<1>2. CASE ~ IsLate(f, n)
  <2> SUFFICES ASSUME i \notin Orphans(f, n, left)
               PROVE  \E due \in Due(g) :
                         due <= n + left[i] \/ due <= g.minCheckTime
    OBVIOUS
  <2>1. /\ next \in Nat /\ next > 0 /\ n + next < Infinity
        /\ n + next <= n + left[i] \/ n + next <= f.minCheckTime
    BY <1>2, NextInTime
  <2>2. g = IF In(f.nextUpdateTime, n) = next THEN f
            ELSE [f EXCEPT !.timer = At(next, n),
                           !.nextUpdateTime = At(next, n)]
    BY <1>2 DEF update
  <2>3. Infinity \in Nat /\ f.nextUpdateTime \in Nat
    BY FinderAssumption DEF Finders
  <2> HIDE DEF next, g
  <2>4. g.minCheckTime = f.minCheckTime
    BY <2>2 DEF Finders
  <2>5. SUFFICES n + next \in Due(g)
    BY <2>1, <2>4
  <2>6. CASE In(f.nextUpdateTime, n) = next
    <3>1. f.nextUpdateTime = n + next /\ f.nextUpdateTime # Infinity
      BY <2>1, <2>3, <2>6 DEF In
    <3> QED
      BY <2>1, <2>2, <2>6, <3>1 DEF Armed, Due
  <2>7. CASE In(f.nextUpdateTime, n) # next
    <3>1. g.timer = n + next /\ n + next # Infinity
      BY <2>1, <2>2, <2>3, <2>7 DEF At, Finders
    <3> QED
      BY <3>1 DEF Due
  <2> QED
    BY <2>6, <2>7
<1> QED
  BY <1>1, <1>2
-----------------------------------------------------------------------------

(***************************************************************************)
(* The subscriptions.  Streaming modifies none: no PATCH is ever queued or *)
(* sent, so that each is where it stands or waits for a POST or a DELETE.  *)
(***************************************************************************)
Unpatched(x) ==
    /\ Good(x)
    /\ x.currentState # STATE_PATCH_REQUESTED
    /\ ~Holds(x.queue, ACTION_MODIFY_PATCH)

Clean(x) == Unpatched(x) /\ Served(x)

(* A call that makes no subscription subscribed and tells it nothing about *)
(* the connection.                                                         *)
Calm(x, y) ==
    /\ y.currentState = STATE_SUBSCRIBED => x.currentState = STATE_SUBSCRIBED
    /\ y.connectionAvailable = x.connectionAvailable

Mild(x, y) == Clean(y) /\ Calm(x, y)

(* What is done without a PATCH leaves none.                               *)
LEMMA DoesUnpatched ==
    ASSUME NEW x, Unpatched(x), NEW y, Good(y),
           NEW A, ACTION_MODIFY_PATCH \notin A, Does(x, y, A)
    PROVE  Unpatched(y)
<1>1. ACTION_MODIFY_PATCH \in Actions
  BY DEF Actions
<1> QED BY <1>1 DEF Unpatched, Does

(* A request is not an answer.                                             *)
LEMMA SendsCalm ==
    ASSUME NEW x, NEW y, Sends(x, y)
    PROVE  y.currentState = STATE_SUBSCRIBED => x.currentState = STATE_SUBSCRIBED
BY StateNames DEF Sends, isReadyForUnsubscribeByTag

(* A subscription that acts, of its own or on behalf of the consumer.      *)
LEMMA ActsMild ==
    ASSUME NEW x, Unpatched(x), NEW y, Good(y), Served(y),
           NEW A, ACTION_MODIFY_PATCH \notin A, Acts(x, y, A)
    PROVE  Mild(x, y)
<1>1. Does(x, y, A) /\ Sends(x, y) /\ y.connectionAvailable = x.connectionAvailable
  BY DEF Acts, Keeps
<1>2. Unpatched(y)
  BY <1>1, DoesUnpatched
<1> QED BY <1>1, <1>2, SendsCalm DEF Mild, Clean, Calm

(* No call of Streaming queues a PATCH.                                    *)
LEMMA NoPatches ==
    /\ ACTION_MODIFY_PATCH \notin {ACTION_SUBSCRIBE}
    /\ ACTION_MODIFY_PATCH \notin {ACTION_UNSUBSCRIBE}
    /\ ACTION_MODIFY_PATCH \notin {ACTION_UNSUBSCRIBE_BY_TAG_PENDING}
    /\ ACTION_MODIFY_PATCH \notin Again
    /\ ACTION_MODIFY_PATCH \notin {}
BY DEF Again, ACTION_MODIFY_PATCH, ACTION_SUBSCRIBE, ACTION_UNSUBSCRIBE,
       ACTION_UNSUBSCRIBE_BY_TAG_PENDING

(* The consumer's calls.                                                   *)
LEMMA SubscribeMild ==
    ASSUME NEW x, Clean(x)
    PROVE  Mild(x, onSubscribe(x))
<1> DEFINE y == onSubscribe(x)
<1>1. Good(x) /\ Served(x) /\ Unpatched(x)
  BY DEF Clean, Unpatched
<1>2. Acts(x, y, {ACTION_SUBSCRIBE}) /\ Good(y)
  BY <1>1, OnSubscribeActs, OnSubscribeGood
<1>3. Served(y)
  BY <1>1, OnSubscribeActs
<1> HIDE DEF y
<1> QED BY <1>1, <1>2, <1>3, ActsMild, NoPatches DEF y

(* The consumer unsubscribes.                                              *)
LEMMA UnsubscribeMild ==
    ASSUME NEW x, Clean(x)
    PROVE  Mild(x, onUnsubscribe(x, FALSE))
<1> DEFINE y == onUnsubscribe(x, FALSE)
<1>1. Good(x) /\ Unpatched(x)
  BY DEF Clean, Unpatched
<1>2. Acts(x, y, {ACTION_UNSUBSCRIBE}) /\ Good(y) /\ Served(y)
  BY <1>1, OnUnsubscribeActs, OnUnsubscribeGood
<1> HIDE DEF y
<1> QED BY <1>1, <1>2, ActsMild, NoPatches DEF y

(* It is to be unsubscribed with the others of its tag.                    *)
LEMMA TagPendingMild ==
    ASSUME NEW x, Clean(x), ~x.becameReady
    PROVE  Mild(x, onUnsubscribeByTagPending(x))
<1> DEFINE y == onUnsubscribeByTagPending(x)
<1>1. Good(x) /\ Unpatched(x)
  BY DEF Clean, Unpatched
<1>2. /\ Acts(x, y, {ACTION_UNSUBSCRIBE_BY_TAG_PENDING})
      /\ Good(y) /\ Served(y)
  BY <1>1, OnUnsubscribeByTagPendingActs, OnUnsubscribeByTagPendingGood
<1> HIDE DEF y
<1> QED BY <1>1, <1>2, ActsMild, NoPatches DEF y

(* It is disposed of.                                                      *)
LEMMA DisposeMild ==
    ASSUME NEW x, Clean(x)
    PROVE  Mild(x, dispose(x)) /\ dispose(x).becameReady = x.becameReady
<1> DEFINE y == dispose(x)
<1>1. Good(x) /\ Served(x) /\ Unpatched(x)
  BY DEF Clean, Unpatched
<1>2. Good(y)
  BY <1>1, DisposeGood
<1>3. /\ y.currentState = x.currentState /\ y.queue = x.queue
      /\ y.connectionAvailable = x.connectionAvailable
      /\ y.networkErrorSubscribingTimer = x.networkErrorSubscribingTimer
      /\ y.becameReady = x.becameReady
  BY <1>1, DisposeSame
<1> HIDE DEF y
<1>4. Served(y)
  BY <1>1, <1>3 DEF Served, Transitioning, WillUnsubscribe
<1> QED BY <1>1, <1>2, <1>3, <1>4 DEF Mild, Clean, Unpatched, Calm, y

(* A reset, which serves the queue or finds an unsubscribe in it.          *)
LEMMA ResetUnpatched ==
    ASSUME NEW x, Unpatched(x)
    PROVE  /\ Unpatched(reset(x)) /\ Calm(x, reset(x))
           /\ Served(x) => Served(reset(x))
<1> DEFINE y == reset(x)
<1>1. Good(x) /\ x.currentState # STATE_PATCH_REQUESTED
  BY DEF Unpatched
<1>2. /\ Acts(x, y, Again) /\ Good(y)
      /\ y = x \/ Served(y)
  BY <1>1, ResetActs, ResetGood
<1> HIDE DEF y
<1>3. Does(x, y, Again) /\ Sends(x, y) /\ y.connectionAvailable = x.connectionAvailable
  BY <1>2 DEF Acts, Keeps
<1>4. Unpatched(y)
  BY <1>2, <1>3, DoesUnpatched, NoPatches
<1> QED BY <1>2, <1>3, <1>4, SendsCalm DEF Calm, y

(* The same of one that is served.                                         *)
LEMMA ResetMild ==
    ASSUME NEW x, Clean(x)
    PROVE  Mild(x, reset(x))
BY ResetUnpatched DEF Clean, Mild

(* A subscribed subscription that is served is asked to unsubscribe at     *)
(* once by a reset, if it may send.                                        *)
LEMMA ResetUnsubscribes ==
    ASSUME NEW x, Clean(x), x.connectionAvailable
    PROVE  reset(x).currentState # STATE_SUBSCRIBED
<1>1. CASE x.currentState # STATE_SUBSCRIBED
  BY <1>1, ResetUnpatched DEF Clean, Calm
<1>2. CASE x.currentState = STATE_SUBSCRIBED
  <2> DEFINE t == [x EXCEPT !.networkErrorSubscribingTimer = FALSE]
             y == onUnsubscribe(x, TRUE)
  <2>1. Good(x) /\ x \in SubscriptionRecords
    BY DEF Clean, Unpatched, Good
  <2>2. x.queue = <<>>
    BY <1>2, StateNames DEF Clean, Served, Transitioning, TRANSITIONING_STATES
  <2>3. ~WillUnsubscribe(x)
    BY <2>2 DEF WillUnsubscribe, HeadIs, isEmpty
  <2>4. reset(x) = onSubscribe(y)
    BY <1>2, <2>3, StateNames DEF reset
  <2>5. /\ t \in SubscriptionRecords /\ t.currentState = STATE_SUBSCRIBED
        /\ t.connectionAvailable
    BY <1>2, <2>1 DEF SubscriptionRecords
  <2>6. y = performAction(t, ACTION_UNSUBSCRIBE)
    <3>1. ~Transitioning(t) /\ t.connectionAvailable
      BY <2>5, StateNames DEF Transitioning, TRANSITIONING_STATES
    <3>2. Unsubscribe(TRUE).action = ACTION_UNSUBSCRIBE
      BY DEF Unsubscribe
    <3> HIDE DEF t
    <3>3. tryPerformAction(x, Unsubscribe(TRUE)) =
              performAction(t, Unsubscribe(TRUE).action)
      BY <3>1 DEF tryPerformAction, t
    <3> QED BY <3>2, <3>3 DEF onUnsubscribe
  <2> HIDE DEF t
  <2>7. Effective(ACTION_UNSUBSCRIBE, t.currentState)
    BY <2>5 DEF Effective
  <2>8. y = AfterPerform(Perform(t, ACTION_UNSUBSCRIBE))
    BY <2>6, <2>7 DEF performAction
  <2>9. y.currentState # STATE_SUBSCRIBED
    BY <2>5, <2>7, <2>8, PerformTo, StateNames DEF Actions, ACTION_UNSUBSCRIBE,
       ACTION_SUBSCRIBE, ACTION_MODIFY_PATCH, ACTION_UNSUBSCRIBE_BY_TAG_PENDING
  <2>10. Good(y)
    BY <2>1, OnUnsubscribeGood
  <2> HIDE DEF y
  <2>11. Sends(y, onSubscribe(y))
    BY <2>10, OnSubscribeActs DEF Acts
  <2> QED BY <2>4, <2>9, <2>11, SendsCalm
<1> QED BY <1>1, <1>2

(* The connection is unavailable.                                          *)
LEMMA UnavailableUnpatched ==
    ASSUME NEW x, Unpatched(x)
    PROVE  LET y == onConnectionUnavailable(x) IN
           /\ Clean(y) /\ ~y.connectionAvailable
           /\ y.currentState = x.currentState /\ y.inFlight = x.inFlight
<1> DEFINE y == onConnectionUnavailable(x)
<1>1. Good(x)
  BY DEF Unpatched
<1>2. Good(y) /\ Does(x, y, {ACTION_SUBSCRIBE}) /\ ~y.connectionAvailable
      /\ y.currentState = x.currentState /\ y.inFlight = x.inFlight
  BY <1>1, OnConnectionUnavailableGood, OnConnectionUnavailableMoves
<1> HIDE DEF y
<1>3. Served(y)
  BY <1>2 DEF Served
<1>4. Unpatched(y)
  BY <1>2, DoesUnpatched, NoPatches
<1> QED BY <1>2, <1>3, <1>4 DEF Clean, y

(* streaming.dispose: unavailable, then reset.                             *)
LEMMA UnavailableResets ==
    ASSUME NEW x, Clean(x)
    PROVE  LET y == reset(onConnectionUnavailable(x)) IN
           Clean(y) /\ ~y.connectionAvailable
<1> DEFINE u == onConnectionUnavailable(x)
<1>1. Clean(u) /\ ~u.connectionAvailable
  BY UnavailableUnpatched DEF Clean
<1> HIDE DEF u
<1>2. Clean(reset(u)) /\ ~reset(u).connectionAvailable
  BY <1>1, ResetMild DEF Mild, Calm
<1> QED BY <1>2 DEF u

(* The connection is available.                                            *)
LEMMA AvailableClean ==
    ASSUME NEW x, Clean(x)
    PROVE  LET y == onConnectionAvailable(x) IN
           Clean(y) /\ y.connectionAvailable
<1> DEFINE y == onConnectionAvailable(x)
           u == [x EXCEPT !.connectionAvailable = TRUE]
<1>1. Good(x) /\ Unpatched(x) /\ x \in SubscriptionRecords
  BY DEF Clean, Unpatched, Good
<1>2. Acts(u, y, {}) /\ Served(y) /\ Does(x, y, {}) /\ Good(y)
  BY <1>1, OnConnectionAvailableMoves, OnConnectionAvailableGood
<1>3. u.connectionAvailable
  BY <1>1 DEF SubscriptionRecords
<1> HIDE DEF u, y
<1>4. y.connectionAvailable
  BY <1>2, <1>3 DEF Acts, Keeps
<1>5. Unpatched(y)
  BY <1>1, <1>2, DoesUnpatched, NoPatches
<1> QED BY <1>2, <1>4, <1>5 DEF Clean, y

(* A subscription of which a state that waits for nothing is all that      *)
(* changes, as when it has been answered.                                  *)
LEMMA IdleUnpatched ==
    ASSUME NEW x \in SubscriptionRecords,
           ~Holds(x.queue, ACTION_MODIFY_PATCH),
           x.becameReady => ~TagQueued(x),
           NEW state \in {STATE_SUBSCRIBED, STATE_UNSUBSCRIBED},
           state = STATE_SUBSCRIBED => Len(x.inFlight) > 0
    PROVE  LET y == [x EXCEPT !.currentState = state] IN
           /\ Unpatched(y) /\ y.currentState = state
           /\ y.connectionAvailable = x.connectionAvailable
           /\ y.inFlight = x.inFlight /\ y.queue = x.queue
           /\ y.becameReady = x.becameReady
<1> DEFINE y == [x EXCEPT !.currentState = state]
<1>1. /\ y \in SubscriptionRecords /\ y.currentState = state
      /\ y.inFlight = x.inFlight /\ y.queue = x.queue
      /\ y.becameReady = x.becameReady
      /\ y.connectionAvailable = x.connectionAvailable
  BY DEF SubscriptionRecords, States
<1> HIDE DEF y
<1>2. Good(y)
  BY <1>1, NotWaiting
<1> QED BY <1>1, <1>2, StateNames DEF Unpatched, y

(* The queue is served.                                                    *)
LEMMA ReadyMild ==
    ASSUME NEW x, Unpatched(x)
    PROVE  Mild(x, onReadyToPerformNextAction(x))
<1> DEFINE y == onReadyToPerformNextAction(x)
<1>1. Good(x)
  BY DEF Unpatched
<1>2. Acts(x, y, {}) /\ Served(y) /\ Good(y)
  BY <1>1, ReadyActs, ReadyToPerformGood
<1> HIDE DEF y
<1> QED BY <1>2, ActsMild, NoPatches DEF y

(* The subscriptions of its tag have been unsubscribed.                    *)
LEMMA TagCompleteMild ==
    ASSUME NEW x, Clean(x)
    PROVE  Mild(x, onUnsubscribeByTagComplete(x))
<1> DEFINE u == [x EXCEPT !.currentState = STATE_UNSUBSCRIBED]
<1>1. /\ x \in SubscriptionRecords /\ ~Holds(x.queue, ACTION_MODIFY_PATCH)
      /\ x.becameReady => ~TagQueued(x)
  BY DEF Clean, Unpatched, Good
<1>2. /\ Unpatched(u) /\ u.currentState = STATE_UNSUBSCRIBED
      /\ u.connectionAvailable = x.connectionAvailable
  BY <1>1, IdleUnpatched, StateNames
<1>3. onUnsubscribeByTagComplete(x) = onReadyToPerformNextAction(u)
  BY DEF onUnsubscribeByTagComplete
<1> HIDE DEF u
<1> QED BY <1>2, <1>3, ReadyMild, StateNames DEF Mild, Calm

(* A response arrives.  One to a request of an earlier reference id        *)
(* changes nothing but the count.                                          *)
LEMMA ReceivedMild ==
    ASSUME NEW x, Clean(x), NEW r \in DOMAIN x.inFlight, NEW k \in RequestKinds,
           x.inFlight[r][k] > 0
    PROVE  LET y == Count(x, r, k, -1) IN
           /\ Answered(y, r) /\ referenceId(y) = referenceId(x)
           /\ y.currentState = x.currentState /\ y.queue = x.queue
           /\ y.becameReady = x.becameReady
           /\ y.connectionAvailable = x.connectionAvailable
           /\ r # referenceId(x) => Mild(x, y)
<1> DEFINE y == Count(x, r, k, -1)
<1>1. Good(x) /\ Served(x) /\ Unpatched(x) /\ x \in SubscriptionRecords
  BY DEF Clean, Unpatched, Good
<1>2. x.inFlight \in Seq([RequestKinds -> Nat])
  BY <1>1 DEF SubscriptionRecords
<1>3. r \in 1..Len(x.inFlight)
  BY <1>2, LenProperties, Zenon
<1>4. Answered(y, r)
  BY <1>1, <1>3, ReceivedAnswered
<1>5. x.inFlight[r] \in [RequestKinds -> Nat]
  BY <1>2, <1>3, ElementOfSeq
<1>6. -1 \in Int /\ x.inFlight[r][k] + (-1) \in Nat
  BY <1>5
<1>7. /\ y.currentState = x.currentState /\ y.queue = x.queue
      /\ y.becameReady = x.becameReady /\ Len(y.inFlight) = Len(x.inFlight)
  BY <1>1, <1>3, <1>6, CountType
<1>8. /\ y.connectionAvailable = x.connectionAvailable
      /\ y.networkErrorSubscribingTimer = x.networkErrorSubscribingTimer
  BY <1>1 DEF Count, SubscriptionRecords
<1> HIDE DEF y
<1>9. referenceId(y) = referenceId(x)
  BY <1>7 DEF referenceId
<1>10. ASSUME r # referenceId(x) PROVE Mild(x, y)
  <2>1. Good(y)
    BY <1>4, <1>9, <1>10 DEF Answered
  <2>2. Served(y)
    BY <1>1, <1>7, <1>8 DEF Served, Transitioning, WillUnsubscribe
  <2> QED BY <1>1, <1>7, <1>8, <2>1, <2>2 DEF Mild, Clean, Unpatched, Calm
<1> QED BY <1>4, <1>7, <1>8, <1>9, <1>10 DEF y

(* The response to a DELETE.                                               *)
LEMMA UnsubscribedMild ==
    ASSUME NEW x, Clean(x), NEW r \in DOMAIN x.inFlight,
           x.inFlight[r]["delete"] > 0
    PROVE  Mild(x, onUnsubscribeResponse(Count(x, r, "delete", -1), r))
<1> DEFINE c == Count(x, r, "delete", -1)
           u == [c EXCEPT !.currentState = STATE_UNSUBSCRIBED]
<1>1. /\ Answered(c, r) /\ referenceId(c) = referenceId(x)
      /\ c.queue = x.queue /\ c.becameReady = x.becameReady
      /\ c.connectionAvailable = x.connectionAvailable
      /\ r # referenceId(x) => Mild(x, c)
  BY ReceivedMild DEF RequestKinds
<1> HIDE DEF c
<1>2. CASE r # referenceId(x)
  <2>1. onUnsubscribeResponse(c, r) = c
    BY <1>1, <1>2 DEF onUnsubscribeResponse
  <2> QED BY <1>1, <1>2, <2>1 DEF c
<1>3. CASE r = referenceId(x)
  <2>1. onUnsubscribeResponse(c, r) = onReadyToPerformNextAction(u)
    BY <1>1, <1>3 DEF onUnsubscribeResponse
  <2>2. /\ c \in SubscriptionRecords /\ ~Holds(c.queue, ACTION_MODIFY_PATCH)
        /\ c.becameReady => ~TagQueued(c)
    BY <1>1 DEF Answered, Clean, Unpatched
  <2>3. /\ Unpatched(u) /\ u.currentState = STATE_UNSUBSCRIBED
        /\ u.connectionAvailable = c.connectionAvailable
    BY <2>2, IdleUnpatched, StateNames
  <2> HIDE DEF u
  <2>4. Mild(x, onReadyToPerformNextAction(u))
    BY <1>1, <2>3, ReadyMild, StateNames DEF Mild, Calm
  <2> QED BY <2>1, <2>4 DEF c
<1> QED BY <1>2, <1>3

(* The response to a POST, once the subscription counts as subscribed.     *)
LEMMA SubscribedClean ==
    ASSUME NEW x, Unpatched(x), x.currentState = STATE_SUBSCRIBED,
           NEW r, r = referenceId(x)
    PROVE  LET y == onSubscribeSuccess(x, r, "none") IN
           Clean(y) /\ y.connectionAvailable = x.connectionAvailable
<1> DEFINE y == onSubscribeSuccess(x, r, "none")
           q == [x EXCEPT !.currentState = STATE_SUBSCRIBED]
<1>1. /\ x \in SubscriptionRecords /\ ~Holds(x.queue, ACTION_MODIFY_PATCH)
      /\ x.becameReady => ~TagQueued(x)
      /\ Len(x.inFlight) > 0
  BY DEF Unpatched, Good
<1>2. Answered(x, r)
  BY <1>1 DEF Answered
<1>3. Unpatched(q) /\ q.connectionAvailable = x.connectionAvailable
  BY <1>1, IdleUnpatched
<1>4. CallActions("none") \subseteq Again
  BY DEF CallActions
<1>5. Good(y) /\ Leaves(q, y, Again) /\ Served(y)
  BY <1>2, <1>4, SubscribeSuccessMoves
<1> HIDE DEF y, q
<1>6. Does(q, y, Again) /\ y.connectionAvailable = q.connectionAvailable
  BY <1>5 DEF Leaves
<1>7. Unpatched(y)
  BY <1>3, <1>5, <1>6, DoesUnpatched, NoPatches
<1> QED BY <1>3, <1>5, <1>6, <1>7 DEF Clean, y

(* A new subscription subscribes.                                          *)
LEMMA NewClean ==
    /\ Clean(NewSubscription(FALSE)) /\ ~NewSubscription(FALSE).becameReady
    /\ NewSubscription(FALSE).connectionAvailable
    /\ NewSubscription(FALSE).currentState = STATE_UNSUBSCRIBED
<1> DEFINE x == NewSubscription(FALSE)
<1>1. /\ x.queue = <<>> /\ x.currentState = STATE_UNSUBSCRIBED
      /\ x.connectionAvailable = TRUE
  BY DEF NewSubscription
<1>2. Good(x) /\ ~x.becameReady
  BY NewGood
<1> HIDE DEF x
<1>3. ~Holds(x.queue, ACTION_MODIFY_PATCH)
  BY <1>1 DEF Holds
<1>4. Served(x) /\ Unpatched(x)
  BY <1>1, <1>2, <1>3, StateNames DEF Served, Unpatched
<1>5. Clean(x) /\ ~x.becameReady /\ x.connectionAvailable
      /\ x.currentState = STATE_UNSUBSCRIBED
  BY <1>1, <1>2, <1>4 DEF Clean
<1> QED BY <1>5 DEF x

(***************************************************************************)
(* The streaming.                                                          *)
(***************************************************************************)
(* What concerns the connection is kept. *)
Kept(a, b) ==
    /\ b.connectionState = a.connectionState
    /\ b.reconnecting = a.reconnecting
    /\ b.isReset = a.isReset /\ b.disposed = a.disposed
    /\ b.contextId = a.contextId
    /\ b.reconnectTimer = a.reconnectTimer /\ b.lostTimers = a.lostTimers
    /\ b.tokenHandlers = a.tokenHandlers
    /\ b.connection = a.connection /\ b.former = a.former
    /\ b.replaced = a.replaced

(* The activity of the subscriptions is. *)
Heard(a, b) ==
    /\ DOMAIN b.all = DOMAIN a.all
    /\ \A i \in DOMAIN a.all :
          /\ b.all[i].latestActivity = a.all[i].latestActivity
          /\ b.all[i].inactivityTimeout = a.all[i].inactivityTimeout

(* Only subscriptions have been called. *)
Called(a, b) ==
    /\ b \in Streamings /\ Kept(a, b) /\ Heard(a, b)
    /\ b.subscriptions = a.subscriptions
    /\ b.finder = a.finder /\ b.tagCalls = a.tagCalls

(* And only what is calm. *)
Gentle(a, b) ==
    /\ Called(a, b)
    /\ \A i \in DOMAIN a.all : Mild(a.all[i].sub, b.all[i].sub)

AllClean(a) ==
    /\ a \in Streamings
    /\ Listed(a) \subseteq DOMAIN a.all
    /\ \A i \in DOMAIN a.all : Clean(a.all[i].sub)

(* An entry takes the new state of its subscription. *)
LEMMA EntryIs ==
    ASSUME NEW x \in Entries, NEW u \in SubscriptionRecords
    PROVE  /\ Entry(x, u) \in Entries /\ Entry(x, u).sub = u
           /\ Entry(x, u).latestActivity = x.latestActivity
           /\ Entry(x, u).inactivityTimeout = x.inactivityTimeout
<1> DEFINE more == [k \in 1..(Len(u.inFlight) - Len(x.contexts)) |->
                       x.streamingContextId]
           c == x.contexts \o more
<1>1. x.contexts \in Seq(Nat) /\ x.streamingContextId \in Nat
  BY DEF Entries
<1>2. Len(u.inFlight) \in Nat
  BY DEF SubscriptionRecords
<1>3. more \in Seq(Nat)
  <2>1. Len(x.contexts) \in Nat
    BY <1>1
  <2> DEFINE n == Len(u.inFlight) - Len(x.contexts)
  <2>2. n \in Int
    BY <1>2, <2>1
  <2> HIDE DEF n
  <2>3. more = [k \in 1..n |-> x.streamingContextId]
    BY DEF n
  <2> DEFINE m == IF n > 0 THEN n ELSE 0
  <2>4. m \in Nat /\ 1..n = 1..m
    BY <2>2
  <2> HIDE DEF m
  <2>5. [k \in 1..m |-> x.streamingContextId] \in Seq(Nat)
    <3>1. \A k \in 1..m : x.streamingContextId \in Nat
      BY <1>1
    <3> QED BY <2>4, <3>1, IsASeq
  <2> QED BY <2>3, <2>4, <2>5
<1> HIDE DEF more
<1>4. c \in Seq(Nat)
  BY <1>1, <1>3, ConcatProperties
<1>5. Entry(x, u) = [x EXCEPT !.sub = u, !.contexts = c]
  BY DEF Entry, more
<1> HIDE DEF c
<1> QED BY <1>4, <1>5 DEF Entries

(* The array is replaced. *)
Replaced(a, b, g) == b = [a EXCEPT !.all = g]

(* The array with some entries changed.                                    *)
LEMMA AllChanged ==
    ASSUME NEW a \in Streamings, NEW g, NEW b,
           g \in [DOMAIN a.all -> Entries],
           Replaced(a, b, g)
    PROVE  /\ b \in Streamings /\ b.all = g /\ DOMAIN g = DOMAIN a.all
           /\ Kept(a, b) /\ b.subscriptions = a.subscriptions
           /\ b.finder = a.finder /\ b.tagCalls = a.tagCalls
<1>1. a.all \in Seq(Entries)
  BY DEF Streamings
<1>2. Len(a.all) \in Nat /\ DOMAIN a.all = 1..Len(a.all)
  BY <1>1
<1>3. g \in Seq(Entries) /\ DOMAIN g = DOMAIN a.all
  <2>1. PICK n \in Nat : DOMAIN a.all = 1..n
    BY <1>2, Zenon
  <2>2. g \in [1..n -> Entries] /\ DOMAIN g = DOMAIN a.all
    BY <2>1, Zenon
  <2> QED BY <2>2, SeqDef, Zenon
<1> QED BY <1>3 DEF Streamings, Kept, Replaced

(* g is a function with this domain. *)
IsMap(g, D) == g \in [D -> {g[i] : i \in D}]

(* The entries g of Each(a, chosen, op), with the results of op given by f.*)
Results(a, chosen, f, g) ==
    /\ IsMap(g, DOMAIN a.all)
    /\ \A i \in DOMAIN a.all :
          g[i] = IF i \in chosen THEN Entry(a.all[i], f[i]) ELSE a.all[i]

(* Only the chosen subscriptions change, each to its result.               *)
LEMMA EachCalls ==
    ASSUME NEW a \in Streamings, NEW chosen, NEW f, NEW g, NEW b,
           \A i \in DOMAIN a.all : i \in chosen => f[i] \in SubscriptionRecords,
           Results(a, chosen, f, g), Replaced(a, b, g)
    PROVE  /\ Called(a, b)
           /\ \A i \in DOMAIN a.all :
                 b.all[i].sub = IF i \in chosen THEN f[i] ELSE a.all[i].sub
<1>1. \A i \in DOMAIN a.all : a.all[i] \in Entries
  <2>1. a.all \in Seq(Entries)
    BY DEF Streamings
  <2> QED BY <2>1, ElementOfSeq, LenProperties, Zenon
<1>2. \A i \in DOMAIN a.all :
          /\ g[i] \in Entries
          /\ g[i].sub = IF i \in chosen THEN f[i] ELSE a.all[i].sub
          /\ g[i].latestActivity = a.all[i].latestActivity
          /\ g[i].inactivityTimeout = a.all[i].inactivityTimeout
  BY <1>1, EntryIs DEF Results
<1>3. g \in [DOMAIN a.all -> Entries]
  BY <1>2, Zenon DEF Results, IsMap
<1>4. /\ b \in Streamings /\ b.all = g /\ DOMAIN g = DOMAIN a.all
      /\ Kept(a, b) /\ b.subscriptions = a.subscriptions
      /\ b.finder = a.finder /\ b.tagCalls = a.tagCalls
  BY <1>3, AllChanged
<1> QED BY <1>2, <1>4 DEF Called, Heard

(* Calls that are mild leave the rest of the streaming alone.              *)
LEMMA EachGentle ==
    ASSUME NEW a, AllClean(a), NEW chosen, NEW f, NEW g, NEW b,
           \A i \in DOMAIN a.all : i \in chosen => Mild(a.all[i].sub, f[i]),
           Results(a, chosen, f, g), Replaced(a, b, g)
    PROVE  /\ Gentle(a, b)
           /\ \A i \in DOMAIN a.all :
                 b.all[i].sub = IF i \in chosen THEN f[i] ELSE a.all[i].sub
<1>1. a \in Streamings /\ \A i \in DOMAIN a.all : Clean(a.all[i].sub)
  BY DEF AllClean
<1>2. \A i \in DOMAIN a.all : i \in chosen => f[i] \in SubscriptionRecords
  BY DEF Mild, Clean, Unpatched, Good
<1>3. /\ Called(a, b)
      /\ \A i \in DOMAIN a.all :
            b.all[i].sub = IF i \in chosen THEN f[i] ELSE a.all[i].sub
  BY <1>1, <1>2, EachCalls
<1>4. \A i \in DOMAIN a.all : Mild(a.all[i].sub, a.all[i].sub)
  BY <1>1 DEF Mild, Calm
<1> QED BY <1>3, <1>4 DEF Gentle

(* A gentle call leaves a streaming of clean subscriptions, and so do two. *)
LEMMA GentleClean ==
    ASSUME NEW a, AllClean(a), NEW b, Gentle(a, b)
    PROVE  AllClean(b) /\ Listed(b) = Listed(a)
<1>1. /\ b \in Streamings /\ b.subscriptions = a.subscriptions
      /\ DOMAIN b.all = DOMAIN a.all
      /\ \A i \in DOMAIN a.all : Clean(b.all[i].sub)
  BY DEF Gentle, Called, Heard, Mild
<1> QED BY <1>1 DEF AllClean, Listed

(* ... and two gentle calls in a row are one.                              *)
LEMMA GentleOn ==
    ASSUME NEW a, NEW b, NEW c, Gentle(a, b), Gentle(b, c)
    PROVE  Gentle(a, c)
<1>1. Kept(a, c)
  BY DEF Gentle, Called, Kept
<1>2. Heard(a, c)
  BY DEF Gentle, Called, Heard
<1>3. \A i \in DOMAIN a.all : Mild(a.all[i].sub, c.all[i].sub)
  BY DEF Gentle, Called, Heard, Mild, Calm
<1> QED BY <1>1, <1>2, <1>3 DEF Gentle, Called

(* The calls of Streaming to some of its subscriptions. *)
ResetEach(a, chosen) == Each(a, chosen, reset)
SubscribeEach(a, chosen) == Each(a, chosen, onSubscribe)
UnsubscribeEach(a, chosen) == Each(a, chosen, LAMBDA t : onUnsubscribe(t, FALSE))
DisposeEach(a, chosen) == Each(a, chosen, dispose)
PendingEach(a, chosen) == Each(a, chosen, onUnsubscribeByTagPending)
CompleteEach(a, chosen) == Each(a, chosen, onUnsubscribeByTagComplete)
AvailableEach(a, chosen) == Each(a, chosen, onConnectionAvailable)
ClearEach(a, chosen) ==
    Each(a, chosen, LAMBDA t : reset(onConnectionUnavailable(t)))
ReceiveAt(a, i, r) == Each(a, {i}, LAMBDA t : Count(t, r, "post", -1))
SucceedAt(a, i, r) == Each(a, {i}, LAMBDA t : onSubscribeSuccess(t, r, "none"))

(* Each of these calls is gentle.  Some are reset:                         *)
LEMMA EachReset ==
    ASSUME NEW a, AllClean(a), NEW chosen
    PROVE  LET b == ResetEach(a, chosen) IN
           /\ Gentle(a, b)
           /\ \A i \in DOMAIN a.all :
                 b.all[i].sub = IF i \in chosen THEN reset(a.all[i].sub)
                                ELSE a.all[i].sub
<1> DEFINE f == [i \in DOMAIN a.all |-> reset(a.all[i].sub)]
           g == [i \in DOMAIN a.all |->
                     IF i \in chosen THEN Entry(a.all[i], f[i]) ELSE a.all[i]]
           b == ResetEach(a, chosen)
<1>1. Replaced(a, b, g)
  BY DEF Each, Replaced, ResetEach
<1>2. \A i \in DOMAIN a.all : i \in chosen => Mild(a.all[i].sub, f[i])
  BY ResetMild DEF AllClean
<1>3. \A i \in DOMAIN a.all : f[i] = reset(a.all[i].sub)
  OBVIOUS
<1>4. Results(a, chosen, f, g)
  BY DEF Results, IsMap
<1> HIDE DEF b, f, g
<1>5. /\ Gentle(a, b)
      /\ \A i \in DOMAIN a.all :
            b.all[i].sub = IF i \in chosen THEN f[i] ELSE a.all[i].sub
  BY <1>1, <1>2, <1>4, EachGentle
<1> QED BY <1>3, <1>5 DEF b

(* some subscribe,                                                         *)
LEMMA EachSubscribe ==
    ASSUME NEW a, AllClean(a), NEW chosen
    PROVE  LET b == SubscribeEach(a, chosen) IN
           /\ Gentle(a, b)
           /\ \A i \in DOMAIN a.all :
                 b.all[i].sub = IF i \in chosen THEN onSubscribe(a.all[i].sub)
                                ELSE a.all[i].sub
<1> DEFINE f == [i \in DOMAIN a.all |-> onSubscribe(a.all[i].sub)]
           g == [i \in DOMAIN a.all |->
                     IF i \in chosen THEN Entry(a.all[i], f[i]) ELSE a.all[i]]
           b == SubscribeEach(a, chosen)
<1>1. Replaced(a, b, g)
  BY DEF Each, Replaced, SubscribeEach
<1>2. \A i \in DOMAIN a.all : i \in chosen => Mild(a.all[i].sub, f[i])
  BY SubscribeMild DEF AllClean
<1>3. \A i \in DOMAIN a.all : f[i] = onSubscribe(a.all[i].sub)
  OBVIOUS
<1>4. Results(a, chosen, f, g)
  BY DEF Results, IsMap
<1> HIDE DEF b, f, g
<1>5. /\ Gentle(a, b)
      /\ \A i \in DOMAIN a.all :
            b.all[i].sub = IF i \in chosen THEN f[i] ELSE a.all[i].sub
  BY <1>1, <1>2, <1>4, EachGentle
<1> QED BY <1>3, <1>5 DEF b

(* some unsubscribe,                                                       *)
LEMMA EachUnsubscribe ==
    ASSUME NEW a, AllClean(a), NEW chosen
    PROVE  LET b == UnsubscribeEach(a, chosen) IN
           /\ Gentle(a, b)
           /\ \A i \in DOMAIN a.all :
                 b.all[i].sub = IF i \in chosen THEN onUnsubscribe(a.all[i].sub, FALSE)
                                ELSE a.all[i].sub
<1> DEFINE f == [i \in DOMAIN a.all |-> onUnsubscribe(a.all[i].sub, FALSE)]
           g == [i \in DOMAIN a.all |->
                     IF i \in chosen THEN Entry(a.all[i], f[i]) ELSE a.all[i]]
           b == UnsubscribeEach(a, chosen)
<1>1. Replaced(a, b, g)
  BY DEF Each, Replaced, UnsubscribeEach
<1>2. \A i \in DOMAIN a.all : i \in chosen => Mild(a.all[i].sub, f[i])
  BY UnsubscribeMild DEF AllClean
<1>3. \A i \in DOMAIN a.all : f[i] = onUnsubscribe(a.all[i].sub, FALSE)
  OBVIOUS
<1>4. Results(a, chosen, f, g)
  BY DEF Results, IsMap
<1> HIDE DEF b, f, g
<1>5. /\ Gentle(a, b)
      /\ \A i \in DOMAIN a.all :
            b.all[i].sub = IF i \in chosen THEN f[i] ELSE a.all[i].sub
  BY <1>1, <1>2, <1>4, EachGentle
<1> QED BY <1>3, <1>5 DEF b

(* some are disposed of,                                                   *)
LEMMA EachDispose ==
    ASSUME NEW a, AllClean(a), NEW chosen
    PROVE  LET b == DisposeEach(a, chosen) IN
           /\ Gentle(a, b)
           /\ \A i \in DOMAIN a.all :
                 b.all[i].sub = IF i \in chosen THEN dispose(a.all[i].sub)
                                ELSE a.all[i].sub
<1> DEFINE f == [i \in DOMAIN a.all |-> dispose(a.all[i].sub)]
           g == [i \in DOMAIN a.all |->
                     IF i \in chosen THEN Entry(a.all[i], f[i]) ELSE a.all[i]]
           b == DisposeEach(a, chosen)
<1>1. Replaced(a, b, g)
  BY DEF Each, Replaced, DisposeEach
<1>2. \A i \in DOMAIN a.all : i \in chosen => Mild(a.all[i].sub, f[i])
  BY DisposeMild DEF AllClean
<1>3. \A i \in DOMAIN a.all : f[i] = dispose(a.all[i].sub)
  OBVIOUS
<1>4. Results(a, chosen, f, g)
  BY DEF Results, IsMap
<1> HIDE DEF b, f, g
<1>5. /\ Gentle(a, b)
      /\ \A i \in DOMAIN a.all :
            b.all[i].sub = IF i \in chosen THEN f[i] ELSE a.all[i].sub
  BY <1>1, <1>2, <1>4, EachGentle
<1> QED BY <1>3, <1>5 DEF b

(* some are to be unsubscribed by tag,                                     *)
LEMMA EachTagPending ==
    ASSUME NEW a, AllClean(a), NEW chosen,
           \A i \in DOMAIN a.all : ~a.all[i].sub.becameReady
    PROVE  LET b == PendingEach(a, chosen) IN
           /\ Gentle(a, b)
           /\ \A i \in DOMAIN a.all :
                 b.all[i].sub = IF i \in chosen THEN onUnsubscribeByTagPending(a.all[i].sub)
                                ELSE a.all[i].sub
<1> DEFINE f == [i \in DOMAIN a.all |-> onUnsubscribeByTagPending(a.all[i].sub)]
           g == [i \in DOMAIN a.all |->
                     IF i \in chosen THEN Entry(a.all[i], f[i]) ELSE a.all[i]]
           b == PendingEach(a, chosen)
<1>1. Replaced(a, b, g)
  BY DEF Each, Replaced, PendingEach
<1>2. \A i \in DOMAIN a.all : i \in chosen => Mild(a.all[i].sub, f[i])
  BY TagPendingMild DEF AllClean
<1>3. \A i \in DOMAIN a.all : f[i] = onUnsubscribeByTagPending(a.all[i].sub)
  OBVIOUS
<1>4. Results(a, chosen, f, g)
  BY DEF Results, IsMap
<1> HIDE DEF b, f, g
<1>5. /\ Gentle(a, b)
      /\ \A i \in DOMAIN a.all :
            b.all[i].sub = IF i \in chosen THEN f[i] ELSE a.all[i].sub
  BY <1>1, <1>2, <1>4, EachGentle
<1> QED BY <1>3, <1>5 DEF b

(* and some have been.                                                     *)
LEMMA EachTagComplete ==
    ASSUME NEW a, AllClean(a), NEW chosen
    PROVE  LET b == CompleteEach(a, chosen) IN
           /\ Gentle(a, b)
           /\ \A i \in DOMAIN a.all :
                 b.all[i].sub = IF i \in chosen THEN onUnsubscribeByTagComplete(a.all[i].sub)
                                ELSE a.all[i].sub
<1> DEFINE f == [i \in DOMAIN a.all |-> onUnsubscribeByTagComplete(a.all[i].sub)]
           g == [i \in DOMAIN a.all |->
                     IF i \in chosen THEN Entry(a.all[i], f[i]) ELSE a.all[i]]
           b == CompleteEach(a, chosen)
<1>1. Replaced(a, b, g)
  BY DEF Each, Replaced, CompleteEach
<1>2. \A i \in DOMAIN a.all : i \in chosen => Mild(a.all[i].sub, f[i])
  BY TagCompleteMild DEF AllClean
<1>3. \A i \in DOMAIN a.all : f[i] = onUnsubscribeByTagComplete(a.all[i].sub)
  OBVIOUS
<1>4. Results(a, chosen, f, g)
  BY DEF Results, IsMap
<1> HIDE DEF b, f, g
<1>5. /\ Gentle(a, b)
      /\ \A i \in DOMAIN a.all :
            b.all[i].sub = IF i \in chosen THEN f[i] ELSE a.all[i].sub
  BY <1>1, <1>2, <1>4, EachGentle
<1> QED BY <1>3, <1>5 DEF b

Half(a) ==
    /\ a \in Streamings
    /\ Listed(a) \subseteq DOMAIN a.all
    /\ \A i \in DOMAIN a.all : Unpatched(a.all[i].sub)

(* Between two calls, all are.                                             *)
LEMMA CleanHalf ==
    ASSUME NEW a, AllClean(a)
    PROVE  Half(a)
BY DEF AllClean, Half, Clean

(* A call to subscriptions keeps the list.                                 *)
LEMMA CalledListed ==
    ASSUME NEW a, NEW b, Called(a, b)
    PROVE  /\ Listed(b) = Listed(a) /\ DOMAIN b.all = DOMAIN a.all
           /\ b \in Streamings
BY DEF Called, Heard, Listed

(* The connection is unavailable to all.                                   *)
LEMMA AllUnavailableIs ==
    ASSUME NEW a, Half(a)
    PROVE  LET b == AllUnavailable(a) IN
           /\ Called(a, b)
           /\ \A i \in DOMAIN a.all :
                 b.all[i].sub = IF i \in Listed(a)
                                THEN onConnectionUnavailable(a.all[i].sub)
                                ELSE a.all[i].sub
<1> DEFINE f == [i \in DOMAIN a.all |-> onConnectionUnavailable(a.all[i].sub)]
           g == [i \in DOMAIN a.all |->
                     IF i \in Listed(a) THEN Entry(a.all[i], f[i]) ELSE a.all[i]]
           b == AllUnavailable(a)
<1>1. Replaced(a, b, g)
  BY DEF AllUnavailable, Each, Replaced
<1>2. a \in Streamings /\ \A i \in DOMAIN a.all : f[i] \in SubscriptionRecords
  BY UnavailableUnpatched DEF Half, Clean, Unpatched, Good
<1>3. \A i \in DOMAIN a.all : f[i] = onConnectionUnavailable(a.all[i].sub)
  OBVIOUS
<1>4. Results(a, Listed(a), f, g)
  BY DEF Results, IsMap
<1> HIDE DEF b, f, g
<1>5. /\ Called(a, b)
      /\ \A i \in DOMAIN a.all :
            b.all[i].sub = IF i \in Listed(a) THEN f[i] ELSE a.all[i].sub
  BY <1>1, <1>2, <1>4, EachCalls
<1> QED BY <1>3, <1>5 DEF b

(* Some are reset.                                                         *)
LEMMA ResetsIs ==
    ASSUME NEW a, Half(a), NEW chosen
    PROVE  LET b == ResetEach(a, chosen) IN
           /\ Called(a, b)
           /\ \A i \in DOMAIN a.all :
                 b.all[i].sub = IF i \in chosen THEN reset(a.all[i].sub)
                                ELSE a.all[i].sub
<1> DEFINE f == [i \in DOMAIN a.all |-> reset(a.all[i].sub)]
           g == [i \in DOMAIN a.all |->
                     IF i \in chosen THEN Entry(a.all[i], f[i]) ELSE a.all[i]]
           b == ResetEach(a, chosen)
<1>1. Replaced(a, b, g)
  BY DEF Each, Replaced, ResetEach
<1>2. a \in Streamings /\ \A i \in DOMAIN a.all : f[i] \in SubscriptionRecords
  BY ResetUnpatched DEF Half, Unpatched, Good
<1>3. \A i \in DOMAIN a.all : f[i] = reset(a.all[i].sub)
  OBVIOUS
<1>4. Results(a, chosen, f, g)
  BY DEF Results, IsMap
<1> HIDE DEF b, f, g
<1>5. /\ Called(a, b)
      /\ \A i \in DOMAIN a.all :
            b.all[i].sub = IF i \in chosen THEN f[i] ELSE a.all[i].sub
  BY <1>1, <1>2, <1>4, EachCalls
<1> QED BY <1>3, <1>5 DEF b

(* streaming.dispose.                                                      *)
LEMMA DisposedIs ==
    ASSUME NEW a, AllClean(a)
    PROVE  LET b == ClearEach(a, Listed(a)) IN
           Called(a, b) /\ AllClean(b)
<1> DEFINE f == [i \in DOMAIN a.all |-> reset(onConnectionUnavailable(a.all[i].sub))]
           g == [i \in DOMAIN a.all |->
                     IF i \in Listed(a) THEN Entry(a.all[i], f[i]) ELSE a.all[i]]
           b == ClearEach(a, Listed(a))
<1>1. Replaced(a, b, g)
  BY DEF Each, Replaced, ClearEach
<1>2. \A i \in DOMAIN a.all : Clean(a.all[i].sub) /\ Clean(f[i])
  BY UnavailableResets DEF AllClean
<1>3. a \in Streamings /\ \A i \in DOMAIN a.all : f[i] \in SubscriptionRecords
  BY <1>2 DEF AllClean, Clean, Unpatched, Good
<1>4. Results(a, Listed(a), f, g)
  BY DEF Results, IsMap
<1> HIDE DEF b, f, g
<1>5. /\ Called(a, b)
      /\ \A i \in DOMAIN a.all :
            b.all[i].sub = IF i \in Listed(a) THEN f[i] ELSE a.all[i].sub
  BY <1>1, <1>3, <1>4, EachCalls
<1>6. AllClean(b)
  BY <1>2, <1>5, CalledListed DEF AllClean
<1> QED BY <1>5, <1>6 DEF b

(* The connection is available to some.                                    *)
LEMMA AvailableIs ==
    ASSUME NEW a, AllClean(a), NEW chosen
    PROVE  LET b == AvailableEach(a, chosen) IN
           /\ Called(a, b) /\ AllClean(b)
           /\ \A i \in DOMAIN a.all :
                 /\ i \in chosen => b.all[i].sub.connectionAvailable
                 /\ i \notin chosen => b.all[i].sub = a.all[i].sub
<1> DEFINE f == [i \in DOMAIN a.all |-> onConnectionAvailable(a.all[i].sub)]
           g == [i \in DOMAIN a.all |->
                     IF i \in chosen THEN Entry(a.all[i], f[i]) ELSE a.all[i]]
           b == AvailableEach(a, chosen)
<1>1. Replaced(a, b, g)
  BY DEF Each, Replaced, AvailableEach
<1>2. \A i \in DOMAIN a.all :
          Clean(a.all[i].sub) /\ Clean(f[i]) /\ f[i].connectionAvailable
  BY AvailableClean DEF AllClean
<1>3. a \in Streamings /\ \A i \in DOMAIN a.all : f[i] \in SubscriptionRecords
  BY <1>2 DEF AllClean, Clean, Unpatched, Good
<1>4. Results(a, chosen, f, g)
  BY DEF Results, IsMap
<1> HIDE DEF b, f, g
<1>5. /\ Called(a, b)
      /\ \A i \in DOMAIN a.all :
            b.all[i].sub = IF i \in chosen THEN f[i] ELSE a.all[i].sub
  BY <1>1, <1>3, <1>4, EachCalls
<1>6. AllClean(b)
  BY <1>2, <1>5, CalledListed DEF AllClean
<1> QED BY <1>2, <1>5, <1>6 DEF b

(* The response to a POST, before anybody is told.                         *)
LEMMA ReceivedIs ==
    ASSUME NEW a, AllClean(a), NEW i \in DOMAIN a.all,
           NEW r \in DOMAIN a.all[i].sub.inFlight,
           a.all[i].sub.inFlight[r]["post"] > 0
    PROVE  LET b == ReceiveAt(a, i, r) IN
           /\ Called(a, b)
           /\ b.all[i].sub = Count(a.all[i].sub, r, "post", -1)
           /\ \A j \in DOMAIN a.all : j # i => b.all[j].sub = a.all[j].sub
<1> DEFINE f == [j \in DOMAIN a.all |-> Count(a.all[j].sub, r, "post", -1)]
           g == [j \in DOMAIN a.all |->
                     IF j \in {i} THEN Entry(a.all[j], f[j]) ELSE a.all[j]]
           b == ReceiveAt(a, i, r)
<1>1. Replaced(a, b, g)
  BY DEF Each, Replaced, ReceiveAt
<1>2. Count(a.all[i].sub, r, "post", -1) \in SubscriptionRecords
  BY ReceivedMild DEF AllClean, Answered, RequestKinds
<1>3. /\ a \in Streamings
      /\ \A j \in DOMAIN a.all : j \in {i} => f[j] \in SubscriptionRecords
  BY <1>2 DEF AllClean
<1>4. Results(a, {i}, f, g)
  BY DEF Results, IsMap
<1>5. f[i] = Count(a.all[i].sub, r, "post", -1)
  OBVIOUS
<1> HIDE DEF b, f, g
<1>6. /\ Called(a, b)
      /\ \A j \in DOMAIN a.all :
            b.all[j].sub = IF j \in {i} THEN f[j] ELSE a.all[j].sub
  BY <1>1, <1>3, <1>4, EachCalls
<1> QED BY <1>5, <1>6 DEF b

(* The response to a DELETE.                                               *)
LEMMA UnsubscribeAnsweredIs ==
    ASSUME NEW a, AllClean(a), NEW i \in DOMAIN a.all,
           NEW r \in DOMAIN a.all[i].sub.inFlight,
           a.all[i].sub.inFlight[r]["delete"] > 0
    PROVE  Gentle(a, UnsubscribeAnswered(a, i, r))
<1> DEFINE f == [j \in DOMAIN a.all |->
                     onUnsubscribeResponse(Count(a.all[j].sub, r, "delete", -1), r)]
           g == [j \in DOMAIN a.all |->
                     IF j \in {i} THEN Entry(a.all[j], f[j]) ELSE a.all[j]]
           b == UnsubscribeAnswered(a, i, r)
<1>1. Replaced(a, b, g)
  BY DEF UnsubscribeAnswered, Each, Replaced
<1>2. Mild(a.all[i].sub, f[i])
  BY UnsubscribedMild DEF AllClean
<1>3. \A j \in DOMAIN a.all : j \in {i} => Mild(a.all[j].sub, f[j])
  BY <1>2
<1>4. Results(a, {i}, f, g)
  BY DEF Results, IsMap
<1> HIDE DEF b, f, g
<1> QED BY <1>1, <1>3, <1>4, EachGentle DEF b

(* The response to a POST is given to the subscription.                    *)
LEMMA SuccessIs ==
    ASSUME NEW a, Half(a), NEW i \in DOMAIN a.all,
           a.all[i].sub.currentState = STATE_SUBSCRIBED,
           NEW r, r = referenceId(a.all[i].sub),
           \A j \in DOMAIN a.all : j # i => Clean(a.all[j].sub)
    PROVE  LET b == SucceedAt(a, i, r) IN
           /\ Called(a, b) /\ AllClean(b)
           /\ b.all[i].sub.connectionAvailable = a.all[i].sub.connectionAvailable
           /\ \A j \in DOMAIN a.all : j # i => b.all[j].sub = a.all[j].sub
<1> DEFINE f == [j \in DOMAIN a.all |-> onSubscribeSuccess(a.all[j].sub, r, "none")]
           g == [j \in DOMAIN a.all |->
                     IF j \in {i} THEN Entry(a.all[j], f[j]) ELSE a.all[j]]
           b == SucceedAt(a, i, r)
<1>1. Replaced(a, b, g)
  BY DEF Each, Replaced, SucceedAt
<1>2. Clean(f[i]) /\ f[i].connectionAvailable = a.all[i].sub.connectionAvailable
  BY SubscribedClean DEF Half
<1>3. /\ a \in Streamings
      /\ \A j \in DOMAIN a.all : j \in {i} => f[j] \in SubscriptionRecords
  BY <1>2 DEF Half, Clean, Unpatched, Good
<1>4. Results(a, {i}, f, g)
  BY DEF Results, IsMap
<1> HIDE DEF b, f, g
<1>5. /\ Called(a, b)
      /\ \A j \in DOMAIN a.all :
            b.all[j].sub = IF j \in {i} THEN f[j] ELSE a.all[j].sub
  BY <1>1, <1>3, <1>4, EachCalls
<1>6. \A j \in DOMAIN a.all : Clean(b.all[j].sub)
  BY <1>2, <1>5
<1>7. AllClean(b)
  BY <1>5, <1>6, CalledListed DEF AllClean, Half
<1> QED BY <1>2, <1>5, <1>7 DEF b

(***************************************************************************)
(* The orphan finder of a streaming.                                       *)
(***************************************************************************)
LEMMA NextUpdateType ==
    ASSUME NEW f \in Finders, NEW n \in Nat, NEW left
    PROVE  newNextUpdateIn(f, n, left) \in Nat
<1> DEFINE ahead == {left[j] : j \in DOMAIN left} \cap (1 .. Infinity)
           soonest == CHOOSE d \in ahead \cup {Infinity} :
                          \A e \in ahead : d <= e
           ends == f.minCheckTime - n
<1>1. f.minCheckTime \in Nat /\ ends \in Int /\ Infinity \in Nat
  BY FinderAssumption DEF Finders
<1>2. ahead \subseteq Nat
  BY <1>1
<1>3. soonest \in Nat
  <2>1. \E d \in ahead \cup {Infinity} : \A e \in ahead \cup {Infinity} : d <= e
    <3> HIDE DEF ahead
    <3> QED
      BY <1>1, <1>2, Soonest
  <2> HIDE DEF ahead
  <2>2. \E d \in ahead \cup {Infinity} : \A e \in ahead : d <= e
    BY <2>1
  <2>3. soonest \in ahead \cup {Infinity}
    BY <2>2
  <2> QED BY <1>1, <1>2, <2>3
<1>4. newNextUpdateIn(f, n, left) =
          IF ends <= 0 THEN soonest
          ELSE IF \E j \in DOMAIN left : left[j] <= 0 THEN ends
          ELSE IF ends > soonest THEN ends ELSE soonest
  BY DEF newNextUpdateIn
<1> HIDE DEF soonest
<1> QED BY <1>1, <1>3, <1>4

(* What the finder does leaves a finder.                                   *)
LEMMA StopType ==
    ASSUME NEW f \in Finders
    PROVE  /\ stop(f) \in Finders /\ ~stop(f).enabled
           /\ stop(f).minCheckTime = f.minCheckTime
BY FinderAssumption DEF stop, Finders

(* Nor does an update spoil it.  Only one that is late moves the time of   *)
(* the first check; one that is broken off leaves the finder stopped.      *)
LEMMA UpdateType ==
    ASSUME NEW f \in Finders, NEW n \in Nat, NEW left, NEW stopped \in BOOLEAN
    PROVE  /\ update(f, n, left, stopped) \in Finders
           /\ update(f, n, left, stopped).minCheckTime
                  \in {f.minCheckTime, n + startDelay}
           /\ ~stopped => update(f, n, left, stopped).enabled = f.enabled
           /\ stopped /\ ~IsLate(f, n) => ~update(f, n, left, stopped).enabled
<1> DEFINE g == IF stopped THEN stop(f) ELSE f
           at == At(newNextUpdateIn(f, n, left), n)
           armed == [g EXCEPT !.timer = at, !.nextUpdateTime = at]
<1>1. g \in Finders /\ g.minCheckTime = f.minCheckTime
      /\ (~stopped => g.enabled = f.enabled) /\ (stopped => ~g.enabled)
  BY StopType
<1>2. at \in Nat
  BY NextUpdateType, FinderAssumption DEF At
<1>3. /\ Postponed(f, n) \in Finders /\ Postponed(f, n).enabled = f.enabled
      /\ Postponed(f, n).minCheckTime = n + startDelay
  <2>1. n + startDelay \in Nat
    BY FinderAssumption
  <2>2. f.lost \in Seq(Nat) /\ f.timer \in Nat
    BY DEF Finders
  <2>3. Append(f.lost, f.timer) \in Seq(Nat)
    BY <2>2
  <2> QED BY <2>1, <2>2, <2>3 DEF Postponed, Finders
<1> HIDE DEF g, at
<1>4. /\ armed \in Finders /\ armed.enabled = g.enabled
      /\ armed.minCheckTime = g.minCheckTime
  BY <1>1, <1>2 DEF Finders
<1>5. update(f, n, left, stopped) =
          IF ~f.enabled THEN f
          ELSE IF IsLate(f, n) THEN Postponed(f, n)
          ELSE IF In(f.nextUpdateTime, n) = newNextUpdateIn(f, n, left) THEN g
          ELSE armed
  BY DEF update, g, at
<1> HIDE DEF armed
<1>6. f.enabled \in BOOLEAN /\ g.enabled \in BOOLEAN
  BY <1>1 DEF Finders
<1> QED BY <1>1, <1>3, <1>4, <1>5, <1>6

(* The start sets the time of the first check.                             *)
LEMMA StartType ==
    ASSUME NEW f \in Finders, NEW n \in Nat, NEW left
    PROVE  /\ start(f, n, left) \in Finders
           /\ start(f, n, left).minCheckTime = n + startDelay
<1> DEFINE g == [f EXCEPT !.enabled = TRUE, !.minCheckTime = n + startDelay]
<1>1. n + startDelay \in Nat
  BY FinderAssumption
<1>2. g \in Finders /\ g.minCheckTime = n + startDelay
  BY <1>1 DEF Finders
<1>3. start(f, n, left) = update(g, n, left, FALSE)
  BY DEF start
<1> HIDE DEF g
<1>4. /\ update(g, n, left, FALSE) \in Finders
      /\ update(g, n, left, FALSE).minCheckTime \in {g.minCheckTime, n + startDelay}
  BY <1>2, UpdateType
<1> QED BY <1>2, <1>3, <1>4

(* A timer that fires is gone.                                             *)
LEMMA FiresType ==
    ASSUME NEW f \in Finders, NEW due \in Due(f)
    PROVE  /\ TimerFires(f, due) \in Finders
           /\ TimerFires(f, due).minCheckTime = f.minCheckTime
           /\ TimerFires(f, due).enabled = f.enabled
<1> DEFINE i == CHOOSE k \in DOMAIN f.lost : f.lost[k] = due
           held == IF f.timer = Infinity THEN <<>> ELSE <<f.timer>>
           lost == IF due = f.timer THEN f.lost ELSE RemoveAt(f.lost, i) \o held
           new == [f EXCEPT !.timer = Infinity, !.lost = lost]
<1>1. f.lost \in Seq(Nat) /\ f.timer \in Nat
  BY DEF Finders
<1>3. TimerFires(f, due) = new
  BY DEF TimerFires
<1>2. lost \in Seq(Nat)
  <2>1. CASE due = f.timer
    BY <1>1, <2>1
  <2>2. CASE due # f.timer
    <3>1. i \in DOMAIN f.lost
      BY <2>2 DEF Due
    <3> HIDE DEF i
    <3>2. RemoveAt(f.lost, i) \in Seq(Nat)
      BY <1>1, <3>1, RemoveAtKeeps
    <3>3. held \in Seq(Nat)
      BY <1>1
    <3> HIDE DEF held
    <3> QED BY <2>2, <3>2, <3>3
  <2> QED BY <2>1, <2>2
<1> HIDE DEF lost
<1> QED BY <1>2, <1>3, FinderAssumption DEF Finders

(* The time left is a number.                                              *)
LEMMA LeftType ==
    ASSUME NEW a, Half(a), NEW n \in Nat
    PROVE  /\ Lefts(Left(a, n)) /\ DOMAIN Left(a, n) = Listed(a)
           /\ \A i \in Listed(a) : Left(a, n)[i] = timeTillOrphaned(a.all[i], n)
<1>1. ASSUME NEW i \in Listed(a) PROVE timeTillOrphaned(a.all[i], n) \in Int
  <2>1. a.all \in Seq(Entries) /\ i \in DOMAIN a.all
    BY DEF Half, Streamings
  <2>2. a.all[i] \in Entries
    BY <2>1, ElementOfSeq, LenProperties, Zenon
  <2> QED BY <2>2, FinderAssumption DEF timeTillOrphaned, Entries
<1> QED BY <1>1 DEF Left, Lefts

(* Only the finder changes.                                                *)
LEMMA FinderChanged ==
    ASSUME NEW a \in Streamings, NEW f \in Finders, NEW b,
           b = [a EXCEPT !.finder = f]
    PROVE  /\ b \in Streamings /\ b.finder = f /\ b.all = a.all
           /\ Kept(a, b) /\ b.subscriptions = a.subscriptions
           /\ b.tagCalls = a.tagCalls
BY DEF Streamings, Kept

(* The finder is stopped.                                                  *)
LEMMA StopFinderIs ==
    ASSUME NEW a \in Streamings
    PROVE  LET b == StopFinder(a) IN
           /\ b \in Streamings /\ b.finder = stop(a.finder) /\ b.all = a.all
           /\ Kept(a, b) /\ b.subscriptions = a.subscriptions
           /\ b.tagCalls = a.tagCalls
<1>1. a.finder \in Finders
  BY DEF Streamings
<1>2. stop(a.finder) \in Finders
  BY <1>1, StopType
<1>3. StopFinder(a) = [a EXCEPT !.finder = stop(a.finder)]
  BY DEF StopFinder
<1> QED BY <1>2, <1>3, FinderChanged

(* The finder is started.                                                  *)
LEMMA StartFinderIs ==
    ASSUME NEW a, Half(a), NEW n \in Nat
    PROVE  LET b == StartFinder(a, n) IN
           /\ b \in Streamings /\ b.finder = start(a.finder, n, Left(a, n))
           /\ b.all = a.all
           /\ Kept(a, b) /\ b.subscriptions = a.subscriptions
           /\ b.tagCalls = a.tagCalls
<1>1. a \in Streamings /\ a.finder \in Finders
  BY DEF Half, Streamings
<1>2. start(a.finder, n, Left(a, n)) \in Finders
  BY <1>1, StartType
<1>3. StartFinder(a, n) = [a EXCEPT !.finder = start(a.finder, n, Left(a, n))]
  BY DEF StartFinder
<1> QED BY <1>1, <1>2, <1>3, FinderChanged

(***************************************************************************)
(* The connection.                                                         *)
(***************************************************************************)
LEMMA PromiseType ==
    ASSUME NEW k \in Contract!Promises, NEW state \in Contract!States
    PROVE  /\ Contract!Tell(k, state) \in Contract!Promises
           /\ Contract!Tell(k, state).told = state
           /\ Contract!Tell(k, state).late = k.late
           /\ Contract!Tell(k, state).asked =
                  IF state \in {"DISCONNECTED", "exhausted"}
                  THEN IF k.asked = "started" THEN "down" ELSE k.asked
                  ELSE IF k.asked = "down" THEN "started" ELSE k.asked
BY DEF Contract!Promises, Contract!Tell, Contract!Asked

(* What is asked of a connection changes nothing that it has told.         *)
LEMMA AskType ==
    ASSUME NEW k \in Contract!Promises
    PROVE  /\ Contract!Start(k) \in Contract!Promises
           /\ Contract!Start(k).asked = "started"
           /\ Contract!Start(k).told = k.told /\ Contract!Start(k).late = k.late
           /\ Contract!Stop(k) \in Contract!Promises
           /\ Contract!Stop(k).asked = "stopped"
           /\ Contract!Stop(k).told = k.told /\ Contract!Stop(k).late = k.late
           /\ Contract!NewPromise \in Contract!Promises
           /\ Contract!NewPromise.asked = "created"
           /\ Contract!NewPromise.told = "none"
           /\ Contract!NewPromise.late = FALSE
BY DEF Contract!Promises, Contract!Start, Contract!Stop, Contract!NewPromise,
       Contract!Asked, Contract!States

(* The states a connection reports are those streaming has.                *)
LEMMA ReportedStates ==
    /\ Contract!States \ {"exhausted"} \subseteq ConnectionStates
    /\ {"DISCONNECTED", "RECONNECTING", "CONNECTED", "STARTED", "INITIALIZING"}
           \subseteq ConnectionStates
    /\ {"RECONNECTING", "DISCONNECTED", "exhausted", "CONNECTED"} \subseteq Contract!States
BY DEF Contract!States, ConnectionStates

(* The subscriptions are as they were.                                     *)
LEMMA SubsSame ==
    ASSUME NEW a, NEW b \in Streamings, b.all = a.all,
           b.subscriptions = a.subscriptions
    PROVE  /\ Listed(b) = Listed(a)
           /\ Half(a) => Half(b)
           /\ AllClean(a) => AllClean(b)
BY DEF Listed, Half, AllClean

(* onReconnecting.                                                         *)
LEMMA ReconnectingIs ==
    ASSUME NEW a, Half(a)
    PROVE  LET b == Reconnecting(a)
               c == [a EXCEPT !.connectionState = "RECONNECTING"]
           IN  /\ b \in Streamings /\ Kept(c, b) /\ Heard(a, b)
               /\ b.subscriptions = a.subscriptions /\ b.tagCalls = a.tagCalls
               /\ b.finder = stop(a.finder)
               /\ \A i \in DOMAIN a.all :
                     b.all[i].sub = IF i \in Listed(a)
                                    THEN onConnectionUnavailable(a.all[i].sub)
                                    ELSE a.all[i].sub
<1> DEFINE c == [a EXCEPT !.connectionState = "RECONNECTING"]
           d == AllUnavailable(c)
           b == Reconnecting(a)
<1>1. a \in Streamings
  BY DEF Half
<1>2. /\ c \in Streamings /\ c.all = a.all /\ c.subscriptions = a.subscriptions
      /\ c.finder = a.finder /\ c.tagCalls = a.tagCalls
  BY <1>1 DEF Streamings, ConnectionStates
<1>3. b = StopFinder(d)
  BY DEF Reconnecting
<1> HIDE DEF b, c
<1>4. Half(c) /\ Listed(c) = Listed(a)
  BY <1>2, SubsSame
<1>5. /\ Called(c, d)
      /\ \A i \in DOMAIN c.all :
            d.all[i].sub = IF i \in Listed(c)
                           THEN onConnectionUnavailable(c.all[i].sub)
                           ELSE c.all[i].sub
  BY <1>4, AllUnavailableIs
<1> HIDE DEF d
<1>6. /\ b \in Streamings /\ b.finder = stop(d.finder) /\ b.all = d.all
      /\ Kept(d, b) /\ b.subscriptions = d.subscriptions
      /\ b.tagCalls = d.tagCalls
  BY <1>3, <1>5, StopFinderIs DEF Called
<1>7. Kept(c, b)
  BY <1>5, <1>6 DEF Called, Kept
<1> QED BY <1>2, <1>4, <1>5, <1>6, <1>7 DEF b, c, Called, Heard

(* The connection begins to reconnect in the middle of an update. *)
Broken(a, breaks) ==
    IF breaks
    THEN [a EXCEPT !.connectionState = "RECONNECTING",
                   !.connection = Contract!Tell(a.connection, "RECONNECTING")]
    ELSE a

(* An update of the orphan finder.                                         *)
LEMMA UpdateFinderIs ==
    ASSUME NEW a, Half(a), NEW n \in Nat, NEW breaks \in BOOLEAN
    PROVE  LET b == UpdateFinder(a, n, breaks)
           IN  /\ b \in Streamings /\ Kept(Broken(a, breaks), b) /\ Heard(a, b)
               /\ b.subscriptions = a.subscriptions /\ b.tagCalls = a.tagCalls
               /\ b.finder = update(a.finder, n, Left(a, n), breaks)
               /\ \A i \in DOMAIN a.all :
                     LET told == IF breaks /\ i \in Listed(a)
                                 THEN onConnectionUnavailable(a.all[i].sub)
                                 ELSE a.all[i].sub
                     IN  b.all[i].sub = IF i \in Orphans(a.finder, n, Left(a, n))
                                        THEN reset(told) ELSE told
<1> DEFINE c == IF breaks
                THEN [a EXCEPT !.connectionState = "RECONNECTING",
                               !.connection = Contract!Tell(a.connection, "RECONNECTING")]
                ELSE a
           told(i) == IF breaks /\ i \in Listed(a)
                      THEN onConnectionUnavailable(a.all[i].sub)
                      ELSE a.all[i].sub
           orphans == Orphans(a.finder, n, Left(a, n))
           r == Reconnecting(a)
           k == Contract!Tell(r.connection, "RECONNECTING")
           d == IF breaks THEN [r EXCEPT !.connection = k] ELSE a
           e == Each(d, orphans, reset)
           f == update(a.finder, n, Left(a, n), breaks)
           b == UpdateFinder(a, n, breaks)
<1>1. a \in Streamings /\ a.finder \in Finders /\ a.connection \in Contract!Promises
  BY DEF Half, Streamings
<1>2. b = [e EXCEPT !.finder = f]
  BY DEF UpdateFinder
<1>3. f \in Finders
  BY <1>1, UpdateType
<1>11. e = ResetEach(d, orphans)
  BY DEF ResetEach
<1> HIDE DEF orphans, f, e, b
<1>4. /\ Half(d) /\ Kept(c, d) /\ Heard(a, d)
      /\ d.subscriptions = a.subscriptions /\ d.tagCalls = a.tagCalls
      /\ \A i \in DOMAIN a.all : d.all[i].sub = told(i)
  <2>1. CASE ~breaks
    BY <1>1, <2>1 DEF Kept, Heard
  <2>2. CASE breaks
    <3> DEFINE c1 == [a EXCEPT !.connectionState = "RECONNECTING"]
    <3>1. /\ r \in Streamings /\ Kept(c1, r) /\ Heard(a, r)
          /\ r.subscriptions = a.subscriptions /\ r.tagCalls = a.tagCalls
          /\ \A i \in DOMAIN a.all : r.all[i].sub = told(i)
      BY <2>2, ReconnectingIs
    <3> HIDE DEF r
    <3>2. r.connection = a.connection
      BY <1>1, <3>1 DEF Kept, Streamings
    <3>3. k \in Contract!Promises
      BY <1>1, <3>2, PromiseType, ReportedStates
    <3>4. k = Contract!Tell(a.connection, "RECONNECTING")
      BY <3>2
    <3> HIDE DEF k
    <3>5. d = [r EXCEPT !.connection = k]
      BY <2>2
    <3> HIDE DEF d
    <3>6. /\ d \in Streamings /\ d.all = r.all
          /\ d.subscriptions = r.subscriptions /\ d.tagCalls = r.tagCalls
          /\ d.connection = k
          /\ d.connectionState = r.connectionState
          /\ d.reconnecting = r.reconnecting
          /\ d.isReset = r.isReset /\ d.disposed = r.disposed
          /\ d.contextId = r.contextId
          /\ d.reconnectTimer = r.reconnectTimer /\ d.lostTimers = r.lostTimers
          /\ d.tokenHandlers = r.tokenHandlers
          /\ d.former = r.former /\ d.replaced = r.replaced
      BY <3>1, <3>3, <3>5 DEF Streamings
    <3>7. \A i \in DOMAIN a.all : Unpatched(told(i))
      BY UnavailableUnpatched DEF Half, Clean
    <3>8. Half(d)
      <4> HIDE DEF told
      <4> QED BY <3>1, <3>6, <3>7 DEF Half, Heard, Listed
    <3>9. Kept(c, d)
      <4>1. c = [a EXCEPT !.connectionState = "RECONNECTING",
                          !.connection = k]
        BY <2>2, <3>4
      <4> HIDE DEF c
      <4>2. /\ c.connection = k
            /\ c.connectionState = c1.connectionState
            /\ c.reconnecting = c1.reconnecting
            /\ c.isReset = c1.isReset /\ c.disposed = c1.disposed
            /\ c.contextId = c1.contextId
            /\ c.reconnectTimer = c1.reconnectTimer /\ c.lostTimers = c1.lostTimers
            /\ c.tokenHandlers = c1.tokenHandlers
            /\ c.former = c1.former /\ c.replaced = c1.replaced
        BY <1>1, <4>1 DEF Streamings
      <4> HIDE DEF c1
      <4> QED BY <3>1, <3>6, <4>2 DEF Kept
    <3>10. Heard(a, d)
      BY <3>1, <3>6 DEF Heard
    <3> HIDE DEF c, told
    <3> QED BY <3>1, <3>6, <3>8, <3>9, <3>10
  <2> QED BY <2>1, <2>2
<1> HIDE DEF c, d
<1>5. /\ Called(d, e)
      /\ \A i \in DOMAIN d.all :
            e.all[i].sub = IF i \in orphans THEN reset(d.all[i].sub)
                           ELSE d.all[i].sub
  BY <1>4, <1>11, ResetsIs
<1>6. /\ b \in Streamings /\ b.finder = f /\ b.all = e.all
      /\ Kept(e, b) /\ b.subscriptions = e.subscriptions
      /\ b.tagCalls = e.tagCalls
  BY <1>2, <1>3, <1>5, FinderChanged DEF Called
<1>7. Kept(c, b)
  BY <1>4, <1>5, <1>6 DEF Called, Kept
<1>8. Heard(a, b)
  BY <1>4, <1>5, <1>6 DEF Called, Heard
<1>9. \A i \in DOMAIN a.all :
         b.all[i].sub = IF i \in orphans THEN reset(told(i)) ELSE told(i)
  <2> HIDE DEF told
  <2> QED BY <1>4, <1>5, <1>6 DEF Heard
<1>10. /\ b \in Streamings /\ b.subscriptions = a.subscriptions
       /\ b.tagCalls = a.tagCalls /\ b.finder = f
  BY <1>4, <1>5, <1>6 DEF Called
<1>12. c = Broken(a, breaks)
  BY DEF c, Broken
<1> QED BY <1>7, <1>8, <1>9, <1>10, <1>12 DEF b, f, orphans

(* What is left of a sequence was in it.                                   *)
LEMMA RemoveAtType ==
    ASSUME NEW S, NEW q \in Seq(S), NEW i \in DOMAIN q
    PROVE  RemoveAt(q, i) \in Seq(S)
<1> DEFINE a == SubSeq(q, 1, i - 1)
           b == SubSeq(q, i + 1, Len(q))
<1>1. Len(q) \in Nat /\ i \in 1 .. Len(q) /\ \A j \in 1 .. Len(q) : q[j] \in S
  OBVIOUS
<1>2. a \in Seq(S)
  <2>1. (\A j \in 1 .. i - 1 : q[j] \in S) /\ 1 \in Int /\ i - 1 \in Int
    BY <1>1
  <2> QED BY <2>1, SubSeqProperties
<1>3. b \in Seq(S)
  <2>1. (\A j \in i + 1 .. Len(q) : q[j] \in S) /\ i + 1 \in Int /\ Len(q) \in Int
    BY <1>1
  <2> QED BY <2>1, SubSeqProperties
<1>4. RemoveAt(q, i) = a \o b
  BY DEF RemoveAt
<1> HIDE DEF a, b
<1> QED BY <1>2, <1>3, <1>4, ConcatProperties

(* ... of numbers.                                                         *)
LEMMA RemoveAtFrom ==
    ASSUME NEW q \in Seq(Nat), NEW i \in DOMAIN q
    PROVE  /\ RemoveAt(q, i) \in Seq(Nat)
           /\ \A k \in DOMAIN RemoveAt(q, i) :
                 RemoveAt(q, i)[k] \in {q[j] : j \in DOMAIN q}
<1> DEFINE S == {q[j] : j \in DOMAIN q}
           p == RemoveAt(q, i)
<1>1. q \in Seq(S)
  <2>1. PICK n \in Nat : q \in [1 .. n -> Nat]
    BY SeqDef
  <2>2. DOMAIN q = 1 .. n /\ \A k \in 1 .. n : q[k] \in S
    BY <2>1
  <2> HIDE DEF S
  <2>3. q \in [1 .. n -> S]
    BY <2>1, <2>2, Zenon
  <2>4. q \in UNION {[1 .. m -> S] : m \in Nat}
    BY <2>1, <2>3, Zenon
  <2> QED BY <2>4, SeqDef, Zenon
<1> HIDE DEF S
<1>2. p \in Seq(S) /\ p \in Seq(Nat)
  BY <1>1, RemoveAtType
<1> HIDE DEF p
<1>3. \A k \in DOMAIN p : p[k] \in S
  BY <1>2
<1> QED BY <1>2, <1>3 DEF p, S

(* It has moved up by one place at most.                                   *)
LEMMA RemoveAtPlaces ==
    ASSUME NEW q \in Seq(Nat), NEW i \in DOMAIN q, NEW m \in DOMAIN RemoveAt(q, i)
    PROVE  \E l \in DOMAIN q :
               m <= l /\ l <= m + 1 /\ RemoveAt(q, i)[m] = q[l]
<1> DEFINE a == SubSeq(q, 1, i - 1)
           b == SubSeq(q, i + 1, Len(q))
<1>1. Len(q) \in Nat /\ i \in 1 .. Len(q) /\ \A j \in 1 .. Len(q) : q[j] \in Nat
  OBVIOUS
<1>2. /\ a \in Seq(Nat) /\ Len(a) = i - 1
      /\ \A j \in 1 .. i - 1 : a[j] = q[j]
  <2>1. (\A j \in 1 .. i - 1 : q[j] \in Nat) /\ 1 \in Int /\ i - 1 \in Int
    BY <1>1
  <2>2. /\ SubSeq(q, 1, i - 1) \in Seq(Nat)
        /\ Len(SubSeq(q, 1, i - 1)) = IF 1 <= i - 1 THEN (i - 1) - 1 + 1 ELSE 0
        /\ \A j \in 1 .. (i - 1) - 1 + 1 : SubSeq(q, 1, i - 1)[j] = q[1 + j - 1]
    BY <2>1, SubSeqProperties
  <2>3. (i - 1) - 1 + 1 = i - 1 /\ (~(1 <= i - 1) => i - 1 = 0)
    BY <1>1
  <2>4. \A j \in 1 .. i - 1 : 1 + j - 1 = j
    BY <1>1
  <2> QED BY <2>2, <2>3, <2>4
<1>3. /\ b \in Seq(Nat) /\ Len(b) = Len(q) - i
      /\ \A j \in 1 .. Len(q) - i : b[j] = q[i + j]
  <2>1. (\A j \in i + 1 .. Len(q) : q[j] \in Nat) /\ i + 1 \in Int /\ Len(q) \in Int
    BY <1>1
  <2>2. /\ SubSeq(q, i + 1, Len(q)) \in Seq(Nat)
        /\ Len(SubSeq(q, i + 1, Len(q)))
               = IF i + 1 <= Len(q) THEN Len(q) - (i + 1) + 1 ELSE 0
        /\ \A j \in 1 .. Len(q) - (i + 1) + 1 :
               SubSeq(q, i + 1, Len(q))[j] = q[i + 1 + j - 1]
    BY SMTT(30), <2>1, SubSeqProperties
  <2>3. Len(q) - (i + 1) + 1 = Len(q) - i /\ (~(i + 1 <= Len(q)) => Len(q) - i = 0)
    BY <1>1
  <2>4. \A j \in 1 .. Len(q) - i : i + 1 + j - 1 = i + j
    BY <1>1
  <2> QED BY <2>2, <2>3, <2>4
<1>4. RemoveAt(q, i) = a \o b
  BY DEF RemoveAt
<1> HIDE DEF a, b
<1>5. /\ DOMAIN (a \o b) = 1 .. Len(a) + Len(b)
      /\ \A j \in 1 .. Len(a) + Len(b) :
             (a \o b)[j] = IF j <= Len(a) THEN a[j] ELSE b[j - Len(a)]
  <2>1. a \o b \in Seq(Nat) /\ Len(a \o b) = Len(a) + Len(b)
    BY <1>2, <1>3, ConcatProperties
  <2>2. DOMAIN (a \o b) = 1 .. Len(a \o b)
    BY <2>1
  <2> QED BY <1>2, <1>3, <2>1, <2>2, ConcatProperties
<1>6. m \in 1 .. Len(q) - 1
  BY <1>1, <1>2, <1>3, <1>4, <1>5
<1>7. CASE m < i
  <2>1. m \in 1 .. i - 1 /\ m \in DOMAIN q
    BY <1>1, <1>6, <1>7
  <2>2. RemoveAt(q, i)[m] = q[m]
    BY <1>1, <1>2, <1>3, <1>4, <1>5, <1>6, <2>1
  <2> QED BY <1>6, <2>1, <2>2
<1>8. CASE ~(m < i)
  <2>1. m - (i - 1) \in 1 .. Len(q) - i /\ m + 1 \in DOMAIN q /\ i + (m - (i - 1)) = m + 1
    BY SMTT(30), <1>1, <1>6, <1>8
  <2>2. RemoveAt(q, i)[m] = b[m - (i - 1)]
    <3>1. Len(a) = i - 1 /\ m \in 1 .. Len(a) + Len(b) /\ ~(m <= Len(a))
      BY <1>1, <1>2, <1>3, <1>6, <1>8
    <3>2. (a \o b)[m] = IF m <= Len(a) THEN a[m] ELSE b[m - Len(a)]
      BY <1>5, <3>1
    <3>3. (a \o b)[m] = b[m - Len(a)]
      BY <3>1, <3>2
    <3> QED BY <1>4, <3>1, <3>3
  <2>3. RemoveAt(q, i)[m] = q[m + 1]
    BY <1>3, <2>1, <2>2
  <2>4. m + 1 \in DOMAIN q /\ m <= m + 1 /\ m + 1 <= m + 1
    BY <1>6, <2>1
  <2> QED BY <2>3, <2>4
<1> QED BY <1>7, <1>8

(***************************************************************************)
(* What a call of streaming is to its subscriptions.                       *)
(***************************************************************************)
(* The finder is as it was, or has been stopped. *)
Settles(f, g) ==
    /\ g.minCheckTime = f.minCheckTime
    /\ \A n \in Nat : Armed(f, n) => Armed(g, n)
    /\ g.enabled => g = f

(* No subscription is made, and none is told that the connection is there. *)
Quieter(x, y) ==
    /\ y.currentState = STATE_SUBSCRIBED => x.currentState = STATE_SUBSCRIBED
    /\ y.connectionAvailable => x.connectionAvailable

Quietly(a, b) ==
    /\ AllClean(b) /\ Heard(a, b)
    /\ Listed(b) \subseteq Listed(a)
    /\ Settles(a.finder, b.finder)
    /\ \A i \in DOMAIN a.all : Quieter(a.all[i].sub, b.all[i].sub)

(* Nobody is told anything about the connection. *)
Untold(a, b) ==
    \A i \in DOMAIN a.all :
        b.all[i].sub.connectionAvailable = a.all[i].sub.connectionAvailable

(* Everybody has been told that it is there, or not. *)
AllTold(a, available) ==
    \A i \in Listed(a) : a.all[i].sub.connectionAvailable = available

NoneReady(a) == \A i \in DOMAIN a.all : ~a.all[i].sub.becameReady

(* A finder that is stopped, or left alone, settles.                       *)
LEMMA StopSettles ==
    ASSUME NEW f \in Finders
    PROVE  Settles(f, stop(f)) /\ Settles(f, f)
BY StopType, StaysArmed DEF Settles

(* Nothing is quieter than nothing.                                        *)
LEMMA QuietSelf ==
    ASSUME NEW a, AllClean(a)
    PROVE  Quietly(a, a) /\ Untold(a, a)
BY DEF Quietly, Heard, Settles, Quieter, Untold

(* Two quiet calls in a row are one.                                       *)
LEMMA QuietOn ==
    ASSUME NEW a, NEW b, NEW c, Quietly(a, b), Quietly(b, c)
    PROVE  Quietly(a, c) /\ (Untold(a, b) /\ Untold(b, c) => Untold(a, c))
<1>1. Heard(a, c) /\ Listed(c) \subseteq Listed(a) /\ AllClean(c)
  BY DEF Quietly, Heard
<1>2. Settles(a.finder, c.finder)
  BY DEF Quietly, Settles
<1>3. \A i \in DOMAIN a.all : Quieter(a.all[i].sub, c.all[i].sub)
  BY DEF Quietly, Heard, Quieter
<1>4. Untold(a, b) /\ Untold(b, c) => Untold(a, c)
  BY DEF Quietly, Heard, Untold
<1> QED BY <1>1, <1>2, <1>3, <1>4 DEF Quietly

(* Keeping what concerns the connection is transitive.                     *)
LEMMA KeptOn ==
    ASSUME NEW a, NEW b, NEW c, Kept(a, b), Kept(b, c)
    PROVE  Kept(a, c)
BY DEF Kept

(* Gentle calls are quiet. *)
LEMMA GentleQuiet ==
    ASSUME NEW a, AllClean(a), NEW b, Gentle(a, b)
    PROVE  Quietly(a, b) /\ Untold(a, b) /\ Kept(a, b)
<1>1. AllClean(b) /\ Listed(b) = Listed(a)
  BY GentleClean
<1>2. Settles(a.finder, b.finder) /\ Heard(a, b) /\ Kept(a, b)
  BY DEF Gentle, Called, Settles
<1>3. \A i \in DOMAIN a.all : Quieter(a.all[i].sub, b.all[i].sub)
  BY DEF Gentle, Mild, Calm, Quieter
<1>4. Untold(a, b)
  BY DEF Gentle, Mild, Calm, Untold
<1> QED BY <1>1, <1>2, <1>3, <1>4 DEF Quietly

(* So is what leaves the subscriptions alone.                              *)
LEMMA SubsQuiet ==
    ASSUME NEW a, AllClean(a), NEW b \in Streamings, b.all = a.all,
           b.subscriptions = a.subscriptions, Settles(a.finder, b.finder)
    PROVE  Quietly(a, b) /\ Untold(a, b)
<1>1. AllClean(b) /\ Listed(b) = Listed(a)
  BY SubsSame
<1> QED BY <1>1 DEF Quietly, Heard, Quieter, Untold

(* The connection is said to be unavailable.                               *)
LEMMA UnavailableQuiet ==
    ASSUME NEW a, AllClean(a)
    PROVE  LET b == AllUnavailable(a) IN
           Quietly(a, b) /\ Kept(a, b) /\ AllTold(b, FALSE)
<1> DEFINE b == AllUnavailable(a)
<1>1. /\ Called(a, b)
      /\ \A i \in DOMAIN a.all :
            b.all[i].sub = IF i \in Listed(a)
                           THEN onConnectionUnavailable(a.all[i].sub)
                           ELSE a.all[i].sub
  BY CleanHalf, AllUnavailableIs
<1> HIDE DEF b
<1>2. \A i \in DOMAIN a.all :
          /\ Clean(b.all[i].sub) /\ Quieter(a.all[i].sub, b.all[i].sub)
          /\ i \in Listed(a) => ~b.all[i].sub.connectionAvailable
  BY <1>1, UnavailableUnpatched DEF AllClean, Clean, Quieter
<1>3. AllClean(b) /\ Heard(a, b) /\ Listed(b) = Listed(a) /\ Kept(a, b)
  BY <1>1, <1>2, CalledListed DEF AllClean, Called
<1>4. Settles(a.finder, b.finder)
  BY <1>1 DEF Called, Settles
<1>5. AllTold(b, FALSE)
  <2>1. ASSUME NEW i \in Listed(b) PROVE b.all[i].sub.connectionAvailable = FALSE
    <3>1. i \in DOMAIN a.all /\ i \in Listed(a)
      BY <1>3 DEF AllClean
    <3>2. Clean(b.all[i].sub) /\ ~b.all[i].sub.connectionAvailable
      BY <1>2, <3>1
    <3>3. b.all[i].sub.connectionAvailable \in BOOLEAN
      BY <3>2 DEF Clean, Unpatched, Good, SubscriptionRecords
    <3> QED BY <3>2, <3>3
  <2> QED BY <2>1 DEF AllTold
<1> QED BY <1>2, <1>3, <1>4, <1>5 DEF Quietly, b

(* A subscription that no longer counts as having become ready.            *)
LEMMA ClearedClean ==
    ASSUME NEW x \in SubscriptionRecords
    PROVE  LET y == [x EXCEPT !.becameReady = FALSE] IN
           /\ y \in SubscriptionRecords /\ ~y.becameReady
           /\ y.currentState = x.currentState
           /\ y.connectionAvailable = x.connectionAvailable
           /\ Clean(x) => Clean(y)
<1> DEFINE y == [x EXCEPT !.becameReady = FALSE]
<1>1. /\ y \in SubscriptionRecords /\ ~y.becameReady
      /\ y.currentState = x.currentState
      /\ y.connectionAvailable = x.connectionAvailable
      /\ y.queue = x.queue /\ y.inFlight = x.inFlight
      /\ y.networkErrorSubscribingTimer = x.networkErrorSubscribingTimer
  BY DEF SubscriptionRecords
<1> HIDE DEF y
<1>2. ASSUME Clean(x) PROVE Clean(y)
  <2>1. Good(y)
    BY <1>1, <1>2 DEF Clean, Unpatched, Good
  <2>2. Unpatched(y)
    BY <1>1, <1>2, <2>1 DEF Clean, Unpatched
  <2>3. Served(y)
    BY <1>1, <1>2 DEF Clean, Served, Transitioning, WillUnsubscribe
  <2> QED BY <2>2, <2>3 DEF Clean
<1> QED BY <1>1, <1>2 DEF y

Cleared(x) == [x EXCEPT !.sub.becameReady = FALSE]

(* So is an entry.                                                         *)
LEMMA EntryCleared ==
    ASSUME NEW x \in Entries
    PROVE  LET y == Cleared(x) IN
           /\ y \in Entries /\ ~y.sub.becameReady
           /\ y.sub.currentState = x.sub.currentState
           /\ y.sub.connectionAvailable = x.sub.connectionAvailable
           /\ Clean(x.sub) => Clean(y.sub)
           /\ y.latestActivity = x.latestActivity
           /\ y.inactivityTimeout = x.inactivityTimeout
<1> DEFINE u == [x.sub EXCEPT !.becameReady = FALSE]
           y == [x EXCEPT !.sub = u]
<1>1. Cleared(x) = y
  BY DEF Cleared
<1>2. x.sub \in SubscriptionRecords
  BY DEF Entries
<1>3. /\ u \in SubscriptionRecords /\ ~u.becameReady
      /\ u.currentState = x.sub.currentState
      /\ u.connectionAvailable = x.sub.connectionAvailable
      /\ Clean(x.sub) => Clean(u)
  BY <1>2, ClearedClean
<1> HIDE DEF u
<1>4. /\ y \in Entries /\ y.sub = u /\ y.latestActivity = x.latestActivity
      /\ y.inactivityTimeout = x.inactivityTimeout
  BY <1>3 DEF Entries
<1> QED BY <1>1, <1>3, <1>4

(* The array and the calls by tag are replaced. *)
ReplacedBoth(a, b, g, calls) == b = [a EXCEPT !.tagCalls = calls, !.all = g]

(* Only these two change.                                                  *)
LEMMA BothChanged ==
    ASSUME NEW a \in Streamings, NEW g, NEW b, NEW calls \in Seq(TagCalls),
           g \in [DOMAIN a.all -> Entries],
           ReplacedBoth(a, b, g, calls)
    PROVE  /\ b \in Streamings /\ b.all = g /\ DOMAIN g = DOMAIN a.all
           /\ Kept(a, b) /\ b.subscriptions = a.subscriptions
           /\ b.finder = a.finder /\ b.tagCalls = calls
<1> DEFINE c == [a EXCEPT !.tagCalls = calls]
<1>1. /\ c \in Streamings /\ c.all = a.all /\ c.subscriptions = a.subscriptions
      /\ c.finder = a.finder /\ c.tagCalls = calls
  BY DEF Streamings
<1>2. Kept(a, c)
  BY DEF Streamings, Kept
<1>3. Replaced(c, b, g)
  BY DEF Replaced, ReplacedBoth
<1> HIDE DEF c
<1>4. /\ b \in Streamings /\ b.all = g /\ DOMAIN g = DOMAIN c.all
      /\ Kept(c, b) /\ b.subscriptions = c.subscriptions
      /\ b.finder = c.finder /\ b.tagCalls = c.tagCalls
  BY <1>1, <1>3, AllChanged
<1> QED BY <1>1, <1>2, <1>4, KeptOn

(* The calls by tag of Done(a). *)
SentCall(x, a) == [x EXCEPT !.sent = TRUE, !.context = a.contextId]
IsAsked(x, a) ==
    /\ ~x.sent
    /\ \E i \in x.members : a.all[i].sub.becameReady
    /\ handleSubscriptionReadyForUnsubscribe(a, x)
DoneCalls(a) ==
    [k \in DOMAIN a.tagCalls |->
        IF IsAsked(a.tagCalls[k], a) THEN SentCall(a.tagCalls[k], a) ELSE a.tagCalls[k]]

(* They are calls by tag still.                                            *)
LEMMA DoneCallsType ==
    ASSUME NEW a \in Streamings
    PROVE  DoneCalls(a) \in Seq(TagCalls)
<1>1. PICK n \in Nat : a.tagCalls \in [1 .. n -> TagCalls]
  <2>1. a.tagCalls \in Seq(TagCalls)
    BY DEF Streamings
  <2> QED BY <2>1, SeqDef
<1>2. a.contextId \in Nat
  BY DEF Streamings
<1>3. ASSUME NEW k \in 1 .. n
      PROVE  (IF IsAsked(a.tagCalls[k], a) THEN SentCall(a.tagCalls[k], a)
              ELSE a.tagCalls[k]) \in TagCalls
  <2>1. a.tagCalls[k] \in TagCalls
    BY <1>1
  <2> QED BY <1>2, <2>1 DEF TagCalls, SentCall
<1>4. DOMAIN a.tagCalls = 1 .. n
  BY <1>1
<1>5. DoneCalls(a) \in [1 .. n -> TagCalls]
  BY <1>3, <1>4 DEF DoneCalls
<1>6. DoneCalls(a) \in UNION {[1 .. m -> TagCalls] : m \in Nat}
  BY <1>5, Zenon
<1> QED BY <1>6, SeqDef, Zenon

(* The end of a call. *)
LEMMA DoneIs ==
    ASSUME NEW a, AllClean(a)
    PROVE  LET b == Done(a) IN
           /\ AllClean(b) /\ Kept(a, b) /\ Quietly(a, b) /\ Untold(a, b)
           /\ NoneReady(b) /\ b.finder = a.finder
           /\ b.subscriptions = a.subscriptions
           /\ \A i \in DOMAIN a.all :
                 b.all[i].sub.currentState = a.all[i].sub.currentState
<1> DEFINE g == [i \in DOMAIN a.all |-> Cleared(a.all[i])]
           b == Done(a)
<1>1. a \in Streamings /\ \A i \in DOMAIN a.all : Clean(a.all[i].sub)
  BY DEF AllClean
<1>2. \A i \in DOMAIN a.all : a.all[i] \in Entries
  <2>1. a.all \in Seq(Entries)
    BY <1>1 DEF Streamings
  <2> QED BY <2>1, ElementOfSeq, LenProperties, Zenon
<1>3. \A i \in DOMAIN a.all :
          /\ g[i] \in Entries /\ ~g[i].sub.becameReady
          /\ g[i].sub.currentState = a.all[i].sub.currentState
          /\ g[i].sub.connectionAvailable = a.all[i].sub.connectionAvailable
          /\ Clean(g[i].sub)
          /\ g[i].latestActivity = a.all[i].latestActivity
          /\ g[i].inactivityTimeout = a.all[i].inactivityTimeout
  BY <1>1, <1>2, EntryCleared
<1>4. g \in [DOMAIN a.all -> Entries]
  BY <1>3
<1>5. ReplacedBoth(a, b, g, DoneCalls(a))
  BY DEF ReplacedBoth, Done, DoneCalls, Cleared, IsAsked, SentCall
<1> HIDE DEF g, b
<1>6. /\ b \in Streamings /\ b.all = g /\ DOMAIN g = DOMAIN a.all
      /\ Kept(a, b) /\ b.subscriptions = a.subscriptions
      /\ b.finder = a.finder
  BY <1>1, <1>4, <1>5, BothChanged, DoneCallsType
<1>7. AllClean(b) /\ Listed(b) = Listed(a)
  BY <1>3, <1>6 DEF AllClean, Listed
<1>8. Heard(a, b) /\ Untold(a, b) /\ NoneReady(b)
  BY <1>3, <1>6 DEF Heard, Untold, NoneReady
<1>9. \A i \in DOMAIN a.all :
         /\ b.all[i].sub.currentState = a.all[i].sub.currentState
         /\ Quieter(a.all[i].sub, b.all[i].sub)
  BY <1>3, <1>6 DEF Quieter
<1>10. Settles(a.finder, b.finder)
  BY <1>6 DEF Settles
<1> QED BY <1>6, <1>7, <1>8, <1>9, <1>10 DEF Quietly, b

(* Only the list of subscriptions changes, and none is new.                *)
LEMMA ListChanged ==
    ASSUME NEW a, AllClean(a), NEW q \in Seq(Nat), NEW b,
           \A k \in DOMAIN q : q[k] \in Listed(a),
           b = [a EXCEPT !.subscriptions = q]
    PROVE  /\ Quietly(a, b) /\ Untold(a, b) /\ Kept(a, b)
           /\ b.subscriptions = q /\ b.all = a.all
<1>1. a \in Streamings
  BY DEF AllClean
<1>2. /\ b \in Streamings /\ b.all = a.all /\ b.subscriptions = q
      /\ b.finder = a.finder
  BY <1>1 DEF Streamings
<1>3. Kept(a, b)
  BY <1>1 DEF Streamings, Kept
<1>4. Listed(b) \subseteq Listed(a)
  <2>1. \A i \in Listed(b) : \E k \in DOMAIN q : i = q[k]
    BY <1>2 DEF Listed
  <2> QED BY <2>1
<1>5. AllClean(b)
  BY <1>2, <1>4 DEF AllClean
<1> QED BY <1>2, <1>3, <1>4, <1>5 DEF Quietly, Heard, Untold, Quieter, Settles

(* Only the calls by tag do.                                               *)
LEMMA CallsChanged ==
    ASSUME NEW a, AllClean(a), NEW calls \in Seq(TagCalls), NEW b,
           b = [a EXCEPT !.tagCalls = calls]
    PROVE  /\ Quietly(a, b) /\ Untold(a, b) /\ Kept(a, b)
           /\ b.subscriptions = a.subscriptions /\ b.all = a.all
<1>1. a \in Streamings
  BY DEF AllClean
<1>2. /\ b \in Streamings /\ b.all = a.all /\ b.subscriptions = a.subscriptions
      /\ b.finder = a.finder
  BY <1>1 DEF Streamings
<1>3. Kept(a, b)
  BY <1>1 DEF Streamings, Kept
<1> QED BY <1>2, <1>3, SubsQuiet DEF Settles

(* A subscription is disposed of.                                          *)
LEMMA DisposeSubscriptionIs ==
    ASSUME NEW a, AllClean(a), NEW i
    PROVE  LET b == disposeSubscription(a, i) IN
           Quietly(a, b) /\ Untold(a, b) /\ Kept(a, b)
<1> DEFINE u == UnsubscribeEach(a, {i})
           t == DisposeEach(u, {i})
           k == CHOOSE k \in DOMAIN u.subscriptions : u.subscriptions[k] = i
           r == [t EXCEPT !.subscriptions = RemoveAt(t.subscriptions, k)]
           b == disposeSubscription(a, i)
<1>1. b = IF i \in Listed(u) THEN r ELSE t
  BY DEF disposeSubscription, removeSubscription, UnsubscribeEach, DisposeEach
<1>2. Gentle(a, u)
  BY EachUnsubscribe
<1> HIDE DEF b, u
<1>3. AllClean(u) /\ Gentle(u, t)
  BY <1>2, GentleClean, EachDispose
<1> HIDE DEF t
<1>4. Quietly(a, t) /\ Untold(a, t) /\ Kept(a, t) /\ AllClean(t)
  BY <1>2, <1>3, GentleQuiet, QuietOn, KeptOn DEF Quietly
<1>5. CASE i \notin Listed(u)
  BY <1>1, <1>4, <1>5 DEF b
<1>6. CASE i \in Listed(u)
  <2>1. k \in DOMAIN u.subscriptions
    BY <1>6 DEF Listed
  <2>2. t.subscriptions = u.subscriptions /\ t.subscriptions \in Seq(Nat)
    BY <1>3, <1>4 DEF Gentle, Called, AllClean, Streamings
  <2> HIDE DEF k
  <2> DEFINE q == RemoveAt(t.subscriptions, k)
  <2>3. q \in Seq(Nat) /\ \A j \in DOMAIN q : q[j] \in Listed(t)
    BY <2>1, <2>2, RemoveAtFrom DEF Listed
  <2> HIDE DEF q
  <2>4. r = [t EXCEPT !.subscriptions = q]
    BY DEF q
  <2> HIDE DEF r
  <2>5. Quietly(t, r) /\ Untold(t, r) /\ Kept(t, r)
    BY <1>4, <2>3, <2>4, ListChanged
  <2> QED BY <1>1, <1>4, <1>6, <2>5, QuietOn, KeptOn DEF b
<1> QED BY <1>5, <1>6

(* Those behind it move up by one place.                                   *)
LEMMA DisposeShrinks ==
    ASSUME NEW a, AllClean(a), NEW i, NEW b, b = disposeSubscription(a, i),
           NEW m \in DOMAIN b.subscriptions
    PROVE  \E l \in DOMAIN a.subscriptions :
               m <= l /\ l <= m + 1 /\ b.subscriptions[m] = a.subscriptions[l]
<1> DEFINE u == UnsubscribeEach(a, {i})
           t == DisposeEach(u, {i})
           k == CHOOSE k \in DOMAIN u.subscriptions : u.subscriptions[k] = i
           r == [t EXCEPT !.subscriptions = RemoveAt(t.subscriptions, k)]
<1>1. b = IF i \in Listed(u) THEN r ELSE t
  BY DEF disposeSubscription, removeSubscription, UnsubscribeEach, DisposeEach
<1>2. Gentle(a, u)
  BY EachUnsubscribe
<1> HIDE DEF u
<1>3. AllClean(u) /\ Gentle(u, t)
  BY <1>2, GentleClean, EachDispose
<1> HIDE DEF t
<1>4. /\ t \in Streamings /\ t.subscriptions = a.subscriptions
      /\ u.subscriptions = a.subscriptions /\ a.subscriptions \in Seq(Nat)
  BY <1>2, <1>3 DEF Gentle, Called, AllClean, Streamings
<1>5. CASE i \notin Listed(u)
  <2>1. b.subscriptions = a.subscriptions
    BY <1>1, <1>4, <1>5
  <2>2. m \in Nat
    BY <1>4, <2>1
  <2> QED BY <2>1, <2>2
<1>6. CASE i \in Listed(u)
  <2>1. k \in DOMAIN a.subscriptions
    BY <1>4, <1>6 DEF Listed
  <2> HIDE DEF k
  <2>2. r.subscriptions = RemoveAt(a.subscriptions, k)
    BY <1>4 DEF Streamings
  <2>3. b.subscriptions = RemoveAt(a.subscriptions, k)
    BY <1>1, <1>6, <2>2
  <2> QED BY <1>4, <2>1, <2>3, RemoveAtPlaces
<1> QED BY <1>5, <1>6

(* The consumer unsubscribes by tag.                                       *)
LEMMA ByTagIs ==
    ASSUME NEW a, AllClean(a), NoneReady(a), NEW shouldDispose \in BOOLEAN
    PROVE  LET b == unsubscribeSubscriptionByTag(a, shouldDispose) IN
           Quietly(a, b) /\ Untold(a, b) /\ Kept(a, b)
<1> DEFINE members == Listed(a)
           call == [members |-> members, sent |-> FALSE, context |-> 0]
           p == PendingEach(a, members)
           t == [p EXCEPT !.tagCalls = Append(p.tagCalls, call)]
           d == DisposeEach(t, members)
           r == [d EXCEPT !.subscriptions = <<>>]
           b == unsubscribeSubscriptionByTag(a, shouldDispose)
<1>1. b = IF shouldDispose THEN r ELSE t
  BY DEF unsubscribeSubscriptionByTag, PendingEach, DisposeEach
<1>2. members \subseteq Nat
  BY DEF Listed, AllClean, Streamings
<1>3. call \in TagCalls
  BY <1>2 DEF TagCalls
<1>4. Gentle(a, p)
  BY EachTagPending DEF NoneReady
<1> HIDE DEF b, p, members, call
<1>5. Quietly(a, p) /\ Untold(a, p) /\ Kept(a, p) /\ AllClean(p)
  BY <1>4, GentleQuiet DEF Quietly
<1>6. p.tagCalls \in Seq(TagCalls)
  BY <1>5 DEF AllClean, Streamings
<1> DEFINE calls == Append(p.tagCalls, call)
<1>7. calls \in Seq(TagCalls)
  BY <1>3, <1>6
<1> HIDE DEF calls
<1>8. t = [p EXCEPT !.tagCalls = calls]
  BY DEF calls
<1> HIDE DEF t
<1>9. Quietly(p, t) /\ Untold(p, t) /\ Kept(p, t)
  BY <1>5, <1>7, <1>8, CallsChanged
<1>10. Quietly(a, t) /\ Untold(a, t) /\ Kept(a, t) /\ AllClean(t)
  BY <1>5, <1>9, QuietOn, KeptOn DEF Quietly
<1>11. Gentle(t, d)
  BY <1>10, EachDispose
<1> HIDE DEF d
<1>12. Quietly(a, d) /\ Untold(a, d) /\ Kept(a, d) /\ AllClean(d)
  BY <1>10, <1>11, GentleQuiet, QuietOn, KeptOn DEF Quietly
<1>13. Quietly(d, r) /\ Untold(d, r) /\ Kept(d, r)
  <2>1. <<>> \in Seq(Nat) /\ \A j \in DOMAIN <<>> : <<>>[j] \in Listed(d)
    OBVIOUS
  <2> QED BY <1>12, <2>1, ListChanged
<1> HIDE DEF r
<1>14. Quietly(a, r) /\ Untold(a, r) /\ Kept(a, r)
  BY <1>12, <1>13, QuietOn, KeptOn
<1> QED BY <1>1, <1>10, <1>14 DEF b

(* The answer to the DELETE by tag.                                        *)
LEMMA UnsubscribedByTagIs ==
    ASSUME NEW a, AllClean(a), NEW k \in DOMAIN a.tagCalls
    PROVE  LET b == UnsubscribedByTag(a, k) IN
           Quietly(a, b) /\ Untold(a, b) /\ Kept(a, b)
<1> DEFINE members == a.tagCalls[k].members
           t == CompleteEach(a, members)
           r == RemoveAt(t.tagCalls, k)
           b == UnsubscribedByTag(a, k)
<1>1. b = [t EXCEPT !.tagCalls = r]
  BY DEF UnsubscribedByTag, CompleteEach
<1>2. Gentle(a, t)
  BY EachTagComplete
<1> HIDE DEF b, t
<1>3. Quietly(a, t) /\ Untold(a, t) /\ Kept(a, t) /\ AllClean(t)
  BY <1>2, GentleQuiet DEF Quietly
<1>4. t.tagCalls = a.tagCalls /\ t.tagCalls \in Seq(TagCalls)
  BY <1>2, <1>3 DEF Gentle, Called, AllClean, Streamings
<1>5. r \in Seq(TagCalls)
  BY <1>4, RemoveAtType
<1> HIDE DEF r
<1>6. Quietly(t, b) /\ Untold(t, b) /\ Kept(t, b)
  BY <1>1, <1>3, <1>5, CallsChanged
<1> QED BY <1>3, <1>6, QuietOn, KeptOn DEF b

(* A response to a DELETE. *)
LEMMA UnsubscribeAnsweredQuiet ==
    ASSUME NEW a, AllClean(a), NEW i \in DOMAIN a.all,
           NEW r \in DOMAIN a.all[i].sub.inFlight,
           a.all[i].sub.inFlight[r]["delete"] > 0
    PROVE  LET b == UnsubscribeAnswered(a, i, r) IN
           Quietly(a, b) /\ Untold(a, b) /\ Kept(a, b)
BY UnsubscribeAnsweredIs, GentleQuiet

(* What a call that may tell that the connection is there leaves alone. *)
Steady(a, b) ==
    /\ AllClean(b) /\ Heard(a, b)
    /\ Listed(b) \subseteq Listed(a)
    /\ Settles(a.finder, b.finder)

(* What is quiet is steady.                                                *)
LEMMA QuietSteady ==
    ASSUME NEW a, NEW b, Quietly(a, b)
    PROVE  Steady(a, b)
BY DEF Quietly, Steady

(* Two steady calls in a row are one.                                      *)
LEMMA SteadyOn ==
    ASSUME NEW a, NEW b, NEW c, Steady(a, b), Steady(b, c)
    PROVE  Steady(a, c)
<1>1. Heard(a, c) /\ Listed(c) \subseteq Listed(a) /\ AllClean(c)
  BY DEF Steady, Heard
<1>2. Settles(a.finder, c.finder)
  BY DEF Steady, Settles
<1> QED BY <1>1, <1>2 DEF Steady

(* Some are told that the connection is there.                             *)
LEMMA AvailableSteady ==
    ASSUME NEW a, AllClean(a), NEW chosen
    PROVE  LET b == AvailableEach(a, chosen) IN
           /\ Steady(a, b) /\ Kept(a, b) /\ Called(a, b)
           /\ chosen = Listed(a) => AllTold(b, TRUE)
<1> DEFINE b == AvailableEach(a, chosen)
<1>1. /\ Called(a, b) /\ AllClean(b)
      /\ \A i \in DOMAIN a.all :
            /\ i \in chosen => b.all[i].sub.connectionAvailable
            /\ i \notin chosen => b.all[i].sub = a.all[i].sub
  BY AvailableIs
<1> HIDE DEF b
<1>2. Heard(a, b) /\ Listed(b) = Listed(a) /\ Kept(a, b)
  BY <1>1, CalledListed DEF Called
<1>3. Settles(a.finder, b.finder)
  BY <1>1 DEF Called, Settles
<1>4. ASSUME chosen = Listed(a) PROVE AllTold(b, TRUE)
  <2>1. ASSUME NEW i \in Listed(b) PROVE b.all[i].sub.connectionAvailable = TRUE
    <3>1. i \in DOMAIN a.all /\ i \in chosen /\ i \in DOMAIN b.all
      BY <1>1, <1>2, <1>4 DEF AllClean
    <3>2. b.all[i].sub.connectionAvailable /\ Clean(b.all[i].sub)
      BY <1>1, <3>1 DEF AllClean
    <3>3. b.all[i].sub.connectionAvailable \in BOOLEAN
      BY <3>2 DEF Clean, Unpatched, Good, SubscriptionRecords
    <3> QED BY <3>2, <3>3
  <2> QED BY <2>1 DEF AllTold
<1> QED BY <1>1, <1>2, <1>3, <1>4 DEF Steady, b

(* No two of the subscriptions have not been told.                         *)
OneOut(a) ==
    \A i, k \in Listed(a) :
        \/ a.all[i].sub.connectionAvailable
        \/ a.all[k].sub.connectionAvailable
        \/ i = k

(* The loop that tells the subscriptions that the connection is there. *)
LEMMA AllAvailableIs ==
    ASSUME NEW a, AllClean(a), NEW p \in Nat, NEW j
    PROVE  LET b == AllAvailable(a, p, j) IN
           /\ Steady(a, b) /\ Kept(a, b)
           /\ p = 0 => AllTold(b, TRUE)
           /\ OneOut(b)
<1> DEFINE first == {a.subscriptions[k] : k \in (1..p) \cap DOMAIN a.subscriptions}
           f == AvailableEach(a, first)
           half == disposeSubscription(f, j)
           rest == {half.subscriptions[k] :
                       k \in ((p + 1)..Len(a.subscriptions)) \cap DOMAIN half.subscriptions}
           r == AvailableEach(half, rest)
           w == AvailableEach(a, Listed(a))
           b == AllAvailable(a, p, j)
<1>1. b = IF p = 0 THEN w ELSE r
  <2>1. {a.subscriptions[k] : k \in (DOMAIN a.subscriptions) \cap DOMAIN a.subscriptions}
            = Listed(a)
    BY DEF Listed
  <2> QED BY <2>1 DEF AllAvailable, AvailableEach
<1> HIDE DEF b
<1>2. Steady(a, w) /\ Kept(a, w) /\ AllTold(w, TRUE)
  BY AvailableSteady
<1> HIDE DEF w, first
<1>3. Steady(a, f) /\ Kept(a, f)
  BY AvailableSteady
<1>7. /\ f.subscriptions = a.subscriptions
      /\ \A i \in DOMAIN a.all : i \in first => f.all[i].sub.connectionAvailable
  BY AvailableIs DEF Called
<1> HIDE DEF f
<1>4. Steady(f, half) /\ Kept(f, half) /\ Untold(f, half)
  BY <1>3, DisposeSubscriptionIs, QuietSteady DEF Steady
<1>8. \A m \in DOMAIN half.subscriptions : \E l \in DOMAIN f.subscriptions :
          m <= l /\ l <= m + 1 /\ half.subscriptions[m] = f.subscriptions[l]
  BY <1>3, DisposeShrinks DEF Steady
<1> HIDE DEF half, rest
<1>5. Steady(half, r) /\ Kept(half, r)
  BY <1>4, AvailableSteady DEF Steady
<1>9. /\ r.subscriptions = half.subscriptions
      /\ \A i \in DOMAIN half.all :
            /\ i \in rest => r.all[i].sub.connectionAvailable
            /\ i \notin rest => r.all[i].sub = half.all[i].sub
  BY <1>4, AvailableIs DEF Called, Steady
<1> HIDE DEF r
<1>6. Steady(a, r) /\ Kept(a, r)
  BY <1>3, <1>4, <1>5, SteadyOn, KeptOn
<1>10. /\ a.subscriptions \in Seq(Nat) /\ half.subscriptions \in Seq(Nat)
       /\ Listed(half) \subseteq DOMAIN half.all /\ DOMAIN half.all = DOMAIN f.all
       /\ DOMAIN f.all = DOMAIN a.all
  BY <1>3, <1>4 DEF Steady, Heard, AllClean, Streamings
(* Whoever has not been told was skipped: it has moved to the place p.     *)
<1>11. ASSUME NEW i \in Listed(r), ~r.all[i].sub.connectionAvailable
       PROVE  i = half.subscriptions[p]
  <2>1. PICK m \in DOMAIN half.subscriptions : i = half.subscriptions[m]
    BY <1>9 DEF Listed
  <2>2. i \in DOMAIN half.all
    BY <1>10, <2>1 DEF Listed
  <2>3. i \notin rest /\ r.all[i].sub = half.all[i].sub
    BY <1>9, <1>11, <2>2
  <2>4. ~f.all[i].sub.connectionAvailable
    BY <1>4, <1>10, <1>11, <2>2, <2>3 DEF Untold
  <2>5. i \notin first
    BY <1>7, <1>10, <2>2, <2>4
  <2>6. PICK l \in DOMAIN a.subscriptions :
            m <= l /\ l <= m + 1 /\ i = a.subscriptions[l]
    BY <1>7, <1>8, <2>1
  <2>7. /\ m \in Nat /\ l \in Nat /\ Len(a.subscriptions) \in Nat
        /\ 1 <= l /\ l <= Len(a.subscriptions)
    BY SMTT(30), <1>10
  <2>8. ~(p + 1 <= m /\ m <= Len(a.subscriptions))
    BY <2>1, <2>3, <2>7 DEF rest
  <2>9. ~(l <= p)
    BY <2>5, <2>6, <2>7 DEF first
  <2>10. m = p
    BY <2>6, <2>7, <2>8, <2>9
  <2> QED BY <2>1, <2>10
<1>12. OneOut(r)
  BY <1>11 DEF OneOut
<1>13. OneOut(w)
  BY <1>2 DEF OneOut, AllTold
<1> QED BY <1>1, <1>2, <1>6, <1>12, <1>13 DEF b

(* A new subscription. *)
LEMMA CreatedIs ==
    ASSUME NEW a, AllClean(a)
    PROVE  LET b == createSubscription(a)
               n == Len(a.all) + 1
           IN  /\ AllClean(b) /\ Kept(a, b) /\ b.finder = a.finder
               /\ Len(a.all) \in Nat /\ Len(b.all) = n
               /\ DOMAIN a.all = 1 .. Len(a.all) /\ DOMAIN b.all = 1 .. n
               /\ \A i \in DOMAIN a.all : b.all[i] = a.all[i]
               /\ Listed(b) \subseteq Listed(a) \cup {n}
               /\ b.all[n].sub.connectionAvailable = (a.connectionState = "CONNECTED")
               /\ b.all[n].sub.currentState # STATE_SUBSCRIBED
               /\ b.all[n].latestActivity = 0 /\ b.all[n].inactivityTimeout = 0
<1> DEFINE new == NewSubscription(FALSE)
           first == IF a.connectionState = "CONNECTED" THEN new
                    ELSE onConnectionUnavailable(new)
           t == onSubscribe(first)
           x == [sub |-> new, streamingContextId |-> a.contextId,
                 contexts |-> <<>>, latestActivity |-> 0, inactivityTimeout |-> 0]
           e == Entry(x, t)
           n == Len(a.all) + 1
           b == createSubscription(a)
<1>1. a \in Streamings /\ a.all \in Seq(Entries) /\ a.subscriptions \in Seq(Nat)
      /\ a.contextId \in Nat
  BY DEF AllClean, Streamings
<1>2. b = [a EXCEPT !.all = Append(a.all, e),
                    !.subscriptions = Append(a.subscriptions, n)]
  BY DEF createSubscription
<1>3. /\ Clean(first) /\ first.currentState # STATE_SUBSCRIBED
      /\ first.connectionAvailable = (a.connectionState = "CONNECTED")
  <2>1. /\ Clean(new) /\ new.connectionAvailable
        /\ new.currentState # STATE_SUBSCRIBED
    BY NewClean, StateNames
  <2>2. new.connectionAvailable \in BOOLEAN
    BY <2>1 DEF Clean, Unpatched, Good, SubscriptionRecords
  <2> HIDE DEF new
  <2> DEFINE gone == onConnectionUnavailable(new)
  <2>3. /\ Clean(gone) /\ ~gone.connectionAvailable
        /\ gone.currentState # STATE_SUBSCRIBED
    BY <2>1, UnavailableUnpatched DEF Clean
  <2>4. gone.connectionAvailable \in BOOLEAN
    BY <2>3 DEF Clean, Unpatched, Good, SubscriptionRecords
  <2> HIDE DEF gone
  <2> QED BY <2>1, <2>2, <2>3, <2>4 DEF gone
<1>4. x \in Entries
  <2>1. new \in SubscriptionRecords
    BY NewClean DEF Clean, Unpatched, Good
  <2> HIDE DEF new
  <2> QED BY <1>1, <2>1 DEF Entries
<1>5. x.latestActivity = 0 /\ x.inactivityTimeout = 0
  OBVIOUS
<1> HIDE DEF first, x
<1>6. /\ Clean(t) /\ t.currentState # STATE_SUBSCRIBED
      /\ t.connectionAvailable = (a.connectionState = "CONNECTED")
  BY <1>3, SubscribeMild DEF Mild, Calm
<1> HIDE DEF t
<1>7. t \in SubscriptionRecords
  BY <1>6 DEF Clean, Unpatched, Good
<1>8. /\ e \in Entries /\ e.sub = t /\ e.latestActivity = 0
      /\ e.inactivityTimeout = 0
  BY <1>4, <1>5, <1>7, EntryIs
<1> HIDE DEF e, b
<1>9. Len(a.all) \in Nat /\ DOMAIN a.all = 1 .. Len(a.all)
  BY <1>1
<1> DEFINE A == Append(a.all, e)
           q == Append(a.subscriptions, n)
<1>10. /\ A \in Seq(Entries) /\ Len(A) = n
       /\ \A i \in 1 .. Len(a.all) : A[i] = a.all[i]
       /\ A[n] = e
  BY <1>1, <1>8, AppendProperties
<1>11. DOMAIN A = 1 .. n
  BY <1>10
<1>12. n \in Nat
  BY <1>9
<1>13. q \in Seq(Nat) /\ \A k \in DOMAIN q : q[k] \in Listed(a) \cup {n}
  <2> HIDE DEF n
  <2>1. /\ q \in Seq(Nat) /\ Len(q) = Len(a.subscriptions) + 1
        /\ \A i \in 1 .. Len(a.subscriptions) : q[i] = a.subscriptions[i]
        /\ q[Len(a.subscriptions) + 1] = n
    BY <1>1, <1>12, AppendProperties
  <2>2. /\ DOMAIN q = 1 .. Len(a.subscriptions) + 1 /\ Len(a.subscriptions) \in Nat
        /\ DOMAIN a.subscriptions = 1 .. Len(a.subscriptions)
    BY <1>1, <2>1
  <2> HIDE DEF q
  <2>3. ASSUME NEW k \in DOMAIN q PROVE q[k] \in Listed(a) \cup {n}
    <3>1. k \in 1 .. Len(a.subscriptions) \/ k = Len(a.subscriptions) + 1
      BY <2>2
    <3> QED BY <2>1, <2>2, <3>1 DEF Listed
  <2> QED BY <2>1, <2>3
<1> HIDE DEF A, q
<1>14. /\ b \in Streamings /\ b.all = A /\ b.subscriptions = q
       /\ b.finder = a.finder
  <2>1. b = [a EXCEPT !.all = A, !.subscriptions = q]
    BY <1>2 DEF A, q
  <2> QED BY <1>1, <1>10, <1>13, <2>1 DEF Streamings
<1>15. Kept(a, b)
  <2>1. b = [a EXCEPT !.all = A, !.subscriptions = q]
    BY <1>2 DEF A, q
  <2> QED BY <1>1, <2>1 DEF Streamings, Kept
<1>16. Listed(b) \subseteq Listed(a) \cup {n}
  <2>1. \A i \in Listed(b) : \E k \in DOMAIN q : i = q[k]
    BY <1>14 DEF Listed
  <2> QED BY <1>13, <2>1
<1>17. \A i \in DOMAIN a.all : b.all[i] = a.all[i]
  BY <1>9, <1>10, <1>14
<1>18. b.all[n] = e /\ DOMAIN b.all = 1 .. n /\ Len(b.all) = n
  BY <1>10, <1>11, <1>14
<1>19. n \in DOMAIN b.all /\ DOMAIN a.all \subseteq DOMAIN b.all
       /\ \A i \in DOMAIN b.all : i = n \/ i \in DOMAIN a.all
  BY <1>9, <1>18
<1> HIDE DEF n
<1>20. AllClean(b)
  <2>1. \A i \in DOMAIN b.all : Clean(b.all[i].sub)
    BY <1>6, <1>8, <1>17, <1>18, <1>19 DEF AllClean
  <2> QED BY <1>14, <1>16, <1>19, <2>1 DEF AllClean
<1> QED
  BY <1>6, <1>8, <1>9, <1>14, <1>15, <1>16, <1>17, <1>18, <1>20 DEF b, n

(***************************************************************************)
(* The orphan finder watches.                                              *)
(***************************************************************************)
Clock(a, n) ==
    /\ a.finder.minCheckTime <= n + startDelay
    /\ Armed(a.finder, n)
    /\ \A i \in DOMAIN a.all :
          /\ a.all[i].latestActivity <= n
          /\ a.all[i].inactivityTimeout \in {0, InactivityTimeout}

Watched(a) ==
    a.finder.enabled =>
        \A i \in Listed(a) :
            /\ a.all[i].sub.connectionAvailable
            /\ a.all[i].sub.currentState = STATE_SUBSCRIBED
            /\ a.all[i].inactivityTimeout # 0
            => \E due \in Due(a.finder) :
                  \/ due <= a.all[i].latestActivity + a.all[i].inactivityTimeout
                  \/ due <= a.finder.minCheckTime

(* A steady call leaves the times alone.                                   *)
LEMMA SteadyClock ==
    ASSUME NEW a, NEW b, Steady(a, b), NEW n \in Nat, Clock(a, n)
    PROVE  Clock(b, n)
<1>1. /\ b.finder.minCheckTime = a.finder.minCheckTime
      /\ Armed(b.finder, n)
  BY DEF Steady, Settles, Clock
<1> QED BY <1>1 DEF Steady, Heard, Clock

(* A quiet call gives the finder nothing new to watch for.                 *)
LEMMA QuietWatched ==
    ASSUME NEW a, Listed(a) \subseteq DOMAIN a.all, NEW b, Quietly(a, b), Watched(a)
    PROVE  Watched(b)
<1> SUFFICES ASSUME b.finder.enabled, NEW i \in Listed(b),
                    b.all[i].sub.connectionAvailable,
                    b.all[i].sub.currentState = STATE_SUBSCRIBED,
                    b.all[i].inactivityTimeout # 0
             PROVE  \E due \in Due(b.finder) :
                       \/ due <= b.all[i].latestActivity + b.all[i].inactivityTimeout
                       \/ due <= b.finder.minCheckTime
  BY DEF Watched
<1>1. b.finder = a.finder
  BY DEF Quietly, Settles
<1>2. i \in Listed(a) /\ i \in DOMAIN a.all
  BY DEF Quietly
<1>3. /\ b.all[i].latestActivity = a.all[i].latestActivity
      /\ b.all[i].inactivityTimeout = a.all[i].inactivityTimeout
  BY <1>2 DEF Quietly, Heard
<1>4. /\ a.all[i].sub.connectionAvailable
      /\ a.all[i].sub.currentState = STATE_SUBSCRIBED
  BY <1>2 DEF Quietly, Quieter
<1> QED BY <1>1, <1>2, <1>3, <1>4 DEF Watched

(* Nobody to watch for. *)
LEMMA GoneWatched ==
    ASSUME NEW a, AllTold(a, FALSE)
    PROVE  Watched(a)
BY DEF AllTold, Watched

(* The time till a subscription is orphaned. *)
LEMMA TimeLeft ==
    ASSUME NEW x \in Entries, x.sub.connectionAvailable,
           x.sub.currentState = STATE_SUBSCRIBED, NEW n \in Nat
    PROVE  timeTillOrphaned(x, n) =
               IF x.inactivityTimeout = 0 THEN Infinity
               ELSE x.inactivityTimeout - (n - x.latestActivity)
BY StateNames DEF timeTillOrphaned

(* An update that is not broken off finds the orphans, which are reset, or *)
(* has a timer for the others.                                             *)
LEMMA UpdateWatched ==
    ASSUME NEW a, Half(a), NEW n \in Nat, Clock(a, n),
           n <= MaxTime,
           \A i \in Orphans(a.finder, n, Left(a, n)) : Clean(a.all[i].sub)
    PROVE  Watched(UpdateFinder(a, n, FALSE))
<1> DEFINE b == UpdateFinder(a, n, FALSE)
           left == Left(a, n)
           orphans == Orphans(a.finder, n, left)
<1>1. /\ b \in Streamings /\ Heard(a, b) /\ b.subscriptions = a.subscriptions
      /\ b.finder = update(a.finder, n, left, FALSE)
      /\ \A i \in DOMAIN a.all :
            b.all[i].sub = IF i \in orphans THEN reset(a.all[i].sub)
                           ELSE a.all[i].sub
  BY UpdateFinderIs
<1>2. /\ Lefts(left) /\ DOMAIN left = Listed(a)
      /\ \A i \in Listed(a) : left[i] = timeTillOrphaned(a.all[i], n)
  BY LeftType
<1> HIDE DEF b, left
<1> SUFFICES ASSUME b.finder.enabled, NEW i \in Listed(b),
                    b.all[i].sub.connectionAvailable,
                    b.all[i].sub.currentState = STATE_SUBSCRIBED,
                    b.all[i].inactivityTimeout # 0
             PROVE  \E due \in Due(b.finder) :
                       \/ due <= b.all[i].latestActivity + b.all[i].inactivityTimeout
                       \/ due <= b.finder.minCheckTime
  BY DEF Watched, b
<1>3. i \in Listed(a) /\ i \in DOMAIN a.all
  BY <1>1 DEF Listed, Half
<1>4. /\ b.all[i].latestActivity = a.all[i].latestActivity
      /\ b.all[i].inactivityTimeout = a.all[i].inactivityTimeout
  BY <1>1, <1>3 DEF Heard
<1>5. /\ a.finder \in Finders /\ a.all \in Seq(Entries)
  BY DEF Half, Streamings
<1>6. a.all[i] \in Entries
  BY <1>3, <1>5, ElementOfSeq, LenProperties, Zenon
<1>7. i \notin orphans
  <2> SUFFICES ASSUME i \in orphans PROVE FALSE
    OBVIOUS
  <2>1. b.all[i].sub = reset(a.all[i].sub) /\ Clean(a.all[i].sub)
    BY <1>1, <1>3 DEF left
  <2>2. reset(a.all[i].sub).connectionAvailable = a.all[i].sub.connectionAvailable
    BY <2>1, ResetMild DEF Mild, Calm
  <2> QED BY <2>1, <2>2, ResetUnsubscribes
<1>8. b.all[i].sub = a.all[i].sub
  BY <1>1, <1>3, <1>7
<1>9. left[i] = a.all[i].inactivityTimeout - (n - a.all[i].latestActivity)
  BY <1>2, <1>3, <1>4, <1>6, <1>8, TimeLeft
<1>10. /\ a.all[i].inactivityTimeout = InactivityTimeout
       /\ a.all[i].latestActivity \in Nat /\ a.all[i].latestActivity <= n
  BY <1>3, <1>4, <1>6 DEF Clock, Entries
<1>11. /\ n + left[i] = a.all[i].latestActivity + a.all[i].inactivityTimeout
       /\ n + left[i] < Infinity
  BY <1>9, <1>10, TimeAssumption, FinderAssumption, StreamingAssumption
<1>12. a.finder.minCheckTime < Infinity /\ n + startDelay < Infinity
  <2>1. a.finder.minCheckTime \in Nat
    BY <1>5 DEF Finders
  <2> QED BY <2>1, TimeAssumption, FinderAssumption, StreamingAssumption DEF Clock
<1>13. a.finder.enabled
  <2>1. b.finder.enabled = a.finder.enabled
    <3>1. FALSE \in BOOLEAN
      OBVIOUS
    <3>2. \A stopped \in BOOLEAN :
              ~stopped => update(a.finder, n, left, stopped).enabled = a.finder.enabled
      BY <1>5, UpdateType
    <3>3. ~FALSE => update(a.finder, n, left, FALSE).enabled = a.finder.enabled
      BY <3>1, <3>2, Zenon
    <3> QED BY <1>1, <3>3
  <2> QED BY <2>1
<1>14. Armed(a.finder, n)
  BY DEF Clock
<1>15. \E due \in Due(b.finder) :
          due <= n + left[i] \/ due <= b.finder.minCheckTime
  BY <1>1, <1>2, <1>3, <1>5, <1>7, <1>11, <1>12, <1>13, <1>14, OrphanAwaited
<1> QED BY <1>4, <1>11, <1>15

(* A finder that is started watches everybody.                             *)
LEMMA StartWatched ==
    ASSUME NEW a, AllClean(a), NEW n \in Nat, Clock(a, n), n <= MaxTime
    PROVE  LET b == StartFinder(a, n) IN
           /\ Watched(b) /\ Clock(b, n) /\ AllClean(b) /\ Heard(a, b) /\ Kept(a, b)
           /\ Listed(b) = Listed(a) /\ b.all = a.all
<1> DEFINE b == StartFinder(a, n)
           left == Left(a, n)
           f == [a.finder EXCEPT !.enabled = TRUE, !.minCheckTime = n + startDelay]
<1>1. Half(a) /\ a \in Streamings /\ a.finder \in Finders
  BY CleanHalf DEF AllClean, Streamings
<1>2. /\ b \in Streamings /\ b.finder = start(a.finder, n, left)
      /\ b.all = a.all /\ Kept(a, b) /\ b.subscriptions = a.subscriptions
  BY <1>1, StartFinderIs
<1>3. Listed(b) = Listed(a) /\ AllClean(b) /\ Heard(a, b)
  BY <1>2, SubsSame DEF Heard
<1>4. start(a.finder, n, left) = update(f, n, left, FALSE)
  BY DEF start
<1>5. /\ f \in Finders /\ f.enabled /\ f.minCheckTime = n + startDelay
      /\ Armed(f, n)
  <2>1. n + startDelay \in Nat
    BY FinderAssumption
  <2>2. Armed(a.finder, n)
    BY DEF Clock
  <2> QED BY <1>1, <2>1, <2>2 DEF Finders, Armed
<1> HIDE DEF f
<1>6. Clock(b, n)
  <2>1. Armed(b.finder, n)
    BY <1>1, <1>2, StaysArmed DEF Clock
  <2>2. b.finder.minCheckTime <= n + startDelay
    BY <1>1, <1>2, StartType, FinderAssumption
  <2> QED BY <1>2, <2>1, <2>2 DEF Clock
<1>7. /\ Lefts(left) /\ DOMAIN left = Listed(a)
      /\ \A i \in Listed(a) : left[i] = timeTillOrphaned(a.all[i], n)
  BY <1>1, LeftType
<1> HIDE DEF b, left
<1>8. ASSUME b.finder.enabled, NEW i \in Listed(b),
             b.all[i].sub.connectionAvailable,
             b.all[i].sub.currentState = STATE_SUBSCRIBED,
             b.all[i].inactivityTimeout # 0
      PROVE  \E due \in Due(b.finder) :
                \/ due <= b.all[i].latestActivity + b.all[i].inactivityTimeout
                \/ due <= b.finder.minCheckTime
  <2>1. i \in Listed(a) /\ i \in DOMAIN a.all /\ b.all[i] = a.all[i]
    BY <1>2, <1>3, <1>8 DEF AllClean
  <2>2. a.all[i] \in Entries
    <3>1. a.all \in Seq(Entries)
      BY <1>1 DEF Streamings
    <3> QED BY <2>1, <3>1, ElementOfSeq, LenProperties, Zenon
  <2>3. left[i] = a.all[i].inactivityTimeout - (n - a.all[i].latestActivity)
    BY <1>7, <1>8, <2>1, <2>2, TimeLeft
  <2>4. /\ a.all[i].inactivityTimeout = InactivityTimeout
        /\ a.all[i].latestActivity \in Nat /\ a.all[i].latestActivity <= n
    BY <1>8, <2>1, <2>2 DEF Clock, Entries
  <2>5. /\ n + left[i] = a.all[i].latestActivity + a.all[i].inactivityTimeout
        /\ n + left[i] < Infinity
    BY <2>3, <2>4, TimeAssumption, FinderAssumption, StreamingAssumption
  <2>6. f.minCheckTime < Infinity /\ n + startDelay < Infinity
    BY <1>5, TimeAssumption, FinderAssumption, StreamingAssumption
  <2>7. i \notin Orphans(f, n, left)
    <3>1. f.minCheckTime \in Nat /\ ~(f.minCheckTime <= n)
      BY <1>5, TimeAssumption, FinderAssumption
    <3> QED BY <3>1 DEF Orphans
  <2>8. \E due \in Due(b.finder) :
            due <= n + left[i] \/ due <= b.finder.minCheckTime
    BY <1>2, <1>4, <1>5, <1>7, <2>1, <2>5, <2>6, <2>7, OrphanAwaited DEF b
  <2> QED BY <2>1, <2>5, <2>8
<1>9. Watched(b)
  BY <1>8 DEF Watched
<1> QED BY <1>2, <1>3, <1>6, <1>9 DEF b

(* An update of the finder, when all but a subscription that is no orphan  *)
(* are clean.                                                              *)
LEMMA UpdateClean ==
    ASSUME NEW a, Half(a), NEW n \in Nat, n <= MaxTime, Clock(a, n),
           NEW breaks \in BOOLEAN,
           \A i \in DOMAIN a.all :
               Clean(a.all[i].sub) \/ i \notin Orphans(a.finder, n, Left(a, n))
    PROVE  LET b == UpdateFinder(a, n, breaks) IN
           /\ Half(b) /\ Kept(Broken(a, breaks), b) /\ Heard(a, b)
           /\ b.subscriptions = a.subscriptions /\ Listed(b) = Listed(a)
           /\ \A i \in DOMAIN a.all :
                 /\ Clean(a.all[i].sub) => Clean(b.all[i].sub)
                 /\ i \notin Orphans(a.finder, n, Left(a, n)) =>
                        /\ b.all[i].sub.currentState = a.all[i].sub.currentState
                        /\ b.all[i].sub.inFlight = a.all[i].sub.inFlight
           /\ breaks => AllTold(b, FALSE)
           /\ ~breaks => Untold(a, b)
           /\ Clock(b, n) /\ Watched(b)
<1> DEFINE b == UpdateFinder(a, n, breaks)
           left == Left(a, n)
           orphans == Orphans(a.finder, n, left)
           told == [i \in DOMAIN a.all |->
                       IF breaks /\ i \in Listed(a)
                       THEN onConnectionUnavailable(a.all[i].sub)
                       ELSE a.all[i].sub]
<1>1. /\ b \in Streamings /\ Kept(Broken(a, breaks), b) /\ Heard(a, b)
      /\ b.subscriptions = a.subscriptions
      /\ b.finder = update(a.finder, n, left, breaks)
      /\ \A i \in DOMAIN a.all :
            b.all[i].sub = IF i \in orphans THEN reset(told[i]) ELSE told[i]
  BY UpdateFinderIs
<1>2. a \in Streamings /\ a.finder \in Finders
      /\ \A i \in DOMAIN a.all : Unpatched(a.all[i].sub)
  BY DEF Half, Streamings
<1>3. \A i \in DOMAIN a.all :
          told[i] = IF breaks /\ i \in Listed(a)
                    THEN onConnectionUnavailable(a.all[i].sub)
                    ELSE a.all[i].sub
  OBVIOUS
<1> HIDE DEF b, told, orphans
<1>4. ASSUME NEW i \in DOMAIN a.all
      PROVE  /\ Unpatched(told[i])
             /\ Clean(a.all[i].sub) => Clean(told[i])
             /\ told[i].currentState = a.all[i].sub.currentState
             /\ told[i].inFlight = a.all[i].sub.inFlight
             /\ told[i].connectionAvailable \in BOOLEAN
             /\ breaks /\ i \in Listed(a) => ~told[i].connectionAvailable
             /\ ~breaks => told[i].connectionAvailable
                               = a.all[i].sub.connectionAvailable
  <2>1. Unpatched(told[i])
    BY <1>2, <1>3, UnavailableUnpatched DEF Clean
  <2>2. told[i].connectionAvailable \in BOOLEAN
    BY <2>1 DEF Unpatched, Good, SubscriptionRecords
  <2> QED BY <1>2, <1>3, <2>1, <2>2, UnavailableUnpatched
<1>5. ASSUME NEW i \in DOMAIN a.all
      PROVE  /\ Unpatched(b.all[i].sub)
             /\ Clean(a.all[i].sub) => Clean(b.all[i].sub)
             /\ b.all[i].sub.connectionAvailable = told[i].connectionAvailable
             /\ i \notin orphans =>
                    /\ b.all[i].sub.currentState = a.all[i].sub.currentState
                    /\ b.all[i].sub.inFlight = a.all[i].sub.inFlight
  <2>1. b.all[i].sub = IF i \in orphans THEN reset(told[i]) ELSE told[i]
    BY <1>1
  <2>2. CASE i \notin orphans
    BY <1>4, <2>1, <2>2
  <2>3. CASE i \in orphans
    <3>1. Unpatched(reset(told[i])) /\ Calm(told[i], reset(told[i]))
          /\ (Served(told[i]) => Served(reset(told[i])))
      BY <1>4, ResetUnpatched
    <3> QED BY <1>4, <2>1, <2>3, <3>1 DEF Clean, Calm
  <2> QED BY <2>2, <2>3
<1>6. Listed(b) = Listed(a) /\ DOMAIN b.all = DOMAIN a.all
  BY <1>1 DEF Listed, Heard
<1>7. Half(b)
  BY <1>1, <1>5, <1>6 DEF Half
<1>8. /\ breaks => AllTold(b, FALSE)
      /\ ~breaks => Untold(a, b)
  <2>1. ASSUME breaks, NEW i \in Listed(b) PROVE b.all[i].sub.connectionAvailable = FALSE
    BY <1>4, <1>5, <1>6, <2>1 DEF Half
  <2>2. ASSUME ~breaks, NEW i \in DOMAIN a.all
        PROVE  b.all[i].sub.connectionAvailable = a.all[i].sub.connectionAvailable
    BY <1>4, <1>5, <2>2
  <2> QED BY <2>1, <2>2 DEF AllTold, Untold
<1>9. Clock(b, n)
  <2>1. b.finder.minCheckTime \in {a.finder.minCheckTime, n + startDelay}
    BY <1>1, <1>2, UpdateType
  <2>2. n + startDelay \in Nat /\ b.finder.minCheckTime <= n + startDelay
    BY <2>1, FinderAssumption DEF Clock
  <2>3. Armed(b.finder, n)
    BY <1>1, <1>2, StaysArmed DEF Clock
  <2> QED BY <1>1, <2>2, <2>3 DEF Clock, Heard
<1>10. Watched(b)
  <2>1. CASE breaks
    BY <1>8, <2>1, GoneWatched
  <2>2. CASE ~breaks
    <3>1. b = UpdateFinder(a, n, FALSE)
      BY <2>2 DEF b
    <3>2. \A i \in Orphans(a.finder, n, Left(a, n)) : Clean(a.all[i].sub)
      <4>1. Orphans(a.finder, n, Left(a, n)) \subseteq DOMAIN a.all
        BY DEF Orphans, Left, Half
      <4> QED BY <4>1
    <3> QED BY <3>1, <3>2, UpdateWatched
  <2> QED BY <2>1, <2>2
<1> QED BY <1>1, <1>5, <1>6, <1>7, <1>8, <1>9, <1>10 DEF b, orphans

(* It does so whatever the subscriptions are. *)
LEMMA BrokenKept ==
    ASSUME NEW a \in Streamings, NEW t \in Streamings, Kept(a, t),
           NEW breaks \in BOOLEAN
    PROVE  Kept(Broken(a, breaks), Broken(t, breaks))
<1>1. CASE ~breaks
  BY <1>1 DEF Broken
<1>2. CASE breaks
  <2> DEFINE k == Contract!Tell(a.connection, "RECONNECTING")
             x == [a EXCEPT !.connectionState = "RECONNECTING", !.connection = k]
             y == [t EXCEPT !.connectionState = "RECONNECTING", !.connection = k]
  <2>1. Broken(a, breaks) = x /\ Broken(t, breaks) = y
    BY <1>2 DEF Broken, Kept
  <2> HIDE DEF k
  <2>2. Kept(x, y)
    <3> USE DEF Streamings
    <3>1. y.connectionState = x.connectionState /\ y.connection = x.connection
      OBVIOUS
    <3>2. /\ y.reconnecting = x.reconnecting /\ y.isReset = x.isReset
          /\ y.disposed = x.disposed /\ y.contextId = x.contextId
          /\ y.reconnectTimer = x.reconnectTimer /\ y.lostTimers = x.lostTimers
          /\ y.tokenHandlers = x.tokenHandlers /\ y.former = x.former
          /\ y.replaced = x.replaced
      BY DEF Kept
    <3> HIDE DEF x, y
    <3> QED BY <3>1, <3>2 DEF Kept
  <2> QED BY <2>1, <2>2
<1> QED BY <1>1, <1>2

(* The timer of the orphan finder. *)
LEMMA OrphanTimeoutIs ==
    ASSUME NEW a, AllClean(a), NEW n \in Nat, n <= MaxTime, Clock(a, n),
           NEW due \in Due(a.finder), due <= n, NEW breaks \in BOOLEAN
    PROVE  LET b == UpdateFinder([a EXCEPT !.finder = TimerFires(@, due)], n, breaks) IN
           /\ AllClean(b) /\ Kept(Broken(a, breaks), b) /\ Heard(a, b)
           /\ Listed(b) = Listed(a)
           /\ breaks => AllTold(b, FALSE)
           /\ ~breaks => Untold(a, b)
           /\ Clock(b, n) /\ Watched(b)
<1> DEFINE f == TimerFires(a.finder, due)
           t == [a EXCEPT !.finder = f]
           b == UpdateFinder(t, n, breaks)
<1>1. a \in Streamings /\ a.finder \in Finders
  BY DEF AllClean, Streamings
<1>2. /\ f \in Finders /\ f.minCheckTime = a.finder.minCheckTime
      /\ Armed(f, n)
  BY <1>1, FiresType, StaysArmed DEF Clock
<1>3. t = [a EXCEPT !.finder = TimerFires(@, due)]
  OBVIOUS
<1> HIDE DEF f
<1>4. /\ t \in Streamings /\ t.finder = f /\ t.all = a.all
      /\ Kept(a, t) /\ t.subscriptions = a.subscriptions
  BY <1>1, <1>2, FinderChanged
<1>6. Kept(Broken(a, breaks), Broken(t, breaks))
  BY <1>1, <1>4, BrokenKept
<1> HIDE DEF t
<1>7. AllClean(t) /\ Half(t) /\ Listed(t) = Listed(a)
  BY <1>4, SubsSame, CleanHalf
<1>8. Clock(t, n)
  BY <1>2, <1>4 DEF Clock
<1>9. \A i \in DOMAIN t.all : Clean(t.all[i].sub)
  BY <1>7 DEF AllClean
<1>10. /\ Half(b) /\ Kept(Broken(t, breaks), b) /\ Heard(t, b)
       /\ Listed(b) = Listed(t)
       /\ \A i \in DOMAIN t.all : Clean(t.all[i].sub) => Clean(b.all[i].sub)
       /\ breaks => AllTold(b, FALSE)
       /\ ~breaks => Untold(t, b)
       /\ Clock(b, n) /\ Watched(b)
  BY <1>7, <1>8, <1>9, UpdateClean
<1> HIDE DEF b
<1>11. AllClean(b) /\ Heard(a, b)
  BY <1>4, <1>9, <1>10 DEF AllClean, Half, Heard
<1>12. Kept(Broken(a, breaks), b)
  BY <1>6, <1>10, KeptOn
<1>13. ~breaks => Untold(a, b)
  BY <1>4, <1>10 DEF Untold
<1> QED BY <1>3, <1>7, <1>10, <1>11, <1>12, <1>13 DEF b

(* A subscription has been made, and its activity counts from now on. *)
Made(a, i, n) ==
    [a EXCEPT !.all[i].sub.currentState = STATE_SUBSCRIBED,
              !.all[i].inactivityTimeout = InactivityTimeout,
              !.all[i].latestActivity = n]

(* Only that entry changes.                                                *)
LEMMA MadeIs ==
    ASSUME NEW a \in Streamings, NEW i \in DOMAIN a.all, NEW n \in Nat,
           NEW u \in SubscriptionRecords,
           u = [a.all[i].sub EXCEPT !.currentState = STATE_SUBSCRIBED]
    PROVE  LET b == Made(a, i, n) IN
           /\ b \in Streamings /\ Kept(a, b) /\ b.subscriptions = a.subscriptions
           /\ b.finder = a.finder /\ DOMAIN b.all = DOMAIN a.all
           /\ b.all[i].sub = u
           /\ b.all[i].inactivityTimeout = InactivityTimeout
           /\ b.all[i].latestActivity = n
           /\ \A j \in DOMAIN a.all : j # i => b.all[j] = a.all[j]
<1> DEFINE e == [a.all[i] EXCEPT !.sub = u,
                                 !.inactivityTimeout = InactivityTimeout,
                                 !.latestActivity = n]
           g == [j \in DOMAIN a.all |-> IF j = i THEN e ELSE a.all[j]]
           b == Made(a, i, n)
<1>1. \A j \in DOMAIN a.all : a.all[j] \in Entries
  <2>1. a.all \in Seq(Entries)
    BY DEF Streamings
  <2> QED BY <2>1, ElementOfSeq, LenProperties, Zenon
<1>2. /\ e \in Entries /\ e.sub = u /\ e.inactivityTimeout = InactivityTimeout
      /\ e.latestActivity = n
  BY <1>1, TimeAssumption DEF Entries
<1>3. e = [a.all[i] EXCEPT !.sub.currentState = STATE_SUBSCRIBED,
                           !.inactivityTimeout = InactivityTimeout,
                           !.latestActivity = n]
  BY <1>1 DEF Entries
<1>4. a.all = [j \in DOMAIN a.all |-> a.all[j]]
  <2>1. a.all \in Seq(Entries)
    BY DEF Streamings
  <2> QED BY <2>1
<1>5. b = [a EXCEPT !.all = g]
  <2>1. b = [a EXCEPT !.all = [a.all EXCEPT ![i] =
                [a.all[i] EXCEPT !.sub.currentState = STATE_SUBSCRIBED,
                                 !.inactivityTimeout = InactivityTimeout,
                                 !.latestActivity = n]]]
    BY DEF Made, Streamings
  <2>2. b = [a EXCEPT !.all = [a.all EXCEPT ![i] = e]]
    BY <1>3, <2>1
  <2> HIDE DEF e, b
  <2>3. [a.all EXCEPT ![i] = e] = g
    BY <1>4
  <2> HIDE DEF g
  <2> QED BY <2>2, <2>3
<1> HIDE DEF b, e
<1>6. g \in [DOMAIN a.all -> Entries]
  BY <1>1, <1>2
<1>7. g[i] = e /\ \A j \in DOMAIN a.all : j # i => g[j] = a.all[j]
  OBVIOUS
<1> HIDE DEF g
<1>8. Replaced(a, b, g)
  BY <1>5 DEF Replaced
<1>9. /\ b \in Streamings /\ b.all = g /\ DOMAIN g = DOMAIN a.all
      /\ Kept(a, b) /\ b.subscriptions = a.subscriptions
      /\ b.finder = a.finder
  BY <1>6, <1>8, AllChanged
<1> QED BY <1>2, <1>7, <1>9 DEF b

(* The answer to a POST that streaming no longer waits for. *)
LEMMA ReceivedQuiet ==
    ASSUME NEW a, AllClean(a), NEW i \in DOMAIN a.all,
           NEW r \in DOMAIN a.all[i].sub.inFlight,
           a.all[i].sub.inFlight[r]["post"] > 0, r # referenceId(a.all[i].sub)
    PROVE  LET b == ReceiveAt(a, i, r) IN
           Quietly(a, b) /\ Untold(a, b) /\ Kept(a, b)
<1> DEFINE b == ReceiveAt(a, i, r)
           u == Count(a.all[i].sub, r, "post", -1)
<1>1. /\ Called(a, b) /\ b.all[i].sub = u
      /\ \A j \in DOMAIN a.all : j # i => b.all[j].sub = a.all[j].sub
  BY ReceivedIs
<1>2. Mild(a.all[i].sub, u)
  <2>1. Clean(a.all[i].sub) /\ "post" \in RequestKinds
    BY DEF AllClean, RequestKinds
  <2> QED BY <2>1, ReceivedMild
<1> HIDE DEF b, u
<1>3. \A j \in DOMAIN a.all : Mild(a.all[j].sub, b.all[j].sub)
  BY <1>1, <1>2 DEF AllClean, Mild, Calm
<1>4. Gentle(a, b)
  BY <1>1, <1>3 DEF Gentle
<1> QED BY <1>4, GentleQuiet DEF b

(* The answer to a POST: the finder watches the subscription from now on,  *)
(* and when the connection breaks meanwhile everybody is told.             *)
LEMMA SubscribeSucceededIs ==
    ASSUME NEW a, AllClean(a), NEW n \in Nat, n <= MaxTime, Clock(a, n),
           NEW i \in DOMAIN a.all,
           NEW r \in DOMAIN a.all[i].sub.inFlight,
           a.all[i].sub.inFlight[r]["post"] > 0,
           NEW breaks \in BOOLEAN, breaks => r = referenceId(a.all[i].sub)
    PROVE  LET b == SubscribeSucceeded(a, i, r, n, breaks) IN
           /\ AllClean(b) /\ Kept(Broken(a, breaks), b)
           /\ DOMAIN b.all = DOMAIN a.all /\ Listed(b) = Listed(a)
           /\ breaks => AllTold(b, FALSE)
           /\ ~breaks => Untold(a, b)
           /\ Clock(b, n)
           /\ Watched(a) => Watched(b)
<1> DEFINE v == ReceiveAt(a, i, r)
           m == Made(v, i, n)
           w == UpdateFinder(m, n, breaks)
           z == SucceedAt(w, i, r)
           b == SubscribeSucceeded(a, i, r, n, breaks)
           x == Count(a.all[i].sub, r, "post", -1)
           u == [x EXCEPT !.currentState = STATE_SUBSCRIBED]
<1>1. b = IF r # referenceId(a.all[i].sub) THEN v ELSE z
  BY DEF SubscribeSucceeded, ReceiveAt, Made, SucceedAt
<1>2. a \in Streamings /\ Listed(a) \subseteq DOMAIN a.all
      /\ \A j \in DOMAIN a.all : Clean(a.all[j].sub)
  BY DEF AllClean
<1>3. CASE r # referenceId(a.all[i].sub)
  <2>1. ~breaks /\ b = v
    BY <1>1, <1>3
  <2>2. Quietly(a, b) /\ Untold(a, b) /\ Kept(a, b)
    BY <1>3, <2>1, ReceivedQuiet
  <2> HIDE DEF b
  <2>3. AllClean(b) /\ DOMAIN b.all = DOMAIN a.all
    BY <2>2 DEF Quietly, Heard
  <2>4. Listed(b) = Listed(a)
    BY <2>1, ReceivedIs, CalledListed
  <2>5. Clock(b, n) /\ (Watched(a) => Watched(b))
    BY <1>2, <2>2, QuietSteady, SteadyClock, QuietWatched
  <2>6. Broken(a, breaks) = a
    BY <2>1 DEF Broken
  <2> QED BY <2>1, <2>2, <2>3, <2>4, <2>5, <2>6 DEF b
<1>4. CASE r = referenceId(a.all[i].sub)
  <2>1. /\ Called(a, v) /\ v.all[i].sub = x
        /\ \A j \in DOMAIN a.all : j # i => v.all[j].sub = a.all[j].sub
    BY ReceivedIs
  <2>2. /\ Answered(x, r) /\ referenceId(x) = referenceId(a.all[i].sub)
        /\ x.queue = a.all[i].sub.queue
        /\ x.becameReady = a.all[i].sub.becameReady
        /\ x.connectionAvailable = a.all[i].sub.connectionAvailable
    <3>1. Clean(a.all[i].sub) /\ "post" \in RequestKinds
      BY <1>2 DEF RequestKinds
    <3> QED BY <3>1, ReceivedMild
  <2> HIDE DEF v, x
  <2>3. /\ x \in SubscriptionRecords /\ ~Holds(x.queue, ACTION_MODIFY_PATCH)
        /\ x.becameReady => ~TagQueued(x)
        /\ Len(x.inFlight) > 0
    BY <1>2, <2>2 DEF Clean, Unpatched, Answered
  <2>4. /\ Unpatched(u) /\ u.currentState = STATE_SUBSCRIBED
        /\ u.connectionAvailable = x.connectionAvailable
        /\ u.inFlight = x.inFlight
    BY <2>3, IdleUnpatched
  <2>5. u \in SubscriptionRecords /\ u = [v.all[i].sub EXCEPT !.currentState = STATE_SUBSCRIBED]
    BY <2>1, <2>4 DEF Unpatched, Good
  <2> HIDE DEF u
  <2>6. v \in Streamings /\ DOMAIN v.all = DOMAIN a.all /\ i \in DOMAIN v.all
    BY <2>1 DEF Called, Heard
  <2>7. /\ m \in Streamings /\ Kept(v, m) /\ m.subscriptions = v.subscriptions
        /\ m.finder = v.finder /\ DOMAIN m.all = DOMAIN v.all
        /\ m.all[i].sub = u
        /\ m.all[i].inactivityTimeout = InactivityTimeout
        /\ m.all[i].latestActivity = n
        /\ \A j \in DOMAIN v.all : j # i => m.all[j] = v.all[j]
    BY <2>5, <2>6, MadeIs
  <2> HIDE DEF m
  <2>8. /\ Kept(a, m) /\ Listed(m) = Listed(a) /\ m.finder = a.finder
        /\ DOMAIN m.all = DOMAIN a.all
    BY <2>1, <2>6, <2>7, KeptOn DEF Called, Listed
  <2>9. \A j \in DOMAIN a.all : j # i =>
            /\ m.all[j].sub = a.all[j].sub
            /\ m.all[j].latestActivity = a.all[j].latestActivity
            /\ m.all[j].inactivityTimeout = a.all[j].inactivityTimeout
    BY <2>1, <2>6, <2>7 DEF Called, Heard
  <2>10. Half(m)
    BY <1>2, <2>4, <2>7, <2>8, <2>9 DEF Half, Clean
  <2>11. Clock(m, n)
    BY <2>7, <2>8, <2>9 DEF Clock
  <2>12. i \notin Orphans(m.finder, n, Left(m, n))
    <3>1. m.all[i] \in Entries
      <4>1. m.all \in Seq(Entries)
        BY <2>7 DEF Streamings
      <4> QED BY <2>6, <2>7, <4>1, ElementOfSeq, LenProperties, Zenon
    <3>2. timeTillOrphaned(m.all[i], n) > 0
      <4>1. Infinity > 0 /\ Infinity \in Nat
        BY TimeAssumption, FinderAssumption, StreamingAssumption
      <4>2. n - m.all[i].latestActivity = 0 /\ InactivityTimeout \in Nat
        BY <2>7, TimeAssumption
      <4> QED BY <2>7, <4>1, <4>2 DEF timeTillOrphaned
    <3>3. Orphans(m.finder, n, Left(m, n)) \subseteq
              {j \in DOMAIN Left(m, n) : Left(m, n)[j] <= 0}
      BY DEF Orphans
    <3>4. ASSUME i \in Listed(m) PROVE Left(m, n)[i] = timeTillOrphaned(m.all[i], n)
      BY <2>10, <3>4, LeftType
    <3>5. DOMAIN Left(m, n) = Listed(m)
      BY DEF Left
    <3>6. Left(m, n)[i] <= 0 /\ i \in Listed(m) => FALSE
      <4>1. timeTillOrphaned(m.all[i], n) \in Int
        BY <3>1, FinderAssumption DEF timeTillOrphaned, Entries
      <4> QED BY <3>2, <3>4, <4>1
    <3> QED BY <3>3, <3>5, <3>6
  <2>13. /\ Half(w) /\ Kept(Broken(m, breaks), w) /\ Heard(m, w)
         /\ Listed(w) = Listed(m)
         /\ \A j \in DOMAIN m.all : Clean(m.all[j].sub) => Clean(w.all[j].sub)
         /\ w.all[i].sub.currentState = m.all[i].sub.currentState
         /\ w.all[i].sub.inFlight = m.all[i].sub.inFlight
         /\ breaks => AllTold(w, FALSE)
         /\ ~breaks => Untold(m, w)
         /\ Clock(w, n) /\ Watched(w)
    <3>1. \A j \in DOMAIN m.all :
              Clean(m.all[j].sub) \/ j \notin Orphans(m.finder, n, Left(m, n))
      BY <1>2, <2>8, <2>9, <2>12
    <3>2. i \in DOMAIN m.all
      BY <2>8
    <3> QED BY <2>10, <2>11, <2>12, <3>1, <3>2, UpdateClean
  <2> HIDE DEF w
  <2>14. /\ w.all[i].sub.currentState = STATE_SUBSCRIBED
         /\ r = referenceId(w.all[i].sub)
         /\ i \in DOMAIN w.all /\ DOMAIN w.all = DOMAIN a.all
         /\ \A j \in DOMAIN w.all : j # i => Clean(w.all[j].sub)
    BY <1>2, <1>4, <2>2, <2>4, <2>7, <2>8, <2>9, <2>13 DEF referenceId, Heard
  <2>15. /\ Called(w, z) /\ AllClean(z)
         /\ z.all[i].sub.connectionAvailable = w.all[i].sub.connectionAvailable
         /\ \A j \in DOMAIN w.all : j # i => z.all[j].sub = w.all[j].sub
    BY SMTT(30), <2>13, <2>14, SuccessIs
  <2> HIDE DEF z
  <2>16. Quietly(w, z) /\ Untold(w, z) /\ Listed(z) = Listed(w)
         /\ DOMAIN z.all = DOMAIN w.all
    <3>1. /\ Listed(z) = Listed(w) /\ DOMAIN z.all = DOMAIN w.all
          /\ Heard(w, z) /\ z.finder = w.finder
      BY <2>15, CalledListed DEF Called
    <3>2. \A j \in DOMAIN w.all :
             /\ Quieter(w.all[j].sub, z.all[j].sub)
             /\ z.all[j].sub.connectionAvailable = w.all[j].sub.connectionAvailable
      BY <2>14, <2>15 DEF Quieter
    <3> QED BY <2>15, <3>1, <3>2 DEF Quietly, Untold, Settles
  <2>17. Clock(z, n) /\ Watched(z)
    BY <2>13, <2>16, QuietSteady, SteadyClock, QuietWatched DEF Half
  <2>18. Kept(Broken(a, breaks), z)
    <3>1. Kept(Broken(a, breaks), Broken(m, breaks))
      BY <1>2, <2>7, <2>8, BrokenKept
    <3> QED BY <2>13, <2>15, <3>1, KeptOn DEF Called
  <2>19. ASSUME breaks PROVE AllTold(z, FALSE)
    BY <2>13, <2>16, <2>19 DEF AllTold, Untold, Half
  <2>20. ASSUME ~breaks PROVE Untold(a, z)
    <3>1. Untold(m, w) /\ Untold(w, z)
      BY <2>13, <2>16, <2>20
    <3>2. Untold(a, m)
      BY <2>2, <2>4, <2>7, <2>9 DEF Untold
    <3> QED BY <2>8, <2>14, <3>1, <3>2 DEF Untold
  <2>21. b = z
    BY <1>1, <1>4
  <2> HIDE DEF b
  <2> QED BY <2>8, <2>13, <2>14, <2>15, <2>16, <2>17, <2>18, <2>19, <2>20, <2>21 DEF b
<1> QED BY <1>3, <1>4

(***************************************************************************)
(* Starting a connection.                                                  *)
(***************************************************************************)
KeptState(a, b) ==
    /\ b.connectionState = a.connectionState
    /\ b.isReset = a.isReset /\ b.disposed = a.disposed
KeptRetry(a, b) ==
    /\ b.reconnecting = a.reconnecting
    /\ b.reconnectTimer = a.reconnectTimer /\ b.lostTimers = a.lostTimers
KeptLink(a, b) ==
    /\ b.contextId = a.contextId
    /\ b.connection = a.connection
    /\ b.former = a.former /\ b.replaced = a.replaced

(* The connection is started, with a new context. *)
Begins(a, b) ==
    /\ b.contextId = a.contextId + 1
    /\ b.connection = IF a.connection.told = "exhausted" THEN a.connection
                      ELSE Contract!Start(a.connection)
    /\ b.former = a.former /\ b.replaced = a.replaced

Connects(a, b, isReconnection, expired) ==
    /\ KeptState(a, b) /\ KeptRetry(a, b)
    /\ IF a.connectionState \notin {"DISCONNECTED", "INITIALIZING"}
       THEN KeptLink(a, b) /\ b.tokenHandlers = a.tokenHandlers
       ELSE IF expired
       THEN KeptLink(a, b) /\ b.tokenHandlers = Append(a.tokenHandlers, isReconnection)
       ELSE Begins(a, b) /\ b.tokenHandlers = a.tokenHandlers

(* The three parts, and the tokens, make the whole.                        *)
LEMMA KeptParts ==
    ASSUME NEW a, NEW b
    PROVE  Kept(a, b) <=> /\ KeptState(a, b) /\ KeptRetry(a, b) /\ KeptLink(a, b)
                          /\ b.tokenHandlers = a.tokenHandlers
BY DEF Kept, KeptState, KeptRetry, KeptLink

(* A new context changes nothing else of the connection.                   *)
LEMMA NewContextIs ==
    ASSUME NEW a, AllClean(a)
    PROVE  LET b == setNewContextId(a) IN
           /\ Quietly(a, b) /\ Untold(a, b) /\ Listed(b) = Listed(a)
           /\ KeptState(a, b) /\ KeptRetry(a, b)
           /\ b.tokenHandlers = a.tokenHandlers
           /\ b.contextId = a.contextId + 1 /\ b.connection = a.connection
           /\ b.former = a.former /\ b.replaced = a.replaced
           /\ b.finder = a.finder
           /\ DOMAIN b.all = DOMAIN a.all
<1> DEFINE n == a.contextId + 1
           e(i) == [a.all[i] EXCEPT !.streamingContextId = n]
           g == [i \in DOMAIN a.all |-> IF i \in Listed(a) THEN e(i) ELSE a.all[i]]
           c == [a EXCEPT !.contextId = n]
           b == setNewContextId(a)
<1>1. a \in Streamings /\ n \in Nat
  BY DEF AllClean, Streamings
<1>2. \A i \in DOMAIN a.all : a.all[i] \in Entries
  <2>1. a.all \in Seq(Entries)
    BY <1>1 DEF Streamings
  <2> QED BY <2>1, ElementOfSeq, LenProperties, Zenon
<1>3. Replaced(c, b, g)
  BY DEF setNewContextId, Replaced
<1> HIDE DEF b, n
<1>4. /\ c \in Streamings /\ c.all = a.all /\ c.subscriptions = a.subscriptions
      /\ c.finder = a.finder /\ c.contextId = n
  BY <1>1 DEF Streamings
<1>5. /\ KeptState(a, c) /\ KeptRetry(a, c)
      /\ c.tokenHandlers = a.tokenHandlers /\ c.connection = a.connection
      /\ c.former = a.former /\ c.replaced = a.replaced
  BY <1>1 DEF Streamings, KeptState, KeptRetry
<1> HIDE DEF c
<1>6. ASSUME NEW i \in DOMAIN a.all
      PROVE  /\ g[i] \in Entries /\ g[i].sub = a.all[i].sub
             /\ g[i].latestActivity = a.all[i].latestActivity
             /\ g[i].inactivityTimeout = a.all[i].inactivityTimeout
  <2>1. /\ e(i) \in Entries /\ e(i).sub = a.all[i].sub
        /\ e(i).latestActivity = a.all[i].latestActivity
        /\ e(i).inactivityTimeout = a.all[i].inactivityTimeout
    BY <1>1, <1>2 DEF Entries
  <2> HIDE DEF e
  <2> QED BY <1>2, <2>1
<1>7. g \in [DOMAIN a.all -> Entries]
  <2> HIDE DEF e
  <2> QED BY <1>6
<1> HIDE DEF g
<1>8. /\ b \in Streamings /\ b.all = g /\ DOMAIN g = DOMAIN a.all
      /\ Kept(c, b) /\ b.subscriptions = a.subscriptions
      /\ b.finder = a.finder
  BY <1>3, <1>4, <1>7, AllChanged
<1>9. Listed(b) = Listed(a) /\ Heard(a, b) /\ Untold(a, b)
  BY <1>6, <1>8 DEF Listed, Heard, Untold
<1>10. AllClean(b) /\ \A i \in DOMAIN a.all : Quieter(a.all[i].sub, b.all[i].sub)
  BY <1>6, <1>8, <1>9 DEF AllClean, Quieter
<1>11. Quietly(a, b)
  BY <1>8, <1>9, <1>10 DEF Quietly, Settles
<1>12. /\ KeptState(c, b) /\ KeptRetry(c, b) /\ KeptLink(c, b)
       /\ b.tokenHandlers = c.tokenHandlers
  BY <1>8, KeptParts
<1>13. /\ KeptState(a, b) /\ KeptRetry(a, b)
       /\ b.tokenHandlers = a.tokenHandlers
       /\ b.contextId = n /\ b.connection = a.connection
       /\ b.former = a.former /\ b.replaced = a.replaced
  BY <1>4, <1>5, <1>12 DEF KeptState, KeptRetry, KeptLink
<1> QED BY <1>8, <1>9, <1>11, <1>13 DEF b, n

(* What is changed of a streaming that does not concern its subscriptions. *)
LEMMA LinkQuiet ==
    ASSUME NEW a, AllClean(a), NEW b \in Streamings, b.all = a.all,
           b.subscriptions = a.subscriptions, b.finder = a.finder
    PROVE  Quietly(a, b) /\ Untold(a, b) /\ Listed(b) = Listed(a) /\ AllClean(b)
BY SubsQuiet, SubsSame DEF Settles

(* A start is quiet.                                                       *)
LEMMA StartConnectionIs ==
    ASSUME NEW a, AllClean(a)
    PROVE  LET b == startConnection(a) IN
           /\ Quietly(a, b) /\ Untold(a, b) /\ Listed(b) = Listed(a)
           /\ KeptState(a, b) /\ KeptRetry(a, b)
           /\ b.tokenHandlers = a.tokenHandlers
           /\ Begins(a, b)
<1> DEFINE t == setNewContextId(a)
           k == Contract!Start(a.connection)
           u == [t EXCEPT !.connection = k]
           b == startConnection(a)
<1>1. /\ Quietly(a, t) /\ Untold(a, t) /\ Listed(t) = Listed(a)
      /\ KeptState(a, t) /\ KeptRetry(a, t)
      /\ t.tokenHandlers = a.tokenHandlers
      /\ t.contextId = a.contextId + 1 /\ t.connection = a.connection
      /\ t.former = a.former /\ t.replaced = a.replaced
  BY NewContextIs
<1>2. b = IF a.connection.told = "exhausted" THEN t ELSE u
  BY <1>1 DEF startConnection
<1>3. a.connection \in Contract!Promises
  BY DEF AllClean, Streamings
<1>4. k \in Contract!Promises
  BY <1>3, AskType
<1> HIDE DEF b, t, k
<1>5. t \in Streamings /\ AllClean(t)
  BY <1>1 DEF Quietly, AllClean
<1>6. /\ u \in Streamings /\ u.all = t.all /\ u.subscriptions = t.subscriptions
      /\ u.finder = t.finder /\ u.connection = k
      /\ KeptState(t, u) /\ KeptRetry(t, u) /\ u.tokenHandlers = t.tokenHandlers
      /\ u.contextId = t.contextId /\ u.former = t.former
      /\ u.replaced = t.replaced
  BY <1>4, <1>5 DEF Streamings, KeptState, KeptRetry
<1> HIDE DEF u
<1>7. Quietly(t, u) /\ Untold(t, u) /\ Listed(u) = Listed(t)
  BY <1>5, <1>6, LinkQuiet
<1>8. Quietly(a, u) /\ Untold(a, u)
  BY <1>1, <1>7, QuietOn
<1>9. KeptState(a, u) /\ KeptRetry(a, u)
  BY <1>1, <1>6 DEF KeptState, KeptRetry
<1> QED BY <1>1, <1>2, <1>6, <1>7, <1>8, <1>9 DEF Begins, b, k

(* So is a connect.                                                        *)
LEMMA ConnectIs ==
    ASSUME NEW a, AllClean(a), NEW isReconnection \in BOOLEAN, NEW expired \in BOOLEAN
    PROVE  LET b == connect(a, isReconnection, expired) IN
           /\ Quietly(a, b) /\ Untold(a, b) /\ Listed(b) = Listed(a)
           /\ Connects(a, b, isReconnection, expired)
<1> DEFINE w == [a EXCEPT !.tokenHandlers = Append(a.tokenHandlers, isReconnection)]
           b == connect(a, isReconnection, expired)
<1>1. CASE a.connectionState \notin {"DISCONNECTED", "INITIALIZING"}
  <2>1. b = a
    BY <1>1 DEF connect
  <2> QED BY <1>1, <2>1, QuietSelf DEF Connects, KeptState, KeptRetry, KeptLink
<1>2. CASE a.connectionState \in {"DISCONNECTED", "INITIALIZING"} /\ expired
  <2>1. b = w
    BY <1>2 DEF connect
  <2> DEFINE h == Append(a.tokenHandlers, isReconnection)
  <2>2. a \in Streamings /\ a.tokenHandlers \in Seq(BOOLEAN)
    BY DEF AllClean, Streamings
  <2>3. h \in Seq(BOOLEAN)
    BY <2>2, AppendProperties
  <2> HIDE DEF b, h
  <2>4. /\ w \in Streamings /\ w.all = a.all /\ w.subscriptions = a.subscriptions
        /\ w.finder = a.finder /\ w.tokenHandlers = h
        /\ KeptState(a, w) /\ KeptRetry(a, w) /\ KeptLink(a, w)
    <3>1. w = [a EXCEPT !.tokenHandlers = h]
      BY DEF h
    <3> HIDE DEF w
    <3> QED BY <2>2, <2>3, <3>1 DEF Streamings, KeptState, KeptRetry, KeptLink
  <2> HIDE DEF w
  <2>5. Quietly(a, w) /\ Untold(a, w) /\ Listed(w) = Listed(a)
    BY <2>4, LinkQuiet
  <2> QED BY <1>2, <2>1, <2>4, <2>5 DEF Connects, b, h
<1>3. CASE a.connectionState \in {"DISCONNECTED", "INITIALIZING"} /\ ~expired
  <2>1. b = startConnection(a)
    BY <1>3 DEF connect
  <2> HIDE DEF b
  <2>2. /\ Quietly(a, b) /\ Untold(a, b) /\ Listed(b) = Listed(a)
        /\ KeptState(a, b) /\ KeptRetry(a, b)
        /\ b.tokenHandlers = a.tokenHandlers /\ Begins(a, b)
    BY <2>1, StartConnectionIs
  <2> QED BY <1>3, <2>2 DEF Connects, b
<1> QED BY <1>1, <1>2, <1>3

(* The connection is replaced by a new one, which is started. *)
Anew(exhausted) ==
    IF exhausted THEN Contract!Tell(Contract!NewPromise, "exhausted")
    ELSE Contract!NewPromise

Inits(a, b, expired, exhausted) ==
    /\ b.isReset = a.isReset /\ b.disposed = a.disposed
    /\ b.connectionState = IF exhausted THEN "DISCONNECTED" ELSE a.connectionState
    /\ KeptRetry(a, b)
    /\ b.former = a.connection /\ b.replaced = a.replaced + 1
    /\ IF b.connectionState \notin {"DISCONNECTED", "INITIALIZING"}
       THEN /\ b.contextId = a.contextId /\ b.connection = Anew(exhausted)
            /\ b.tokenHandlers = a.tokenHandlers
       ELSE IF expired
       THEN /\ b.contextId = a.contextId /\ b.connection = Anew(exhausted)
            /\ b.tokenHandlers = Append(a.tokenHandlers, FALSE)
       ELSE /\ b.contextId = a.contextId + 1
            /\ b.connection = IF exhausted THEN Anew(exhausted)
                              ELSE Contract!Start(Anew(exhausted))
            /\ b.tokenHandlers = a.tokenHandlers

(* What is known of the new connection.                                    *)
LEMMA AnewType ==
    ASSUME NEW exhausted \in BOOLEAN
    PROVE  /\ Anew(exhausted) \in Contract!Promises
           /\ Anew(exhausted).told = IF exhausted THEN "exhausted" ELSE "none"
           /\ Anew(exhausted).asked = "created" /\ Anew(exhausted).late = FALSE
<1>1. /\ Contract!NewPromise \in Contract!Promises
      /\ Contract!NewPromise.asked = "created"
      /\ Contract!NewPromise.told = "none"
      /\ Contract!NewPromise.late = FALSE
  BY DEF Contract!NewPromise, Contract!Promises, Contract!Asked, Contract!States
<1> DEFINE k == Contract!Tell(Contract!NewPromise, "exhausted")
<1>2. /\ k \in Contract!Promises /\ k.told = "exhausted" /\ k.asked = "created"
      /\ k.late = FALSE
  BY <1>1, PromiseType, ReportedStates
<1> HIDE DEF k
<1> QED BY <1>1, <1>2 DEF Anew, k

(* init is quiet.                                                          *)
LEMMA InitIs ==
    ASSUME NEW a, AllClean(a), NEW expired \in BOOLEAN, NEW exhausted \in BOOLEAN
    PROVE  LET b == init(a, expired, exhausted) IN
           /\ Quietly(a, b) /\ Untold(a, b) /\ Listed(b) = Listed(a)
           /\ Inits(a, b, expired, exhausted)
<1> DEFINE k == Anew(exhausted)
           n == a.replaced + 1
           state == IF exhausted THEN "DISCONNECTED" ELSE a.connectionState
           c == [a EXCEPT !.former = a.connection, !.replaced = n,
                          !.connection = k, !.connectionState = state]
           b == init(a, expired, exhausted)
<1>1. a \in Streamings /\ a.connection \in Contract!Promises /\ n \in Nat
      /\ a.connectionState \in ConnectionStates
  BY DEF AllClean, Streamings
<1>2. /\ k \in Contract!Promises /\ state \in ConnectionStates
      /\ k.told = IF exhausted THEN "exhausted" ELSE "none"
  BY <1>1, AnewType, ReportedStates
<1>3. b = connect(c, FALSE, expired)
  <2>1. CASE exhausted
    <3>1. c = [a EXCEPT !.former = a.connection, !.replaced = @ + 1,
                        !.connection = Contract!Tell(Contract!NewPromise, "exhausted"),
                        !.connectionState = "DISCONNECTED"]
      BY <2>1 DEF Anew
    <3> DEFINE t == [a EXCEPT !.former = a.connection, !.replaced = @ + 1,
                              !.connection = Contract!NewPromise]
    <3>2. t.connection = Contract!NewPromise
      BY <1>1 DEF Streamings
    <3>3. c = [t EXCEPT !.connection = Contract!Tell(@, "exhausted"),
                        !.connectionState = "DISCONNECTED"]
      BY <1>1, <3>1, <3>2 DEF Streamings
    <3> QED BY <2>1, <3>3 DEF init
  <2>2. CASE ~exhausted
    <3>1. c = [a EXCEPT !.former = a.connection, !.replaced = @ + 1,
                        !.connection = Contract!NewPromise]
      BY <1>1, <2>2 DEF Anew, Streamings
    <3> QED BY <2>2, <3>1 DEF init
  <2> QED BY <2>1, <2>2
<1> HIDE DEF b, k, n, state
<1>4. /\ c \in Streamings /\ c.all = a.all /\ c.subscriptions = a.subscriptions
      /\ c.finder = a.finder
      /\ c.isReset = a.isReset /\ c.disposed = a.disposed
      /\ c.connectionState = state /\ c.former = a.connection
      /\ c.replaced = n /\ c.connection = k /\ c.contextId = a.contextId
      /\ c.tokenHandlers = a.tokenHandlers /\ KeptRetry(a, c)
  BY <1>1, <1>2 DEF Streamings, KeptRetry
<1> HIDE DEF c
<1>5. Quietly(a, c) /\ Untold(a, c) /\ Listed(c) = Listed(a) /\ AllClean(c)
  BY <1>4, LinkQuiet
<1>6. /\ Quietly(c, b) /\ Untold(c, b) /\ Listed(b) = Listed(c)
      /\ Connects(c, b, FALSE, expired)
  <2>1. FALSE \in BOOLEAN
    OBVIOUS
  <2> QED BY <1>3, <1>5, <2>1, ConnectIs
<1>7. Quietly(a, b) /\ Untold(a, b) /\ Listed(b) = Listed(a)
  BY <1>5, <1>6, QuietOn
<1>8. /\ b.isReset = a.isReset /\ b.disposed = a.disposed
      /\ b.connectionState = state /\ KeptRetry(a, b)
      /\ b.former = a.connection /\ b.replaced = n
  BY <1>4, <1>6 DEF Connects, KeptState, KeptRetry, KeptLink, Begins
<1>9. IF state \notin {"DISCONNECTED", "INITIALIZING"}
      THEN /\ b.contextId = a.contextId /\ b.connection = k
           /\ b.tokenHandlers = a.tokenHandlers
      ELSE IF expired
      THEN /\ b.contextId = a.contextId /\ b.connection = k
           /\ b.tokenHandlers = Append(a.tokenHandlers, FALSE)
      ELSE /\ b.contextId = a.contextId + 1
           /\ b.connection = IF exhausted THEN k ELSE Contract!Start(k)
           /\ b.tokenHandlers = a.tokenHandlers
  <2>1. k.told = "exhausted" <=> exhausted
    BY <1>2
  <2> QED BY <1>4, <1>6, <2>1 DEF Connects, KeptLink, Begins
<1>10. Inits(a, b, expired, exhausted)
  BY <1>8, <1>9 DEF Inits, k, n, state
<1> QED BY <1>7, <1>10 DEF b

(* retryConnection. *)
Retries(a, b) ==
    /\ KeptState(a, b) /\ KeptLink(a, b) /\ b.tokenHandlers = a.tokenHandlers
    /\ b.reconnecting = TRUE /\ b.reconnectTimer = TRUE
    /\ b.lostTimers = IF a.reconnectTimer THEN a.lostTimers + 1 ELSE a.lostTimers

(* So is retryConnection,                                                  *)
LEMMA RetryIs ==
    ASSUME NEW a, AllClean(a)
    PROVE  LET b == retryConnection(a) IN
           /\ Quietly(a, b) /\ Untold(a, b) /\ Listed(b) = Listed(a)
           /\ Retries(a, b)
<1> DEFINE n == IF a.reconnectTimer THEN a.lostTimers + 1 ELSE a.lostTimers
           b == retryConnection(a)
<1>1. a \in Streamings /\ n \in Nat
  BY DEF AllClean, Streamings
<1>2. b = [a EXCEPT !.reconnecting = TRUE, !.reconnectTimer = TRUE,
                    !.lostTimers = n]
  BY DEF retryConnection
<1> HIDE DEF n, b
<1>3. /\ b \in Streamings /\ b.all = a.all /\ b.subscriptions = a.subscriptions
      /\ b.finder = a.finder
      /\ KeptState(a, b) /\ KeptLink(a, b) /\ b.tokenHandlers = a.tokenHandlers
      /\ b.reconnecting = TRUE /\ b.reconnectTimer = TRUE /\ b.lostTimers = n
  BY <1>1, <1>2 DEF Streamings, KeptState, KeptLink
<1> QED BY <1>3, LinkQuiet DEF Retries, n, b

(* The timer of a retry. *)
MayFire(a, lost) == IF lost THEN a.lostTimers > 0 ELSE a.reconnectTimer

Fires(a, b, lost) ==
    /\ KeptState(a, b) /\ KeptLink(a, b) /\ b.tokenHandlers = a.tokenHandlers
    /\ b.reconnecting = a.reconnecting
    /\ b.reconnectTimer = IF lost THEN a.reconnectTimer ELSE FALSE
    /\ b.lostTimers = IF lost THEN a.lostTimers - 1 ELSE a.lostTimers

(* and what its timer does.                                                *)
LEMMA RetryFiresIs ==
    ASSUME NEW a, AllClean(a), NEW expired \in BOOLEAN,
           NEW lost \in BOOLEAN, MayFire(a, lost)
    PROVE  LET b == RetryFires(a, lost, expired) IN
           /\ Quietly(a, b) /\ Untold(a, b)
           /\ \E c : Fires(a, c, lost) /\ Connects(c, b, TRUE, expired)
<1> DEFINE n == IF lost THEN a.lostTimers - 1 ELSE a.lostTimers
           c == IF lost THEN [a EXCEPT !.lostTimers = @ - 1]
                ELSE [a EXCEPT !.reconnectTimer = FALSE]
           b == RetryFires(a, lost, expired)
<1>1. a \in Streamings /\ n \in Nat /\ a.reconnectTimer \in BOOLEAN
  BY DEF AllClean, Streamings, MayFire
<1>2. b = connect(c, TRUE, expired)
  BY DEF RetryFires
<1>3. /\ c \in Streamings /\ c.all = a.all /\ c.subscriptions = a.subscriptions
      /\ c.finder = a.finder
      /\ KeptState(a, c) /\ KeptLink(a, c) /\ c.tokenHandlers = a.tokenHandlers
      /\ c.reconnecting = a.reconnecting
      /\ c.reconnectTimer = IF lost THEN a.reconnectTimer ELSE FALSE
      /\ c.lostTimers = n
  <2>1. CASE ~lost
    BY <1>1, <2>1 DEF Streamings, KeptState, KeptLink
  <2>2. CASE lost
    BY <1>1, <2>2 DEF Streamings, KeptState, KeptLink
  <2> QED BY <2>1, <2>2
<1> HIDE DEF b, c
<1>4. Quietly(a, c) /\ Untold(a, c) /\ AllClean(c)
  BY <1>3, LinkQuiet
<1>5. Quietly(c, b) /\ Untold(c, b) /\ Connects(c, b, TRUE, expired)
  <2>1. TRUE \in BOOLEAN
    OBVIOUS
  <2> QED BY <1>2, <1>4, <2>1, ConnectIs
<1>6. Fires(a, c, lost)
  BY <1>3 DEF Fires
<1> QED BY <1>4, <1>5, <1>6, QuietOn DEF b

(* What all have been told, a quiet call that tells nothing leaves.        *)
LEMMA ToldOn ==
    ASSUME NEW a, AllClean(a), NEW available, AllTold(a, available), NEW b,
           Quietly(a, b), Untold(a, b)
    PROVE  AllTold(b, available)
BY DEF AllTold, Quietly, Untold, AllClean

(* The state of the connection is noted. *)
Enters(a, b, state) ==
    /\ b.connectionState = state
    /\ b.isReset = a.isReset /\ b.disposed = a.disposed
    /\ KeptRetry(a, b) /\ KeptLink(a, b) /\ b.tokenHandlers = a.tokenHandlers

(* Noting it is quiet.                                                     *)
LEMMA MovesIs ==
    ASSUME NEW a, AllClean(a), NEW state \in ConnectionStates
    PROVE  LET b == [a EXCEPT !.connectionState = state] IN
           /\ Quietly(a, b) /\ Untold(a, b) /\ Listed(b) = Listed(a)
           /\ Enters(a, b, state)
<1> DEFINE b == [a EXCEPT !.connectionState = state]
<1>1. a \in Streamings
  BY DEF AllClean
<1>2. /\ b \in Streamings /\ b.all = a.all /\ b.subscriptions = a.subscriptions
      /\ b.finder = a.finder /\ Enters(a, b, state)
  BY <1>1 DEF Streamings, Enters, KeptRetry, KeptLink
<1> HIDE DEF b
<1> QED BY <1>2, LinkQuiet DEF b

(* So is stopping the finder.                                              *)
LEMMA StopQuiet ==
    ASSUME NEW a, AllClean(a)
    PROVE  LET b == StopFinder(a) IN
           /\ Quietly(a, b) /\ Untold(a, b) /\ Listed(b) = Listed(a)
           /\ Kept(a, b)
<1>1. a \in Streamings /\ a.finder \in Finders
  BY DEF AllClean, Streamings
<1> DEFINE b == StopFinder(a)
<1>2. /\ b \in Streamings /\ b.finder = stop(a.finder) /\ b.all = a.all
      /\ Kept(a, b) /\ b.subscriptions = a.subscriptions
  BY <1>1, StopFinderIs
<1> HIDE DEF b
<1>3. Settles(a.finder, b.finder)
  BY <1>1, <1>2, StopSettles
<1> QED BY <1>2, <1>3, SubsQuiet, SubsSame DEF b

(* The subscriptions are told that the connection is not there, and the    *)
(* orphan finder is stopped, in one order or the other.                    *)
LEMMA StoppedQuiet ==
    ASSUME NEW a, AllClean(a)
    PROVE  /\ LET b == StopFinder(AllUnavailable(a)) IN
              Quietly(a, b) /\ AllTold(b, FALSE) /\ Kept(a, b)
           /\ LET b == AllUnavailable(StopFinder(a)) IN
              Quietly(a, b) /\ AllTold(b, FALSE) /\ Kept(a, b)
<1>1. LET b == StopFinder(AllUnavailable(a)) IN
      Quietly(a, b) /\ AllTold(b, FALSE) /\ Kept(a, b)
  <2> DEFINE c == AllUnavailable(a)
             b == StopFinder(c)
  <2>1. Quietly(a, c) /\ Kept(a, c) /\ AllTold(c, FALSE)
    BY UnavailableQuiet
  <2> HIDE DEF c
  <2>2. AllClean(c)
    BY <2>1 DEF Quietly
  <2>3. Quietly(c, b) /\ Untold(c, b) /\ Kept(c, b)
    BY <2>2, StopQuiet
  <2> HIDE DEF b
  <2>4. Quietly(a, b) /\ AllTold(b, FALSE) /\ Kept(a, b)
    BY <2>1, <2>2, <2>3, QuietOn, KeptOn, ToldOn
  <2> QED BY <2>4 DEF b, c
<1>2. LET b == AllUnavailable(StopFinder(a)) IN
      Quietly(a, b) /\ AllTold(b, FALSE) /\ Kept(a, b)
  <2> DEFINE c == StopFinder(a)
             b == AllUnavailable(c)
  <2>1. Quietly(a, c) /\ Kept(a, c)
    BY StopQuiet
  <2> HIDE DEF c
  <2>2. AllClean(c)
    BY <2>1 DEF Quietly
  <2>3. Quietly(c, b) /\ AllTold(b, FALSE) /\ Kept(c, b)
    BY <2>2, UnavailableQuiet
  <2> HIDE DEF b
  <2>4. Quietly(a, b) /\ AllTold(b, FALSE) /\ Kept(a, b)
    BY <2>1, <2>3, QuietOn, KeptOn
  <2> QED BY <2>4 DEF b, c
<1> QED BY <1>1, <1>2

(* The new token. *)
Starting(a) == {k \in DOMAIN a.tokenHandlers : a.tokenHandlers[k] => a.reconnecting}

Tokens(a, b) ==
    /\ KeptState(a, b) /\ KeptRetry(a, b) /\ b.tokenHandlers = <<>>
    /\ b.former = a.former /\ b.replaced = a.replaced
    /\ \/ Starting(a) = {} /\ KeptLink(a, b)
       \/ /\ Starting(a) # {}
          /\ b.contextId \in a.contextId + 1 .. a.contextId + Len(a.tokenHandlers)
          /\ b.connection = IF a.connection.told = "exhausted" THEN a.connection
                            ELSE Contract!Start(a.connection)

(* What is in a sequence is no more than its length.                       *)
LEMMA StartingCounts ==
    ASSUME NEW q \in Seq(BOOLEAN), NEW S, S \subseteq DOMAIN q, S # {}
    PROVE  Len(q) \in Nat /\ Cardinality(S) \in 1 .. Len(q)
<1>1. Len(q) \in Nat /\ DOMAIN q = 1 .. Len(q)
  OBVIOUS
<1>2. PICK n \in Nat : n = Len(q)
  BY <1>1
<1>3. IsFiniteSet(1 .. n) /\ Cardinality(1 .. n) = n
  <2>1. 1 \in Int /\ n \in Int
    BY <1>2
  <2>2. IsFiniteSet(1 .. n) /\ Cardinality(1 .. n) = IF 1 > n THEN 0 ELSE n - 1 + 1
    BY <2>1, FS_Interval
  <2> QED BY <2>2
<1>4. /\ IsFiniteSet(S) /\ Cardinality(S) <= n
      /\ Cardinality(S) \in Nat
  <2>1. S \subseteq 1 .. n
    BY <1>1, <1>2
  <2> QED BY <1>3, <2>1, FS_Subset, FS_CardinalityType
<1>5. Cardinality(S) # 0
  BY <1>4, FS_EmptySet
<1> QED BY <1>1, <1>2, <1>4, <1>5

(* The tokens start the connection, and are used up.                       *)
LEMMA TokenReceivedIs ==
    ASSUME NEW a, AllClean(a)
    PROVE  LET b == TokenReceived(a) IN
           /\ Quietly(a, b) /\ Untold(a, b)
           /\ Tokens(a, b)
<1> DEFINE m == Cardinality(Starting(a))
           t == [a EXCEPT !.tokenHandlers = <<>>]
           n == t.contextId + m - 1
           u == [t EXCEPT !.contextId = n]
           w == startConnection(u)
           b == TokenReceived(a)
<1>1. a \in Streamings /\ a.tokenHandlers \in Seq(BOOLEAN) /\ a.contextId \in Nat
  BY DEF AllClean, Streamings
<1>2. b = IF Starting(a) = {} THEN t ELSE w
  BY DEF TokenReceived, Starting
<1>3. /\ t \in Streamings /\ t.all = a.all /\ t.subscriptions = a.subscriptions
      /\ t.finder = a.finder
      /\ KeptState(a, t) /\ KeptRetry(a, t) /\ KeptLink(a, t)
      /\ t.tokenHandlers = <<>>
  <2> DEFINE q == <<>>
  <2>1. q \in Seq(BOOLEAN) /\ q = <<>>
    OBVIOUS
  <2> HIDE DEF q
  <2>2. t = [a EXCEPT !.tokenHandlers = q]
    BY <2>1
  <2> HIDE DEF t
  <2> QED BY <1>1, <2>1, <2>2 DEF Streamings, KeptState, KeptRetry, KeptLink
<1> HIDE DEF b, t
<1>4. Quietly(a, t) /\ Untold(a, t) /\ AllClean(t)
  BY <1>3, LinkQuiet
<1>5. CASE Starting(a) = {}
  BY <1>2, <1>3, <1>4, <1>5 DEF b, Tokens, KeptLink
<1>6. CASE Starting(a) # {}
  <2>1. Len(a.tokenHandlers) \in Nat /\ m \in 1 .. Len(a.tokenHandlers)
    BY <1>1, <1>6, StartingCounts DEF Starting
  <2> HIDE DEF m
  <2>2. t.contextId = a.contextId
    BY <1>3 DEF KeptLink
  <2>3. n \in Nat /\ n + 1 \in a.contextId + 1 .. a.contextId + Len(a.tokenHandlers)
    BY <1>1, <2>1, <2>2
  <2> HIDE DEF n
  <2>4. /\ u \in Streamings /\ u.all = t.all /\ u.subscriptions = t.subscriptions
        /\ u.finder = t.finder
        /\ KeptState(t, u) /\ KeptRetry(t, u) /\ u.tokenHandlers = t.tokenHandlers
        /\ u.contextId = n /\ u.connection = t.connection
        /\ u.former = t.former /\ u.replaced = t.replaced
    BY <1>3, <2>3 DEF Streamings, KeptState, KeptRetry
  <2> HIDE DEF u
  <2>5. Quietly(t, u) /\ Untold(t, u) /\ AllClean(u)
    BY <1>4, <2>4, LinkQuiet
  <2>6. /\ Quietly(u, w) /\ Untold(u, w)
        /\ KeptState(u, w) /\ KeptRetry(u, w)
        /\ w.tokenHandlers = u.tokenHandlers /\ Begins(u, w)
    BY <2>5, StartConnectionIs
  <2> HIDE DEF w
  <2>7. Quietly(a, w) /\ Untold(a, w)
    BY <1>4, <2>5, <2>6, QuietOn
  <2>8. KeptState(a, w) /\ KeptRetry(a, w) /\ w.tokenHandlers = <<>>
    BY <1>3, <2>4, <2>6 DEF KeptState, KeptRetry
  <2>9. /\ w.former = a.former /\ w.replaced = a.replaced
        /\ w.contextId = n + 1
        /\ w.connection = IF a.connection.told = "exhausted" THEN a.connection
                          ELSE Contract!Start(a.connection)
    BY <1>3, <2>4, <2>6 DEF Begins, KeptLink
  <2> QED BY <1>2, <1>6, <2>3, <2>7, <2>8, <2>9 DEF b, Tokens
<1> QED BY <1>5, <1>6

(* The connection is there. *)
Resumes(a, b) ==
    /\ b.connectionState = a.connectionState /\ b.disposed = a.disposed
    /\ b.isReset = FALSE /\ b.reconnecting = FALSE
    /\ b.reconnectTimer = a.reconnectTimer /\ b.lostTimers = a.lostTimers
    /\ KeptLink(a, b) /\ b.tokenHandlers = a.tokenHandlers

(* The subscriptions are reset if there has been a reconnection, and told. *)
LEMMA ConnectedIs ==
    ASSUME NEW a, AllClean(a), NEW n \in Nat, n <= MaxTime, Clock(a, n),
           NEW p \in Nat, NEW j
    PROVE  LET b == Connected(a, n, p, j) IN
           /\ AllClean(b) /\ Heard(a, b) /\ Listed(b) \subseteq Listed(a)
           /\ Clock(b, n) /\ Watched(b)
           /\ p = 0 => AllTold(b, TRUE)
           /\ OneOut(b)
           /\ Resumes(a, b)
<1> DEFINE e == ResetEach(a, Listed(a))
           c == [e EXCEPT !.reconnecting = FALSE, !.isReset = FALSE]
           t == IF a.reconnecting \/ a.isReset THEN c ELSE a
           u == AllAvailable(t, p, j)
           b == Connected(a, n, p, j)
<1>1. b = StartFinder(u, n)
  BY DEF Connected, ResetEach
<1>2. a \in Streamings /\ a.reconnecting \in BOOLEAN /\ a.isReset \in BOOLEAN
  BY DEF AllClean, Streamings
<1>3. Quietly(a, t) /\ Resumes(a, t)
  <2>1. CASE ~(a.reconnecting \/ a.isReset)
    <3>1. a.reconnecting = FALSE /\ a.isReset = FALSE
      BY <1>2, <2>1
    <3> QED BY <2>1, <3>1, QuietSelf DEF Resumes, KeptLink
  <2>2. CASE a.reconnecting \/ a.isReset
    <3>1. Gentle(a, e)
      BY EachReset
    <3> HIDE DEF e
    <3>2. Quietly(a, e) /\ Kept(a, e) /\ AllClean(e) /\ e \in Streamings
      BY <3>1, GentleQuiet DEF Quietly, AllClean
    <3>3. /\ c \in Streamings /\ c.all = e.all /\ c.subscriptions = e.subscriptions
          /\ c.finder = e.finder /\ Resumes(e, c)
      BY <3>2 DEF Streamings, Resumes, KeptLink
    <3> HIDE DEF c
    <3>4. Quietly(e, c)
      BY <3>2, <3>3, LinkQuiet
    <3>5. Quietly(a, c)
      BY <3>2, <3>4, QuietOn
    <3>6. Resumes(a, c)
      BY <3>2, <3>3 DEF Resumes, KeptLink, Kept
    <3> QED BY <2>2, <3>5, <3>6
  <2> QED BY <2>1, <2>2
<1> HIDE DEF t, b
<1>4. AllClean(t)
  BY <1>3 DEF Quietly
<1>5. Steady(t, u) /\ Kept(t, u) /\ (p = 0 => AllTold(u, TRUE)) /\ OneOut(u)
  BY <1>4, AllAvailableIs
<1> HIDE DEF u
<1>6. Steady(a, u) /\ AllClean(u)
  BY <1>3, <1>5, QuietSteady, SteadyOn DEF Steady
<1>7. Clock(u, n)
  BY <1>6, SteadyClock
<1>8. /\ Watched(b) /\ Clock(b, n) /\ AllClean(b) /\ Heard(u, b) /\ Kept(u, b)
      /\ Listed(b) = Listed(u) /\ b.all = u.all
  BY <1>1, <1>6, <1>7, StartWatched
<1>9. Heard(a, b) /\ Listed(b) \subseteq Listed(a)
  BY <1>6, <1>8 DEF Steady, Heard
<1>10. Resumes(a, b)
  BY <1>3, <1>5, <1>8 DEF Resumes, KeptLink, Kept
<1>11. (p = 0 => AllTold(b, TRUE)) /\ OneOut(b)
  BY <1>5, <1>8 DEF AllTold, OneOut
<1> QED BY <1>8, <1>9, <1>10, <1>11 DEF b

(* The connection has ended. *)
Ends(a, b, expired, exhausted) ==
    IF a.isReset THEN Inits(a, b, expired, exhausted) ELSE Retries(a, b)

(* What keeps all that concerns the connection may come before.            *)
LEMMA KeptInits ==
    ASSUME NEW a, NEW t, NEW b, Kept(a, t), NEW expired, NEW exhausted
    PROVE  /\ Inits(t, b, expired, exhausted) => Inits(a, b, expired, exhausted)
           /\ Retries(t, b) => Retries(a, b)
<1>1. Inits(t, b, expired, exhausted) => Inits(a, b, expired, exhausted)
  BY DEF Kept, Inits, KeptRetry
<1>2. Retries(t, b) => Retries(a, b)
  BY DEF Kept, Retries, KeptState, KeptLink
<1> QED BY <1>1, <1>2

(* The connection has ended.                                               *)
LEMMA DisconnectedIs ==
    ASSUME NEW a, AllClean(a), NEW expired \in BOOLEAN, NEW exhausted \in BOOLEAN
    PROVE  LET b == Disconnected(a, expired, exhausted) IN
           /\ Quietly(a, b)
           /\ a.isReset => Untold(a, b)
           /\ ~a.isReset => AllTold(b, FALSE)
           /\ Ends(a, b, expired, exhausted)
<1> DEFINE b == Disconnected(a, expired, exhausted)
<1>1. CASE a.isReset
  <2> DEFINE t == StopFinder(a)
  <2>1. b = init(t, expired, exhausted)
    BY <1>1 DEF Disconnected
  <2>2. Quietly(a, t) /\ Untold(a, t) /\ Kept(a, t) /\ AllClean(t)
    BY StopQuiet DEF Quietly
  <2> HIDE DEF t, b
  <2>3. Quietly(t, b) /\ Untold(t, b) /\ Inits(t, b, expired, exhausted)
    BY <2>1, <2>2, InitIs
  <2> QED BY <1>1, <2>2, <2>3, QuietOn, KeptInits DEF Ends, b
<1>2. CASE ~a.isReset
  <2> DEFINE t == AllUnavailable(StopFinder(a))
  <2>1. b = retryConnection(t)
    BY <1>2 DEF Disconnected
  <2>2. Quietly(a, t) /\ AllTold(t, FALSE) /\ Kept(a, t) /\ AllClean(t)
    BY StoppedQuiet DEF Quietly
  <2> HIDE DEF t, b
  <2>3. Quietly(t, b) /\ Untold(t, b) /\ Retries(t, b)
    BY <2>1, <2>2, RetryIs
  <2>4. AllTold(b, FALSE)
    BY <2>2, <2>3, ToldOn
  <2> QED BY <1>2, <2>2, <2>3, <2>4, QuietOn, KeptInits DEF Ends, b
<1> QED BY <1>1, <1>2

(* The connection has said so. *)
Ensues(a, c, b, state, expired, exhausted) ==
    IF state = a.connectionState \/ a.disposed THEN Kept(c, b)
    ELSE IF state = "DISCONNECTED" THEN Ends(c, b, expired, exhausted)
    ELSE IF state = "CONNECTED" THEN Resumes(c, b)
    ELSE Kept(c, b)

Changes(a, b, state, expired, exhausted) ==
    \E c \in Streamings :
        Enters(a, c, state) /\ Ensues(a, c, b, state, expired, exhausted)

(* And the subscriptions are told. *)
Announces(a, b, state, p) ==
    IF state = a.connectionState \/ a.disposed THEN Untold(a, b)
    ELSE CASE state = "DISCONNECTED" -> /\ a.isReset => Untold(a, b)
                                        /\ ~a.isReset => AllTold(b, FALSE)
           [] state = "RECONNECTING" -> AllTold(b, FALSE)
           [] state = "CONNECTED" -> (p = 0 => AllTold(b, TRUE)) /\ OneOut(b)
           [] OTHER -> Untold(a, b)

(* onConnectionStateChanged.                                               *)
LEMMA StateChangedIs ==
    ASSUME NEW a, AllClean(a), NEW n \in Nat, n <= MaxTime, Clock(a, n),
           NEW state \in ConnectionStates, NEW p \in Nat, NEW j,
           NEW expired \in BOOLEAN, NEW exhausted \in BOOLEAN
    PROVE  LET b == onConnectionStateChanged(a, state, n, expired, exhausted, p, j) IN
           /\ AllClean(b) /\ Heard(a, b) /\ Listed(b) \subseteq Listed(a)
           /\ Clock(b, n) /\ (Watched(a) => Watched(b))
           /\ Announces(a, b, state, p)
           /\ Changes(a, b, state, expired, exhausted)
<1> DEFINE t == [a EXCEPT !.connectionState = state]
           b == onConnectionStateChanged(a, state, n, expired, exhausted, p, j)
<1>1. Listed(a) \subseteq DOMAIN a.all /\ Half(a)
  BY CleanHalf DEF AllClean
<1>2. /\ Quietly(a, t) /\ Untold(a, t) /\ AllClean(t) /\ Enters(a, t, state)
      /\ Clock(t, n)
  BY MovesIs, QuietSteady, SteadyClock DEF Quietly
<1>3. b = IF state = a.connectionState \/ a.disposed THEN t
          ELSE
          CASE state = "DISCONNECTED" -> Disconnected(t, expired, exhausted)
            [] state = "RECONNECTING" -> Reconnecting(t)
            [] state = "CONNECTED" -> Connected(t, n, p, j)
            [] OTHER -> t
  BY DEF onConnectionStateChanged
<1>4. t.isReset = a.isReset /\ t.connectionState = state /\ t \in Streamings
  BY <1>2 DEF Enters, AllClean
<1>5. state = "RECONNECTING" => Reconnecting(t) = StopFinder(AllUnavailable(t))
  <2>1. state = "RECONNECTING" => t = [t EXCEPT !.connectionState = "RECONNECTING"]
    BY DEF AllClean, Streamings
  <2> QED BY <2>1 DEF Reconnecting
<1> HIDE DEF t, b
(* A quiet change. *)
<1>6. ASSUME Quietly(t, b)
      PROVE  /\ AllClean(b) /\ Heard(a, b) /\ Listed(b) \subseteq Listed(a)
             /\ Clock(b, n) /\ (Watched(a) => Watched(b))
  <2>1. Quietly(a, b)
    BY <1>2, <1>6, QuietOn
  <2> QED BY <1>1, <2>1, QuietSteady, SteadyClock, QuietWatched DEF Quietly
<1>7. CASE \/ state = a.connectionState \/ a.disposed
           \/ state \notin {"DISCONNECTED", "RECONNECTING", "CONNECTED"}
  <2>1. b = t
    BY <1>3, <1>7
  <2>2. Untold(a, b) /\ Quietly(t, b) /\ Kept(t, b)
    BY <1>2, <2>1, QuietSelf DEF Kept
  <2>3. Changes(a, b, state, expired, exhausted)
    BY <1>2, <1>4, <1>7, <2>2 DEF Changes, Ensues
  <2>4. Announces(a, b, state, p)
    BY <1>7, <2>2 DEF Announces
  <2> QED BY <1>6, <2>2, <2>3, <2>4 DEF b
<1>8. CASE state # a.connectionState /\ ~a.disposed /\ state = "DISCONNECTED"
  <2>1. b = Disconnected(t, expired, exhausted)
    BY <1>3, <1>8
  <2>2. /\ Quietly(t, b)
        /\ a.isReset => Untold(t, b)
        /\ ~a.isReset => AllTold(b, FALSE)
        /\ Ends(t, b, expired, exhausted)
    BY <1>2, <1>4, <2>1, DisconnectedIs
  <2>3. a.isReset => Untold(a, b)
    BY <1>2, <2>2, QuietOn
  <2>4. Changes(a, b, state, expired, exhausted)
    BY <1>2, <1>4, <1>8, <2>2 DEF Changes, Ensues
  <2>5. Announces(a, b, state, p)
    BY <1>8, <2>2, <2>3 DEF Announces
  <2> QED BY <1>6, <2>2, <2>4, <2>5 DEF b
<1>9. CASE state # a.connectionState /\ ~a.disposed /\ state = "RECONNECTING"
  <2>1. b = StopFinder(AllUnavailable(t))
    BY <1>3, <1>5, <1>9
  <2>2. Quietly(t, b) /\ AllTold(b, FALSE) /\ Kept(t, b)
    BY <1>2, <2>1, StoppedQuiet
  <2>3. Changes(a, b, state, expired, exhausted)
    BY <1>2, <1>4, <1>9, <2>2 DEF Changes, Ensues
  <2>4. Announces(a, b, state, p)
    BY <1>9, <2>2 DEF Announces
  <2> QED BY <1>6, <2>2, <2>3, <2>4 DEF b
<1>10. CASE state # a.connectionState /\ ~a.disposed /\ state = "CONNECTED"
  <2>1. b = Connected(t, n, p, j)
    BY <1>3, <1>10
  <2>2. /\ AllClean(b) /\ Heard(t, b) /\ Listed(b) \subseteq Listed(t)
        /\ Clock(b, n) /\ Watched(b)
        /\ p = 0 => AllTold(b, TRUE)
        /\ OneOut(b)
        /\ Resumes(t, b)
    BY <1>2, <2>1, ConnectedIs
  <2>3. Heard(a, b) /\ Listed(b) \subseteq Listed(a)
    BY <1>2, <2>2 DEF Heard, Quietly
  <2>4. Changes(a, b, state, expired, exhausted)
    BY <1>2, <1>4, <1>10, <2>2 DEF Changes, Ensues
  <2>5. Announces(a, b, state, p)
    BY <1>10, <2>2 DEF Announces
  <2> QED BY <2>2, <2>3, <2>4, <2>5 DEF b
<1> QED BY <1>7, <1>8, <1>9, <1>10

(* Only the connection changes. *)
LEMMA ConnectionChanged ==
    ASSUME NEW a, AllClean(a), NEW k \in Contract!Promises
    PROVE  LET b == [a EXCEPT !.connection = k] IN
           /\ Quietly(a, b) /\ Untold(a, b) /\ Listed(b) = Listed(a)
           /\ KeptState(a, b) /\ KeptRetry(a, b)
           /\ b.tokenHandlers = a.tokenHandlers
           /\ b.contextId = a.contextId /\ b.connection = k
           /\ b.former = a.former /\ b.replaced = a.replaced
<1> DEFINE b == [a EXCEPT !.connection = k]
<1>1. a \in Streamings
  BY DEF AllClean
<1>2. /\ b \in Streamings /\ b.all = a.all /\ b.subscriptions = a.subscriptions
      /\ b.finder = a.finder
      /\ KeptState(a, b) /\ KeptRetry(a, b)
      /\ b.tokenHandlers = a.tokenHandlers
      /\ b.contextId = a.contextId /\ b.connection = k
      /\ b.former = a.former /\ b.replaced = a.replaced
  BY <1>1 DEF Streamings, KeptState, KeptRetry
<1> HIDE DEF b
<1> QED BY <1>2, LinkQuiet DEF b

(* disconnect. *)
Stops(a, b) ==
    /\ KeptState(a, b) /\ KeptRetry(a, b) /\ b.tokenHandlers = a.tokenHandlers
    /\ b.contextId = a.contextId
    /\ b.connection = IF a.connection.told = "exhausted" THEN a.connection
                      ELSE Contract!Stop(a.connection)
    /\ b.former = a.former /\ b.replaced = a.replaced

(* disconnect is quiet.                                                    *)
LEMMA DisconnectIs ==
    ASSUME NEW a, AllClean(a)
    PROVE  LET b == disconnect(a) IN
           /\ Quietly(a, b) /\ Untold(a, b) /\ Listed(b) = Listed(a)
           /\ Stops(a, b)
<1> DEFINE k == Contract!Stop(a.connection)
           c == [a EXCEPT !.connection = k]
           b == disconnect(a)
<1>1. b = IF a.connection.told = "exhausted" THEN a ELSE c
  BY DEF disconnect
<1>2. a.connection \in Contract!Promises
  BY DEF AllClean, Streamings
<1>3. k \in Contract!Promises
  BY <1>2, AskType
<1> HIDE DEF k, b
<1>4. /\ Quietly(a, c) /\ Untold(a, c) /\ Listed(c) = Listed(a)
      /\ KeptState(a, c) /\ KeptRetry(a, c)
      /\ c.tokenHandlers = a.tokenHandlers
      /\ c.contextId = a.contextId /\ c.connection = k
      /\ c.former = a.former /\ c.replaced = a.replaced
  BY <1>3, ConnectionChanged
<1> HIDE DEF c
<1>5. Quietly(a, a) /\ Untold(a, a) /\ KeptState(a, a) /\ KeptRetry(a, a)
  BY QuietSelf DEF KeptState, KeptRetry
<1> QED BY <1>1, <1>4, <1>5 DEF Stops, k, b

(* A reset is to come. *)
IsToReset(a, b) ==
    /\ b.connectionState = a.connectionState /\ b.disposed = a.disposed
    /\ b.isReset = TRUE
    /\ KeptRetry(a, b) /\ KeptLink(a, b) /\ b.tokenHandlers = a.tokenHandlers

(* So is asking for a reset.                                               *)
LEMMA IsToResetIs ==
    ASSUME NEW a, AllClean(a)
    PROVE  LET b == [a EXCEPT !.isReset = TRUE] IN
           /\ Quietly(a, b) /\ Untold(a, b)
           /\ IsToReset(a, b)
<1> DEFINE b == [a EXCEPT !.isReset = TRUE]
<1>1. a \in Streamings
  BY DEF AllClean
<1>2. /\ b \in Streamings /\ b.all = a.all /\ b.subscriptions = a.subscriptions
      /\ b.finder = a.finder /\ IsToReset(a, b)
  BY <1>1 DEF Streamings, IsToReset, KeptRetry, KeptLink
<1> HIDE DEF b
<1> QED BY <1>2, LinkQuiet DEF b

(* The server asks for a reconnection: all are told, and the connection is *)
(* stopped.                                                                *)
LEMMA ControlReconnectIs ==
    ASSUME NEW a, AllClean(a)
    PROVE  LET b == handleControlMessageReconnect(a) IN
           /\ Quietly(a, b) /\ AllTold(b, FALSE)
           /\ \E c \in Streamings : IsToReset(a, c) /\ Stops(c, b)
<1> DEFINE c == [a EXCEPT !.isReset = TRUE]
           d == AllUnavailable(c)
           b == handleControlMessageReconnect(a)
<1>1. b = disconnect(d)
  BY DEF handleControlMessageReconnect
<1>2. Quietly(a, c) /\ IsToReset(a, c)
  BY IsToResetIs
<1> HIDE DEF b, c
<1>3. AllClean(c)
  BY <1>2 DEF Quietly
<1>4. Quietly(c, d) /\ Kept(c, d) /\ AllTold(d, FALSE) /\ AllClean(d)
  BY <1>3, UnavailableQuiet DEF Quietly
<1> HIDE DEF d
<1>5. Quietly(d, b) /\ Untold(d, b) /\ Stops(d, b)
  BY <1>1, <1>4, DisconnectIs
<1>6. Quietly(a, b) /\ AllTold(b, FALSE)
  BY <1>2, <1>4, <1>5, QuietOn, ToldOn
<1>7. IsToReset(a, d)
  BY <1>2, <1>4 DEF IsToReset, Kept, KeptRetry, KeptLink
<1>8. d \in Streamings
  BY <1>4 DEF AllClean
<1> QED BY <1>5, <1>6, <1>7, <1>8 DEF b

(* The rest of a reconnection is called off. *)
Prepares(a, b) ==
    /\ b.connectionState = a.connectionState /\ b.disposed = a.disposed
    /\ b.isReset = TRUE /\ b.reconnecting = FALSE
    /\ b.reconnectTimer = IF a.reconnecting THEN FALSE ELSE a.reconnectTimer
    /\ b.lostTimers = a.lostTimers
    /\ KeptLink(a, b) /\ b.tokenHandlers = a.tokenHandlers

MustInit(a) == a.connection.told = "exhausted" \/ a.connectionState = "DISCONNECTED"

(* resetStreaming makes a new connection, or tells all and stops the       *)
(* present one.                                                            *)
LEMMA ResetStreamingIs ==
    ASSUME NEW a, AllClean(a), NEW expired \in BOOLEAN, NEW exhausted \in BOOLEAN
    PROVE  LET b == resetStreaming(a, expired, exhausted) IN
           /\ Quietly(a, b)
           /\ MustInit(a) => Untold(a, b)
           /\ ~MustInit(a) => AllTold(b, FALSE)
           /\ \E c \in Streamings :
                 /\ Prepares(a, c)
                 /\ IF MustInit(a) THEN Inits(c, b, expired, exhausted)
                    ELSE Stops(c, b)
<1> DEFINE c == [a EXCEPT !.isReset = TRUE]
           t == StopFinder(c)
           v == [t EXCEPT !.reconnecting = FALSE, !.reconnectTimer = FALSE]
           u == IF a.reconnecting THEN v ELSE t
           b == resetStreaming(a, expired, exhausted)
<1>1. b = IF MustInit(a) THEN init(u, expired, exhausted)
          ELSE disconnect(AllUnavailable(u))
  BY DEF resetStreaming, MustInit
<1>2. Quietly(a, c) /\ Untold(a, c) /\ IsToReset(a, c)
  BY IsToResetIs
<1> HIDE DEF b, c
<1>3. AllClean(c)
  BY <1>2 DEF Quietly
<1>4. Quietly(c, t) /\ Untold(c, t) /\ Kept(c, t)
  BY <1>3, StopQuiet
<1> HIDE DEF t
<1>5. /\ Quietly(a, t) /\ Untold(a, t) /\ IsToReset(a, t)
      /\ AllClean(t) /\ t \in Streamings
  BY <1>2, <1>4, QuietOn DEF IsToReset, Kept, KeptRetry, KeptLink, Quietly, AllClean
<1>6. /\ v \in Streamings /\ v.all = t.all /\ v.subscriptions = t.subscriptions
      /\ v.finder = t.finder
      /\ v.reconnecting = FALSE /\ v.reconnectTimer = FALSE
      /\ v.lostTimers = t.lostTimers
      /\ KeptState(t, v) /\ KeptLink(t, v) /\ v.tokenHandlers = t.tokenHandlers
  BY <1>5 DEF Streamings, KeptState, KeptLink
<1> HIDE DEF v
<1>7. Quietly(t, v) /\ Untold(t, v)
  BY <1>5, <1>6, LinkQuiet
<1>8. Quietly(a, u) /\ Untold(a, u) /\ Prepares(a, u)
  <2>1. CASE a.reconnecting
    <3>1. Quietly(a, v) /\ Untold(a, v)
      BY <1>5, <1>7, QuietOn
    <3>2. Prepares(a, v)
      BY <1>5, <1>6, <2>1 DEF Prepares, IsToReset, KeptState, KeptRetry, KeptLink
    <3> QED BY <2>1, <3>1, <3>2
  <2>2. CASE ~a.reconnecting
    <3>1. a.reconnecting = FALSE
      BY <2>2 DEF AllClean, Streamings
    <3>2. Prepares(a, t)
      BY <1>5, <2>2, <3>1 DEF Prepares, IsToReset, KeptRetry, KeptLink
    <3> QED BY <1>5, <2>2, <3>2
  <2> QED BY <2>1, <2>2
<1> HIDE DEF u
<1>9. AllClean(u)
  BY <1>8 DEF Quietly
<1>10. CASE MustInit(a)
  <2>1. Quietly(u, b) /\ Untold(u, b) /\ Inits(u, b, expired, exhausted)
    BY <1>1, <1>9, <1>10, InitIs
  <2>2. u \in Streamings
    BY <1>9 DEF AllClean
  <2>3. Quietly(a, b) /\ Untold(a, b)
    BY <1>8, <2>1, QuietOn
  <2> QED BY <1>8, <1>10, <2>1, <2>2, <2>3 DEF b
<1>11. CASE ~MustInit(a)
  <2> DEFINE d == AllUnavailable(u)
  <2>1. Quietly(u, d) /\ Kept(u, d) /\ AllTold(d, FALSE) /\ AllClean(d)
    BY <1>9, UnavailableQuiet DEF Quietly
  <2>2. b = disconnect(d)
    BY <1>1, <1>11
  <2> HIDE DEF d
  <2>3. Quietly(d, b) /\ Untold(d, b) /\ Stops(d, b)
    BY <2>1, <2>2, DisconnectIs
  <2>4. Quietly(a, b) /\ AllTold(b, FALSE)
    BY <1>8, <2>1, <2>3, QuietOn, ToldOn
  <2>5. Prepares(a, d)
    BY <1>8, <2>1 DEF Prepares, Kept, KeptLink
  <2>6. d \in Streamings
    BY <2>1 DEF AllClean
  <2> QED BY <1>11, <2>3, <2>4, <2>5, <2>6 DEF b
<1> QED BY <1>10, <1>11

(* dispose. *)
Disposes(a, b) ==
    /\ b.connectionState = a.connectionState /\ b.isReset = a.isReset
    /\ b.disposed = TRUE
    /\ KeptRetry(a, b) /\ KeptLink(a, b) /\ b.tokenHandlers = a.tokenHandlers

(* dispose leaves nobody on the list, and stops the connection.            *)
LEMMA DisposeStreamingIs ==
    ASSUME NEW a, AllClean(a)
    PROVE  LET b == disposeStreaming(a) IN
           /\ Steady(a, b) /\ b.subscriptions = <<>>
           /\ \E c \in Streamings : Disposes(a, c) /\ Stops(c, b)
<1> DEFINE t == StopFinder(a)
           e == ClearEach(t, Listed(a))
           c == [e EXCEPT !.disposed = TRUE, !.subscriptions = <<>>]
           b == disposeStreaming(a)
<1>1. b = disconnect(c)
  BY DEF disposeStreaming, ClearEach
<1>2. /\ Quietly(a, t) /\ Listed(t) = Listed(a) /\ Kept(a, t) /\ AllClean(t)
  BY StopQuiet DEF Quietly
<1> HIDE DEF b, t
<1>3. Called(t, e) /\ AllClean(e)
  BY <1>2, DisposedIs
<1> HIDE DEF e
<1>4. Steady(t, e) /\ Kept(t, e)
  BY <1>3, CalledListed DEF Steady, Called, Settles
<1>5. Steady(a, e) /\ Kept(a, e) /\ e \in Streamings
  BY <1>2, <1>3, <1>4, QuietSteady, SteadyOn, KeptOn DEF AllClean
<1>6. /\ c \in Streamings /\ c.all = e.all /\ c.subscriptions = <<>>
      /\ c.finder = e.finder
      /\ Disposes(e, c)
  <2> DEFINE q == <<>>
  <2>1. q \in Seq(Nat) /\ q = <<>>
    OBVIOUS
  <2> HIDE DEF q
  <2>2. c = [e EXCEPT !.disposed = TRUE, !.subscriptions = q]
    BY <2>1
  <2> HIDE DEF c
  <2> QED BY <1>5, <2>1, <2>2 DEF Streamings, Disposes, KeptRetry, KeptLink
<1> HIDE DEF c
<1>7. Listed(c) = {}
  BY <1>6 DEF Listed
<1>8. Steady(a, c) /\ AllClean(c)
  BY <1>5, <1>6, <1>7 DEF Steady, AllClean, Heard
<1>9. Quietly(c, b) /\ Stops(c, b)
  BY <1>1, <1>8, DisconnectIs
<1>10. b.subscriptions = <<>>
  <2>1. b.subscriptions = c.subscriptions
    BY <1>1, <1>8 DEF disconnect, AllClean, Streamings
  <2> QED BY <1>6, <2>1
<1>11. Disposes(a, c)
  BY <1>5, <1>6 DEF Disposes, Kept, KeptRetry, KeptLink
<1>12. Steady(a, b)
  BY <1>8, <1>9, QuietSteady, SteadyOn
<1> QED BY <1>6, <1>9, <1>10, <1>11, <1>12 DEF b

(* A call that fails or reports that the connection has started. *)
LEMMA FailedIs ==
    ASSUME NEW a, AllClean(a)
    PROVE  /\ LET b == onStreamingFailed(a) IN
              Quietly(a, b) /\ Untold(a, b) /\ Enters(a, b, "DISCONNECTED")
           /\ LET b == onConnectionStarted(a) IN
              /\ Quietly(a, b) /\ Untold(a, b)
              /\ Enters(a, b, IF a.connectionState = "INITIALIZING" THEN "STARTED"
                             ELSE a.connectionState)
<1>1. Enters(a, a, a.connectionState) /\ Quietly(a, a) /\ Untold(a, a)
  BY QuietSelf DEF Enters, KeptRetry, KeptLink
<1>2. "DISCONNECTED" \in ConnectionStates /\ "STARTED" \in ConnectionStates
  BY DEF ConnectionStates
<1>3. LET b == onStreamingFailed(a) IN
      Quietly(a, b) /\ Untold(a, b) /\ Enters(a, b, "DISCONNECTED")
  BY <1>2, MovesIs DEF onStreamingFailed
<1>4. LET b == onConnectionStarted(a) IN
      /\ Quietly(a, b) /\ Untold(a, b)
      /\ Enters(a, b, IF a.connectionState = "INITIALIZING" THEN "STARTED"
                     ELSE a.connectionState)
  <2> DEFINE c == [a EXCEPT !.connectionState = "STARTED"]
  <2>1. Quietly(a, c) /\ Untold(a, c) /\ Enters(a, c, "STARTED")
    BY <1>2, MovesIs
  <2>2. onConnectionStarted(a) = IF a.connectionState = "INITIALIZING" THEN c ELSE a
    BY DEF onConnectionStarted
  <2> HIDE DEF c
  <2> QED BY <1>1, <2>1, <2>2
<1> QED BY <1>3, <1>4

(***************************************************************************)
(* The steps.                                                              *)
(***************************************************************************)
Sound(a, n) == AllClean(a) /\ NoneReady(a) /\ Clock(a, n) /\ Watched(a)

(* Nobody that is listed has heard anything new. *)
SameAvail(a, b) ==
    \A i \in Listed(b) :
        /\ i \in Listed(a)
        /\ b.all[i].sub.connectionAvailable = a.all[i].sub.connectionAvailable

(* When nobody is told anything, nobody that is listed is.                 *)
LEMMA UntoldSame ==
    ASSUME NEW a, AllClean(a), NEW b, Untold(a, b), Listed(b) \subseteq Listed(a)
    PROVE  SameAvail(a, b)
BY DEF AllClean, Untold, SameAvail

(* The end of a call leaves a sound streaming.                             *)
LEMMA DoneSound ==
    ASSUME NEW t, AllClean(t), NEW n \in Nat, Clock(t, n), Watched(t),
           NEW b, b = Done(t)
    PROVE  /\ Sound(b, n) /\ Kept(t, b) /\ Quietly(t, b) /\ Untold(t, b)
           /\ Listed(b) = Listed(t) /\ DOMAIN b.all = DOMAIN t.all
           /\ SameAvail(t, b)
<1>1. /\ AllClean(b) /\ Kept(t, b) /\ Quietly(t, b) /\ Untold(t, b)
      /\ NoneReady(b) /\ b.subscriptions = t.subscriptions
  BY DoneIs
<1>2. Clock(b, n) /\ Watched(b)
  BY <1>1, QuietSteady, SteadyClock, QuietWatched DEF AllClean
<1>3. Listed(b) = Listed(t) /\ DOMAIN b.all = DOMAIN t.all
  BY <1>1 DEF Listed, Quietly, Heard
<1> QED BY <1>1, <1>2, <1>3, UntoldSame DEF Sound

(* A quiet call. *)
LEMMA QuietSound ==
    ASSUME NEW a, NEW n \in Nat, Sound(a, n), NEW t, Quietly(a, t),
           NEW b, b = Done(t)
    PROVE  /\ Sound(b, n) /\ Kept(t, b) /\ DOMAIN b.all = DOMAIN a.all
           /\ Listed(b) = Listed(t)
           /\ Untold(a, t) => SameAvail(a, b)
           /\ \A v : AllTold(t, v) => AllTold(b, v)
<1>1. AllClean(a) /\ AllClean(t) /\ Clock(t, n) /\ Watched(t)
  BY QuietSteady, SteadyClock, QuietWatched DEF Sound, AllClean, Quietly
<1>2. /\ Sound(b, n) /\ Kept(t, b) /\ Quietly(t, b) /\ Untold(t, b)
      /\ Listed(b) = Listed(t) /\ DOMAIN b.all = DOMAIN t.all
  BY <1>1, DoneSound
<1>3. DOMAIN t.all = DOMAIN a.all
  BY DEF Quietly, Heard
<1>4. Untold(a, t) => SameAvail(a, b)
  <2>1. Untold(a, t) => Untold(a, b) /\ Quietly(a, b)
    BY <1>2, QuietOn
  <2> QED BY <1>1, <2>1, UntoldSame DEF Quietly
<1>5. \A v : AllTold(t, v) => AllTold(b, v)
  BY <1>1, <1>2, ToldOn
<1> QED BY <1>2, <1>3, <1>4, <1>5

(* A new streaming. *)
LEMMA NewIs ==
    /\ AllClean(NewStreaming) /\ NoneReady(NewStreaming)
    /\ Clock(NewStreaming, 0) /\ Watched(NewStreaming)
    /\ NewStreaming.all = <<>> /\ NewStreaming.subscriptions = <<>>
    /\ NewStreaming.connectionState = "INITIALIZING"
    /\ NewStreaming.reconnecting = FALSE /\ NewStreaming.isReset = FALSE
    /\ NewStreaming.disposed = FALSE /\ NewStreaming.contextId = 0
    /\ NewStreaming.reconnectTimer = FALSE /\ NewStreaming.lostTimers = 0
    /\ NewStreaming.tokenHandlers = <<>> /\ NewStreaming.replaced = 0
    /\ NewStreaming.connection = Contract!NewPromise
    /\ NewStreaming.former = Contract!NewPromise
<1>1. /\ NewStreaming.all = <<>> /\ NewStreaming.subscriptions = <<>>
      /\ NewStreaming.finder = NewFinder
      /\ NewStreaming.connectionState = "INITIALIZING"
      /\ NewStreaming.reconnecting = FALSE /\ NewStreaming.isReset = FALSE
      /\ NewStreaming.disposed = FALSE /\ NewStreaming.contextId = 0
      /\ NewStreaming.reconnectTimer = FALSE /\ NewStreaming.lostTimers = 0
      /\ NewStreaming.tokenHandlers = <<>> /\ NewStreaming.replaced = 0
      /\ NewStreaming.connection = Contract!NewPromise
      /\ NewStreaming.former = Contract!NewPromise
  BY DEF NewStreaming
<1>2. NewFinder \in Finders /\ ~NewFinder.enabled /\ NewFinder.minCheckTime = 0
      /\ NewFinder.nextUpdateTime = Infinity
  BY FinderAssumption DEF NewFinder, Finders
<1>3. Contract!NewPromise \in Contract!Promises
  BY DEF Contract!NewPromise, Contract!Promises, Contract!Asked, Contract!States
<1>4. NewStreaming \in Streamings
  BY <1>2, <1>3 DEF NewStreaming, Streamings, ConnectionStates
<1>5. Listed(NewStreaming) = {} /\ DOMAIN NewStreaming.all = {}
  BY <1>1 DEF Listed
<1>6. AllClean(NewStreaming) /\ NoneReady(NewStreaming)
  BY <1>4, <1>5 DEF AllClean, NoneReady
<1>7. Clock(NewStreaming, 0)
  <2>1. 0 <= 0 + startDelay
    BY FinderAssumption
  <2> QED BY <1>1, <1>2, <1>5, <2>1 DEF Clock, Armed
<1>8. Watched(NewStreaming)
  BY <1>1, <1>2 DEF Watched
<1> QED BY <1>1, <1>6, <1>7, <1>8

(* A heartbeat. *)
Beats(a, i, n) == [a EXCEPT !.all[i].latestActivity = n]

(* It is sound still.                                                      *)
LEMMA HeartbeatIs ==
    ASSUME NEW a, NEW n \in Nat, Sound(a, n), NEW i \in DOMAIN a.all
    PROVE  LET b == Beats(a, i, n) IN
           /\ Sound(b, n) /\ Kept(a, b) /\ DOMAIN b.all = DOMAIN a.all
           /\ SameAvail(a, b) /\ b.subscriptions = a.subscriptions
<1> DEFINE e == [a.all[i] EXCEPT !.latestActivity = n]
           g == [j \in DOMAIN a.all |-> IF j = i THEN e ELSE a.all[j]]
           b == Beats(a, i, n)
<1>1. a \in Streamings /\ a.all \in Seq(Entries) /\ AllClean(a)
  BY DEF Sound, AllClean, Streamings
<1>2. \A j \in DOMAIN a.all : a.all[j] \in Entries
  BY <1>1, ElementOfSeq, LenProperties, Zenon
<1>3. /\ e \in Entries /\ e.sub = a.all[i].sub /\ e.latestActivity = n
      /\ e.inactivityTimeout = a.all[i].inactivityTimeout
  BY <1>2 DEF Entries
<1>4. a.all = [j \in DOMAIN a.all |-> a.all[j]]
  BY <1>1
<1>5. b = [a EXCEPT !.all = g]
  <2>1. b = [a EXCEPT !.all = [a.all EXCEPT ![i] = e]]
    BY <1>1 DEF Beats, Streamings
  <2> HIDE DEF e, b
  <2>2. [a.all EXCEPT ![i] = e] = g
    BY <1>4
  <2> HIDE DEF g
  <2> QED BY <2>1, <2>2
<1> HIDE DEF b, e
<1>6. g \in [DOMAIN a.all -> Entries]
  BY <1>2, <1>3
<1>7. g[i] = e /\ \A j \in DOMAIN a.all : j # i => g[j] = a.all[j]
  OBVIOUS
<1> HIDE DEF g
<1>8. Replaced(a, b, g)
  BY <1>5 DEF Replaced
<1>9. /\ b \in Streamings /\ b.all = g /\ DOMAIN g = DOMAIN a.all
      /\ Kept(a, b) /\ b.subscriptions = a.subscriptions
      /\ b.finder = a.finder
  BY <1>1, <1>6, <1>8, AllChanged
<1>10. \A j \in DOMAIN a.all :
          /\ b.all[j].sub = a.all[j].sub
          /\ b.all[j].inactivityTimeout = a.all[j].inactivityTimeout
          /\ b.all[j].latestActivity \in {a.all[j].latestActivity, n}
  BY <1>3, <1>7, <1>9
<1>11. Listed(b) = Listed(a) /\ DOMAIN b.all = DOMAIN a.all
  BY <1>9 DEF Listed
<1>12. AllClean(b) /\ NoneReady(b) /\ SameAvail(a, b)
  BY <1>1, <1>9, <1>10, <1>11 DEF AllClean, NoneReady, SameAvail, Sound
<1>13. Clock(b, n)
  BY <1>9, <1>10, <1>11 DEF Clock, Sound
<1>14. Watched(b)
  <2> SUFFICES ASSUME b.finder.enabled, NEW j \in Listed(b),
                      b.all[j].sub.connectionAvailable,
                      b.all[j].sub.currentState = STATE_SUBSCRIBED,
                      b.all[j].inactivityTimeout # 0
               PROVE  \E due \in Due(b.finder) :
                         \/ due <= b.all[j].latestActivity + b.all[j].inactivityTimeout
                         \/ due <= b.finder.minCheckTime
    BY DEF Watched
  <2>1. j \in Listed(a) /\ j \in DOMAIN a.all
    BY <1>1, <1>11 DEF AllClean
  <2>2. PICK due \in Due(a.finder) :
            \/ due <= a.all[j].latestActivity + a.all[j].inactivityTimeout
            \/ due <= a.finder.minCheckTime
    BY <1>9, <1>10, <2>1 DEF Sound, Watched
  <2>3. /\ a.all[j].latestActivity \in Nat /\ a.all[j].inactivityTimeout \in Nat
        /\ a.all[j].latestActivity <= n
    BY <1>2, <2>1 DEF Entries, Sound, Clock
  <2>4. due \in Nat
    BY SMTT(30), <1>1 DEF Due, Streamings, Finders
  <2>5. a.all[j].latestActivity + a.all[j].inactivityTimeout
            <= b.all[j].latestActivity + b.all[j].inactivityTimeout
    BY <1>10, <2>1, <2>3
  <2>6. b.all[j].latestActivity + b.all[j].inactivityTimeout \in Nat
    BY <1>10, <2>1, <2>3
  <2>7. \/ due <= b.all[j].latestActivity + b.all[j].inactivityTimeout
        \/ due <= b.finder.minCheckTime
    BY <1>9, <2>2, <2>3, <2>4, <2>5, <2>6
  <2> QED BY <1>9, <2>7
<1> QED BY <1>9, <1>11, <1>12, <1>13, <1>14 DEF Sound, b
=============================================================================
