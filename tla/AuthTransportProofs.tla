------------------------- MODULE AuthTransportProofs -------------------------
(***************************************************************************)
(* Theorems about AuthTransport, for all calls, promises, delays, token    *)
(* lifetimes and environments.  The lemmas about the provider come first:  *)
(* Cycle is the shape every method of AuthProvider keeps.                  *)
(***************************************************************************)
EXTENDS AuthTransport, TLAPS, FiniteSetTheorems

(* A provider refreshes, or waits with at most the timer that fits its     *)
(* retries, or has failed and does nothing.                                *)
Cycle(p) ==
    \/ p.state = STATE_REFRESHING /\ p.fetches = 1 /\ p.timers = {}
    \/ p.state = STATE_FAILED /\ p.fetches = 0 /\ p.timers = {}
    \/ /\ p.state = STATE_WAITING /\ p.fetches = 0
       /\ \/ p.timers = {}
          \/ /\ p.timers = {p.tokenRefreshTimer}
             /\ p.retries > 0 => p.tokenRefreshTimer.calls = "refreshToken"

(* Something is to come: an answer or a timer.                             *)
Coming(p) == p.state = STATE_WAITING => p.timers # {}

Good(p) == p \in Providers /\ Cycle(p)

(* What clearTimeout and setTimeout do to a provider that waits.           *)
LEMMA ClearTimeoutGood ==
    ASSUME NEW p, Good(p)
    PROVE  clearTimeout(p) = [p EXCEPT !.timers = {}]
<1>1. p.timers \ {p.tokenRefreshTimer} = {}
  BY DEF Good, Cycle
<1> QED
  BY <1>1 DEF clearTimeout

(* setTimeout.                                                             *)
LEMMA SetTimeoutGood ==
    ASSUME NEW p \in Providers, NEW timer \in Timers,
           p.state = STATE_WAITING, p.fetches = 0, p.timers = {},
           p.retries > 0 => timer.calls = "refreshToken"
    PROVE  LET q == setTimeout(p, timer)
           IN  /\ Good(q) /\ Coming(q)
               /\ q.expiry = p.expiry /\ q.disposed = p.disposed
               /\ q.state = p.state /\ q.retries = p.retries
<1>1. setTimeout(p, timer) = [p EXCEPT !.timers = {timer},
                                       !.tokenRefreshTimer = timer]
  BY DEF setTimeout
<1>2. {timer} \in SUBSET Timers /\ {timer} # {}
  OBVIOUS
<1> DEFINE q == setTimeout(p, timer)
<1>3. q \in Providers
  BY <1>1, <1>2 DEF Providers
<1>4. /\ q.timers = {timer} /\ q.tokenRefreshTimer = timer
      /\ q.state = p.state /\ q.retries = p.retries /\ q.fetches = 0
      /\ q.expiry = p.expiry /\ q.disposed = p.disposed
  BY <1>1 DEF Providers
<1> HIDE DEF q
<1> QED
  BY <1>2, <1>3, <1>4 DEF Good, Cycle, Coming, q

(* refreshToken.                                                           *)
LEMMA RefreshTokenGood ==
    ASSUME NEW p, Good(p), p.fetches = 0, NEW n \in Nat
    PROVE  LET q == refreshToken(p, n)
           IN  /\ Good(q) /\ Coming(q) /\ isFetchingNewToken(q)
               /\ q.expiry = p.expiry /\ q.disposed = p.disposed
<1>1. clearTimeout(p) = [p EXCEPT !.timers = {}]
  BY ClearTimeoutGood
<1> DEFINE cleared == clearTimeout(p)
           q == refreshToken(p, n)
<1>2. /\ cleared \in Providers /\ cleared.timers = {} /\ cleared.fetches = 0
      /\ cleared.expiry = p.expiry /\ cleared.disposed = p.disposed
  BY <1>1 DEF Good, Providers
<1>3. q = [cleared EXCEPT !.state = STATE_REFRESHING,
                          !.fetches = cleared.fetches + 1,
                          !.lastTokenFetchTime = n]
  BY DEF refreshToken
<1>4. cleared.fetches + 1 = 1
  BY <1>2
<1> HIDE DEF cleared, q
<1>5. q = [cleared EXCEPT !.state = STATE_REFRESHING,
                          !.fetches = 1,
                          !.lastTokenFetchTime = n]
  BY <1>3, <1>4
<1>6. q \in Providers
  BY <1>2, <1>5 DEF Providers
<1>7. /\ q.state = STATE_REFRESHING /\ q.fetches = 1 /\ q.timers = {}
      /\ q.expiry = p.expiry /\ q.disposed = p.disposed
  BY <1>2, <1>5 DEF Providers
<1> QED
  BY <1>6, <1>7 DEF q, Good, Cycle, Coming, isFetchingNewToken,
                    STATE_WAITING, STATE_REFRESHING

(* refreshOpenApiToken.                                                    *)
LEMMA RefreshOpenApiTokenGood ==
    ASSUME NEW p, Good(p), NEW n \in Nat
    PROVE  LET q == refreshOpenApiToken(p, n)
           IN  /\ Good(q) /\ isFetchingNewToken(q)
               /\ Coming(p) => Coming(q)
               /\ ~ isFetchingNewToken(p) => Coming(q)
               /\ q.expiry = p.expiry /\ q.disposed = p.disposed
<1>1. CASE isFetchingNewToken(p)
  BY <1>1 DEF refreshOpenApiToken
<1>2. CASE ~ isFetchingNewToken(p)
  <2>1. p.fetches = 0
    BY <1>2 DEF Good, Cycle, isFetchingNewToken, STATE_WAITING,
                STATE_REFRESHING, STATE_FAILED
  <2> QED
    BY <1>2, <2>1, RefreshTokenGood DEF refreshOpenApiToken
<1> QED
  BY <1>1, <1>2

(* createTimer.                                                            *)
LEMMA CreateTimerGood ==
    ASSUME NEW p \in Providers, NEW n \in Nat,
           p.state = STATE_WAITING, p.retries = 0, p.fetches = 0,
           p.timers = {}
    PROVE  LET q == createTimerForNextToken(p, n)
           IN  /\ Good(q) /\ Coming(q)
               /\ q.expiry = p.expiry /\ q.disposed = p.disposed
<1>1. Good(p) /\ ~ isFetchingNewToken(p)
  BY DEF Good, Cycle, isFetchingNewToken
<1>2. CASE p.expiry <= n
  BY <1>1, <1>2, RefreshOpenApiTokenGood DEF createTimerForNextToken
<1>3. CASE ~ (p.expiry <= n)
  <2> DEFINE timer == [calls |-> "refreshOpenApiToken",
                       at |-> Later(n, p.expiry - tokenRefreshMargin)]
  <2>1. timer \in Timers
    <3>1. p.expiry - tokenRefreshMargin \in Int
      BY ProviderOptions DEF Providers
    <3> QED
      BY <3>1 DEF Later, Timers
  <2>2. createTimerForNextToken(p, n) = setTimeout(p, timer)
    BY <1>3 DEF createTimerForNextToken
  <2> HIDE DEF timer
  <2> QED
    BY <2>1, <2>2, SetTimeoutGood
<1> QED
  BY <1>2, <1>3

(* A new provider.                                                         *)
LEMMA NewAuthProviderGood ==
    ASSUME NEW expiry \in Nat, NEW n \in Nat
    PROVE  LET q == NewAuthProvider(expiry, n)
           IN  Good(q) /\ Coming(q)
<1> DEFINE p == [state |-> STATE_WAITING, retries |-> 0, expiry |-> expiry,
                 timers |-> {}, tokenRefreshTimer |-> NoTimer, fetches |-> 0,
                 disposed |-> FALSE, lastTokenFetchTime |-> 0]
<1>1. /\ p \in Providers
      /\ p.state = STATE_WAITING /\ p.retries = 0
      /\ p.fetches = 0 /\ p.timers = {}
  BY DEF Providers, NoTimer, Timers
<1>2. NewAuthProvider(expiry, n) = createTimerForNextToken(p, n)
  BY DEF NewAuthProvider
<1> HIDE DEF p
<1> QED
  BY <1>1, <1>2, CreateTimerGood

(* What an answer finds: the provider was refreshing.                      *)
LEMMA IdleGood ==
    ASSUME NEW p, Good(p), p.fetches > 0
    PROVE  LET q == Idle(p)
           IN  /\ q \in Providers
               /\ q.state = STATE_WAITING /\ q.retries = 0
               /\ q.fetches = 0 /\ q.timers = {}
               /\ q.expiry = p.expiry /\ q.disposed = p.disposed
<1>1. p \in Providers /\ p.fetches - 1 = 0 /\ p.timers = {}
  BY DEF Good, Cycle, Providers
<1>2. Idle(p) = [p EXCEPT !.fetches = p.fetches - 1,
                          !.state = STATE_WAITING,
                          !.retries = 0]
  BY DEF Idle
<1> DEFINE q == Idle(p)
<1>3. q = [p EXCEPT !.fetches = 0,
                    !.state = STATE_WAITING,
                    !.retries = 0]
  BY <1>1, <1>2
<1> HIDE DEF q
<1>4. q \in Providers
  BY <1>1, <1>3 DEF Providers
<1>5. /\ q.state = STATE_WAITING /\ q.retries = 0
      /\ q.fetches = 0 /\ q.timers = {}
      /\ q.expiry = p.expiry /\ q.disposed = p.disposed
  BY <1>1, <1>3 DEF Providers
<1> QED
  BY <1>4, <1>5 DEF q

(* A token is received.                                                    *)
LEMMA ReceivedGood ==
    ASSUME NEW p, Good(p), p.fetches > 0, NEW expiry \in Nat, NEW n \in Nat
    PROVE  LET q == onApiTokenReceived(p, expiry, n)
           IN  /\ Good(q) /\ Coming(q)
               /\ q.expiry = expiry /\ q.disposed = p.disposed
<1> DEFINE idle == Idle(p)
           q == [idle EXCEPT !.expiry = expiry]
<1>1. /\ idle \in Providers
      /\ idle.state = STATE_WAITING /\ idle.retries = 0
      /\ idle.fetches = 0 /\ idle.timers = {}
      /\ idle.disposed = p.disposed
  BY IdleGood
<1>2. onApiTokenReceived(p, expiry, n) = createTimerForNextToken(q, n)
  BY DEF onApiTokenReceived
<1> HIDE DEF idle
<1>3. /\ q \in Providers
      /\ q.state = STATE_WAITING /\ q.retries = 0
      /\ q.fetches = 0 /\ q.timers = {}
      /\ q.expiry = expiry /\ q.disposed = p.disposed
  BY <1>1 DEF Providers
<1> HIDE DEF q
<1> QED
  BY <1>2, <1>3, CreateTimerGood

(* A response without a token.                                             *)
LEMMA MissingGood ==
    ASSUME NEW p, Good(p), p.fetches > 0
    PROVE  Good(onApiTokenMissing(p))
BY IdleGood DEF onApiTokenMissing, Good, Cycle

(* A request that fails.                                                   *)
LEMMA FailGood ==
    ASSUME NEW p, Good(p), p.fetches > 0,
           NEW isAuthenticationError \in BOOLEAN, NEW n \in Nat
    PROVE  LET q == onApiTokenReceiveFail(p, isAuthenticationError, n)
           IN  /\ Good(q) /\ Coming(q) /\ isFetchingNewToken(q)
               /\ q.expiry = p.expiry /\ q.disposed = p.disposed
<1>1. /\ p \in Providers /\ p.fetches = 1 /\ p.timers = {}
      /\ p.retries \in Nat
  BY DEF Good, Cycle, Providers
<1> DEFINE timer == [calls |-> "refreshToken", at |-> n + retryDelay]
<1>2. timer \in Timers /\ timer.calls = "refreshToken"
  BY ProviderOptions DEF Timers
<1> DEFINE answered == [p EXCEPT !.fetches = @ - 1]
<1>3. /\ answered \in Providers
      /\ answered.fetches = 0 /\ answered.timers = {}
      /\ answered.retries = p.retries
      /\ answered.expiry = p.expiry /\ answered.disposed = p.disposed
  BY <1>1 DEF Providers
<1>4. CASE isAuthenticationError \/ p.retries >= maxRetryCount
  <2>1. onApiTokenReceiveFail(p, isAuthenticationError, n) =
            [answered EXCEPT !.state = STATE_FAILED]
    BY <1>4 DEF onApiTokenReceiveFail
  <2> DEFINE failed == [answered EXCEPT !.state = STATE_FAILED]
  <2>2. /\ failed \in Providers /\ failed.state = STATE_FAILED
        /\ failed.fetches = 0 /\ failed.timers = {}
        /\ failed.expiry = p.expiry /\ failed.disposed = p.disposed
    BY <1>3 DEF Providers
  <2> HIDE DEF failed
  <2>3. Good(failed) /\ Coming(failed) /\ isFetchingNewToken(failed)
    BY <2>2 DEF Good, Cycle, Coming, isFetchingNewToken, STATE_WAITING,
                STATE_FAILED
  <2> QED
    BY <2>1, <2>2, <2>3 DEF failed
<1>5. CASE ~ (isAuthenticationError \/ p.retries >= maxRetryCount)
  <2> DEFINE more == answered.retries + 1
             a == [answered EXCEPT !.state = STATE_WAITING, !.retries = more]
  <2>1. onApiTokenReceiveFail(p, isAuthenticationError, n) =
            setTimeout(a, timer)
    BY <1>5 DEF onApiTokenReceiveFail
  <2>2. /\ a \in Providers /\ a.state = STATE_WAITING /\ a.retries > 0
        /\ a.fetches = 0 /\ a.timers = {}
        /\ a.expiry = p.expiry /\ a.disposed = p.disposed
    <3>1. more \in Nat /\ more > 0
      BY <1>1, <1>3
    <3> HIDE DEF more, answered
    <3> QED
      BY <1>3, <3>1 DEF Providers
  <2> HIDE DEF a, timer
  <2>3. LET q == setTimeout(a, timer)
        IN  /\ Good(q) /\ Coming(q)
            /\ q.expiry = a.expiry /\ q.disposed = a.disposed
            /\ q.retries = a.retries
    BY <1>2, <2>2, SetTimeoutGood
  <2> QED
    BY <2>1, <2>2, <2>3 DEF isFetchingNewToken
<1> QED
  BY <1>4, <1>5

(* A request that is rejected.                                             *)
LEMMA RejectedGood ==
    ASSUME NEW p, Good(p), NEW expiry, NEW n \in Nat
    PROVE  LET q == tokenRejected(p, expiry, n)
           IN  /\ Good(q)
               /\ Coming(p) => Coming(q)
               /\ q = p \/ isFetchingNewToken(q)
               /\ q.expiry = p.expiry /\ q.disposed = p.disposed
BY RefreshOpenApiTokenGood DEF tokenRejected

(* The timer fires.                                                        *)
LEMMA TimerFiresGood ==
    ASSUME NEW p, Good(p), NEW timer \in p.timers, NEW n \in Nat
    PROVE  LET q == timerFires(p, timer, n)
           IN  /\ Good(q) /\ Coming(q) /\ isFetchingNewToken(q)
               /\ q.expiry = p.expiry /\ q.disposed = p.disposed
<1> DEFINE ended == [p EXCEPT !.timers = @ \ {timer}]
<1>1. /\ Good(ended) /\ ended.fetches = 0 /\ ended.state = STATE_WAITING
      /\ ended.retries > 0 => timer.calls = "refreshToken"
      /\ ended.expiry = p.expiry /\ ended.disposed = p.disposed
  BY DEF Good, Cycle, Providers, STATE_WAITING, STATE_REFRESHING,
         STATE_FAILED
<1>2. timerFires(p, timer, n) =
          IF timer.calls = "refreshToken" THEN refreshToken(ended, n)
                                          ELSE refreshOpenApiToken(ended, n)
  BY DEF timerFires
<1> HIDE DEF ended
<1>3. CASE timer.calls = "refreshToken"
  BY <1>1, <1>2, <1>3, RefreshTokenGood
<1>4. CASE timer.calls # "refreshToken"
  <2>1. ~ isFetchingNewToken(ended)
    BY <1>1, <1>4 DEF isFetchingNewToken, Good, Providers
  <2> QED
    BY <1>1, <1>2, <1>4, <2>1, RefreshOpenApiTokenGood
<1> QED
  BY <1>3, <1>4

(* dispose.                                                                *)
LEMMA DisposeGood ==
    ASSUME NEW p, Good(p)
    PROVE  /\ Good(dispose(p)) /\ dispose(p).disposed
           /\ dispose(p).expiry = p.expiry
           /\ isFetchingNewToken(p) => isFetchingNewToken(dispose(p))
BY DEF Good, Cycle, Providers, dispose, clearTimeout, isFetchingNewToken

(* The refresh timer is cleared.                                           *)
LEMMA DroppedGood ==
    ASSUME NEW p, Good(p)
    PROVE  LET q == [p EXCEPT !.timers = {}]
           IN  /\ Good(q)
               /\ q.expiry = p.expiry
               /\ isFetchingNewToken(p) => isFetchingNewToken(q)
BY DEF Good, Cycle, Providers, isFetchingNewToken
-----------------------------------------------------------------------------
(***************************************************************************)
(* The inductive invariant.  QueueMoves needs that calls are held for a    *)
(* cause, and that the queue of a behaviour without QueueDispose hears of  *)
(* new tokens; RefusalsAreSpaced, that the last refusal of each call is    *)
(* remembered until the period has passed; RefreshCycle, the shape of the  *)
(* provider.                                                               *)
(***************************************************************************)
CycleInv ==
    /\ Good(auth)
    /\ Without({"TokenMissing", "TimersDropped"}) /\ ~ auth.disposed =>
           Coming(auth)

Listening == Without({"QueueDispose"}) => listening

HeldForCause ==
    Without({"TokenMissing", "QueueDispose"}) =>
        (isQueueing \/ queue # <<>> =>
            \/ waitForPromises # {}
            \/ isFetchingNewToken(auth)
            \/ auth.expiry <= now)

Remembered ==
    Without({"QueueDispose"}) =>
        \A c \in Calls :
            LET refused == calls[c].refused
            IN  \/ refused = NoTry
                \/ [authExpiry |-> refused.expiry, added |-> refused.sentAt]
                       \in authorizationErrors
                \/ refused.sentAt <= now - authErrorsDebouncePeriod

IInv == /\ TypeOK
        /\ CycleInv
        /\ Listening
        /\ NotSentExpired
        /\ HeldForCause
        /\ Remembered

-----------------------------------------------------------------------------
(* A call keeps its type and its last refusal, and may become sent with a  *)
(* token that has not expired.                                             *)
MaySend(old, new) ==
    /\ new \in CallRecords
    /\ new.refused = old.refused
    /\ \/ new = old
       \/ new.status = "sent" /\ new.try.expiry >= new.try.sentAt

(* A call that is sent.                                                    *)
LEMMA SentCall ==
    ASSUME NEW call \in CallRecords, NEW provider \in Providers,
           now \in Nat, provider.expiry >= now
    PROVE  MaySend(call, Sent(call, provider))
<1> DEFINE try == [expiry |-> provider.expiry, sentAt |-> now]
           new == [call EXCEPT !.status = "sent", !.try = try]
<1>1. try \in Tries /\ try.expiry >= try.sentAt
  BY DEF Tries, Providers
<1> HIDE DEF try
<1>2. /\ new \in CallRecords /\ new.refused = call.refused
      /\ new.status = "sent" /\ new.try = try
  BY <1>1 DEF CallRecords
<1>3. Sent(call, provider) = new
  BY DEF Sent, try
<1> HIDE DEF new
<1> QED
  BY <1>1, <1>2, <1>3 DEF MaySend

(* tryEmptyQueue.                                                          *)
LEMMA TryEmptyQueueStep ==
    ASSUME NEW q \in Seq(Calls), NEW cs \in [Calls -> CallRecords],
           NEW promises, NEW provider \in Providers,
           now \in Nat, isQueueing \in BOOLEAN,
           TryEmptyQueue(q, cs, promises, provider)
    PROVE  /\ isQueueing' \in BOOLEAN
           /\ queue' \in Seq(Calls)
           /\ calls' \in [Calls -> CallRecords]
           /\ \A c \in Calls : MaySend(cs[c], calls'[c])
           /\ isQueueing' \/ queue' # <<>> =>
                  promises # {} \/ provider.expiry <= now
<1>1. CASE MayEmptyQueue(promises, provider)
  <2>1. /\ isQueueing' = FALSE /\ queue' = <<>>
        /\ calls' = [c \in Calls |-> IF c \in Range(q)
                                     THEN Sent(cs[c], provider)
                                     ELSE cs[c]]
    BY <1>1 DEF TryEmptyQueue
  <2>2. provider.expiry >= now
    BY <1>1 DEF MayEmptyQueue, Providers
  <2>3. \A c \in Calls : MaySend(cs[c], calls'[c])
    <3> TAKE c \in Calls
    <3>1. cs[c] \in CallRecords
      OBVIOUS
    <3>2. MaySend(cs[c], Sent(cs[c], provider)) /\ MaySend(cs[c], cs[c])
      BY <2>2, <3>1, SentCall DEF MaySend
    <3> QED
      BY <2>1, <3>2
  <2>4. calls' \in [Calls -> CallRecords]
    <3>1. DOMAIN calls' = Calls /\ calls' = [c \in Calls |-> calls'[c]]
      BY <2>1
    <3> QED
      BY <2>3, <3>1 DEF MaySend
  <2>5. isQueueing' \in BOOLEAN /\ ~ isQueueing' /\ ~ (queue' # <<>>)
    BY <2>1
  <2>6. queue' \in Seq(Calls)
    BY <2>1
  <2> QED
    BY <2>3, <2>4, <2>5, <2>6
<1>2. CASE ~ MayEmptyQueue(promises, provider)
  <2>1. isQueueing' = isQueueing /\ queue' = q /\ calls' = cs
    BY <1>2 DEF TryEmptyQueue
  <2>2. promises # {} \/ provider.expiry <= now
    BY <1>2 DEF MayEmptyQueue, Providers
  <2>3. \A c \in Calls : MaySend(cs[c], cs[c])
    BY DEF MaySend
  <2> QED
    BY <2>1, <2>2, <2>3
<1> QED
  BY <1>1, <1>2

(* What changes the provider alone keeps the invariant if it leaves the    *)
(* queue a reason to wait.                                                 *)
LEMMA ProviderOnlyStep ==
    ASSUME IInv, NEW p, ProviderOnly(p), Good(p),
           Without({"TokenMissing", "TimersDropped"}) /\ ~ p.disposed =>
               Coming(p),
           Without({"TokenMissing", "QueueDispose"}) =>
               \/ isFetchingNewToken(p)
               \/ /\ p.expiry = auth.expiry
                  /\ ~ isFetchingNewToken(auth)
    PROVE  IInv'
<1>1. auth' = p /\ UNCHANGED <<now, isQueueing, queue, waitForPromises,
          listening, settledPromises, authorizationErrors, calls, env>>
  BY DEF ProviderOnly, queueVars
<1>2. TypeOK'
  BY <1>1 DEF IInv, TypeOK, Good
<1>3. CycleInv' /\ Listening'
  BY <1>1 DEF IInv, CycleInv, Listening, Without
<1>4. NotSentExpired' /\ Remembered'
  BY <1>1 DEF IInv, NotSentExpired, Remembered, Without
<1>5. HeldForCause'
  BY <1>1 DEF IInv, HeldForCause, Without
<1> QED
  BY <1>2, <1>3, <1>4, <1>5 DEF IInv

-----------------------------------------------------------------------------
(* A record of what the steps leave of the invariant's parts, given what   *)
(* each does to the calls.                                                 *)
LEMMA CallsStep ==
    ASSUME IInv, now' = now, env' = env,
           \A c \in Calls : MaySend(calls[c], calls'[c]),
           authorizationErrors \subseteq authorizationErrors'
    PROVE  NotSentExpired' /\ Remembered'
<1>1. NotSentExpired'
  BY DEF IInv, NotSentExpired, MaySend
<1>2. \A c \in Calls : calls'[c].refused = calls[c].refused
  BY DEF MaySend
<1>3. Remembered'
  BY <1>2 DEF IInv, Remembered, Without
<1> QED
  BY <1>1, <1>3

(* Time passes.                                                            *)
LEMMA TickStep == ASSUME IInv, Tick PROVE IInv'
<1>1. now \in Nat /\ now' = now + 1 /\ UNCHANGED <<auth, isQueueing, queue,
          waitForPromises, listening, settledPromises, authorizationErrors,
          calls, env>>
  BY DEF IInv, TypeOK, Tick, queueVars
<1>2. TypeOK'
  BY <1>1 DEF IInv, TypeOK
<1>3. CycleInv' /\ Listening' /\ NotSentExpired'
  BY <1>1 DEF IInv, CycleInv, Listening, NotSentExpired, Without
<1>4. HeldForCause'
  <2>1. auth.expiry \in Nat
    BY DEF IInv, CycleInv, Good, Providers
  <2> QED
    BY <1>1, <2>1 DEF IInv, HeldForCause, Without
<1>5. Remembered'
  <2>1. \A c \in Calls : calls[c].refused.sentAt \in Nat
    BY DEF IInv, TypeOK, CallRecords, Tries
  <2> QED
    BY <1>1, <2>1, TransportAssumption DEF IInv, Remembered, Without
<1> QED
  BY <1>2, <1>3, <1>4, <1>5 DEF IInv

(* A call is made.                                                         *)
LEMMA MakeCallStep ==
    ASSUME IInv, NEW c \in Calls, MakeCall(c)
    PROVE  IInv'
<1>1. /\ UNCHANGED <<now, waitForPromises, listening, settledPromises,
                     authorizationErrors, env>>
      /\ TypeOK /\ Good(auth) /\ now \in Nat /\ queue \in Seq(Calls)
      /\ calls \in [Calls -> CallRecords] /\ isQueueing \in BOOLEAN
  BY DEF IInv, TypeOK, CycleInv, MakeCall
<1>2. /\ Good(auth') /\ auth'.expiry = auth.expiry
      /\ Coming(auth) => Coming(auth')
      /\ auth'.disposed = auth.disposed
      /\ isFetchingNewToken(auth) => isFetchingNewToken(auth')
  <2>1. CASE Expired
    BY <1>1, <2>1, RefreshOpenApiTokenGood DEF MakeCall
  <2>2. CASE ~ Expired
    BY <1>1, <2>2 DEF MakeCall
  <2> QED
    BY <2>1, <2>2
<1>3. /\ isQueueing' \in BOOLEAN /\ queue' \in Seq(Calls)
      /\ calls' \in [Calls -> CallRecords]
      /\ \A d \in Calls : MaySend(calls[d], calls'[d])
                          \/ /\ calls'[d].status = "queued"
                             /\ calls'[d].refused = calls[d].refused
      /\ isQueueing' \/ queue' # <<>> =>
             isQueueing \/ queue # <<>> \/ Expired
  <2>1. isQueueing' \in BOOLEAN
    BY <1>1 DEF MakeCall, Expired
  <2>2. CASE isQueueing \/ Expired
    <3>1. queue' = Append(queue, c) /\ queue' \in Seq(Calls)
      <4>1. queue' = Append(queue, c)
        BY <2>2 DEF MakeCall
      <4> QED
        BY <1>1, <4>1
    <3>2. calls' = [calls EXCEPT ![c].status = "queued"]
      BY <2>2 DEF MakeCall
    <3>3. calls[c] \in CallRecords
      BY <1>1
    <3>4. [calls[c] EXCEPT !.status = "queued"] \in CallRecords
      BY <3>3 DEF CallRecords
    <3>5. /\ calls' \in [Calls -> CallRecords]
          /\ calls'[c].status = "queued"
          /\ calls'[c].refused = calls[c].refused
      BY <1>1, <3>2, <3>4 DEF CallRecords
    <3>6. \A d \in Calls \ {c} : MaySend(calls[d], calls'[d])
      BY <1>1, <3>2 DEF MaySend
    <3> QED
      BY <2>1, <2>2, <3>1, <3>5, <3>6
  <2>3. CASE ~ (isQueueing \/ Expired)
    <3>1. /\ queue' = queue /\ calls' = [calls EXCEPT ![c] = Sent(@, auth)]
          /\ ~ isQueueing'
      BY <2>3 DEF MakeCall
    <3>2. auth.expiry >= now
      BY <1>1, <2>3 DEF Expired, Good, Providers
    <3>3. calls[c] \in CallRecords
      BY <1>1
    <3>4. MaySend(calls[c], Sent(calls[c], auth))
      BY <1>1, <3>2, <3>3, SentCall DEF Good
    <3>5. \A d \in Calls : MaySend(calls[d], calls'[d])
      BY <1>1, <3>1, <3>4 DEF MaySend
    <3>6. calls' \in [Calls -> CallRecords]
      BY <1>1, <3>1, <3>4 DEF MaySend
    <3> QED
      BY <1>1, <2>1, <3>1, <3>5, <3>6
  <2> QED
    BY <2>2, <2>3
<1>4. TypeOK'
  BY <1>1, <1>2, <1>3 DEF TypeOK, Good
<1>5. CycleInv' /\ Listening'
  BY <1>1, <1>2 DEF IInv, CycleInv, Listening, Without
<1>6. NotSentExpired'
  BY <1>3 DEF IInv, NotSentExpired, MaySend
<1>7. Remembered'
  <2>1. \A d \in Calls : calls'[d].refused = calls[d].refused
    BY <1>3 DEF MaySend
  <2> QED
    BY <1>1, <2>1 DEF IInv, Remembered, Without
<1>8. HeldForCause'
  <2>1. Expired => auth.expiry <= now
    BY <1>1 DEF Expired, Good, Providers
  <2> QED
    BY <1>1, <1>2, <1>3, <2>1 DEF IInv, HeldForCause, Without
<1> QED
  BY <1>4, <1>5, <1>6, <1>7, <1>8 DEF IInv

(* A call is answered.                                                     *)
LEMMA AnsweredStep ==
    ASSUME IInv, NEW c \in Calls, Answered(c)
    PROVE  IInv'
<1>1. /\ UNCHANGED <<now, auth, isQueueing, queue, waitForPromises,
                     listening, settledPromises, authorizationErrors, env>>
      /\ calls' = [calls EXCEPT ![c] = Settled(calls[c])]
      /\ calls \in [Calls -> CallRecords] /\ calls[c] \in CallRecords
  BY DEF IInv, TypeOK, Answered, queueVars
<1>2. /\ Settled(calls[c]) \in CallRecords
      /\ Settled(calls[c]).status = "settled"
      /\ Settled(calls[c]).refused = NoTry
  BY <1>1 DEF Settled, CallRecords, Tries, NoTry
<1>3. /\ calls' \in [Calls -> CallRecords]
      /\ \A d \in Calls : \/ calls'[d] = calls[d]
                          \/ /\ calls'[d].status = "settled"
                             /\ calls'[d].refused = NoTry
  BY <1>1, <1>2
<1>4. TypeOK'
  BY <1>1, <1>3 DEF IInv, TypeOK
<1>5. CycleInv' /\ Listening' /\ HeldForCause'
  BY <1>1 DEF IInv, CycleInv, Listening, HeldForCause, Without
<1>6. NotSentExpired'
  BY <1>3 DEF IInv, NotSentExpired
<1>7. Remembered'
  BY <1>1, <1>3 DEF IInv, Remembered, Without
<1> QED
  BY <1>4, <1>5, <1>6, <1>7 DEF IInv

(* A refusal is remembered with those of the period before it.             *)
LEMMA ErrorsWithType ==
    ASSUME authorizationErrors \in SUBSET AuthErrors, NEW try \in Tries
    PROVE  /\ ErrorsWith(try) \in SUBSET AuthErrors
           /\ \A e \in authorizationErrors :
                 e \in ErrorsWith(try)
                 \/ ~ (e.added > now - authErrorsDebouncePeriod)
           /\ LET e == [authExpiry |-> try.expiry, added |-> try.sentAt]
              IN  e \in ErrorsWith(try)
                  \/ ~ (try.sentAt > now - authErrorsDebouncePeriod)
<1>1. [authExpiry |-> try.expiry, added |-> try.sentAt] \in AuthErrors
  BY DEF Tries, AuthErrors
<1> QED
  BY <1>1 DEF ErrorsWith

(* A call is answered with 401.                                            *)
LEMMA UnauthorizedStep ==
    ASSUME IInv, NEW c \in Calls, Unauthorized(c)
    PROVE  IInv'
<1> DEFINE try == calls[c].try
           back == [calls EXCEPT ![c].status = "queued",
                                 ![c].refused = try]
           provider == tokenRejected(auth, try.expiry, now)
           errors == authorizationErrors'
<1>1. /\ TypeOK /\ Good(auth) /\ now \in Nat /\ queue \in Seq(Calls)
      /\ calls \in [Calls -> CallRecords] /\ calls[c] \in CallRecords
      /\ isQueueing \in BOOLEAN
      /\ authorizationErrors \in SUBSET AuthErrors
  BY DEF IInv, TypeOK, CycleInv
<1>2. UNCHANGED <<now, waitForPromises, listening, settledPromises, env>>
  BY DEF Unauthorized
<1>3. errors = ErrorsWith(try)
  BY DEF Unauthorized
<1>4. try \in Tries
  BY <1>1 DEF CallRecords
<1>5. /\ errors \in SUBSET AuthErrors
      /\ \A e \in authorizationErrors :
            e \in errors \/ ~ (e.added > now - authErrorsDebouncePeriod)
      /\ \/ [authExpiry |-> try.expiry, added |-> try.sentAt] \in errors
         \/ ~ (try.sentAt > now - authErrorsDebouncePeriod)
  BY <1>1, <1>3, <1>4, ErrorsWithType
(* Whoever keeps his refusal has it remembered, or it is old.              *)
<1>6. ASSUME NEW d \in Calls, Without({"QueueDispose"}),
             calls'[d].refused = calls[d].refused
      PROVE  LET refused == calls'[d].refused
             IN  \/ refused = NoTry
                 \/ [authExpiry |-> refused.expiry, added |-> refused.sentAt]
                        \in errors
                 \/ refused.sentAt <= now - authErrorsDebouncePeriod
  <2> DEFINE refused == calls[d].refused
             e == [authExpiry |-> refused.expiry, added |-> refused.sentAt]
  <2>1. \/ refused = NoTry
        \/ e \in authorizationErrors
        \/ refused.sentAt <= now - authErrorsDebouncePeriod
    BY <1>6 DEF IInv, Remembered
  <2>2. e.added = refused.sentAt
    OBVIOUS
  <2>3. refused.sentAt \in Nat
    BY <1>1 DEF CallRecords, Tries
  <2>4. now - authErrorsDebouncePeriod \in Int
    BY <1>1, TransportAssumption
  <2> HIDE DEF e, errors
  <2>5. CASE e \in authorizationErrors
    <3>1. e \in errors \/ ~ (refused.sentAt > now - authErrorsDebouncePeriod)
      BY <1>5, <2>2, <2>5
    <3> QED
      BY <1>6, <2>3, <2>4, <3>1 DEF e
  <2> QED
    BY <1>6, <2>1, <2>5
<1>7. CASE areUrlAuthErrorsProblematic(errors, try.expiry)
  <2>1. /\ calls' = [calls EXCEPT ![c] = Settled(calls[c])]
        /\ UNCHANGED <<auth, isQueueing, queue>>
    BY <1>7 DEF Unauthorized
  <2>2. /\ Settled(calls[c]) \in CallRecords
        /\ Settled(calls[c]).status = "settled"
        /\ Settled(calls[c]).refused = NoTry
    BY <1>1 DEF Settled, CallRecords, Tries, NoTry
  <2>3. /\ calls' \in [Calls -> CallRecords]
        /\ \A d \in Calls : \/ calls'[d] = calls[d]
                            \/ /\ calls'[d].status = "settled"
                               /\ calls'[d].refused = NoTry
    BY <1>1, <2>1, <2>2
  <2> HIDE DEF errors
  <2>4. TypeOK'
    BY <1>1, <1>2, <1>5, <2>1, <2>3 DEF TypeOK, errors
  <2>5. CycleInv' /\ Listening' /\ HeldForCause'
    BY <1>2, <2>1 DEF IInv, CycleInv, Listening, HeldForCause, Without
  <2>6. NotSentExpired'
    BY <2>3 DEF IInv, NotSentExpired
  <2>7. Remembered'
    BY <1>2, <1>6, <2>3 DEF Remembered, Without, errors
  <2> QED
    BY <2>4, <2>5, <2>6, <2>7 DEF IInv
<1>8. CASE ~ areUrlAuthErrorsProblematic(errors, try.expiry)
  <2>1. auth' = provider
    BY <1>8 DEF Unauthorized
  <2>2. IF isFetchingNewToken(provider)
        THEN /\ isQueueing' = TRUE
             /\ queue' = Append(queue, c)
             /\ calls' = back
        ELSE TryEmptyQueue(Append(queue, c), back, waitForPromises, provider)
    BY <1>8 DEF Unauthorized, WaitsForToken
  <2>3. /\ Good(provider)
        /\ Coming(auth) => Coming(provider)
        /\ provider.disposed = auth.disposed
    BY <1>1, RejectedGood
  <2>4. /\ back \in [Calls -> CallRecords]
        /\ back[c].refused = try /\ back[c].status = "queued"
        /\ \A d \in Calls \ {c} : back[d] = calls[d]
    <3>1. [calls[c] EXCEPT !.status = "queued", !.refused = try]
              \in CallRecords
      BY <1>1, <1>4 DEF CallRecords
    <3>2. back = [calls EXCEPT ![c] = [calls[c] EXCEPT !.status = "queued",
                                                       !.refused = try]]
      BY <1>1 DEF CallRecords
    <3> QED
      BY <1>1, <3>1, <3>2 DEF CallRecords
  <2>5. Append(queue, c) \in Seq(Calls)
    BY <1>1
  <2> HIDE DEF provider, back, errors
  <2>6. /\ isQueueing' \in BOOLEAN /\ queue' \in Seq(Calls)
        /\ calls' \in [Calls -> CallRecords]
        /\ \A d \in Calls : MaySend(back[d], calls'[d])
        /\ isQueueing' \/ queue' # <<>> =>
               \/ waitForPromises # {}
               \/ isFetchingNewToken(provider)
               \/ provider.expiry <= now
    <3>1. CASE isFetchingNewToken(provider)
      BY <2>2, <2>4, <2>5, <3>1 DEF MaySend
    <3>2. CASE ~ isFetchingNewToken(provider)
      <4>1. TryEmptyQueue(Append(queue, c), back, waitForPromises, provider)
        BY <2>2, <3>2
      <4>2. provider \in Providers
        BY <2>3 DEF Good
      <4> QED
        BY <1>1, <2>4, <2>5, <4>1, <4>2, TryEmptyQueueStep
    <3> QED
      BY <3>1, <3>2
  <2>7. TypeOK'
    BY <1>1, <1>2, <1>5, <2>1, <2>3, <2>6 DEF TypeOK, Good, errors
  <2>8. CycleInv' /\ Listening'
    BY <1>2, <2>1, <2>3 DEF IInv, CycleInv, Listening, Without
  <2>9. NotSentExpired'
    BY <2>4, <2>6 DEF IInv, NotSentExpired, MaySend
  <2>10. HeldForCause'
    BY <1>2, <2>1, <2>6 DEF HeldForCause, Without
  <2>11. Remembered'
    <3>1. calls'[c].refused = try
      BY <2>4, <2>6 DEF MaySend
    <3>2. \A d \in Calls \ {c} : calls'[d].refused = calls[d].refused
      BY <2>4, <2>6 DEF MaySend
    <3>3. try.sentAt \in Nat /\ now - authErrorsDebouncePeriod \in Int
      BY <1>1, <1>4, TransportAssumption DEF Tries
    <3>4. \/ [authExpiry |-> try.expiry, added |-> try.sentAt] \in errors
          \/ try.sentAt <= now - authErrorsDebouncePeriod
      BY <1>5, <3>3
    <3> QED
      BY <1>2, <1>6, <3>1, <3>2, <3>4 DEF Remembered, Without, errors
  <2> QED
    BY <2>7, <2>8, <2>9, <2>10, <2>11 DEF IInv
<1> QED
  BY <1>7, <1>8

(* waitFor.                                                                *)
LEMMA WaitForStep ==
    ASSUME IInv, NEW promise \in Promises, WaitFor(promise)
    PROVE  IInv'
<1>1. /\ UNCHANGED <<now, auth, queue, listening, settledPromises,
                     authorizationErrors, calls, env>>
      /\ waitForPromises' = waitForPromises \union {promise}
      /\ isQueueing' = TRUE
  BY DEF WaitFor
<1>2. TypeOK'
  BY <1>1 DEF IInv, TypeOK
<1>3. CycleInv' /\ Listening' /\ NotSentExpired' /\ Remembered'
  BY <1>1 DEF IInv, CycleInv, Listening, NotSentExpired, Remembered, Without
<1>4. HeldForCause'
  BY <1>1 DEF HeldForCause
<1> QED
  BY <1>2, <1>3, <1>4 DEF IInv

(* A promise that was waited for is resolved.                              *)
LEMMA PromiseResolvedStep ==
    ASSUME IInv, NEW promise \in Promises, PromiseResolved(promise)
    PROVE  IInv'
<1>1. /\ UNCHANGED <<now, auth, listening, authorizationErrors, env>>
      /\ settledPromises' = settledPromises \union {promise}
      /\ waitForPromises' = waitForPromises \ {promise}
  BY DEF PromiseResolved
<1>2. TryEmptyQueue(queue, calls, waitForPromises', auth)
  BY DEF PromiseResolved
<1>3. /\ TypeOK /\ auth \in Providers /\ now \in Nat /\ queue \in Seq(Calls)
      /\ calls \in [Calls -> CallRecords] /\ isQueueing \in BOOLEAN
  BY DEF IInv, TypeOK
<1>4. /\ isQueueing' \in BOOLEAN /\ queue' \in Seq(Calls)
      /\ calls' \in [Calls -> CallRecords]
      /\ \A c \in Calls : MaySend(calls[c], calls'[c])
      /\ isQueueing' \/ queue' # <<>> =>
             waitForPromises' # {} \/ auth.expiry <= now
  BY <1>2, <1>3, TryEmptyQueueStep
<1>5. TypeOK'
  BY <1>1, <1>3, <1>4 DEF TypeOK
<1>6. CycleInv' /\ Listening'
  BY <1>1 DEF IInv, CycleInv, Listening, Without
<1>7. NotSentExpired' /\ Remembered'
  BY <1>1, <1>4, CallsStep
<1>8. HeldForCause'
  BY <1>1, <1>4 DEF HeldForCause
<1> QED
  BY <1>5, <1>6, <1>7, <1>8 DEF IInv

(* One is rejected.                                                        *)
LEMMA PromiseRejectedStep ==
    ASSUME IInv, NEW promise \in Promises, PromiseRejected(promise)
    PROVE  IInv'
<1>1. /\ UNCHANGED <<now, auth, isQueueing, queue, waitForPromises,
                     listening, authorizationErrors, calls, env>>
      /\ settledPromises' = settledPromises \union {promise}
  BY DEF PromiseRejected, queueVars
<1> QED
  BY <1>1 DEF IInv, TypeOK, CycleInv, Listening, NotSentExpired, HeldForCause,
              Remembered, Without

(* A token is received.                                                    *)
LEMMA TokenReceivedStep ==
    ASSUME IInv, NEW lifetime \in Lifetimes, TokenReceived(lifetime)
    PROVE  IInv'
<1>1. /\ UNCHANGED <<now, waitForPromises, listening, settledPromises,
                     authorizationErrors, env>>
      /\ auth' = onApiTokenReceived(auth, now + lifetime, now)
      /\ auth.fetches > 0
  BY DEF TokenReceived, TokenAnswered
<1>2. IF listening
      THEN TryEmptyQueue(queue, calls, waitForPromises, auth')
      ELSE UNCHANGED <<isQueueing, queue, calls>>
  BY DEF TokenReceived
<1>3. /\ TypeOK /\ Good(auth) /\ now \in Nat /\ queue \in Seq(Calls)
      /\ calls \in [Calls -> CallRecords] /\ isQueueing \in BOOLEAN
  BY DEF IInv, TypeOK, CycleInv
<1>4. Good(auth') /\ Coming(auth')
  <2>1. now + lifetime \in Nat
    BY <1>3, TransportAssumption
  <2> QED
    BY <1>1, <1>3, <2>1, ReceivedGood
<1>5. /\ isQueueing' \in BOOLEAN /\ queue' \in Seq(Calls)
      /\ calls' \in [Calls -> CallRecords]
      /\ \A c \in Calls : MaySend(calls[c], calls'[c])
      /\ listening /\ (isQueueing' \/ queue' # <<>>) =>
             waitForPromises # {} \/ auth'.expiry <= now
  <2>1. CASE listening
    <3>1. TryEmptyQueue(queue, calls, waitForPromises, auth')
      BY <1>2, <2>1
    <3>2. auth' \in Providers
      BY <1>4 DEF Good
    <3> QED
      BY <1>3, <3>1, <3>2, TryEmptyQueueStep
  <2>2. CASE ~ listening
    BY <1>2, <1>3, <2>2 DEF MaySend
  <2> QED
    BY <2>1, <2>2
<1>6. TypeOK'
  BY <1>1, <1>3, <1>4, <1>5 DEF TypeOK, Good
<1>7. CycleInv' /\ Listening'
  BY <1>1, <1>4 DEF IInv, CycleInv, Listening, Without
<1>8. NotSentExpired' /\ Remembered'
  BY <1>1, <1>5, CallsStep
<1>9. HeldForCause'
  BY <1>1, <1>5 DEF IInv, Listening, HeldForCause, Without
<1> QED
  BY <1>6, <1>7, <1>8, <1>9 DEF IInv

(* The queue is disposed.                                                  *)
LEMMA QueueDisposeStep ==
    ASSUME IInv, QueueDispose
    PROVE  IInv'
<1>1. /\ UNCHANGED <<now, auth, isQueueing, waitForPromises,
                     settledPromises, env>>
      /\ listening' = FALSE /\ queue' = <<>> /\ authorizationErrors' = {}
      /\ ~ Without({"QueueDispose"})
      /\ ~ Without({"TokenMissing", "QueueDispose"})
  BY DEF QueueDispose, Allowed, Without
<1>2. calls' = [c \in Calls |->
                   IF c \in Range(queue)
                   THEN [calls[c] EXCEPT !.status = "dropped"]
                   ELSE calls[c]]
  BY DEF QueueDispose
<1>3. \A c \in Calls : calls[c] \in CallRecords
  BY DEF IInv, TypeOK
<1>4. \A c \in Calls : /\ calls'[c] \in CallRecords
                       /\ \/ calls'[c] = calls[c]
                          \/ calls'[c].status = "dropped"
  BY <1>2, <1>3 DEF CallRecords
<1>5. calls' \in [Calls -> CallRecords]
  <2>1. calls' = [c \in Calls |-> calls'[c]]
    BY <1>2
  <2> QED
    BY <1>4, <2>1
<1>6. TypeOK'
  <2>1. queue' \in Seq(Calls)
    BY <1>1
  <2> QED
    BY <1>1, <1>5, <2>1 DEF IInv, TypeOK
<1>7. CycleInv'
  BY <1>1 DEF IInv, CycleInv, Without
<1>8. Listening' /\ HeldForCause' /\ Remembered'
  BY <1>1 DEF Listening, HeldForCause, Remembered, Without
<1>9. NotSentExpired'
  BY <1>4 DEF IInv, NotSentExpired
<1> QED
  BY <1>6, <1>7, <1>8, <1>9 DEF IInv

(* Every step that changes the provider alone.                             *)
LEMMA ProviderSteps ==
    ASSUME IInv,
           \/ TokenMissing
           \/ \E e \in BOOLEAN : RefreshFails(e)
           \/ \E timer \in auth.timers : TimerFires(timer)
           \/ TimersDropped
           \/ StreamUnauthorized
           \/ StreamConnects
           \/ AuthDispose
    PROVE  IInv'
<1>1. /\ Good(auth) /\ now \in Nat
      /\ Without({"TokenMissing", "TimersDropped"}) /\ ~ auth.disposed =>
             Coming(auth)
  BY DEF IInv, TypeOK, CycleInv
<1>2. CASE TokenMissing
  <2>1. /\ ProviderOnly(onApiTokenMissing(auth)) /\ auth.fetches > 0
        /\ ~ Without({"TokenMissing", "TimersDropped"})
        /\ ~ Without({"TokenMissing", "QueueDispose"})
    BY <1>2 DEF TokenMissing, TokenAnswered, Allowed, Without
  <2> QED
    BY <1>1, <2>1, MissingGood, ProviderOnlyStep
<1>3. ASSUME NEW e \in BOOLEAN, RefreshFails(e)
      PROVE  IInv'
  <2>1. /\ ProviderOnly(onApiTokenReceiveFail(auth, e, now))
        /\ auth.fetches > 0
    BY <1>3 DEF RefreshFails, TokenAnswered
  <2> QED
    BY <1>1, <2>1, FailGood, ProviderOnlyStep
<1>4. ASSUME NEW timer \in auth.timers, TimerFires(timer)
      PROVE  IInv'
  <2>1. ProviderOnly(timerFires(auth, timer, now))
    BY <1>4 DEF TimerFires
  <2> QED
    BY <1>1, <2>1, TimerFiresGood, ProviderOnlyStep
<1>5. CASE TimersDropped
  <2> DEFINE p == [auth EXCEPT !.timers = {}]
  <2>1. /\ ProviderOnly(p)
        /\ ~ Without({"TokenMissing", "TimersDropped"})
    BY <1>5 DEF TimersDropped, Allowed, Without
  <2>2. /\ Good(p) /\ p.expiry = auth.expiry
        /\ isFetchingNewToken(auth) => isFetchingNewToken(p)
    BY <1>1, DroppedGood
  <2> HIDE DEF p
  <2> QED
    BY <2>1, <2>2, ProviderOnlyStep
<1>6. CASE StreamUnauthorized
  <2>1. ProviderOnly(tokenRejected(auth, 0, now))
    BY <1>6 DEF StreamUnauthorized
  <2>2. LET q == tokenRejected(auth, 0, now)
        IN  /\ Good(q)
            /\ Coming(auth) => Coming(q)
            /\ q = auth \/ isFetchingNewToken(q)
            /\ q.expiry = auth.expiry /\ q.disposed = auth.disposed
    BY <1>1, RejectedGood
  <2> QED
    BY <1>1, <2>1, <2>2, ProviderOnlyStep
<1>7. CASE StreamConnects
  <2>1. ProviderOnly(refreshOpenApiToken(auth, now))
    BY <1>7 DEF StreamConnects
  <2> QED
    BY <1>1, <2>1, RefreshOpenApiTokenGood, ProviderOnlyStep
<1>8. CASE AuthDispose
  <2>1. ProviderOnly(dispose(auth))
    BY <1>8 DEF AuthDispose
  <2> QED
    BY <1>1, <2>1, DisposeGood, ProviderOnlyStep
<1> QED
  BY <1>2, <1>3, <1>4, <1>5, <1>6, <1>7, <1>8
-----------------------------------------------------------------------------
(* The invariant holds in every state of every behaviour of AuthTransport. *)
THEOREM AuthInductive == Spec => []IInv
<1>1. Init => IInv
  <2> SUFFICES ASSUME Init PROVE IInv
    OBVIOUS
  <2>1. PICK expiry \in {now - 1} \union {now + e : e \in FirstExpiries} :
            auth = NewAuthProvider(expiry, now)
    BY DEF Init
  <2>2. now = 2 /\ expiry \in Nat
    BY TransportAssumption DEF Init
  <2>3. Good(auth) /\ Coming(auth)
    BY <2>1, <2>2, NewAuthProviderGood
  <2>4. calls = [c \in Calls |-> [status |-> "unmade",
                                  try |-> NoTry, refused |-> NoTry]]
    BY DEF Init
  <2>5. /\ calls \in [Calls -> CallRecords]
        /\ \A c \in Calls : /\ calls[c].status = "unmade"
                            /\ calls[c].refused = NoTry
    BY <2>4 DEF CallRecords, NoTry, Tries
  <2>6. TypeOK
    <3>1. queue \in Seq(Calls) /\ isQueueing \in BOOLEAN
      BY DEF Init
    <3> QED
      BY <2>2, <2>3, <2>5, <3>1 DEF Init, TypeOK, Good
  <2>7. CycleInv /\ Listening
    BY <2>3 DEF Init, CycleInv, Listening
  <2>8. NotSentExpired /\ Remembered
    BY <2>5 DEF NotSentExpired, Remembered
  <2>9. HeldForCause
    <3>1. auth.expiry \in Nat
      BY <2>3 DEF Good, Providers
    <3>2. (isQueueing <=> auth.expiry < now) /\ queue = <<>>
      BY DEF Init
    <3>3. isQueueing \/ queue # <<>> => auth.expiry <= now
      BY <2>2, <3>1, <3>2
    <3> QED
      BY <3>3 DEF HeldForCause
  <2> QED
    BY <2>6, <2>7, <2>8, <2>9 DEF IInv
<1>2. IInv /\ [Next]_vars => IInv'
  <2> SUFFICES ASSUME IInv, [Next]_vars PROVE IInv'
    OBVIOUS
  <2>1. CASE Tick
    BY <2>1, TickStep
  <2>2. ASSUME NEW c \in Calls, MakeCall(c) \/ Answered(c) \/ Unauthorized(c)
        PROVE  IInv'
    BY <2>2, MakeCallStep, AnsweredStep, UnauthorizedStep
  <2>3. ASSUME NEW promise \in Promises,
               \/ WaitFor(promise)
               \/ PromiseResolved(promise)
               \/ PromiseRejected(promise)
        PROVE  IInv'
    BY <2>3, WaitForStep, PromiseResolvedStep, PromiseRejectedStep
  <2>4. ASSUME NEW lifetime \in Lifetimes, TokenReceived(lifetime)
        PROVE  IInv'
    BY <2>4, TokenReceivedStep
  <2>5. CASE \/ TokenMissing
             \/ \E e \in BOOLEAN : RefreshFails(e)
             \/ \E timer \in auth.timers : TimerFires(timer)
             \/ TimersDropped
             \/ StreamUnauthorized
             \/ StreamConnects
             \/ AuthDispose
    BY <2>5, ProviderSteps
  <2>6. CASE QueueDispose
    BY <2>6, QueueDisposeStep
  <2>7. CASE UNCHANGED vars
    BY <2>7 DEF vars, queueVars, IInv, TypeOK, CycleInv, Listening,
                NotSentExpired, HeldForCause, Remembered, Without
  <2> QED
    BY <2>1, <2>2, <2>3, <2>4, <2>5, <2>6, <2>7 DEF Next
<1> QED
  BY <1>1, <1>2, PTL DEF Spec

(* Every variable keeps its type: the number of token requests in flight   *)
(* above all, which each answer lowers by one, is never negative.          *)
THEOREM AuthTypeCorrect == Spec => []TypeOK
<1>1. IInv => TypeOK
  BY DEF IInv
<1> QED
  BY <1>1, AuthInductive, PTL

(* Never two token requests, nor a request and a timer; and always one of  *)
(* them, until the refresh has failed for good.                            *)
THEOREM OneRefreshAtATime == Spec => []RefreshCycle
<1>1. IInv => RefreshCycle
  <2> SUFFICES ASSUME IInv PROVE RefreshCycle
    OBVIOUS
  <2> DEFINE pending == auth.fetches + Cardinality(auth.timers)
  <2>1. /\ Cycle(auth)
        /\ Without({"TokenMissing", "TimersDropped"}) /\ ~ auth.disposed =>
               Coming(auth)
    BY DEF IInv, CycleInv, Good
  <2>2. Cardinality({}) = 0 /\ \A x : Cardinality({x}) = 1
    BY FS_EmptySet, FS_Singleton
  <2>3. CASE auth.state = STATE_REFRESHING
    BY <2>1, <2>2, <2>3 DEF Cycle, RefreshCycle, STATE_WAITING,
                            STATE_REFRESHING, STATE_FAILED
  <2>4. CASE auth.state = STATE_FAILED
    BY <2>1, <2>2, <2>4 DEF Cycle, RefreshCycle, STATE_WAITING,
                            STATE_REFRESHING, STATE_FAILED
  <2>5. CASE auth.state = STATE_WAITING
    <3>1. auth.fetches = 0
      BY <2>1, <2>5 DEF Cycle, STATE_WAITING, STATE_REFRESHING, STATE_FAILED
    <3>2. CASE auth.timers = {}
      BY <2>1, <2>2, <2>5, <3>1, <3>2 DEF Coming, RefreshCycle
    <3>3. CASE auth.timers = {auth.tokenRefreshTimer}
      <4>1. Cardinality(auth.timers) = 1
        BY <2>2, <3>3
      <4>2. pending = 1
        BY <3>1, <4>1
      <4> QED
        BY <4>2 DEF RefreshCycle
    <3> QED
      BY <2>1, <2>5, <3>2, <3>3 DEF Cycle, STATE_WAITING, STATE_REFRESHING,
                                    STATE_FAILED
  <2> QED
    BY <2>1, <2>3, <2>4, <2>5 DEF Cycle
<1> QED
  BY <1>1, AuthInductive, PTL

(* No call goes out with a token known to have expired.                    *)
THEOREM SentWithValidToken == Spec => []NotSentExpired
<1>1. IInv => NotSentExpired
  BY DEF IInv
<1> QED
  BY <1>1, AuthInductive, PTL

-----------------------------------------------------------------------------
(***************************************************************************)
(* When the next token is asked for: the timer of a provider that waits is *)
(* due before its token expires, that of a retry after the delay.          *)
(***************************************************************************)
NearTimers(p, n) ==
    \A timer \in p.timers :
        timer.at <= IF p.retries = 0 THEN p.expiry ELSE n + retryDelay

(* What a refresh leaves.                                                  *)
LEMMA RefreshNear ==
    ASSUME NEW p, Good(p), NEW n \in Nat
    PROVE  /\ p.fetches = 0 => refreshToken(p, n).timers = {}
           /\ NearTimers(p, n) => NearTimers(refreshOpenApiToken(p, n), n)
<1>1. ASSUME p.fetches = 0
      PROVE  refreshToken(p, n).timers = {}
  BY <1>1, ClearTimeoutGood DEF refreshToken, Good, Providers
<1>2. ~ isFetchingNewToken(p) => p.fetches = 0
  BY DEF Good, Cycle, isFetchingNewToken, STATE_WAITING, STATE_REFRESHING,
         STATE_FAILED
<1> QED
  BY <1>1, <1>2 DEF refreshOpenApiToken, NearTimers

(* createTimer.                                                            *)
LEMMA CreateTimerNear ==
    ASSUME NEW p \in Providers, NEW n \in Nat,
           p.state = STATE_WAITING, p.retries = 0, p.fetches = 0,
           p.timers = {}
    PROVE  NearTimers(createTimerForNextToken(p, n), n)
<1>1. Good(p) /\ NearTimers(p, n)
  BY DEF Good, Cycle, NearTimers
<1>2. CASE p.expiry <= n
  BY <1>1, <1>2, RefreshNear DEF createTimerForNextToken
<1>3. CASE ~ (p.expiry <= n)
  <2> DEFINE timer == [calls |-> "refreshOpenApiToken",
                       at |-> Later(n, p.expiry - tokenRefreshMargin)]
             q == setTimeout(p, timer)
  <2>1. createTimerForNextToken(p, n) = q
    BY <1>3 DEF createTimerForNextToken
  <2>2. timer.at <= p.expiry
    BY <1>3, ProviderOptions DEF Later, Providers
  <2> HIDE DEF timer
  <2>3. q.timers = {timer} /\ q.retries = 0 /\ q.expiry = p.expiry
    BY DEF setTimeout, Providers
  <2> HIDE DEF q
  <2> QED
    BY <2>1, <2>2, <2>3 DEF NearTimers
<1> QED
  BY <1>2, <1>3

(* An answer to a request.                                                 *)
LEMMA AnswerNear ==
    ASSUME NEW p, Good(p), p.fetches > 0, NEW n \in Nat
    PROVE  /\ \A expiry \in Nat : NearTimers(onApiTokenReceived(p, expiry, n), n)
           /\ NearTimers(onApiTokenMissing(p), n)
           /\ \A e \in BOOLEAN : NearTimers(onApiTokenReceiveFail(p, e, n), n)
<1>1. ASSUME NEW expiry \in Nat
      PROVE  NearTimers(onApiTokenReceived(p, expiry, n), n)
  <2> DEFINE idle == Idle(p)
             q == [idle EXCEPT !.expiry = expiry]
  <2>1. /\ idle \in Providers
        /\ idle.state = STATE_WAITING /\ idle.retries = 0
        /\ idle.fetches = 0 /\ idle.timers = {}
    BY IdleGood
  <2>2. onApiTokenReceived(p, expiry, n) = createTimerForNextToken(q, n)
    BY DEF onApiTokenReceived
  <2> HIDE DEF idle
  <2>3. /\ q \in Providers
        /\ q.state = STATE_WAITING /\ q.retries = 0
        /\ q.fetches = 0 /\ q.timers = {}
    BY <2>1 DEF Providers
  <2> HIDE DEF q
  <2> QED
    BY <2>2, <2>3, CreateTimerNear
<1>2. NearTimers(onApiTokenMissing(p), n)
  BY IdleGood DEF onApiTokenMissing, NearTimers
<1>3. ASSUME NEW e \in BOOLEAN
      PROVE  NearTimers(onApiTokenReceiveFail(p, e, n), n)
  <2>1. p \in Providers /\ p.fetches = 1 /\ p.timers = {} /\ p.retries \in Nat
    BY DEF Good, Cycle, Providers
  <2> DEFINE answered == [p EXCEPT !.fetches = @ - 1]
             timer == [calls |-> "refreshToken", at |-> n + retryDelay]
             more == answered.retries + 1
             a == [answered EXCEPT !.state = STATE_WAITING, !.retries = more]
             q == onApiTokenReceiveFail(p, e, n)
  <2>4. /\ answered.timers = {} /\ answered.retries = p.retries
        /\ DOMAIN answered = DOMAIN p
    BY <2>1 DEF Providers
  <2>2. CASE e \/ p.retries >= maxRetryCount
    <3>1. q = [answered EXCEPT !.state = STATE_FAILED]
      BY <2>2 DEF onApiTokenReceiveFail
    <3>2. q.timers = {}
      BY <2>1, <2>4, <3>1 DEF Providers
    <3> QED
      BY <3>2 DEF NearTimers
  <2>3. CASE ~ (e \/ p.retries >= maxRetryCount)
    <3>1. q = setTimeout(a, timer)
      BY <2>3 DEF onApiTokenReceiveFail
    <3>2. a.timers = {} /\ a.retries > 0
      BY <2>1, <2>4 DEF Providers
    <3>3. q.timers = {timer} /\ q.retries > 0
      BY <2>1, <3>1, <3>2 DEF setTimeout, Providers
    <3>4. timer.at <= n + retryDelay
      BY ProviderOptions
    <3> HIDE DEF q, timer
    <3>5. NearTimers(q, n)
      BY <3>3, <3>4 DEF NearTimers
    <3> QED
      BY <3>5 DEF q
  <2> QED
    BY <2>2, <2>3
<1> QED
  BY <1>1, <1>2, <1>3

(* The other methods.                                                      *)
LEMMA OthersNear ==
    ASSUME NEW p, Good(p), NEW n \in Nat, NearTimers(p, n)
    PROVE  /\ \A expiry : NearTimers(tokenRejected(p, expiry, n), n)
           /\ \A timer \in p.timers : NearTimers(timerFires(p, timer, n), n)
           /\ NearTimers(dispose(p), n)
           /\ NearTimers([p EXCEPT !.timers = {}], n)
<1>1. \A expiry : NearTimers(tokenRejected(p, expiry, n), n)
  BY RefreshNear DEF tokenRejected
<1>2. ASSUME NEW timer \in p.timers
      PROVE  NearTimers(timerFires(p, timer, n), n)
  <2> DEFINE ended == [p EXCEPT !.timers = @ \ {timer}]
  <2>1. Good(ended) /\ ended.fetches = 0 /\ ended.timers = {}
    BY DEF Good, Cycle, Providers, STATE_WAITING, STATE_REFRESHING,
           STATE_FAILED
  <2>2. timerFires(p, timer, n) =
            IF timer.calls = "refreshToken" THEN refreshToken(ended, n)
                                            ELSE refreshOpenApiToken(ended, n)
    BY DEF timerFires
  <2> HIDE DEF ended
  <2>3. NearTimers(ended, n)
    BY <2>1 DEF NearTimers
  <2>4. refreshToken(ended, n).timers = {} /\ NearTimers(refreshOpenApiToken(ended, n), n)
    BY <2>1, <2>3, RefreshNear
  <2> QED
    BY <2>2, <2>4 DEF NearTimers
<1>3. NearTimers(dispose(p), n)
  BY DEF Good, Providers, dispose, clearTimeout, NearTimers
<1>4. NearTimers([p EXCEPT !.timers = {}], n)
  BY DEF Good, Providers, NearTimers
<1> QED
  BY <1>1, <1>2, <1>3, <1>4

(* No step moves a timer out of reach.                                     *)
LEMMA NearStep ==
    ASSUME IInv, NearTimers(auth, now), [Next]_vars
    PROVE  NearTimers(auth, now)'
<1>1. Good(auth) /\ now \in Nat
  BY DEF IInv, TypeOK, CycleInv
<1>2. ASSUME auth' = auth, now' = now
      PROVE  NearTimers(auth, now)'
  BY <1>2
<1>3. ASSUME now' = now, NearTimers(auth', now)
      PROVE  NearTimers(auth, now)'
  BY <1>3
<1>4. CASE Tick
  <2>1. auth' = auth /\ now' = now + 1 /\ \A timer \in auth.timers : timer.at \in Nat
    BY <1>1, <1>4 DEF Tick, Good, Providers, Timers
  <2> QED
    BY <1>1, <2>1, ProviderOptions DEF NearTimers
<1>5. ASSUME NEW c \in Calls, MakeCall(c)
      PROVE  NearTimers(auth, now)'
  BY <1>1, <1>3, <1>5, RefreshNear DEF MakeCall
<1>6. ASSUME NEW c \in Calls, Answered(c)
      PROVE  NearTimers(auth, now)'
  BY <1>2, <1>6 DEF Answered
<1>7. ASSUME NEW c \in Calls, Unauthorized(c)
      PROVE  NearTimers(auth, now)'
  <2>1. now' = now
    BY <1>7 DEF Unauthorized
  <2>2. auth' = auth \/ auth' = tokenRejected(auth, calls[c].try.expiry, now)
    BY <1>7 DEF Unauthorized
  <2> QED
    BY <1>1, <1>3, <2>1, <2>2, OthersNear
<1>8. ASSUME NEW promise \in Promises,
             \/ WaitFor(promise)
             \/ PromiseResolved(promise)
             \/ PromiseRejected(promise)
      PROVE  NearTimers(auth, now)'
  BY <1>2, <1>8 DEF WaitFor, PromiseResolved, PromiseRejected
<1>9. ASSUME NEW lifetime \in Lifetimes, TokenReceived(lifetime)
      PROVE  NearTimers(auth, now)'
  <2>1. /\ now' = now /\ auth.fetches > 0
        /\ auth' = onApiTokenReceived(auth, now + lifetime, now)
    BY <1>9 DEF TokenReceived, TokenAnswered
  <2>2. now + lifetime \in Nat
    BY <1>1, TransportAssumption
  <2> QED
    BY <1>1, <1>3, <2>1, <2>2, AnswerNear
<1>10. ASSUME NEW p, ProviderOnly(p), NearTimers(p, now)
       PROVE  NearTimers(auth, now)'
  BY <1>3, <1>10 DEF ProviderOnly
<1>11. CASE TokenMissing
  BY <1>1, <1>10, <1>11, AnswerNear DEF TokenMissing, TokenAnswered
<1>12. ASSUME NEW e \in BOOLEAN, RefreshFails(e)
       PROVE  NearTimers(auth, now)'
  <2>1. auth.fetches > 0 /\ ProviderOnly(onApiTokenReceiveFail(auth, e, now))
    BY <1>12 DEF RefreshFails, TokenAnswered
  <2>2. NearTimers(onApiTokenReceiveFail(auth, e, now), now)
    BY <1>1, <2>1, AnswerNear
  <2> QED
    BY <1>10, <2>1, <2>2
<1>13. ASSUME NEW timer \in auth.timers, TimerFires(timer)
       PROVE  NearTimers(auth, now)'
  <2>1. ProviderOnly(timerFires(auth, timer, now))
    BY <1>13 DEF TimerFires
  <2>2. NearTimers(timerFires(auth, timer, now), now)
    BY <1>1, OthersNear
  <2> QED
    BY <1>10, <2>1, <2>2
<1>14. CASE TimersDropped
  BY <1>1, <1>10, <1>14, OthersNear DEF TimersDropped
<1>15. CASE StreamUnauthorized
  <2>1. ProviderOnly(tokenRejected(auth, 0, now))
    BY <1>15 DEF StreamUnauthorized
  <2>2. NearTimers(tokenRejected(auth, 0, now), now)
    BY <1>1, OthersNear
  <2> QED
    BY <1>10, <2>1, <2>2
<1>16. CASE StreamConnects
  BY <1>1, <1>10, <1>16, RefreshNear DEF StreamConnects
<1>17. CASE AuthDispose
  BY <1>1, <1>10, <1>17, OthersNear DEF AuthDispose
<1>18. CASE QueueDispose
  BY <1>2, <1>18 DEF QueueDispose
<1>19. CASE UNCHANGED vars
  BY <1>2, <1>19 DEF vars
<1> QED
  BY <1>4, <1>5, <1>6, <1>7, <1>8, <1>9, <1>11, <1>12, <1>13, <1>14, <1>15,
     <1>16, <1>17, <1>18, <1>19 DEF Next

(* Calls are held back only for a promise that is yet to be settled or for *)
(* a token that is on its way, or asked for after the delay of a retry at  *)
(* most (queue.js:47-65, 188-198 with authProvider.js:46-176): what has    *)
(* set isQueueing or filled the queue is always going to empty it, unless  *)
(* a promise was rejected or no token comes any more.                      *)
THEOREM QueueNeverStalls == Spec => []QueueMoves
<1>1. Init => NearTimers(auth, now)
  <2> SUFFICES ASSUME Init PROVE NearTimers(auth, now)
    OBVIOUS
  <2>1. PICK expiry \in {now - 1} \union {now + e : e \in FirstExpiries} :
            auth = NewAuthProvider(expiry, now)
    BY DEF Init
  <2>2. now \in Nat /\ expiry \in Nat
    BY TransportAssumption DEF Init
  <2> DEFINE p == [state |-> STATE_WAITING, retries |-> 0,
                   expiry |-> expiry, timers |-> {},
                   tokenRefreshTimer |-> NoTimer, fetches |-> 0,
                   disposed |-> FALSE, lastTokenFetchTime |-> 0]
  <2>3. /\ p \in Providers
        /\ p.state = STATE_WAITING /\ p.retries = 0
        /\ p.fetches = 0 /\ p.timers = {}
    BY <2>2 DEF Providers, NoTimer, Timers
  <2>4. auth = createTimerForNextToken(p, now)
    BY <2>1 DEF NewAuthProvider
  <2> HIDE DEF p
  <2> QED
    BY <2>2, <2>3, <2>4, CreateTimerNear
<1>2. IInv /\ NearTimers(auth, now) /\ [Next]_vars => NearTimers(auth, now)'
  BY NearStep
<1>3. IInv /\ NearTimers(auth, now) => QueueMoves
  <2> SUFFICES ASSUME IInv, NearTimers(auth, now),
                      Without({"TokenMissing", "TimersDropped", "QueueDispose"}),
                      auth.state # STATE_FAILED, ~ auth.disposed,
                      isQueueing \/ queue # <<>>, waitForPromises = {}
               PROVE  TokenIsComing
    BY DEF QueueMoves
  <2>1. isFetchingNewToken(auth) \/ auth.expiry <= now
    BY DEF IInv, HeldForCause, Without
  <2>2. Good(auth) /\ Coming(auth) /\ now \in Nat
    BY DEF IInv, TypeOK, CycleInv, Without
  <2>3. CASE auth.fetches > 0
    BY <2>1, <2>3 DEF TokenIsComing
  <2>4. CASE ~ (auth.fetches > 0)
    <3>1. auth.state = STATE_WAITING /\ auth.timers # {}
      BY <2>2, <2>4 DEF Good, Cycle, Coming
    <3>2. PICK timer \in auth.timers : TRUE
      BY <3>1
    <3>3. timer.at \in Nat /\ auth.expiry \in Nat
      BY <2>2 DEF Good, Providers, Timers
    <3>4. auth.retries = 0 => auth.expiry <= now
      BY <2>1, <3>1 DEF isFetchingNewToken
    <3>5. timer.at <= now + retryDelay
      BY <2>2, <3>3, <3>4, ProviderOptions DEF NearTimers
    <3> QED
      BY <2>1, <3>5 DEF TokenIsComing
  <2> QED
    BY <2>3, <2>4
<1> QED
  BY <1>1, <1>2, <1>3, AuthInductive, PTL DEF Spec

(* A call refused with a second token within the period is given up.       *)
THEOREM NoRefusalLoop == Spec => RefusalsAreSpaced
<1> DEFINE Spaced ==
        Without({"QueueDispose"}) =>
        \A c \in Calls :
           LET try == calls[c].try
               refused == calls[c].refused
           IN  /\ calls[c].status = "sent"
               /\ calls'[c].status # "settled"
               /\ calls'[c].refused # refused
               /\ refused # NoTry
               => \/ refused.expiry = try.expiry
                  \/ refused.sentAt <= now - authErrorsDebouncePeriod
<1>1. ASSUME IInv, NEW c \in Calls, Unauthorized(c),
             Without({"QueueDispose"}),
             calls'[c].status # "settled", calls[c].refused # NoTry
      PROVE  \/ calls[c].refused.expiry = calls[c].try.expiry
             \/ calls[c].refused.sentAt <= now - authErrorsDebouncePeriod
  <2> DEFINE refused == calls[c].refused
             try == calls[c].try
             e == [authExpiry |-> refused.expiry, added |-> refused.sentAt]
  <2>1. e.authExpiry = refused.expiry /\ e.added = refused.sentAt
    OBVIOUS
  <2>2. /\ calls[c] \in CallRecords /\ try \in Tries /\ now \in Nat
        /\ authorizationErrors \in SUBSET AuthErrors
        /\ calls \in [Calls -> CallRecords]
    <3>1. /\ calls[c] \in CallRecords /\ now \in Nat
          /\ authorizationErrors \in SUBSET AuthErrors
          /\ calls \in [Calls -> CallRecords]
      BY <1>1 DEF IInv, TypeOK
    <3> QED
      BY <3>1 DEF CallRecords
  <2>3. ~ areUrlAuthErrorsProblematic(ErrorsWith(try), try.expiry)
    <3> SUFFICES ASSUME areUrlAuthErrorsProblematic(ErrorsWith(try),
                                                    try.expiry)
                 PROVE  FALSE
      OBVIOUS
    <3>1. calls' = [calls EXCEPT ![c] = Settled(calls[c])]
      BY <1>1 DEF Unauthorized
    <3>2. Settled(calls[c]).status = "settled"
      BY <2>2 DEF Settled, CallRecords
    <3> QED
      BY <1>1, <2>2, <3>1, <3>2
  <2>4. e \in authorizationErrors
        \/ refused.sentAt <= now - authErrorsDebouncePeriod
    BY <1>1 DEF IInv, Remembered
  <2>5. refused.sentAt \in Nat /\ now - authErrorsDebouncePeriod \in Int
    BY <2>2, TransportAssumption DEF CallRecords, Tries
  <2> HIDE DEF e
  <2>6. e \in ErrorsWith(try)
        \/ refused.sentAt <= now - authErrorsDebouncePeriod
    <3>1. \A x \in authorizationErrors :
             x \in ErrorsWith(try)
             \/ ~ (x.added > now - authErrorsDebouncePeriod)
      BY <2>2, ErrorsWithType
    <3>2. CASE e \in authorizationErrors
      BY <2>1, <2>5, <3>1, <3>2
    <3> QED
      BY <2>4, <3>2 DEF e
  <2> QED
    BY <2>1, <2>3, <2>6 DEF areUrlAuthErrorsProblematic
<1>2. ASSUME IInv, [Next]_vars, NEW c \in Calls,
             calls[c].status = "sent", calls'[c].status # "settled",
             calls'[c].refused # calls[c].refused
      PROVE  Unauthorized(c)
  <2>1. /\ calls \in [Calls -> CallRecords] /\ calls[c] \in CallRecords
        /\ auth \in Providers /\ now \in Nat
        /\ queue \in Seq(Calls) /\ isQueueing \in BOOLEAN
    BY <1>2 DEF IInv, TypeOK
  <2>2. SUFFICES ASSUME ~ Unauthorized(c) PROVE FALSE
    OBVIOUS
  <2>3. SUFFICES calls'[c].refused = calls[c].refused
    BY <1>2
  <2>4. CASE UNCHANGED calls
    BY <2>4
  <2>5. ASSUME NEW d \in Calls, MakeCall(d)
        PROVE  calls'[c].refused = calls[c].refused
    <3>1. d # c
      BY <1>2, <2>5 DEF MakeCall
    <3>2. calls'[c] = calls[c]
      BY <2>1, <2>5, <3>1 DEF MakeCall
    <3> QED
      BY <3>2
  <2>6. ASSUME NEW d \in Calls, Answered(d)
        PROVE  calls'[c].refused = calls[c].refused
    <3>1. calls' = [calls EXCEPT ![d] = Settled(calls[d])]
      BY <2>6 DEF Answered
    <3>2. Settled(calls[c]).status = "settled"
      BY <2>1 DEF Settled, CallRecords
    <3>3. d # c
      BY <1>2, <2>1, <3>1, <3>2
    <3> QED
      BY <2>1, <3>1, <3>3
  <2>7. ASSUME NEW d \in Calls, Unauthorized(d)
        PROVE  calls'[c].refused = calls[c].refused
    <3> DEFINE back == [calls EXCEPT ![d].status = "queued",
                                     ![d].refused = calls[d].try]
               provider == tokenRejected(auth, calls[d].try.expiry, now)
    <3>1. d # c
      BY <2>2, <2>7
    <3>2. back[c] = calls[c]
      BY <2>1, <3>1
    <3>3. CASE UNCHANGED calls
      BY <3>3
    <3>4. \/ calls' = [calls EXCEPT ![d] = Settled(calls[d])]
          \/ calls' = back
          \/ TryEmptyQueue(Append(queue, d), back, waitForPromises, provider)
      BY <2>7 DEF Unauthorized
    <3> HIDE DEF back, provider
    <3>5. calls'[c] = calls[c] \/ calls'[c] = back[c]
          \/ calls'[c] = Sent(back[c], provider)
      BY <2>1, <3>1, <3>4 DEF TryEmptyQueue
    <3> QED
      BY <2>1, <3>2, <3>5 DEF Sent, CallRecords
  <2>8. ASSUME NEW promise \in Promises, PromiseResolved(promise)
        PROVE  calls'[c].refused = calls[c].refused
    <3>1. TryEmptyQueue(queue, calls, waitForPromises', auth)
      BY <2>8 DEF PromiseResolved
    <3>2. MaySend(calls[c], calls'[c])
      BY <2>1, <3>1, TryEmptyQueueStep
    <3> QED
      BY <3>2 DEF MaySend
  <2>9. ASSUME NEW lifetime \in Lifetimes, TokenReceived(lifetime)
        PROVE  calls'[c].refused = calls[c].refused
    <3>1. TryEmptyQueue(queue, calls, waitForPromises, auth')
          \/ UNCHANGED calls
      BY <2>9 DEF TokenReceived
    <3>2. calls'[c] = calls[c] \/ calls'[c] = Sent(calls[c], auth')
      BY <2>1, <3>1 DEF TryEmptyQueue
    <3> QED
      BY <2>1, <3>2 DEF Sent, CallRecords
  <2>10. CASE QueueDispose
    <3>1. \/ calls'[c] = calls[c]
          \/ calls'[c] = [calls[c] EXCEPT !.status = "dropped"]
      BY <2>10 DEF QueueDispose
    <3> QED
      BY <2>1, <3>1 DEF CallRecords
  <2>11. \/ UNCHANGED calls
         \/ \E d \in Calls : MakeCall(d) \/ Answered(d) \/ Unauthorized(d)
         \/ \E promise \in Promises : PromiseResolved(promise)
         \/ \E lifetime \in Lifetimes : TokenReceived(lifetime)
         \/ QueueDispose
    BY <1>2 DEF Next, vars, Tick, WaitFor, PromiseRejected, TokenMissing,
                RefreshFails, TimerFires, TimersDropped, StreamUnauthorized,
                StreamConnects, AuthDispose, ProviderOnly
  <2> QED
    BY <2>4, <2>5, <2>6, <2>7, <2>8, <2>9, <2>10, <2>11
<1>3. IInv /\ [Next]_vars => Spaced
  BY <1>1, <1>2
<1>4. Spec => [][Spaced]_vars
  BY <1>3, AuthInductive, PTL DEF Spec
<1> QED
  BY <1>4 DEF RefusalsAreSpaced
-----------------------------------------------------------------------------
(* What becomes of calls in the queue: which token a call is tried with    *)
(* again, which calls may overtake others, and what a refusal may cost.    *)
(* IInv gives the types and the shape of the provider; RInv adds what the  *)
(* queue and the calls remember.                                           *)

(* Expiries grow, a call that was sent has been given a token, and none    *)
(* was refused before it was made.                                         *)
Tried ==
    /\ now > 0 /\ auth.expiry > 0
    /\ \A c \in Calls :
          /\ calls[c].status = "unmade" => calls[c].refused.expiry = 0
          /\ calls[c].status = "sent" =>
                 calls[c].try.sentAt > 0 /\ calls[c].try.expiry > 0
          /\ calls[c].try.expiry <= auth.expiry
          /\ calls[c].refused.expiry <= auth.expiry

(* The queue holds the queued only; none of them is new while new calls    *)
(* go past it.                                                             *)
InOrder ==
    \A c \in Calls : c \in Range(queue) =>
        /\ calls[c].status = "queued"
        /\ isQueueing \/ calls[c].try.sentAt > 0

(* A queued call that was refused with the token of the moment waits for   *)
(* another, or at least this one can no longer be sent.                    *)
Renewed ==
    Without({"WaitFor", "TokenMissing"}) =>
        /\ waitForPromises = {}
        /\ \A c \in Calls :
              /\ calls[c].status = "queued" /\ calls[c].refused.expiry = auth.expiry
                 => isFetchingNewToken(auth) \/ auth.expiry <= now
              /\ calls[c].status = "sent" =>
                    calls[c].try.expiry # calls[c].refused.expiry

RInv == Tried /\ InOrder /\ Renewed
-----------------------------------------------------------------------------
(* An empty sequence has no elements.                                      *)
LEMMA RangeEmpty == Range(<<>>) = {}
BY DEF Range

(* Append adds one element.                                                *)
LEMMA RangeAppend ==
    ASSUME NEW S, NEW q \in Seq(S), NEW c \in S
    PROVE  Range(Append(q, c)) = Range(q) \union {c}
<1>1. /\ DOMAIN Append(q, c) = 1 .. Len(q) + 1 /\ DOMAIN q = 1 .. Len(q)
      /\ Len(q) \in Nat
      /\ \A i \in 1 .. Len(q) : Append(q, c)[i] = q[i]
      /\ Append(q, c)[Len(q) + 1] = c
  OBVIOUS
<1> QED
  BY <1>1 DEF Range

(* What is known of a call that has been sent.                             *)
LEMMA SentFacts ==
    ASSUME NEW call \in CallRecords, NEW provider
    PROVE  LET new == Sent(call, provider)
           IN  /\ new.status = "sent" /\ new.refused = call.refused
               /\ new.try.expiry = provider.expiry /\ new.try.sentAt = now
BY DEF Sent, CallRecords

(* The types the proofs below need.                                        *)
LEMMA TypeFacts ==
    ASSUME IInv
    PROVE  /\ now \in Nat /\ auth \in Providers /\ auth.expiry \in Nat
           /\ Good(auth)
           /\ queue \in Seq(Calls) /\ isQueueing \in BOOLEAN
           /\ calls \in [Calls -> CallRecords]
           /\ \A c \in Calls : /\ calls[c] \in CallRecords
                               /\ calls[c].try \in Tries
                               /\ calls[c].refused \in Tries
                               /\ calls[c].try.expiry \in Nat
                               /\ calls[c].try.sentAt \in Nat
                               /\ calls[c].refused.expiry \in Nat
<1>1. /\ now \in Nat /\ auth \in Providers /\ Good(auth)
      /\ queue \in Seq(Calls) /\ isQueueing \in BOOLEAN
      /\ calls \in [Calls -> CallRecords]
  BY DEF IInv, TypeOK, CycleInv
<1> QED
  BY <1>1 DEF Providers, CallRecords, Tries

(* Whatever leaves queue and calls alone and keeps the expiry: a refresh   *)
(* may begin, and ends only where a token is missing.                      *)
LEMMA QuietStep ==
    ASSUME IInv, RInv,
           UNCHANGED <<isQueueing, queue, waitForPromises, calls, env>>,
           now' \in Nat, now' >= now, auth'.expiry = auth.expiry,
           \/ isFetchingNewToken(auth) => isFetchingNewToken(auth')
           \/ ~ Without({"WaitFor", "TokenMissing"})
    PROVE  RInv'
<1>1. Tried'
  BY TypeFacts DEF RInv, Tried
<1>2. InOrder'
  BY DEF RInv, InOrder
<1>3. Renewed'
  BY TypeFacts DEF RInv, Renewed, Without
<1> QED
  BY <1>1, <1>2, <1>3 DEF RInv

(* tryEmptyQueue sends all calls of the queue or none.  None of those it   *)
(* sends was refused with the token it gives them.                         *)
LEMMA EmptiedStep ==
    ASSUME IInv, RInv, NEW q \in Seq(Calls),
           NEW cs \in [Calls -> CallRecords], NEW promises, NEW provider,
           TryEmptyQueue(q, cs, promises, provider),
           now' = now, env' = env, auth' = provider,
           provider \in Providers, provider.expiry >= auth.expiry,
           waitForPromises' \subseteq waitForPromises,
           \A c \in Calls :
              /\ cs[c].status = "unmade" => cs[c].refused.expiry = 0
              /\ cs[c].status = "sent" =>
                     cs[c].try.sentAt > 0 /\ cs[c].try.expiry > 0
              /\ cs[c].try.expiry <= provider.expiry
              /\ cs[c].refused.expiry <= provider.expiry
              /\ c \in Range(q) => /\ cs[c].status = "queued"
                                   /\ isQueueing \/ cs[c].try.sentAt > 0,
           Without({"WaitFor", "TokenMissing"}) =>
              \A c \in Calls :
                 /\ cs[c].status = "queued"
                    /\ cs[c].refused.expiry = provider.expiry
                    => provider.expiry <= now
                 /\ cs[c].status = "sent" =>
                       cs[c].try.expiry # cs[c].refused.expiry
    PROVE  RInv'
<1> USE TypeFacts
<1>1. \A c \in Calls : /\ cs[c] \in CallRecords
                       /\ cs[c].try.expiry \in Nat
                       /\ cs[c].try.sentAt \in Nat
                       /\ cs[c].refused.expiry \in Nat
  BY DEF CallRecords, Tries
<1>2. provider.expiry \in Nat /\ provider.expiry > 0 /\ now \in Nat /\ now > 0
  BY DEF RInv, Tried, Providers
<1>3. CASE MayEmptyQueue(promises, provider)
  <2>1. /\ isQueueing' = FALSE /\ queue' = <<>> /\ provider.expiry > now
        /\ calls' = [c \in Calls |-> IF c \in Range(q)
                                     THEN Sent(cs[c], provider)
                                     ELSE cs[c]]
    BY <1>3 DEF TryEmptyQueue, MayEmptyQueue
  <2>2. \A c \in Calls :
           \/ c \notin Range(q) /\ calls'[c] = cs[c]
           \/ /\ c \in Range(q) /\ calls'[c].status = "sent"
              /\ calls'[c].refused = cs[c].refused
              /\ calls'[c].try.expiry = provider.expiry
              /\ calls'[c].try.sentAt = now
    BY <1>1, <2>1, SentFacts
  <2>3. Tried'
    BY <1>1, <1>2, <2>2 DEF Tried
  <2>4. InOrder'
    BY <2>1, RangeEmpty DEF InOrder
  <2>5. Renewed'
    <3> SUFFICES ASSUME Without({"WaitFor", "TokenMissing"})
                 PROVE  /\ waitForPromises' = {}
                        /\ \A c \in Calls :
                              /\ calls'[c].status = "queued"
                                 /\ calls'[c].refused.expiry = provider.expiry
                                 => isFetchingNewToken(provider)
                                    \/ provider.expiry <= now
                              /\ calls'[c].status = "sent" =>
                                    calls'[c].try.expiry # calls'[c].refused.expiry
      BY DEF Renewed, Without
    <3>1. waitForPromises' = {}
      BY DEF RInv, Renewed
    <3>2. \A c \in Calls : c \in Range(q) =>
              cs[c].refused.expiry # provider.expiry
      BY <1>1, <1>2, <2>1
    <3> QED
      BY <2>2, <3>1, <3>2
  <2> QED
    BY <2>3, <2>4, <2>5 DEF RInv
<1>4. CASE ~ MayEmptyQueue(promises, provider)
  <2>1. isQueueing' = isQueueing /\ queue' = q /\ calls' = cs
    BY <1>4 DEF TryEmptyQueue
  <2>2. Tried'
    BY <1>1, <1>2, <2>1 DEF Tried
  <2>3. InOrder'
    BY <2>1 DEF InOrder
  <2>4. Renewed'
    BY <2>1 DEF RInv, Renewed, Without
  <2> QED
    BY <2>2, <2>3, <2>4 DEF RInv
<1> QED
  BY <1>3, <1>4
(* The token of the start keeps the expiry it is given.                    *)
LEMMA NewProviderExpiry ==
    ASSUME NEW expiry \in Nat, NEW n \in Nat
    PROVE  NewAuthProvider(expiry, n).expiry = expiry
<1> DEFINE p == [state |-> STATE_WAITING, retries |-> 0, expiry |-> expiry,
                 timers |-> {}, tokenRefreshTimer |-> NoTimer, fetches |-> 0,
                 disposed |-> FALSE, lastTokenFetchTime |-> 0]
<1>1. /\ p \in Providers
      /\ p.state = STATE_WAITING /\ p.retries = 0
      /\ p.fetches = 0 /\ p.timers = {} /\ p.expiry = expiry
  BY DEF Providers, NoTimer, Timers
<1>2. NewAuthProvider(expiry, n) = createTimerForNextToken(p, n)
  BY DEF NewAuthProvider
<1> HIDE DEF p
<1> QED
  BY <1>1, <1>2, CreateTimerGood
-----------------------------------------------------------------------------
(* One lemma per action.                                                   *)
LEMMA QuietSteps ==
    ASSUME IInv, RInv,
           \/ Tick
           \/ \E promise \in Promises : PromiseRejected(promise)
           \/ TokenMissing
           \/ \E e \in BOOLEAN : RefreshFails(e)
           \/ \E timer \in auth.timers : TimerFires(timer)
           \/ TimersDropped
           \/ StreamUnauthorized
           \/ StreamConnects
           \/ AuthDispose
    PROVE  RInv'
<1>1. Good(auth) /\ now \in Nat
  BY TypeFacts
<1>2. ASSUME NEW p, ProviderOnly(p), p.expiry = auth.expiry,
             \/ isFetchingNewToken(auth) => isFetchingNewToken(p)
             \/ ~ Without({"WaitFor", "TokenMissing"})
      PROVE  RInv'
  <2>1. /\ UNCHANGED <<isQueueing, queue, waitForPromises, calls, env>>
        /\ auth' = p /\ now' = now
    BY <1>2 DEF ProviderOnly, queueVars
  <2> QED
    BY <1>1, <1>2, <2>1, QuietStep
<1>3. CASE Tick
  <2>1. /\ UNCHANGED <<isQueueing, queue, waitForPromises, calls, env>>
        /\ auth' = auth /\ now' = now + 1
    BY <1>3 DEF Tick, queueVars
  <2> QED
    BY <1>1, <2>1, QuietStep
<1>4. ASSUME NEW promise \in Promises, PromiseRejected(promise) PROVE RInv'
  <2>1. /\ UNCHANGED <<isQueueing, queue, waitForPromises, calls, env>>
        /\ auth' = auth /\ now' = now
    BY <1>4 DEF PromiseRejected, queueVars
  <2> QED
    BY <1>1, <2>1, QuietStep
<1>5. CASE TokenMissing
  <2>1. /\ ProviderOnly(onApiTokenMissing(auth)) /\ auth.fetches > 0
        /\ ~ Without({"WaitFor", "TokenMissing"})
    BY <1>5 DEF TokenMissing, TokenAnswered, Allowed, Without
  <2>2. onApiTokenMissing(auth).expiry = auth.expiry
    BY <1>1, <2>1, IdleGood DEF onApiTokenMissing
  <2> QED
    BY <1>2, <2>1, <2>2
<1>6. ASSUME NEW e \in BOOLEAN, RefreshFails(e) PROVE RInv'
  <2>1. /\ ProviderOnly(onApiTokenReceiveFail(auth, e, now))
        /\ auth.fetches > 0
    BY <1>6 DEF RefreshFails, TokenAnswered
  <2> QED
    BY <1>1, <1>2, <2>1, FailGood
<1>7. ASSUME NEW timer \in auth.timers, TimerFires(timer) PROVE RInv'
  <2>1. ProviderOnly(timerFires(auth, timer, now))
    BY <1>7 DEF TimerFires
  <2> QED
    BY <1>1, <1>2, <2>1, TimerFiresGood
<1>8. CASE TimersDropped
  <2> DEFINE p == [auth EXCEPT !.timers = {}]
  <2>1. ProviderOnly(p)
    BY <1>8 DEF TimersDropped
  <2>2. /\ p.expiry = auth.expiry
        /\ isFetchingNewToken(auth) => isFetchingNewToken(p)
    BY <1>1, DroppedGood
  <2> HIDE DEF p
  <2> QED
    BY <1>2, <2>1, <2>2
<1>9. CASE StreamUnauthorized
  <2>1. ProviderOnly(tokenRejected(auth, 0, now))
    BY <1>9 DEF StreamUnauthorized
  <2>2. LET q == tokenRejected(auth, 0, now)
        IN  /\ q = auth \/ isFetchingNewToken(q)
            /\ q.expiry = auth.expiry
    BY <1>1, RejectedGood
  <2> QED
    BY <1>2, <2>1, <2>2
<1>10. CASE StreamConnects
  <2>1. ProviderOnly(refreshOpenApiToken(auth, now))
    BY <1>10 DEF StreamConnects
  <2> QED
    BY <1>1, <1>2, <2>1, RefreshOpenApiTokenGood
<1>11. CASE AuthDispose
  <2>1. ProviderOnly(dispose(auth))
    BY <1>11 DEF AuthDispose
  <2> QED
    BY <1>1, <1>2, <2>1, DisposeGood
<1> QED
  BY <1>3, <1>4, <1>5, <1>6, <1>7, <1>8, <1>9, <1>10, <1>11

(* A call is made.                                                         *)
LEMMA MakeCallRetry ==
    ASSUME IInv, RInv, NEW c \in Calls, MakeCall(c)
    PROVE  RInv'
<1> USE TypeFacts
<1>1. /\ calls[c].status = "unmade"
      /\ UNCHANGED <<now, waitForPromises, env>>
      /\ isQueueing' = (isQueueing \/ Expired)
  BY DEF MakeCall
<1>2. /\ auth'.expiry = auth.expiry
      /\ isFetchingNewToken(auth) => isFetchingNewToken(auth')
  BY RefreshOpenApiTokenGood DEF MakeCall
<1>3. CASE isQueueing \/ Expired
  <2>1. /\ queue' = Append(queue, c) /\ isQueueing'
        /\ calls' = [calls EXCEPT ![c].status = "queued"]
    BY <1>1, <1>3 DEF MakeCall
  <2>2. /\ \A d \in Calls \ {c} : calls'[d] = calls[d]
        /\ calls'[c].status = "queued"
        /\ calls'[c].try = calls[c].try
        /\ calls'[c].refused = calls[c].refused
    BY <2>1 DEF CallRecords
  <2>3. Tried'
    BY <1>1, <1>2, <2>2 DEF RInv, Tried
  <2>4. InOrder'
    <3>1. Range(queue') = Range(queue) \union {c}
      BY <2>1, RangeAppend
    <3> QED
      BY <2>1, <2>2, <3>1 DEF RInv, InOrder
  <2>5. Renewed'
    <3>1. calls'[c].refused.expiry # auth'.expiry
      BY <1>1, <1>2, <2>2 DEF RInv, Tried
    <3> QED
      BY <1>1, <1>2, <2>2, <3>1 DEF RInv, Renewed, Without
  <2> QED
    BY <2>3, <2>4, <2>5 DEF RInv
<1>4. CASE ~ (isQueueing \/ Expired)
  <2>1. /\ queue' = queue /\ isQueueing' = isQueueing
        /\ calls' = [calls EXCEPT ![c] = Sent(calls[c], auth)]
    BY <1>1, <1>4 DEF MakeCall
  <2>2. /\ \A d \in Calls \ {c} : calls'[d] = calls[d]
        /\ calls'[c].status = "sent"
        /\ calls'[c].try.expiry = auth.expiry
        /\ calls'[c].try.sentAt = now
        /\ calls'[c].refused = calls[c].refused
    BY <2>1, SentFacts
  <2>3. Tried'
    BY <1>1, <1>2, <2>2 DEF RInv, Tried
  <2>4. InOrder'
    BY <1>1, <2>1, <2>2 DEF RInv, InOrder
  <2>5. Renewed'
    BY <1>1, <1>2, <2>2 DEF RInv, Renewed, Tried, Without
  <2> QED
    BY <2>3, <2>4, <2>5 DEF RInv
<1> QED
  BY <1>3, <1>4

(* A call that is settled leaves nothing behind.                           *)
LEMMA SettledRetry ==
    ASSUME IInv, RInv, NEW c \in Calls, calls[c].status = "sent",
           calls' = [calls EXCEPT ![c] = Settled(calls[c])],
           UNCHANGED <<now, auth, isQueueing, queue, waitForPromises, env>>
    PROVE  RInv'
<1> USE TypeFacts
<1>1. /\ Settled(calls[c]).status = "settled"
      /\ Settled(calls[c]).try.expiry = 0
      /\ Settled(calls[c]).refused.expiry = 0
  BY DEF Settled, CallRecords, NoTry
<1>2. /\ \A d \in Calls \ {c} : calls'[d] = calls[d]
      /\ calls'[c].status = "settled"
      /\ calls'[c].try.expiry = 0 /\ calls'[c].refused.expiry = 0
  BY <1>1
<1>3. Tried'
  BY <1>2 DEF RInv, Tried
<1>4. InOrder'
  BY <1>2 DEF RInv, InOrder
<1>5. Renewed'
  BY <1>2 DEF RInv, Renewed, Without
<1> QED
  BY <1>3, <1>4, <1>5 DEF RInv

(* A token that was rejected is replaced, unless it has been already or    *)
(* expires this very moment.                                               *)
LEMMA RejectedReplaces ==
    ASSUME NEW p \in Providers, NEW expiry \in Nat, expiry > 0,
           NEW n \in Nat, ~ isFetchingNewToken(tokenRejected(p, expiry, n)),
           Good(p)
    PROVE  /\ tokenRejected(p, expiry, n) = p
           /\ expiry = p.expiry => p.expiry <= n
<1>1. tokenRejected(p, expiry, n) = p
  BY RejectedGood
<1>2. ~ isFetchingNewToken(p)
  BY <1>1
<1>3. ~ shouldRequest(p, expiry, n)
  BY RefreshOpenApiTokenGood DEF tokenRejected
<1> QED
  BY <1>1, <1>2, <1>3 DEF shouldRequest, Providers

(* A call is answered with 401.                                            *)
LEMMA UnauthorizedRetry ==
    ASSUME IInv, RInv, NEW c \in Calls, Unauthorized(c)
    PROVE  RInv'
<1> USE TypeFacts
<1> DEFINE try == calls[c].try
           back == [calls EXCEPT ![c].status = "queued",
                                 ![c].refused = try]
           provider == tokenRejected(auth, try.expiry, now)
<1>1. /\ UNCHANGED <<now, waitForPromises, env>>
      /\ calls[c].status = "sent"
  BY DEF Unauthorized
<1>2. /\ try \in Tries /\ try.expiry \in Nat /\ try.sentAt \in Nat
      /\ try.expiry > 0 /\ try.sentAt > 0 /\ try.expiry <= auth.expiry
  BY <1>1 DEF RInv, Tried
<1>3. CASE areUrlAuthErrorsProblematic(authorizationErrors', try.expiry)
  BY <1>1, <1>3, SettledRetry DEF Unauthorized
<1>4. CASE ~ areUrlAuthErrorsProblematic(authorizationErrors', try.expiry)
  <2>1. /\ auth' = provider
        /\ IF isFetchingNewToken(provider)
           THEN /\ isQueueing' = TRUE
                /\ queue' = Append(queue, c)
                /\ calls' = back
           ELSE TryEmptyQueue(Append(queue, c), back, waitForPromises,
                              provider)
    BY <1>4 DEF Unauthorized, WaitsForToken
  <2>2. /\ provider \in Providers /\ provider.expiry = auth.expiry
        /\ provider = auth \/ isFetchingNewToken(provider)
    BY RejectedGood DEF Good
  <2>3. /\ back \in [Calls -> CallRecords]
        /\ back[c].status = "queued" /\ back[c].refused = try
        /\ back[c].try = try
        /\ \A d \in Calls \ {c} : back[d] = calls[d]
    <3>1. [calls[c] EXCEPT !.status = "queued", !.refused = try]
              \in CallRecords
      BY <1>2 DEF CallRecords
    <3>2. back = [calls EXCEPT ![c] = [calls[c] EXCEPT !.status = "queued",
                                                       !.refused = try]]
      BY DEF CallRecords
    <3> QED
      BY <3>1, <3>2 DEF CallRecords
  <2>4. /\ Append(queue, c) \in Seq(Calls)
        /\ Range(Append(queue, c)) = Range(queue) \union {c}
    BY RangeAppend
  <2>5. CASE isFetchingNewToken(provider)
    <3> HIDE DEF provider, back, try
    <3>1. Tried'
      BY <1>1, <1>2, <2>1, <2>2, <2>3, <2>5 DEF RInv, Tried
    <3>2. InOrder'
      BY <2>1, <2>3, <2>4, <2>5 DEF RInv, InOrder
    <3>3. Renewed'
      BY <1>1, <2>1, <2>3, <2>5 DEF RInv, Renewed, Without
    <3> QED
      BY <3>1, <3>2, <3>3 DEF RInv
  <2>6. CASE ~ isFetchingNewToken(provider)
    <3>1. /\ provider = auth
          /\ try.expiry = auth.expiry => auth.expiry <= now
      BY <1>2, <2>6, RejectedReplaces
    <3> HIDE DEF provider, back, try
    <3>2. \A d \in Calls :
             /\ back[d].status = "unmade" => back[d].refused.expiry = 0
             /\ back[d].status = "sent" =>
                    back[d].try.sentAt > 0 /\ back[d].try.expiry > 0
             /\ back[d].try.expiry <= provider.expiry
             /\ back[d].refused.expiry <= provider.expiry
      BY <1>2, <2>3, <3>1 DEF RInv, Tried
    <3>3. \A d \in Calls : d \in Range(Append(queue, c)) =>
             /\ back[d].status = "queued"
             /\ isQueueing \/ back[d].try.sentAt > 0
      BY <1>2, <2>3, <2>4 DEF RInv, InOrder
    <3>4. Without({"WaitFor", "TokenMissing"}) =>
             \A d \in Calls :
                /\ back[d].status = "queued"
                   /\ back[d].refused.expiry = provider.expiry
                   => provider.expiry <= now
                /\ back[d].status = "sent" =>
                      back[d].try.expiry # back[d].refused.expiry
      BY <2>3, <2>6, <3>1 DEF RInv, Renewed
    <3>5. TryEmptyQueue(Append(queue, c), back, waitForPromises, provider)
      BY <2>1, <2>6
    <3>6. provider.expiry >= auth.expiry
      BY <3>1
    <3> QED
      BY <1>1, <2>1, <2>2, <2>3, <2>4, <3>2, <3>3, <3>4, <3>5, <3>6,
         EmptiedStep
  <2> QED
    BY <2>5, <2>6
<1> QED
  BY <1>3, <1>4

(* waitFor.                                                                *)
LEMMA WaitForRetry ==
    ASSUME RInv, NEW promise \in Promises, WaitFor(promise)
    PROVE  RInv'
<1>1. /\ UNCHANGED <<now, auth, queue, calls, env>> /\ isQueueing' = TRUE
      /\ ~ Without({"WaitFor", "TokenMissing"})
  BY DEF WaitFor, Allowed, Without
<1> QED
  BY <1>1 DEF RInv, Tried, InOrder, Renewed, Without

(* What the queue and the calls hold, in the form EmptiedStep asks for.    *)
LEMMA QueueFacts ==
    ASSUME IInv, RInv, NEW provider \in Providers,
           provider.expiry >= auth.expiry
    PROVE  \A c \in Calls :
              /\ calls[c].status = "unmade" => calls[c].refused.expiry = 0
              /\ calls[c].status = "sent" =>
                     calls[c].try.sentAt > 0 /\ calls[c].try.expiry > 0
              /\ calls[c].try.expiry <= provider.expiry
              /\ calls[c].refused.expiry <= provider.expiry
              /\ c \in Range(queue) =>
                     /\ calls[c].status = "queued"
                     /\ isQueueing \/ calls[c].try.sentAt > 0
BY SMTT(30), TypeFacts DEF RInv, Tried, InOrder, Providers

(* A promise that was waited for is resolved.                              *)
LEMMA PromiseResolvedRetry ==
    ASSUME IInv, RInv, NEW promise \in Promises, PromiseResolved(promise)
    PROVE  RInv'
<1>1. /\ promise \in waitForPromises
      /\ waitForPromises' \subseteq waitForPromises
      /\ TryEmptyQueue(queue, calls, waitForPromises', auth)
      /\ now' = now /\ env' = env /\ auth' = auth
  BY DEF PromiseResolved
<1>2. ~ Without({"WaitFor", "TokenMissing"})
  BY <1>1 DEF RInv, Renewed
<1>3. auth.expiry >= auth.expiry
  BY TypeFacts
<1> QED
  BY <1>1, <1>2, <1>3, TypeFacts, QueueFacts, EmptiedStep

(* A token is received.                                                    *)
LEMMA TokenReceivedRetry ==
    ASSUME IInv, RInv, NEW lifetime \in Lifetimes, TokenReceived(lifetime)
    PROVE  RInv'
<1> USE TypeFacts
<1>1. /\ UNCHANGED <<now, waitForPromises, env>>
      /\ auth' = onApiTokenReceived(auth, now + lifetime, now)
      /\ auth.fetches > 0 /\ now + lifetime > auth.expiry
      /\ IF listening
         THEN TryEmptyQueue(queue, calls, waitForPromises, auth')
         ELSE UNCHANGED <<isQueueing, queue, calls>>
  BY DEF TokenReceived, TokenAnswered
<1>2. /\ auth' \in Providers /\ auth'.expiry > auth.expiry
      /\ auth'.expiry \in Nat
  <2>1. now + lifetime \in Nat
    BY TransportAssumption
  <2> QED
    BY <1>1, <2>1, ReceivedGood DEF Good
<1>3. Without({"WaitFor", "TokenMissing"}) =>
          \A c \in Calls :
             /\ calls[c].refused.expiry # auth'.expiry
             /\ calls[c].status = "sent" =>
                   calls[c].try.expiry # calls[c].refused.expiry
  BY <1>2 DEF RInv, Tried, Renewed
<1>4. CASE listening
  <2>1. TryEmptyQueue(queue, calls, waitForPromises, auth')
    BY <1>1, <1>4
  <2>2. auth'.expiry >= auth.expiry
    BY <1>2
  <2>3. waitForPromises' \subseteq waitForPromises /\ now' = now /\ env' = env
    BY <1>1
  <2> QED
    BY <1>2, <1>3, <2>1, <2>2, <2>3, QueueFacts, EmptiedStep
<1>5. CASE ~ listening
  <2>1. UNCHANGED <<isQueueing, queue, calls>>
    BY <1>1, <1>5
  <2>2. Tried'
    BY <1>1, <1>2, <2>1 DEF RInv, Tried
  <2>3. InOrder'
    BY <2>1 DEF RInv, InOrder
  <2>4. Renewed'
    BY <1>1, <1>3, <2>1 DEF RInv, Renewed, Without
  <2> QED
    BY <2>2, <2>3, <2>4 DEF RInv
<1> QED
  BY <1>4, <1>5

(* The queue is disposed.                                                  *)
LEMMA QueueDisposeRetry == ASSUME IInv, RInv, QueueDispose PROVE RInv'
<1> USE TypeFacts
<1>1. /\ UNCHANGED <<now, auth, waitForPromises, env>> /\ queue' = <<>>
      /\ calls' = [c \in Calls |->
                      IF c \in Range(queue)
                      THEN [calls[c] EXCEPT !.status = "dropped"]
                      ELSE calls[c]]
  BY DEF QueueDispose
<1>2. \A c \in Calls : \/ calls'[c] = calls[c]
                       \/ /\ calls'[c].status = "dropped"
                          /\ calls'[c].try = calls[c].try
                          /\ calls'[c].refused = calls[c].refused
  BY <1>1 DEF CallRecords
<1>3. Tried'
  BY <1>1, <1>2 DEF RInv, Tried
<1>4. InOrder'
  BY <1>1, RangeEmpty DEF InOrder
<1>5. Renewed'
  BY <1>1, <1>2 DEF RInv, Renewed, Without
<1> QED
  BY <1>3, <1>4, <1>5 DEF RInv
-----------------------------------------------------------------------------
(* What the queue and the calls remember holds in every state.             *)
THEOREM RetryInductive == Spec => []RInv
<1>1. Init => RInv
  <2> SUFFICES ASSUME Init PROVE RInv
    OBVIOUS
  <2>1. PICK expiry \in {now - 1} \union {now + e : e \in FirstExpiries} :
            auth = NewAuthProvider(expiry, now)
    BY DEF Init
  <2>2. now = 2 /\ expiry \in Nat /\ expiry > 0
    BY TransportAssumption DEF Init
  <2>3. auth.expiry = expiry
    BY <2>1, <2>2, NewProviderExpiry
  <2>4. /\ queue = <<>> /\ waitForPromises = {}
        /\ \A c \in Calls : /\ calls[c].status = "unmade"
                            /\ calls[c].try.expiry = 0
                            /\ calls[c].refused.expiry = 0
    BY DEF Init, NoTry
  <2>5. Tried
    BY <2>2, <2>3, <2>4 DEF Tried
  <2>6. InOrder
    BY <2>4, RangeEmpty DEF InOrder
  <2>7. Renewed
    BY <2>4 DEF Renewed
  <2> QED
    BY <2>5, <2>6, <2>7 DEF RInv
<1>2. IInv /\ RInv /\ [Next]_vars => RInv'
  <2> SUFFICES ASSUME IInv, RInv, [Next]_vars PROVE RInv'
    OBVIOUS
  <2>1. ASSUME NEW c \in Calls, MakeCall(c) \/ Answered(c) \/ Unauthorized(c)
        PROVE  RInv'
    <3>1. CASE MakeCall(c)
      BY <3>1, MakeCallRetry
    <3>2. CASE Answered(c)
      BY <3>2, SettledRetry DEF Answered, queueVars
    <3>3. CASE Unauthorized(c)
      BY <3>3, UnauthorizedRetry
    <3> QED
      BY <2>1, <3>1, <3>2, <3>3
  <2>2. ASSUME NEW promise \in Promises,
               WaitFor(promise) \/ PromiseResolved(promise)
        PROVE  RInv'
    BY <2>2, WaitForRetry, PromiseResolvedRetry
  <2>3. ASSUME NEW lifetime \in Lifetimes, TokenReceived(lifetime)
        PROVE  RInv'
    BY <2>3, TokenReceivedRetry
  <2>4. CASE QueueDispose
    BY <2>4, QueueDisposeRetry
  <2>5. CASE UNCHANGED vars
    BY <2>5 DEF vars, queueVars, RInv, Tried, InOrder, Renewed, Without
  <2> QED
    BY <2>1, <2>2, <2>3, <2>4, <2>5, QuietSteps DEF Next
<1> QED
  BY <1>1, <1>2, AuthInductive, PTL DEF Spec

(* A call that was refused is tried again with another token only.         *)
THEOREM RetriedWithNewToken == Spec => []NewTokenForRetry
<1>1. RInv => NewTokenForRetry
  BY DEF RInv, Renewed, NewTokenForRetry
<1> QED
  BY <1>1, RetryInductive, PTL

(* No call goes straight to the server past one that was made before and   *)
(* never sent.                                                             *)
THEOREM NewCallsKeepOrder == Spec => FirstComeFirstSent
<1> DEFINE Kept == \A c \in Calls :
               calls[c].status = "unmade" /\ calls'[c].status = "sent" =>
                   \A d \in Range(queue) : calls[d].try.sentAt > 0
<1>1. IInv /\ RInv /\ [Next]_vars => Kept
  <2> SUFFICES ASSUME IInv, RInv, [Next]_vars, NEW c \in Calls,
                      calls[c].status = "unmade", calls'[c].status = "sent"
               PROVE  \A d \in Range(queue) : calls[d].try.sentAt > 0
    OBVIOUS
  <2> USE TypeFacts
  <2>1. c \notin Range(queue)
    BY DEF RInv, InOrder
  <2>2. \A d \in Range(queue) : d \in Calls
    BY DEF Range
  <2>3. SUFFICES MakeCall(c) /\ ~ isQueueing
    BY <2>2, <2>3 DEF RInv, InOrder
  <2>4. ASSUME NEW q \in Seq(Calls), NEW cs \in [Calls -> CallRecords],
               NEW promises, NEW provider,
               TryEmptyQueue(q, cs, promises, provider),
               c \notin Range(q), cs[c] = calls[c]
        PROVE  FALSE
    BY <2>4 DEF TryEmptyQueue
  <2>5. ~ UNCHANGED calls
    OBVIOUS
  <2>6. ASSUME NEW d \in Calls, MakeCall(d)
        PROVE  MakeCall(c) /\ ~ isQueueing
    <3>1. d = c
      BY <2>6 DEF MakeCall
    <3>2. ~ isQueueing
      <4> SUFFICES ASSUME isQueueing PROVE FALSE
        OBVIOUS
      <4>1. calls' = [calls EXCEPT ![d].status = "queued"]
        BY <2>6 DEF MakeCall
      <4> QED
        BY <3>1, <4>1
    <3> QED
      BY <2>6, <3>1, <3>2
  <2>7. ASSUME NEW d \in Calls, Answered(d) PROVE FALSE
    BY <2>7 DEF Answered
  <2>8. ASSUME NEW d \in Calls, Unauthorized(d) PROVE FALSE
    <3> DEFINE back == [calls EXCEPT ![d].status = "queued",
                                     ![d].refused = calls[d].try]
               provider == tokenRejected(auth, calls[d].try.expiry, now)
    <3>1. d # c
      BY <2>8 DEF Unauthorized
    <3>2. /\ Append(queue, d) \in Seq(Calls)
          /\ c \notin Range(Append(queue, d))
      BY <2>1, <3>1, RangeAppend
    <3>3. back \in [Calls -> CallRecords] /\ back[c] = calls[c]
      <4>1. [calls[d] EXCEPT !.status = "queued", !.refused = calls[d].try]
                \in CallRecords
        BY DEF CallRecords
      <4>2. back = [calls EXCEPT ![d] =
                       [calls[d] EXCEPT !.status = "queued",
                                        !.refused = calls[d].try]]
        BY DEF CallRecords
      <4> QED
        BY <3>1, <4>1, <4>2
    <3>4. \/ calls' = [calls EXCEPT ![d] = Settled(calls[d])]
          \/ calls' = back
          \/ TryEmptyQueue(Append(queue, d), back, waitForPromises, provider)
      BY <2>8 DEF Unauthorized
    <3> HIDE DEF back, provider
    <3> QED
      BY <2>4, <3>1, <3>2, <3>3, <3>4
  <2>9. ASSUME NEW promise \in Promises, PromiseResolved(promise) PROVE FALSE
    BY <2>1, <2>4, <2>9 DEF PromiseResolved
  <2>10. ASSUME NEW lifetime \in Lifetimes, TokenReceived(lifetime)
         PROVE  FALSE
    BY <2>1, <2>4, <2>5, <2>10 DEF TokenReceived
  <2>11. ~ QueueDispose
    BY <2>1 DEF QueueDispose
  <2>12. \/ \E d \in Calls : MakeCall(d) \/ Answered(d) \/ Unauthorized(d)
         \/ \E promise \in Promises : PromiseResolved(promise)
         \/ \E lifetime \in Lifetimes : TokenReceived(lifetime)
    BY <2>5, <2>11
       DEF Next, vars, Tick, WaitFor, PromiseRejected, TokenMissing,
           RefreshFails, TimerFires, TimersDropped, StreamUnauthorized,
           StreamConnects, AuthDispose, ProviderOnly
  <2> QED
    BY <2>6, <2>7, <2>8, <2>9, <2>10, <2>12
<1>2. Spec => [][Kept]_vars
  BY <1>1, AuthInductive, RetryInductive, PTL DEF Spec
<1> QED
  BY <1>2 DEF FirstComeFirstSent

(* A refresh is begun only for a token that is due, expired or refused:    *)
(* the late refusal of an old token starts none.                           *)
THEOREM RefreshOnlyForCause == Spec => NoNeedlessRefresh
<1> DEFINE Cause ==
        Without({"Stream"}) /\ auth'.fetches > auth.fetches =>
        \/ auth.expiry < now
        \/ \E timer \in auth.timers : timer.at <= now
        \/ \E c \in Calls : /\ calls[c].status = "sent"
                            /\ calls[c].try.expiry = auth.expiry
                            /\ calls'[c].refused = calls[c].try
<1>1. IInv /\ IInv' /\ RInv /\ [Next]_vars => Cause
  <2> SUFFICES ASSUME IInv, IInv', RInv, [Next]_vars, Without({"Stream"}),
                      auth'.fetches > auth.fetches,
                      ~ (auth.expiry < now),
                      ~ \E timer \in auth.timers : timer.at <= now
               PROVE  \E c \in Calls : /\ calls[c].status = "sent"
                                       /\ calls[c].try.expiry = auth.expiry
                                       /\ calls'[c].refused = calls[c].try
    OBVIOUS
  <2> USE TypeFacts
  <2>1. /\ auth.fetches \in {0, 1} /\ auth'.fetches \in {0, 1}
        /\ auth.fetches = 0
    <3>1. Good(auth)'
      BY DEF IInv, CycleInv
    <3> QED
      BY <3>1 DEF Good, Cycle
  <2>2. ~ UNCHANGED auth
    BY <2>1
  <2>3. ASSUME NEW c \in Calls, Unauthorized(c)
        PROVE  /\ calls[c].status = "sent"
               /\ calls[c].try.expiry = auth.expiry
               /\ calls'[c].refused = calls[c].try
    <3> DEFINE try == calls[c].try
               provider == tokenRejected(auth, try.expiry, now)
    <3>1. calls[c].status = "sent" /\ try.expiry > 0
      BY <2>3 DEF Unauthorized, RInv, Tried
    <3>2. ~ areUrlAuthErrorsProblematic(authorizationErrors', try.expiry)
      BY <2>2, <2>3 DEF Unauthorized
    <3>3. auth' = provider
      BY <2>3, <3>2 DEF Unauthorized
    <3>4. isFetchingNewToken(provider)
      BY <2>2, <3>3, RejectedGood
    <3>5. calls' = [calls EXCEPT ![c].status = "queued",
                                 ![c].refused = calls[c].try]
      BY <2>3, <3>2, <3>4 DEF Unauthorized, WaitsForToken
    <3>6. try.expiry = auth.expiry
      <4>1. shouldRequest(auth, try.expiry, now)
        BY <2>2, <3>3 DEF tokenRejected
      <4> QED
        BY <3>1, <4>1 DEF shouldRequest
    <3>7. calls'[c].refused = calls[c].try
      BY <3>5 DEF CallRecords
    <3> QED
      BY <3>1, <3>6, <3>7
  <2>4. ASSUME NEW c \in Calls, MakeCall(c) PROVE FALSE
    BY <2>2, <2>4 DEF MakeCall, Expired
  <2>5. ~ TokenMissing
    BY <2>1 DEF TokenMissing, TokenAnswered
  <2>6. ASSUME NEW e \in BOOLEAN, RefreshFails(e) PROVE FALSE
    BY <2>1, <2>6 DEF RefreshFails, TokenAnswered
  <2>7. ASSUME NEW lifetime \in Lifetimes, TokenReceived(lifetime)
        PROVE  FALSE
    BY <2>1, <2>7 DEF TokenReceived, TokenAnswered
  <2>8. ASSUME NEW timer \in auth.timers, TimerFires(timer) PROVE FALSE
    BY <2>8 DEF TimerFires
  <2>9. ~ TimersDropped
    <3> SUFFICES ASSUME TimersDropped PROVE FALSE
      OBVIOUS
    <3>1. auth' = [auth EXCEPT !.timers = {}]
      BY DEF TimersDropped, ProviderOnly
    <3> QED
      BY <2>1, <3>1 DEF Providers
  <2>10. ~ StreamUnauthorized /\ ~ StreamConnects
    BY DEF StreamUnauthorized, StreamConnects, Allowed, Without
  <2>11. ~ AuthDispose
    <3> SUFFICES ASSUME AuthDispose PROVE FALSE
      OBVIOUS
    <3>1. dispose(auth).fetches = auth.fetches
      BY DEF dispose, clearTimeout, Providers
    <3>2. auth' = dispose(auth)
      BY DEF AuthDispose, ProviderOnly
    <3> QED
      BY <2>1, <3>1, <3>2
  <2>12. \E c \in Calls : Unauthorized(c)
    BY <2>2, <2>4, <2>5, <2>6, <2>7, <2>8, <2>9, <2>10, <2>11
       DEF Next, vars, Tick, Answered, WaitFor, PromiseResolved,
           PromiseRejected, QueueDispose
  <2> QED
    BY <2>3, <2>12
<1>2. Spec => [][Cause]_vars
  BY <1>1, AuthInductive, RetryInductive, PTL DEF Spec
<1> QED
  BY <1>2 DEF NoNeedlessRefresh
=============================================================================
