--------------------------- MODULE AuthTransport ---------------------------
(***************************************************************************)
(* Calls to the server through TransportQueue                              *)
(* (src/openapi/transport/queue.js) and TransportAuth (transport/auth.js), *)
(* which share one AuthProvider.  The queue holds calls back while there   *)
(* is no valid token or a promise is waited for; TransportAuth gives each  *)
(* call the token of the moment and reports a token that was rejected,     *)
(* unless its url rejects one token after the other.  All calls of this    *)
(* model go to one url; what TransportAuth keeps of another is apart.      *)
(*                                                                         *)
(* One action is one handler with all it calls.  TransportAuth's catch of  *)
(* a 401 and the queue's, which follows it in the next microtask, are one. *)
(***************************************************************************)
EXTENDS AuthProvider, Sequences, FiniteSets, Functions

CONSTANTS
    Calls, Promises,           \* calls, and promises to wait for
    Lifetimes,                 \* of the tokens the server gives
    FirstExpiries,             \* of the token of the start
    authErrorsDebouncePeriod,
    Environments,              \* each a set of events that may happen
    MaxTime                    \* bounds the clock

(* Events that not every promise of the code survives.                     *)
EventKinds == {"WaitFor", "TokenMissing", "RefreshFails", "RefreshRefused",
               "TimersDropped", "Stream", "AuthDispose", "QueueDispose"}

ASSUME TransportAssumption ==
    /\ Lifetimes \subseteq Nat
    /\ FirstExpiries \subseteq Nat
    /\ authErrorsDebouncePeriod \in Nat
    /\ Environments \subseteq SUBSET EventKinds
    /\ MaxTime \in Nat

VARIABLES
    now,                  \* the clock
    auth,                 \* the AuthProvider
    isQueueing,           \* TransportQueue: calls are held back,
    queue,                \*   these,
    waitForPromises,      \*   for these promises;
    listening,            \*   whether it hears of new tokens
    settledPromises,      \* the promises that have been settled
    authorizationErrors,  \* TransportAuth: the 401s of late
    calls,                \* what has become of each call
    env                   \* the events of this behaviour

queueVars == <<isQueueing, queue, waitForPromises, listening>>
vars == <<now, auth, queueVars, settledPromises, authorizationErrors, calls,
          env>>

(* A call is queued, sent or settled; dropped if the queue was disposed of *)
(* with the call in it.  expiry and sentAt are the token and the time of   *)
(* its last try, refused those of its last try but answered by a 401.      *)
Tries == [expiry : Nat, sentAt : Nat]
NoTry == [expiry |-> 0, sentAt |-> 0]

CallRecords == [status : {"unmade", "queued", "sent", "settled", "dropped"},
                try : Tries,
                refused : Tries]

AuthErrors == [authExpiry : Nat, added : Nat]

TypeOK ==
    /\ now \in Nat
    /\ auth \in Providers
    /\ isQueueing \in BOOLEAN
    /\ queue \in Seq(Calls)
    /\ waitForPromises \in SUBSET Promises
    /\ listening \in BOOLEAN
    /\ settledPromises \in SUBSET Promises
    /\ authorizationErrors \in SUBSET AuthErrors
    /\ calls \in [Calls -> CallRecords]
    /\ env \in Environments

Allowed(kind) == kind \in env
Without(kinds) == env \cap kinds = {}

(* The token of the start has one of FirstExpiries, which are relative to  *)
(* it, or, given an absolute expiry, has expired before.  The transports   *)
(* are made next to the provider.                                          *)
Init ==
    /\ now = 2
    /\ env \in Environments
    /\ \E expiry \in {now - 1} \union {now + e : e \in FirstExpiries} :
          auth = NewAuthProvider(expiry, now)
    /\ isQueueing = (auth.expiry < now)
    /\ queue = <<>>
    /\ waitForPromises = {}
    /\ listening = TRUE
    /\ settledPromises = {}
    /\ authorizationErrors = {}
    /\ calls = [c \in Calls |-> [status |-> "unmade",
                                 try |-> NoTry, refused |-> NoTry]]

Tick ==
    /\ now < MaxTime
    /\ now' = now + 1
    /\ UNCHANGED <<auth, queueVars, settledPromises, authorizationErrors,
                   calls, env>>
-----------------------------------------------------------------------------
(* TransportAuth gives a call the current token.                           *)
Sent(call, provider) == [call EXCEPT !.status = "sent",
                                     !.try = [expiry |-> provider.expiry,
                                              sentAt |-> now]]

(* Mutant: the token need not be valid. *)
MayEmptyQueueAnyToken(promises, provider) == promises = {}

MayEmptyQueue(promises, provider) ==
    promises = {} /\ provider.expiry > now

(* Mutant: the flag is cleared before the token is looked at. *)
TryEmptyQueueFlagFirst(q, cs, promises, provider) ==
    /\ isQueueing' = (isQueueing /\ promises # {})
    /\ IF MayEmptyQueue(promises, provider)
       THEN /\ queue' = <<>>
            /\ calls' = [c \in Calls |-> IF c \in Range(q)
                                         THEN Sent(cs[c], provider)
                                         ELSE cs[c]]
       ELSE queue' = q /\ calls' = cs

(* tryEmptyQueue, with the queue q and the calls cs of the moment.         *)
TryEmptyQueue(q, cs, promises, provider) ==
    IF MayEmptyQueue(promises, provider)
    THEN /\ isQueueing' = FALSE
         /\ queue' = <<>>
         /\ calls' = [c \in Calls |-> IF c \in Range(q)
                                      THEN Sent(cs[c], provider)
                                      ELSE cs[c]]
    ELSE /\ UNCHANGED isQueueing
         /\ queue' = q
         /\ calls' = cs
-----------------------------------------------------------------------------
(* transportMethod.                                                        *)
Expired == ~ isQueueing /\ auth.expiry < now

MakeCall(c) ==
    /\ calls[c].status = "unmade"
    /\ auth' = IF Expired THEN refreshOpenApiToken(auth, now) ELSE auth
    /\ isQueueing' = (isQueueing \/ Expired)
    /\ IF isQueueing \/ Expired
       THEN /\ queue' = Append(queue, c)
            /\ calls' = [calls EXCEPT ![c].status = "queued"]
       ELSE /\ UNCHANGED queue
            /\ calls' = [calls EXCEPT ![c] = Sent(@, auth)]
    /\ UNCHANGED <<now, waitForPromises, listening, settledPromises,
                   authorizationErrors, env>>

(* The promise of the call is settled, its tries forgotten.                *)
Settled(call) == [call EXCEPT !.status = "settled",
                              !.try = NoTry,
                              !.refused = NoTry]

(* Any answer but a 401 goes to the caller.                                *)
Answered(c) ==
    /\ calls[c].status = "sent"
    /\ calls' = [calls EXCEPT ![c] = Settled(@)]
    /\ UNCHANGED <<now, auth, queueVars, settledPromises, authorizationErrors,
                   env>>

(* Mutant: each error takes the place of the last. *)
ErrorsWithout(try) == {[authExpiry |-> try.expiry, added |-> try.sentAt]}

(* addAuthError and cleanupAuthErrors.                                     *)
ErrorsWith(try) ==
    {e \in authorizationErrors \union
            {[authExpiry |-> try.expiry, added |-> try.sentAt]} :
        e.added > now - authErrorsDebouncePeriod}

areUrlAuthErrorsProblematic(errors, authExpiry) ==
    \E e \in errors : e.authExpiry # authExpiry

(* Mutants: the queue does not look at the provider. *)
WaitsAlways(provider) == TRUE
WaitsNever(provider) == FALSE

(* "if we are fetching a new token, wait"                                  *)
WaitsForToken(provider) == isFetchingNewToken(provider)

(* onTransportError of TransportAuth, then runQueueItem's: the call is     *)
(* put back, unless its url is problematic.                                *)
Unauthorized(c) ==
    /\ calls[c].status = "sent"
    /\ authorizationErrors' = ErrorsWith(calls[c].try)
    /\ IF areUrlAuthErrorsProblematic(authorizationErrors',
                                      calls[c].try.expiry)
       THEN /\ calls' = [calls EXCEPT ![c] = Settled(@)]
            /\ UNCHANGED <<auth, isQueueing, queue>>
       ELSE LET provider == tokenRejected(auth, calls[c].try.expiry, now)
                putBack == Append(queue, c)
                refused == [calls EXCEPT ![c].status = "queued",
                                         ![c].refused = calls[c].try]
            IN  /\ auth' = provider
                /\ IF WaitsForToken(provider)
                   THEN /\ isQueueing' = TRUE
                        /\ queue' = putBack
                        /\ calls' = refused
                   ELSE TryEmptyQueue(putBack, refused, waitForPromises,
                                      provider)
    /\ UNCHANGED <<now, waitForPromises, listening, settledPromises, env>>

WaitFor(promise) ==
    /\ Allowed("WaitFor")
    /\ promise \notin waitForPromises \union settledPromises
    /\ waitForPromises' = waitForPromises \union {promise}
    /\ isQueueing' = TRUE
    /\ UNCHANGED <<now, auth, queue, listening, settledPromises,
                   authorizationErrors, calls, env>>

PromiseResolved(promise) ==
    /\ promise \in waitForPromises \ settledPromises
    /\ settledPromises' = settledPromises \union {promise}
    /\ waitForPromises' = waitForPromises \ {promise}
    /\ TryEmptyQueue(queue, calls, waitForPromises', auth)
    /\ UNCHANGED <<now, auth, listening, authorizationErrors, env>>

(* Nothing listens to the rejection.                                       *)
PromiseRejected(promise) ==
    /\ promise \in waitForPromises \ settledPromises
    /\ settledPromises' = settledPromises \union {promise}
    /\ UNCHANGED <<now, auth, queueVars, authorizationErrors, calls, env>>
-----------------------------------------------------------------------------
(* The answer to a token request takes time, and a token outlives the one  *)
(* it replaces: two tokens have two expiries.                              *)
TokenAnswered ==
    /\ auth.fetches > 0
    /\ now > auth.lastTokenFetchTime

TokenReceived(lifetime) ==
    /\ TokenAnswered
    /\ now + lifetime > auth.expiry
    /\ auth' = onApiTokenReceived(auth, now + lifetime, now)
    /\ IF listening
       THEN TryEmptyQueue(queue, calls, waitForPromises, auth')
       ELSE UNCHANGED <<isQueueing, queue, calls>>
    /\ UNCHANGED <<now, waitForPromises, listening, settledPromises,
                   authorizationErrors, env>>

(* What changes the provider and nothing else.                             *)
ProviderOnly(provider) ==
    /\ auth' = provider
    /\ UNCHANGED <<now, queueVars, settledPromises, authorizationErrors,
                   calls, env>>

TokenMissing ==
    /\ Allowed("TokenMissing")
    /\ TokenAnswered
    /\ ProviderOnly(onApiTokenMissing(auth))

RefreshFails(isAuthenticationError) ==
    /\ Allowed(IF isAuthenticationError THEN "RefreshRefused"
                                        ELSE "RefreshFails")
    /\ TokenAnswered
    /\ ProviderOnly(onApiTokenReceiveFail(auth, isAuthenticationError, now))

TimerFires(timer) ==
    /\ timer.at <= now
    /\ ProviderOnly(timerFires(auth, timer, now))

(* A device that sleeps may lose its timers.                               *)
TimersDropped ==
    /\ Allowed("TimersDropped")
    /\ auth.timers # {}
    /\ ProviderOnly([auth EXCEPT !.timers = {}])

(* Streaming: its connection was refused, or is to be made again.          *)
StreamUnauthorized ==
    /\ Allowed("Stream")
    /\ ProviderOnly(tokenRejected(auth, 0, now))

StreamConnects ==
    /\ Allowed("Stream")
    /\ auth.expiry < now
    /\ ProviderOnly(refreshOpenApiToken(auth, now))

AuthDispose ==
    /\ Allowed("AuthDispose")
    /\ ProviderOnly(dispose(auth))

QueueDispose ==
    /\ Allowed("QueueDispose")
    /\ listening
    /\ listening' = FALSE
    /\ queue' = <<>>
    /\ calls' = [c \in Calls |-> IF c \in Range(queue)
                                 THEN [calls[c] EXCEPT !.status = "dropped"]
                                 ELSE calls[c]]
    /\ authorizationErrors' = {}
    /\ UNCHANGED <<now, auth, isQueueing, waitForPromises, settledPromises,
                   env>>

Next ==
    \/ Tick
    \/ \E c \in Calls : MakeCall(c) \/ Answered(c) \/ Unauthorized(c)
    \/ \E promise \in Promises :
          WaitFor(promise) \/ PromiseResolved(promise)
                           \/ PromiseRejected(promise)
    \/ \E lifetime \in Lifetimes : TokenReceived(lifetime)
    \/ TokenMissing
    \/ \E isAuthenticationError \in BOOLEAN :
          RefreshFails(isAuthenticationError)
    \/ \E timer \in auth.timers : TimerFires(timer)
    \/ TimersDropped
    \/ StreamUnauthorized
    \/ StreamConnects
    \/ AuthDispose
    \/ QueueDispose

Spec == Init /\ [][Next]_vars
-----------------------------------------------------------------------------
(* The provider has a request or a timer pending, never two things: no two *)
(* token requests are ever on their way (authProvider.js:261), and unless  *)
(* it has failed for good the next token will be asked for.                *)
RefreshCycle ==
    LET pending == auth.fetches + Cardinality(auth.timers)
    IN  /\ pending <= 1
        /\ /\ Without({"TokenMissing", "TimersDropped"})
           /\ ~ auth.disposed
           /\ auth.state # STATE_FAILED
           => pending = 1

(* No call is sent with a token known to have expired (queue.js:12-22,     *)
(* 47-55), whichever way it has come.                                      *)
NotSentExpired ==
    \A c \in Calls :
        calls[c].status = "sent" => calls[c].try.expiry >= calls[c].try.sentAt

(* A token is wanted, and an answer is on its way or a timer that asks for *)
(* one is at most a retry away.                                            *)
TokenIsComing ==
    /\ isFetchingNewToken(auth) \/ auth.expiry <= now
    /\ \/ auth.fetches > 0
       \/ \E timer \in auth.timers : timer.at <= now + retryDelay

(* Calls are held back only for a reason that ends: a promise that is yet  *)
(* to be settled, or a token that is coming (queue.js:47-65, 188-198).     *)
(* They stay for ever when a promise is rejected, which the queue does not *)
(* hear of (queue.js:165), and when no token comes any more: the provider  *)
(* has given up or was disposed of, an answer had no token, or the device  *)
(* lost the timer.                                                         *)
QueueMoves ==
    /\ Without({"TokenMissing", "TimersDropped", "QueueDispose"})
    /\ auth.state # STATE_FAILED /\ ~ auth.disposed
    /\ waitForPromises \cap settledPromises = {}
    /\ isQueueing \/ queue # <<>>
    => waitForPromises # {} \/ TokenIsComing

(* A call that was refused is not tried again with the token it was        *)
(* refused with: it waits for another (queue.js:188-198), unless a promise *)
(* empties the queue meanwhile or an answer without a token ends the wait. *)
NewTokenForRetry ==
    Without({"WaitFor", "TokenMissing"}) =>
        \A c \in Calls :
            calls[c].status = "sent" =>
                calls[c].try.expiry # calls[c].refused.expiry

(* A call that goes straight to the server overtakes no call that was made *)
(* before and never sent (queue.js:39-43).                                 *)
FirstComeFirstSent ==
    [][\A c \in Calls :
          calls[c].status = "unmade" /\ calls'[c].status = "sent" =>
              \A d \in Range(queue) : calls[d].try.sentAt > 0]_vars

(* A call tried with a second token within the period is given up when     *)
(* that too is refused: no endless loop of 401s (auth.js:44-72).           *)
RefusalsAreSpaced ==
    [][Without({"QueueDispose"}) =>
        \A c \in Calls :
           LET try == calls[c].try
               refused == calls[c].refused
           IN  /\ calls[c].status = "sent"
               /\ calls'[c].status # "settled"
               /\ calls'[c].refused # refused
               /\ refused # NoTry
               => \/ refused.expiry = try.expiry
                  \/ refused.sentAt <= now - authErrorsDebouncePeriod]_vars

(* The refusal of an old token never costs the current one: a refresh is   *)
(* begun only for a token that is due, expired, or itself refused          *)
(* (authProvider.js:313-329).                                              *)
NoNeedlessRefresh ==
    [][Without({"Stream"}) /\ auth'.fetches > auth.fetches =>
        \/ auth.expiry < now
        \/ \E timer \in auth.timers : timer.at <= now
        \/ \E c \in Calls : /\ calls[c].status = "sent"
                            /\ calls[c].try.expiry = auth.expiry
                            /\ calls'[c].refused = calls[c].try]_vars

(* "Stops the AuthProvider from refreshing the token" (authProvider.js:380):*)
(* as long as no call needs a token, a disposed provider sets no timer.    *)
DisposedStaysStopped ==
    auth.disposed /\ (\A c \in Calls : calls[c].status = "unmade") =>
        auth.timers = {}
=============================================================================
