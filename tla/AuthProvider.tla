---------------------------- MODULE AuthProvider ----------------------------
(***************************************************************************)
(* The owner of the access token (src/openapi/authProvider.js): it fetches *)
(* a new token before the old one expires, retries when that fails, and is *)
(* told when a token was rejected.  Each method is an operator from the    *)
(* provider before the call to the provider after it; AuthTransport.tla    *)
(* makes them actions.                                                     *)
(*                                                                         *)
(* Time is an integer that starts at 1, so 0 stands for undefined.  A      *)
(* token is known by its absolute expiry, as in the code.  A provider p is *)
(* a record:                                                               *)
(*   state, retries, expiry, lastTokenFetchTime    as in the code          *)
(*   timers   the timers that run, tokenRefreshTimer the one the code has  *)
(*            the handle of; each calls a function at a time or later      *)
(*   fetches  how many token requests are waiting for their answer         *)
(*   disposed whether dispose was called, which the code does not remember *)
(***************************************************************************)
EXTENDS Integers

CONSTANTS
    tokenRefreshMargin,    \* how early a token is refreshed
    retryDelay,            \* from a failed refresh to the next try
    maxRetryCount,         \* how many tries may follow the first
    TRASH_NEW_TOKEN_DELAY  \* how long a new token is trusted on a guess

ASSUME ProviderOptions ==
    /\ tokenRefreshMargin \in Nat
    /\ retryDelay \in Nat
    /\ maxRetryCount \in Nat
    /\ TRASH_NEW_TOKEN_DELAY \in Nat

STATE_WAITING    == "WAITING"
STATE_REFRESHING == "REFRESHING"
STATE_FAILED     == "FAILED"

(* What a timer calls: refreshOpenApiToken or, as a retry, refreshToken.   *)
Timers == [calls : {"refreshOpenApiToken", "refreshToken"}, at : Nat]

NoTimer == [calls |-> "refreshOpenApiToken", at |-> 0]

Providers == [state : {STATE_WAITING, STATE_REFRESHING, STATE_FAILED},
              retries : Nat,
              expiry : Nat,
              timers : SUBSET Timers,
              tokenRefreshTimer : Timers,
              fetches : Nat,
              disposed : BOOLEAN,
              lastTokenFetchTime : Nat]

Later(a, b) == IF a < b THEN b ELSE a

setTimeout(p, timer) == [p EXCEPT !.timers = @ \union {timer},
                                  !.tokenRefreshTimer = timer]

clearTimeout(p) == [p EXCEPT !.timers = @ \ {p.tokenRefreshTimer}]

(* Whether a refresh is under way, or waits to be retried, or has failed   *)
(* for good.                                                               *)
isFetchingNewToken(p) == ~ (p.state = STATE_WAITING /\ p.retries = 0)

(* Mutant: the timer that led here is thought to have ended. *)
refreshTokenKeepTimer(p, now) ==
    [p EXCEPT !.state = STATE_REFRESHING,
              !.fetches = @ + 1,
              !.lastTokenFetchTime = now]

(* refreshToken and getToken: with tokenRefreshUrl given.                  *)
refreshToken(p, now) ==
    [clearTimeout(p) EXCEPT !.state = STATE_REFRESHING,
                            !.fetches = @ + 1,
                            !.lastTokenFetchTime = now]

refreshOpenApiToken(p, now) ==
    IF isFetchingNewToken(p) THEN p ELSE refreshToken(p, now)

createTimerForNextToken(p, now) ==
    IF p.expiry <= now
    THEN refreshOpenApiToken(p, now)
    ELSE setTimeout(p, [calls |-> "refreshOpenApiToken",
                        at |-> Later(now, p.expiry - tokenRefreshMargin)])

NewAuthProvider(expiry, now) ==
    createTimerForNextToken([state |-> STATE_WAITING,
                             retries |-> 0,
                             expiry |-> expiry,
                             timers |-> {},
                             tokenRefreshTimer |-> NoTimer,
                             fetches |-> 0,
                             disposed |-> FALSE,
                             lastTokenFetchTime |-> 0], now)

(* The answers to a token request.                                         *)
Idle(p) == [p EXCEPT !.fetches = @ - 1,
                     !.state = STATE_WAITING,
                     !.retries = 0]

onApiTokenReceived(p, expiry, now) ==
    createTimerForNextToken([Idle(p) EXCEPT !.expiry = expiry], now)

onApiTokenReceiveFail(p, isAuthenticationError, now) ==
    LET answered == [p EXCEPT !.fetches = @ - 1]
    IN  IF isAuthenticationError \/ p.retries >= maxRetryCount
        THEN [answered EXCEPT !.state = STATE_FAILED]
        ELSE setTimeout([answered EXCEPT !.state = STATE_WAITING,
                                         !.retries = @ + 1],
                        [calls |-> "refreshToken", at |-> now + retryDelay])

(* Mutant: the failure handler hears of it too, as with .then().catch(). *)
onApiTokenMissingAndFail(p) == onApiTokenReceiveFail(Idle(p), FALSE, 0)

(* The answer has no token: no timer is set.                               *)
onApiTokenMissing(p) == Idle(p)

(* Mutant: whichever token was rejected, the current one is replaced. *)
shouldRequestAlways(p, expiryOfRejectedToken, now) == ~ isFetchingNewToken(p)

(* expiryOfRejectedToken is 0 when the caller does not know it.            *)
shouldRequest(p, expiryOfRejectedToken, now) ==
    /\ ~ isFetchingNewToken(p)
    /\ IF expiryOfRejectedToken = 0
       THEN \/ p.lastTokenFetchTime = 0
            \/ now - p.lastTokenFetchTime > TRASH_NEW_TOKEN_DELAY
       ELSE \/ p.expiry > now /\ expiryOfRejectedToken = p.expiry
            \/ p.expiry < now

tokenRejected(p, expiryOfRejectedToken, now) ==
    IF shouldRequest(p, expiryOfRejectedToken, now)
    THEN refreshOpenApiToken(p, now)
    ELSE p

(* dispose does nothing about a request that is waiting for its answer.    *)
dispose(p) == [clearTimeout(p) EXCEPT !.disposed = TRUE]

(* A timer that is due ends and calls its function.                        *)
timerFires(p, timer, now) ==
    LET ended == [p EXCEPT !.timers = @ \ {timer}]
    IN  IF timer.calls = "refreshToken"
        THEN refreshToken(ended, now)
        ELSE refreshOpenApiToken(ended, now)
=============================================================================
