-------------------------- MODULE StreamingHandlers --------------------------
(***************************************************************************)
(* The methods and callbacks of Streaming                                  *)
(* (src/openapi/streaming/streaming.js) with its subscriptions, its orphan *)
(* finder and its connection, each an operator from the streaming before   *)
(* the call to the streaming after it.  Streaming.tla makes them actions.  *)
(*                                                                         *)
(* A streaming s is a record:                                              *)
(*   connectionState, reconnecting, isReset, disposed   as in the code     *)
(*   contextId        the number of the context; 0 before the first        *)
(*   reconnectTimer   whether the timer of the last retry is running, and  *)
(*   lostTimers       how many run whose handle was overwritten            *)
(*   tokenHandlers    the one-time handlers of EVENT_TOKEN_RECEIVED:       *)
(*       whether each is to start a reconnection                           *)
(*   all              every subscription ever created                      *)
(*   subscriptions    the array of those that are not disposed of          *)
(*   finder           the orphan finder (OrphanFinder)                     *)
(*   connection       what the Connection was asked and has told           *)
(*       (ConnectionContract), former the same of the one before it, and   *)
(*       replaced how many there were before it                            *)
(*   tagCalls         the calls by tag that are not over                   *)
(* An entry of all is the subscription (SubscriptionHandlers), the context *)
(* it will use and those its POSTs used, and its activity.  contextId of a *)
(* POST is currentStreamingContextId.                                      *)
(***************************************************************************)
EXTENDS SubscriptionHandlers, OrphanFinder

CONSTANT InactivityTimeout   \* of the responses to a POST; 0 for none

Contract == INSTANCE ConnectionContract WITH promise <- 0

ConnectionStates == {"INITIALIZING", "STARTED", "CONNECTING", "CONNECTED",
                     "RECONNECTING", "DISCONNECTED", "FAILED"}

Entries ==
    [sub : SubscriptionRecords, streamingContextId : Nat, contexts : Seq(Nat),
     latestActivity : Nat, inactivityTimeout : Nat]

TagCalls == [members : SUBSET Nat, sent : BOOLEAN, context : Nat]

Streamings ==
    [connectionState : ConnectionStates,
     reconnecting : BOOLEAN, isReset : BOOLEAN, disposed : BOOLEAN,
     contextId : Nat,
     reconnectTimer : BOOLEAN, lostTimers : Nat,
     tokenHandlers : Seq(BOOLEAN),
     all : Seq(Entries), subscriptions : Seq(Nat),
     finder : Finders,
     connection : Contract!Promises, former : Contract!Promises,
     replaced : Nat,
     tagCalls : Seq(TagCalls)]

Listed(s) == {s.subscriptions[k] : k \in DOMAIN s.subscriptions}

(* The entry with its subscription in state t.  Each POST it has sent has  *)
(* used the context of the moment.                                         *)
Entry(x, t) ==
    [x EXCEPT !.sub = t,
              !.contexts = @ \o [k \in 1..(Len(t.inFlight) - Len(@)) |->
                                     x.streamingContextId]]

(* The subscriptions in chosen do op. *)
Each(s, chosen, op(_)) ==
    [s EXCEPT !.all = [i \in DOMAIN @ |-> IF i \in chosen
                                          THEN Entry(@[i], op(@[i].sub))
                                          ELSE @[i]]]

AllUnavailable(s) == Each(s, Listed(s), onConnectionUnavailable)
-----------------------------------------------------------------------------
(* Starting. *)
setNewContextId(s) ==
    [s EXCEPT !.contextId = @ + 1,
              !.all = [i \in DOMAIN @ |->
                          IF i \in Listed(s)
                          THEN [@[i] EXCEPT !.streamingContextId = s.contextId + 1]
                          ELSE @[i]]]

(* A connection without a transport does not start. *)
startConnection(s) ==
    LET t == setNewContextId(s)
    IN  IF s.connection.told = "exhausted" THEN t
        ELSE [t EXCEPT !.connection = Contract!Start(@)]

(* With an expired token the start waits for a new one. *)
connect(s, isReconnection, expired) ==
    IF s.connectionState \notin {"DISCONNECTED", "INITIALIZING"} THEN s
    ELSE IF expired THEN [s EXCEPT !.tokenHandlers = Append(@, isReconnection)]
    ELSE startConnection(s)

(* exhausted: the browser supports none of the transports, and the         *)
(* Connection says so while it is constructed.                             *)
init(s, expired, exhausted) ==
    LET t == [s EXCEPT !.former = s.connection,
                       !.replaced = @ + 1,
                       !.connection = Contract!NewPromise]
    IN  connect(IF exhausted
                THEN [t EXCEPT !.connection = Contract!Tell(@, "exhausted"),
                               !.connectionState = "DISCONNECTED"]
                ELSE t, FALSE, expired)

NewStreaming ==
    [connectionState |-> "INITIALIZING",
     reconnecting |-> FALSE, isReset |-> FALSE, disposed |-> FALSE,
     contextId |-> 0,
     reconnectTimer |-> FALSE, lostTimers |-> 0,
     tokenHandlers |-> <<>>,
     all |-> <<>>, subscriptions |-> <<>>,
     finder |-> NewFinder,
     connection |-> Contract!NewPromise, former |-> Contract!NewPromise,
     replaced |-> 0,
     tagCalls |-> <<>>]

(* The new token reaches the one-time handlers, the last one first, and    *)
(* each is removed and starts the connection.  One that waits on behalf of *)
(* a reconnection does nothing when resetStreaming has taken over.  Each   *)
(* start takes a new context; that of the last one stays.                  *)
TokenReceived(s) ==
    LET starting == {k \in DOMAIN s.tokenHandlers : s.tokenHandlers[k] => s.reconnecting}
        t == [s EXCEPT !.tokenHandlers = <<>>]
    IN  IF starting = {} THEN t
        ELSE startConnection([t EXCEPT !.contextId = @ + Cardinality(starting) - 1])

(* Mutant: does not set a timer. *)
retryConnectionNever(s) == [s EXCEPT !.reconnecting = TRUE]

(* Mutant: believes that the timer before has fired. *)
retryConnectionMiscounted(s) ==
    [s EXCEPT !.reconnecting = TRUE, !.reconnectTimer = TRUE,
              !.lostTimers = IF s.reconnectTimer THEN @ ELSE @ - 1]

(* The delay, which grows with the retries, is left out. *)
retryConnection(s) ==
    [s EXCEPT !.reconnecting = TRUE, !.reconnectTimer = TRUE,
              !.lostTimers = IF s.reconnectTimer THEN @ + 1 ELSE @]

(* The timer of the last retry, or one whose handle was overwritten.       *)
RetryFires(s, lost, expired) ==
    connect(IF lost THEN [s EXCEPT !.lostTimers = @ - 1]
            ELSE [s EXCEPT !.reconnectTimer = FALSE], TRUE, expired)
-----------------------------------------------------------------------------
(* The orphan finder at work. *)
timeTillOrphaned(x, now) ==
    IF \/ ~x.sub.connectionAvailable
       \/ x.inactivityTimeout = 0
       \/ x.sub.currentState \in {STATE_UNSUBSCRIBED, STATE_UNSUBSCRIBE_REQUESTED,
                                  STATE_SUBSCRIBE_REQUESTED}
    THEN Infinity
    ELSE x.inactivityTimeout - (now - x.latestActivity)

Left(s, now) == [i \in Listed(s) |-> timeTillOrphaned(s.all[i], now)]

StartFinder(s, now) == [s EXCEPT !.finder = start(@, now, Left(s, now))]
StopFinder(s) == [s EXCEPT !.finder = stop(@)]

(* onReconnecting: the part of onConnectionStateChanged for that state. *)
Reconnecting(s) ==
    StopFinder(AllUnavailable([s EXCEPT !.connectionState = "RECONNECTING"]))

(* breaks: the connection, told of the orphan, finds itself broken and     *)
(* begins to reconnect before the subscriptions are reset.                 *)
UpdateFinder(s, now, breaks) ==
    LET orphans == Orphans(s.finder, now, Left(s, now))
        t == IF breaks
             THEN [Reconnecting(s) EXCEPT
                       !.connection = Contract!Tell(@, "RECONNECTING")]
             ELSE s
    IN  [Each(t, orphans, reset) EXCEPT
            !.finder = update(s.finder, now, Left(s, now), breaks)]

(* It may: there are orphans, and the connection may report that. *)
MayBreak(s, now) ==
    /\ Orphans(s.finder, now, Left(s, now)) # {}
    /\ s.connectionState = "CONNECTED" /\ ~s.disposed
    /\ Contract!MayTell(s.connection, "RECONNECTING")
-----------------------------------------------------------------------------
(* Subscriptions. *)
(* Mutant: leaves it to the new subscription to find out. *)
createSubscriptionAvailable(s) ==
    LET x == [sub |-> NewSubscription(FALSE), streamingContextId |-> s.contextId,
              contexts |-> <<>>, latestActivity |-> 0, inactivityTimeout |-> 0]
    IN  [s EXCEPT !.all = Append(@, Entry(x, onSubscribe(x.sub))),
                  !.subscriptions = Append(@, Len(s.all) + 1)]

createSubscription(s) ==
    LET new == NewSubscription(FALSE)
        x == [sub |-> new, streamingContextId |-> s.contextId,
              contexts |-> <<>>, latestActivity |-> 0, inactivityTimeout |-> 0]
        t == onSubscribe(IF s.connectionState = "CONNECTED" THEN new
                         ELSE onConnectionUnavailable(new))
    IN  [s EXCEPT !.all = Append(@, Entry(x, t)),
                  !.subscriptions = Append(@, Len(s.all) + 1)]

(* indexOf and splice. *)
removeSubscription(s, i) ==
    LET indexOfSubscription == CHOOSE k \in DOMAIN s.subscriptions : s.subscriptions[k] = i
        t == Each(s, {i}, dispose)
    IN  IF i \in Listed(s)
        THEN [t EXCEPT !.subscriptions = RemoveAt(@, indexOfSubscription)] ELSE t

disposeSubscription(s, i) ==
    removeSubscription(Each(s, {i}, LAMBDA t : onUnsubscribe(t, FALSE)), i)

(* All subscriptions have the same tag. *)
unsubscribeSubscriptionByTag(s, shouldDispose) ==
    LET members == Listed(s)
        t == [Each(s, members, onUnsubscribeByTagPending) EXCEPT
                 !.tagCalls = Append(@, [members |-> members, sent |-> FALSE,
                                         context |-> 0])]
    IN  IF shouldDispose
        THEN [Each(t, members, dispose) EXCEPT !.subscriptions = <<>>]
        ELSE t

(* All members are ready at the same time. *)
handleSubscriptionReadyForUnsubscribe(s, call) ==
    \A i \in call.members : \/ s.all[i].sub.becameReady
                            \/ isReadyForUnsubscribeByTag(s.all[i].sub)

(* The end of every call: where a member has become ready, its             *)
(* state-changed callbacks have looked whether all are, and the DELETE     *)
(* leaves as soon as the code is done, with the context of that moment.    *)
Done(s) ==
    LET Asked(call) == /\ ~call.sent
                       /\ \E i \in call.members : s.all[i].sub.becameReady
                       /\ handleSubscriptionReadyForUnsubscribe(s, call)
    IN  [s EXCEPT
            !.tagCalls = [k \in DOMAIN @ |->
                             IF Asked(@[k])
                             THEN [@[k] EXCEPT !.sent = TRUE, !.context = s.contextId]
                             ELSE @[k]],
            !.all = [i \in DOMAIN @ |-> [@[i] EXCEPT !.sub.becameReady = FALSE]]]

(* The answer to the DELETE of the k-th call. *)
UnsubscribedByTag(s, k) ==
    [Each(s, s.tagCalls[k].members, onUnsubscribeByTagComplete) EXCEPT
        !.tagCalls = RemoveAt(@, k)]

(* A subscription has been made: its activity counts from now on, and the  *)
(* orphan finder is told before the consumer is.                           *)
SubscribeSucceeded(s, i, r, now, breaks) ==
    LET received == Each(s, {i}, LAMBDA t : Count(t, r, "post", -1))
        made == UpdateFinder(
                    [received EXCEPT
                        !.all[i].sub.currentState = STATE_SUBSCRIBED,
                        !.all[i].inactivityTimeout = InactivityTimeout,
                        !.all[i].latestActivity = now], now, breaks)
    IN  IF r # referenceId(s.all[i].sub) THEN received
        ELSE Each(made, {i}, LAMBDA t : onSubscribeSuccess(t, r, "none"))

UnsubscribeAnswered(s, i, r) ==
    Each(s, {i}, LAMBDA t : onUnsubscribeResponse(Count(t, r, "delete", -1), r))
-----------------------------------------------------------------------------
(* The connection. *)
(* The loop that makes the subscriptions available.  When the one at place *)
(* p has its queue emptied, its onQueueEmpty may dispose subscription j:   *)
(* the array shrinks, and the loop goes on with the next place.  p = 0 is  *)
(* no such call.                                                           *)
AllAvailable(s, p, j) ==
    LET Tell(t, places) ==
            Each(t, {t.subscriptions[k] : k \in places \cap DOMAIN t.subscriptions},
                 onConnectionAvailable)
        half == disposeSubscription(Tell(s, 1..p), j)
    IN  IF p = 0 THEN Tell(s, DOMAIN s.subscriptions)
        ELSE Tell(half, (p + 1)..Len(s.subscriptions))

EmptiesQueue(s, p) ==
    LET t == s.all[s.subscriptions[p]].sub
    IN  ~isEmpty(t.queue) /\ isEmpty(onConnectionAvailable(t).queue)

(* Mutant: the subscriptions are not reset after a reconnection. *)
ConnectedWithoutReset(s, now, p, j) ==
    StartFinder(AllAvailable([s EXCEPT !.reconnecting = FALSE, !.isReset = FALSE],
                             p, j), now)

Connected(s, now, p, j) ==
    LET t == IF s.reconnecting \/ s.isReset
             THEN [Each(s, Listed(s), reset) EXCEPT !.reconnecting = FALSE,
                                                    !.isReset = FALSE]
             ELSE s
    IN  StartFinder(AllAvailable(t, p, j), now)

Disconnected(s, expired, exhausted) ==
    IF s.isReset THEN init(StopFinder(s), expired, exhausted)
    ELSE retryConnection(AllUnavailable(StopFinder(s)))

(* Mutant: a disposed streaming minds the state. *)
MindsWhenDisposed(s, state, now, expired, exhausted, p, j) ==
    LET t == [s EXCEPT !.connectionState = state]
    IN  IF state = s.connectionState THEN t
        ELSE
        CASE state = "DISCONNECTED" -> Disconnected(t, expired, exhausted)
          [] state = "RECONNECTING" -> Reconnecting(t)
          [] state = "CONNECTED" -> Connected(t, now, p, j)
          [] OTHER -> t

(* Nothing but the state changes once disposed.  A state that is reported  *)
(* again is ignored; the others need nothing more.                         *)
onConnectionStateChanged(s, state, now, expired, exhausted, p, j) ==
    LET t == [s EXCEPT !.connectionState = state]
    IN  IF state = s.connectionState \/ s.disposed THEN t
        ELSE
        CASE state = "DISCONNECTED" -> Disconnected(t, expired, exhausted)
          [] state = "RECONNECTING" -> Reconnecting(t)
          [] state = "CONNECTED" -> Connected(t, now, p, j)
          [] OTHER -> t

onConnectionStarted(s) ==
    IF s.connectionState = "INITIALIZING"
    THEN [s EXCEPT !.connectionState = "STARTED"] ELSE s

onStreamingFailed(s) == [s EXCEPT !.connectionState = "DISCONNECTED"]

disconnect(s) ==
    IF s.connection.told = "exhausted" THEN s
    ELSE [s EXCEPT !.connection = Contract!Stop(@)]

handleControlMessageReconnect(s) ==
    disconnect(AllUnavailable([s EXCEPT !.isReset = TRUE]))

(* Mutant: the retry timer is left running. *)
resetStreamingOnly(s, expired, exhausted) ==
    LET t == StopFinder([s EXCEPT !.isReset = TRUE, !.reconnecting = FALSE])
    IN  IF s.connection.told = "exhausted" \/ s.connectionState = "DISCONNECTED"
        THEN init(t, expired, exhausted)
        ELSE disconnect(AllUnavailable(t))

resetStreaming(s, expired, exhausted) ==
    LET t == StopFinder([s EXCEPT !.isReset = TRUE])
        u == IF s.reconnecting
             THEN [t EXCEPT !.reconnecting = FALSE, !.reconnectTimer = FALSE]
             ELSE t
    IN  IF s.connection.told = "exhausted" \/ s.connectionState = "DISCONNECTED"
        THEN init(u, expired, exhausted)
        ELSE disconnect(AllUnavailable(u))

disposeStreaming(s) ==
    disconnect(
        [Each(StopFinder(s), Listed(s), LAMBDA t : reset(onConnectionUnavailable(t)))
            EXCEPT !.disposed = TRUE, !.subscriptions = <<>>])
=============================================================================
