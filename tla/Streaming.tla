------------------------------ MODULE Streaming ------------------------------
(***************************************************************************)
(* Streaming with several subscriptions of one tag, over a Connection that *)
(* keeps ConnectionContract, a streaming server, an auth provider whose    *)
(* token may have expired, and a consumer who may do anything at any time. *)
(* Every action is one call of one handler of StreamingHandlers, or the    *)
(* environment's part of it.                                               *)
(***************************************************************************)
EXTENDS StreamingHandlers

CONSTANTS
    Environments,       \* the environments to consider: sets of kinds of events
    MaxSubscriptions,   \* bounds on the subscriptions,
    MaxTime,            \* the time
    MaxEvents           \* and the events of one behaviour

EventKinds == {"Expired", "LinkBreaks", "LinkEnds", "TransportFails",
               "FailsWhileDown", "Exhausted", "Overtaken", "FormerFails",
               "Disconnect", "ResetStreaming", "WhileStarting",
               "DisposeStreaming",
               "ControlReset", "ControlReconnect", "ControlDisconnect",
               "CreateDuringReset", "CreateDuringByTag", "CreateMany",
               "Unsubscribe", "Resubscribe",
               "Dispose", "DisposeInCallback",
               "ByTag", "ByTagAgain", "ByTagDispose", "Time", "Sleep",
               "OrphanBreaks", "DeleteFails"}

ASSUME StreamingAssumption ==
    /\ Environments \subseteq SUBSET EventKinds
    /\ {MaxSubscriptions, MaxTime, MaxEvents} \subseteq Nat
ASSUME TimeAssumption ==
    /\ InactivityTimeout \in Nat /\ startDelay > 0
    /\ Infinity > MaxTime + startDelay + InactivityTimeout

VARIABLES
    s,          \* the Streaming
    live,       \* the reference ids of each subscription the server streams
    now,        \* the time
    env,        \* the kinds of events of this behaviour
    budget      \* how many more events there may be

vars == <<s, live, now, env, budget>>

TypeOK ==
    /\ s \in Streamings
    /\ live \in [DOMAIN s.all -> SUBSET Nat]
    /\ now \in 0..MaxTime
    /\ env \in Environments
    /\ budget \in 0..MaxEvents

(* An event of the environment; none of a kind is what always happens.     *)
Event(kinds) ==
    /\ kinds \subseteq env
    /\ kinds # {} => budget > 0
    /\ budget' = IF kinds = {} THEN budget ELSE budget - 1
    /\ UNCHANGED env

Kind(happens, kind) == IF happens THEN {kind} ELSE {}
Without(kinds) == env \cap kinds = {}

Becomes(t) == s' = Done(t)
Handles(t) == Becomes(t) /\ UNCHANGED <<live, now>>

Init ==
    /\ env \in Environments
    /\ \E expired, exhausted \in BOOLEAN :
          /\ Kind(expired, "Expired") \cup Kind(exhausted, "Exhausted") \subseteq env
          /\ s = init(NewStreaming, expired, exhausted)
    /\ live = <<>>
    /\ now = 0
    /\ budget = MaxEvents
-----------------------------------------------------------------------------
(* The connection. *)
(* What a call that cuts into a start or a reconnect may leave behind, the *)
(* contract allows once it is late; here each such report is an event.     *)
Late(k, state) == Kind(~Contract!MayTell(k, state), "Overtaken")

ReportKind(k, state) ==
    Late(k, state) \cup
    CASE state = "RECONNECTING" -> {"LinkBreaks"}
      [] state = "DISCONNECTED" -> Kind(k.asked # "stopped", "LinkEnds")
      [] state = "FAILED" -> {IF k.asked = "started" THEN "TransportFails"
                              ELSE "FailsWhileDown"}
      [] state = "exhausted" -> {"Exhausted"}
      [] state = "CONNECTING" -> Kind(k.told = "CONNECTED", "TransportFails")
      [] OTHER -> {}

Told(state) ==
    /\ Contract!MayTell([s.connection EXCEPT !.late = TRUE], state)
    /\ state # s.connection.told
Hears(state) == [s EXCEPT !.connection = Contract!Tell(@, state)]

(* A token may have expired, or no transport be supported, where a         *)
(* connection is made again.                                               *)
ConnectionReports(state) ==
    \E expired, exhausted \in BOOLEAN :
        /\ Told(state)
        /\ expired \/ exhausted => state = "DISCONNECTED" /\ s.isReset
        /\ Event(ReportKind(s.connection, state) \cup
                 Kind(expired, "Expired") \cup Kind(exhausted, "Exhausted"))
        /\ Handles(onConnectionStateChanged(Hears(state), state, now,
                                            expired, exhausted, 0, 0))

(* The consumer disposes a subscription while the subscriptions hear that  *)
(* the connection is available again.                                      *)
ConnectedWhileDisposing(p, j) ==
    /\ Told("CONNECTED") /\ ~s.disposed /\ s.connectionState # "CONNECTED"
    /\ EmptiesQueue(s, p)
    /\ Event({"DisposeInCallback"} \cup Late(s.connection, "CONNECTED"))
    /\ Handles(onConnectionStateChanged(Hears("CONNECTED"), "CONNECTED", now,
                                        FALSE, FALSE, p, j))

ConnectionFails ==
    /\ Told("exhausted")
    /\ Event({"Exhausted"} \cup Late(s.connection, "exhausted"))
    /\ Handles(onStreamingFailed(Hears("exhausted")))

(* "sometimes the started gets called after connected, sometimes before" *)
ConnectionStarted ==
    /\ s.connection.asked # "created"
    /\ Event({})
    /\ Handles(onConnectionStarted(s))

(* A connection that was disposed of fails all the same. *)
FormerConnectionFails ==
    /\ s.former.asked # "created" /\ s.former.told # "exhausted"
    /\ Event({"FormerFails"})
    /\ Handles(onStreamingFailed([s EXCEPT !.former.told = "exhausted"]))

Connection ==
    \/ \E state \in Contract!States \ {"exhausted"} : ConnectionReports(state)
    \/ \E p \in DOMAIN s.subscriptions, j \in Listed(s) : ConnectedWhileDisposing(p, j)
    \/ ConnectionFails \/ ConnectionStarted \/ FormerConnectionFails
-----------------------------------------------------------------------------
(* Timers and the auth provider. *)
NewToken ==
    /\ s.tokenHandlers # <<>>
    /\ Event({})
    /\ Handles(TokenReceived(s))

RetryTimeout ==
    \E lost, expired \in BOOLEAN :
        /\ IF lost THEN s.lostTimers > 0 ELSE s.reconnectTimer
        /\ expired => s.connectionState = "DISCONNECTED"
        /\ Event(Kind(expired, "Expired"))
        /\ Handles(RetryFires(s, lost, expired))

Timers == {s.finder.lost[k] : k \in DOMAIN s.finder.lost} \cup
          (IF s.finder.timer = Infinity THEN {} ELSE {s.finder.timer})

(* A timer is on time, unless the device sleeps. *)
Tick ==
    /\ now < MaxTime /\ \A due \in Timers : due > now
    /\ Event({})
    /\ "Time" \in env
    /\ now' = now + 1
    /\ UNCHANGED <<s, live>>

Sleep ==
    /\ now + MAX_UPDATE_DELAY + 1 <= MaxTime
    /\ Event({"Time", "Sleep"})
    /\ now' = now + MAX_UPDATE_DELAY + 1
    /\ UNCHANGED <<s, live>>

OrphanTimeout(due) ==
    LET t == [s EXCEPT !.finder = TimerFires(@, due)] IN
    /\ due <= now
    /\ \E breaks \in BOOLEAN :
          /\ breaks => MayBreak(t, now)
          /\ Event(Kind(breaks, "OrphanBreaks"))
          /\ Handles(UpdateFinder(t, now, breaks))
-----------------------------------------------------------------------------
(* The consumer. *)
(* It is an event to create one while a reset waits for the connection to  *)
(* end, or a call by tag for its answer, and to create more than two.      *)
Create ==
    /\ ~s.disposed /\ Len(s.all) < MaxSubscriptions
    /\ Event(Kind(s.isReset /\ s.connectionState = "CONNECTED", "CreateDuringReset")
             \cup Kind(s.tagCalls # <<>>, "CreateDuringByTag")
             \cup Kind(Len(s.all) > 1, "CreateMany"))
    /\ Becomes(createSubscription(s))
    /\ live' = Append(live, {})
    /\ UNCHANGED now

Subscribe(i) ==
    /\ i \in Listed(s)
    /\ Event({"Resubscribe"})
    /\ Handles(Each(s, {i}, onSubscribe))

Unsubscribing(i) ==
    /\ i \in Listed(s)
    /\ Event({"Unsubscribe"})
    /\ Handles(Each(s, {i}, LAMBDA t : onUnsubscribe(t, FALSE)))

Dispose(i) ==
    /\ i \in Listed(s)
    /\ Event({"Dispose"})
    /\ Handles(disposeSubscription(s, i))

ByTag(shouldDispose) ==
    /\ s.subscriptions # <<>>
    /\ Event({"ByTag"} \cup Kind(s.tagCalls # <<>>, "ByTagAgain")
                       \cup Kind(shouldDispose, "ByTagDispose"))
    /\ Handles(unsubscribeSubscriptionByTag(s, shouldDispose))

(* A call before the start of a connection that is to replace one that is  *)
(* down has had any result is a kind of its own.                           *)
IsStarting == s.connection.asked = "started" /\ s.connectionState = "DISCONNECTED"

Disconnect ==
    /\ ~s.disposed
    /\ Event({"Disconnect"} \cup Kind(IsStarting, "WhileStarting"))
    /\ Handles(disconnect(s))

ResetStreaming ==
    \E expired, exhausted \in BOOLEAN :
        /\ ~s.disposed
        /\ Event({"ResetStreaming"} \cup Kind(IsStarting, "WhileStarting")
                                    \cup Kind(expired, "Expired")
                                    \cup Kind(exhausted, "Exhausted"))
        /\ Handles(resetStreaming(s, expired, exhausted))

(* The server is asked to drop the context, and does so sooner or later. *)
DisposeStreaming ==
    /\ ~s.disposed
    /\ Event({"DisposeStreaming"})
    /\ Handles(disposeStreaming(s))

Consumer ==
    \/ Create \/ Disconnect \/ ResetStreaming \/ DisposeStreaming
    \/ \E i \in DOMAIN s.all : Subscribe(i) \/ Unsubscribing(i) \/ Dispose(i)
    \/ \E shouldDispose \in BOOLEAN : ByTag(shouldDispose)
-----------------------------------------------------------------------------
(* The server. *)
IsConnected == s.connection.told = "CONNECTED"

(* A list of reference ids, or none for all of them: each subscription     *)
(* that is found is reset.                                                 *)
ControlReset(chosen) ==
    /\ IsConnected
    /\ Event({"ControlReset"})
    /\ Handles(Each(s, chosen, reset))

ControlReconnect ==
    /\ IsConnected
    /\ Event({"ControlReconnect"})
    /\ Handles(handleControlMessageReconnect(s))

ControlDisconnect ==
    /\ IsConnected
    /\ Event({"ControlDisconnect"})
    /\ Handles(AllUnavailable(s))

(* A heartbeat or an update, for the current reference id. *)
Heartbeat(i) ==
    /\ IsConnected /\ i \in Listed(s)
    /\ referenceId(s.all[i].sub) \in live[i]
    /\ "Time" \in env /\ s.all[i].latestActivity # now
    /\ Event({})
    /\ s' = [s EXCEPT !.all[i].latestActivity = now]
    /\ UNCHANGED <<live, now>>

Waiting(i, r, k) == s.all[i].sub.inFlight[r][k] > 0

Subscribed(i, r) ==
    \E breaks \in BOOLEAN :
        /\ Waiting(i, r, "post")
        /\ breaks => /\ MayBreak(s, now) /\ "OrphanBreaks" \in env
                     /\ r = referenceId(s.all[i].sub)
        /\ Event(Kind(breaks, "OrphanBreaks"))
        /\ Becomes(SubscribeSucceeded(s, i, r, now, breaks))
        /\ live' = [live EXCEPT ![i] = @ \cup {r}]
        /\ UNCHANGED now

(* The code takes a DELETE that failed for one that went through, but the  *)
(* server goes on streaming.                                               *)
Deletes(left) ==
    \E fails \in BOOLEAN :
        /\ Event(Kind(fails, "DeleteFails"))
        /\ live' = IF fails THEN live ELSE left

Unsubscribed(i, r) ==
    /\ Waiting(i, r, "delete")
    /\ Becomes(UnsubscribeAnswered(s, i, r))
    /\ Deletes([live EXCEPT ![i] = @ \ {r}])
    /\ UNCHANGED now

(* The DELETE removes what the tag has in the context it names. *)
ByTagAnswered(k) ==
    /\ s.tagCalls[k].sent
    /\ Becomes(UnsubscribedByTag(s, k))
    /\ Deletes([i \in DOMAIN live |->
                   {r \in live[i] : s.all[i].contexts[r] # s.tagCalls[k].context}])
    /\ UNCHANGED now

Server ==
    \/ \E chosen \in SUBSET Listed(s) \ {{}} : ControlReset(chosen)
    \/ ControlReconnect \/ ControlDisconnect
    \/ \E i \in DOMAIN s.all :
          \/ Heartbeat(i)
          \/ \E r \in DOMAIN s.all[i].sub.inFlight : Subscribed(i, r) \/ Unsubscribed(i, r)
    \/ \E k \in DOMAIN s.tagCalls : ByTagAnswered(k)

Next ==
    \/ Connection \/ Consumer \/ Server
    \/ NewToken \/ RetryTimeout \/ Tick \/ Sleep
    \/ \E due \in Timers : OrphanTimeout(due)

Spec == Init /\ [][Next]_vars
-----------------------------------------------------------------------------
(***************************************************************************)
(* What must hold.  Each condition names the kinds of events for which TLC *)
(* finds the code to break the promise; README.md tells how.               *)
(***************************************************************************)

(* No call cuts into a start that waits for a new token, or for the first  *)
(* report of the connection.                                               *)
OneStartAtATime ==
    /\ Without({"WhileStarting", "FailsWhileDown", "Overtaken", "FormerFails"})
    /\ Without({"Expired"}) \/ Without({"Disconnect", "ResetStreaming"})

(* A connection that is down and can be started is started again: a retry, *)
(* or a start that waits for a new token, is under way.  Retries, resets,  *)
(* refused connects and tokens hand this duty to each other, and no call   *)
(* may drop it.  Only when no transport is left is it the consumer's turn. *)
WillStart ==
    \/ (s.reconnectTimer \/ s.lostTimers > 0) /\ s.connectionState = "DISCONNECTED"
    \/ \E k \in DOMAIN s.tokenHandlers : s.tokenHandlers[k] => s.reconnecting

IsDown(k) == /\ Contract!MayStart(k)
             /\ \/ k.told = "DISCONNECTED"
                \/ k.told = "none" /\ k.asked = "created"

NeverAbandoned ==
    /\ Without({"WhileStarting", "Overtaken", "FormerFails"})
    /\ ~s.disposed /\ IsDown(s.connection)
    => WillStart

(* The starts that are still to come. *)
Starts(t) == Len(t.tokenHandlers) + t.lostTimers + (IF t.reconnectTimer THEN 1 ELSE 0)

(* Streaming keeps its side of the contract: it starts a connection once,  *)
(* and only one that is down, and it replaces none that is not down.  Else *)
(* two connections are up at the same time, or one that nobody stops.      *)
(* Once disposed of, it starts nothing but what was waiting to start then: *)
(* a retry whose timer nobody clears, or a start that waits for a token.   *)
AtRest(k) == Contract!MayStart(k)

OneConnection ==
    [][/\ OneStartAtATime =>
              /\ s'.contextId # s.contextId =>
                     /\ s'.contextId = s.contextId + 1
                     /\ AtRest(s.connection) \/ s'.replaced # s.replaced
              /\ s'.replaced # s.replaced => AtRest(s'.former)
       /\ s.disposed => Starts(s') + s'.contextId <= Starts(s) + s.contextId]_vars

(* Every subscription hears whether the connection is available: one that  *)
(* is left out never subscribes, or subscribes on a connection that is not *)
(* there.  The loop that tells them that it is walks the array itself, and *)
(* skips a neighbour of one that is disposed of meanwhile; of all the      *)
(* others each hears of it, so that no two are ever left out.              *)
LeftOut == {i \in Listed(s) : ~s.all[i].sub.connectionAvailable}

Informed ==
    /\ /\ Without({"ControlDisconnect"})
       /\ s.connectionState = "CONNECTED" /\ ~s.isReset
       => /\ Without({"DisposeInCallback"}) => LeftOut = {}
          /\ \A i, j \in LeftOut : i = j
    /\ /\ Without({"Exhausted", "FormerFails", "CreateDuringReset"})
       /\ s.connectionState \in {"DISCONNECTED", "RECONNECTING"}
       => LeftOut = Listed(s)

(* Nothing is under way any more. *)
Settled ==
    /\ s.connectionState = "CONNECTED" /\ IsConnected
    /\ s.connection.asked = "started" /\ ~s.isReset
    /\ \A i \in Listed(s) : s.all[i].sub.connectionAvailable
    /\ \A k \in DOMAIN s.tagCalls : ~s.tagCalls[k].sent
    /\ \A i \in DOMAIN s.all :
          LET inFlight == s.all[i].sub.inFlight
          IN  \A r \in DOMAIN inFlight : \A k \in RequestKinds : inFlight[r][k] = 0

(* What the server streams of subscription i in the present context. *)
StreamedNow(i) == {r \in live[i] : s.all[i].contexts[r] = s.contextId}

Believed(t) == IF t.currentState = STATE_SUBSCRIBED THEN {referenceId(t)} ELSE {}

(* What makes a subscription leave its tag before the group is done, or    *)
(* join it when the DELETE is on its way.                                  *)
Resets == {"LinkEnds", "Disconnect", "ControlReset", "ControlReconnect", "ResetStreaming"}
Disturbing ==
    Resets \cup {"Dispose", "DisposeInCallback", "Unsubscribe", "CreateDuringByTag", "Time"}

TagsUndisturbed ==
    Without({"ByTag"}) \/ (Without(Disturbing) /\ ~({"ByTagAgain", "Resubscribe"} \subseteq env))

(* What is disposed of when the subscriptions are told to send nothing, is *)
(* not deleted, and nobody will.                                           *)
DisposedWhenOnline ==
    /\ Without({"LinkBreaks", "OrphanBreaks", "ControlDisconnect"})
    /\ ~({"TransportFails", "ByTagDispose"} \subseteq env)

(* When all is settled, a subscription that believes itself subscribed is  *)
(* one of the present context, and none is left waiting for the rest of    *)
(* its tag.  Unless a DELETE failed, the server streams no other either,   *)
(* and none of those disposed of.                                          *)
ServerAgrees ==
    /\ OneStartAtATime /\ TagsUndisturbed
    /\ ~({"Unsubscribe", "Resubscribe"} \subseteq env) \/ Without(Resets)
    /\ Settled
    => /\ \A i \in Listed(s) :
              /\ Believed(s.all[i].sub) \subseteq StreamedNow(i)
              /\ ~isReadyForUnsubscribeByTag(s.all[i].sub)
       /\ Without({"DeleteFails"}) =>
              /\ \A i \in Listed(s) : StreamedNow(i) \subseteq Believed(s.all[i].sub)
              /\ DisposedWhenOnline =>
                     \A i \in DOMAIN s.all \ Listed(s) : StreamedNow(i) = {}

(* While the finder is enabled, a timer runs that is due by the time each  *)
(* subscribed subscription is orphaned, or by the end of the start delay.  *)
OrphansWillBeFound ==
    s.finder.enabled =>
        \A i \in Listed(s) :
            LET orphanedAt == At(timeTillOrphaned(s.all[i], now), now)
            IN  /\ orphanedAt # Infinity
                /\ s.all[i].sub.currentState = STATE_SUBSCRIBED
                => \E due \in Timers :
                       due <= orphanedAt \/ due <= s.finder.minCheckTime
=============================================================================
