# A TLA+ model of openapi-clientlib-js

The library gives a web application access to an "OpenAPI" server: REST calls
through a chain of transports, an access token that is kept fresh, and
streaming subscriptions whose updates arrive over one connection.  This
directory holds TLA+ models of its parts, the TLC runs that check them on small
instances, and theorems about them that TLAPS has checked.

Five parts are modelled: **one streaming subscription**, its action queue, and
everything that drives it; **authorisation**, the auth provider with the two
transports that depend on it; the **connection** with its three transports;
**streaming** itself, with several subscriptions and the orphan finder, over
whatever the connection promises; and the rest of the **call chain**, which
batches calls, retries them and holds puts and patches back.

Paths are relative to `src/src/openapi/` unless they start with `src/`.

## The system

| component | state it keeps | operations | talks to | hard because |
|---|---|---|---|---|
| **Subscription queue** `streaming/subscription-queue.js` | list of pending actions | enqueue (merges), dequeue (skips), clearPatches, peekAction | Subscription | order of merging; what is skipped is lost |
| **Subscription** `streaming/subscription.js` | currentState, queue, referenceId, connectionAvailable, retry timer, buffered updates, isDisposed, subscription data | onSubscribe, onUnsubscribe, onModify, reset, by-tag calls, connection calls, onStreamingData, responses, timer | Streaming calls it; it calls the transport, the parser and the consumer | responses out of order, timers, callbacks that call back, calls while a request is in flight |
| **Streaming** `streaming/streaming.js` | connectionState, contextId, subscriptions, reconnecting, isReset, retry timer | createSubscription and the consumer's calls, control messages, connection state changes, resetStreaming, dispose | Connection, Subscriptions, OrphanFinder, AuthProvider, transport | loops over a live list, reconnect against reset, groups by tag that must become ready together |
| **Orphan finder** `streaming/orphan-finder.js` | next update time and timer, minCheckTime, enabled | start, stop, update | reads Subscriptions, calls Streaming | timers that are late or overwritten; resets during its loop |
| **Connection** `streaming/connection/connection.js` | transport, index, state | start, stop, dispose, updateQuery, transport failure | one of the transports; Streaming | late callbacks of a transport already given up, no transport left |
| **Websocket transport** `streaming/connection/transport/websocket-transport.js` | socket, authorise promise, reconnect count and timer, isReconnectPending | start, stop, updateQuery, socket events, network-error detection | browser, server, AuthProvider through Streaming | promise of an authorisation against stop and a newer token |
| **SignalR Core / SignalR transports** | hub connection, message stream, isDisconnecting | start, stop, renewSession, stream events | SignalR client libraries | start and stop are promises |
| **Auth provider** `authProvider.js` | token, expiry, state, retries, timer | refreshOpenApiToken, tokenRejected, answers | emits events to Streaming and TransportQueue | rejected old tokens, retries, failure for good |
| **Transport queue, auth, retry, batch, diagnostics queue** `transport/*.js` | queued calls, promises waited for, error lists, retry counters and timers | the REST methods, answers, timers, dispose | each wraps the next; AuthProvider | 401 and re-queueing, emptying while calls arrive, partial batches |
| **Micro emitter** `src/src/micro-emitter.js` | handlers by event | on, one, off, trigger | all of the above | handlers that add and remove handlers |
| Parsers, core transport, fetch, utilities, number and price formatting, log | data conversion | | | |

What makes each correct, in one line: the *queue* never loses what was asked
for last; the *subscription* ends up as the consumer asked last and agrees with
the server; *Streaming* tells every subscription of every change of the
connection and brings the connection back; the *orphan finder* resets a silent
subscription and no other, and always has a timer when it has something to watch
for; the *connection* falls back through its transports once each, and a stopped
one stays stopped; the *auth provider* has at most one refresh in flight and is
never left without timer or request; the *transports* settle every call exactly
once and in order where they queue.

The list of hazards, each at its line, is in `PROJECT.json`.  Where no property is
listed with one, its note says why: most of these are conditions under which a
property is not claimed, because TLC finds the code to break it (see
Environments).

## Modules

| module | what it is |
|---|---|
| `SubscriptionQueue` | the queue's methods as operators from a sequence to a sequence |
| `SubscriptionHandlers` | every method and callback of a subscription, as an operator from the subscription (a record) before the call to the one after it |
| `Subscription` | the state machine: one subscription with consumer, Streaming, server, responses and timer |
| `AuthProvider` | every method of the auth provider, as an operator from the provider (a record) before the call to the one after it |
| `AuthTransport` | the state machine: one provider with a TransportQueue around a TransportAuth, calls, promises, the server, the streaming and the clock |
| `ConnectionContract` | the abstract specification between Streaming and Connection: what may be reported after what |
| `WebsocketTransport`, `SignalrCoreTransport`, `SignalrTransport` | every method and callback of a transport, as an operator from the transport to the transport and what it tells its connection |
| `SignalrLibrary` | the part of the vendored `$.connection` that `SignalrTransport` drives |
| `Connection` | the state machine: a connection, its list of transports, the server, the browser and the user |
| `OrphanFinder` | the finder's methods over integer time |
| `StreamingHandlers` | every method and callback of Streaming, with what each does to the subscriptions and the finder |
| `Streaming` | the state machine: Streaming with consumer, contract, server, token and clock |
| `CallHandlers` | the methods of the diagnostics queue, TransportRetry, TransportBatch, `batch-util` and the core transport |
| `Calls` | the state machine: that chain with consumer, server, microtasks and timers |
| `MCSubscriptionQueue`, `MCSubscription`, `MCAuthTransport`, `MCConnection`, `MCStreaming`, `MCCalls` | instances for TLC |
| `SubscriptionQueueProofs`, `SubscriptionHandlersProofs`, `StreamingHandlersProofs` | what the methods of the queue, of a subscription, of the orphan finder and of Streaming do, as lemmas and theorems |
| `SubscriptionProofs`, `AuthTransportProofs`, `StreamingProofs` | theorems |
| `ConnectionProofs`, `ConnectionAgreementProofs` | theorems: the first what the transports keep and where a step of theirs leads, the second that the connection keeps its contract |

`Subscription` EXTENDS `SubscriptionHandlers`, which EXTENDS
`SubscriptionQueue`; `AuthTransport` EXTENDS `AuthProvider`; `Calls` EXTENDS
`CallHandlers`.  `Connection` instantiates the four transport modules and
`ConnectionContract`, of which it is shown to be an implementation.
`StreamingHandlers` EXTENDS `SubscriptionHandlers` and `OrphanFinder`, so that
`Streaming` is composed of whole subscriptions and a whole finder, and of
`ConnectionContract` in place of a connection.  The proof modules extend what
they prove about.

### How state and actions correspond to the code: the subscription

JavaScript runs every handler to completion, so **one action is one call of one
handler**, with all it calls in turn.  `performAction`, which calls itself for
the next queued action until a request is sent, is one operator
(`performQueue`): the first *effective* action of the queue, in the order
`dequeue` returns them, is performed; the others before it do nothing in that
state and are lost.

`sub` is the record of the code's fields.  What is not a field of the code:

* `inFlight[r][k]` counts the POSTs, DELETEs and PATCHes of reference id `r`
  that have not been answered.  The code keeps this nowhere: it lives in
  promises.  A reference id is the number of the POST that introduced it, so
  the current one is `Len(inFlight)`.  Responses arrive in any order, at any
  time, whether or not the subscription is still waiting for them.
* `lostTimers` counts retry timers that run although their handle has been
  overwritten (a second network error; another timer that ended).
* `becameReady` says that the state-changed callbacks have been told of the
  by-tag state during the present call.  `Becomes` uses it to settle the
  promises of `unsubscribeByTag` (`tagWaiting`), each of which sends its DELETE
  (`tagDeletes`).
* `snapshotRef` and `deltaRef` are what the consumer's `onUpdate` saw last.
* `live` is what the server streams.  An accepted POST adds to it; one that the
  network lost may have; one refused as a duplicate finds its reference id
  there.  A DELETE that was carried out removes from it.  One that failed
  (`DeleteFails`, an event) may not, and the code, which handles either answer
  alike (`subscription.js:501-537`), does not know.
* `cleanUps` are the reference ids whose clean-up DELETE is on its way: on a
  duplicate, `onSubscribeError` deletes what is left over (`402`) and, in the same
  turn, asks again with a new POST (`406`).  Nobody waits for its answer.
* `intent` and `refused` are what the consumer asked for last and whether
  `onError` has been called since.

The state READY_FOR_UNSUBSCRIBE_BY_TAG has no value in the code
(`subscription.js:682-692` defines the other five), so it is `undefined`: equal
to itself, different from the others, and missing from the bit set of
transitioning states.  The model keeps all of that.

A PATCH's arguments, the subscription's data, parser and snapshot contents,
logging and activity times are left out; of an update the model keeps whether
it parses, and of the format whether it is protobuf (which a server may refuse
once).  Two calls of the consumer are separate actions (`Modify`,
`ModifyPatch`) though one function of the code.

### How state and actions correspond to the code: authorisation

`auth` is the record of the provider's fields; `isQueueing`, `queue` and
`waitForPromises` are TransportQueue's, `authorizationErrors` is
TransportAuth's for the one url all calls of the model go to (it keeps each
url's errors apart).  `listening` is whether the queue's handler of
`tokenReceived` is registered.  Again one action is one handler with all it
calls: `TokenReceived` is `onApiTokenReceived`, the timer or request it starts,
and the emptying of the queue that the event triggers, in that order.

* **Time** is an integer from 1, and 0 is what `undefined` is in the code.  A
  timer fires when it is due or later, in any order with other handlers.  The
  provider keeps the handle of one timer; `timers` is the set of those that
  run, so that a lost handle would show.  A timer that has fired leaves its
  handle behind, as in the code.
* **A token is known by its expiry**, because the code knows it by nothing else
  (`tokenRejected` and the 401 guard compare expiries).  The model assumes that
  a new token outlives the one it replaces and that an answer takes at least
  one unit of time, so two tokens have two expiries.  Token requests of the
  provider with `tokenRefreshUrl` are modelled; `fetches` counts those not
  answered.
* **A 401** is handled by two promise callbacks, `onTransportError` of
  TransportAuth and the rejection handler of `runQueueItem`, one microtask
  apart.  No timer or answer of the network comes between them; they are the
  one action `Unauthorized`.
* `calls` is what a call's promise and the arguments bound to its handlers hold:
  whether it is queued, on its way or settled, and the token and time of its
  last try (bound to `onTransportError`).  `refused` (the last try that got a
  401) and `auth.disposed` are for the properties; no guard reads them.
* `refreshOpenApiToken` while the state is WAITING and a retry is pending does
  nothing, for `retries > 0` counts as fetching.

### How state and actions correspond to the code: the connection

`c.transports` has one place for each transport of the list the options ask
for, because a transport that has failed is only dropped, not disposed of: its
callbacks stay bound to the connection (`connection/connection.js:73-113`), and
its timers, sockets and promises may go on to act.  A handler of a transport
returns a *step*: the transport after it and the calls it makes to its
callbacks, in order; `Connection` takes these one by one (`Deliver`), replaces
the transport on a failure and starts the next in the same turn.

* **Websocket transport**: `authorizing` has the promises of
  `getAuthorizePromise` that have not been settled, each with what hangs on it (a
  number of starts, or a renewal) and the context and token it was made for;
  `socket.query` is what the url of the present socket named.  A socket that is
  closed by `destroySocket` has lost its handlers and is gone; one whose close
  comes from outside still calls `handleSocketClose`.
* **SignalR Core transport**: the HubConnection is modelled from how it is used:
  its state, the stream, and the promises of `start`, `stop`, `invoke` and
  renewals, each of which settles at any time and in any order.
* **SignalR transport**: the adapter maps the states of the library; the library
  is modelled from the vendored file, for one connection that negotiates, tries
  its transports, is checked for silence, reconnects and gives up.
* **The user** is what Streaming does: it starts what is down (`connect`), stops
  or disposes at any time, gives a new context and token before a start, when
  the link breaks, and when told that the token is not accepted.
* `c.promise` records what `ConnectionContract` speaks of: what was asked, what
  was told, and whether something was cut short (`late`).

### How state and actions correspond to the code: streaming

`s` is the record of Streaming's fields, with every subscription ever made in
`s.all` (a disposed one may still have requests under way) and the list the code
keeps in `s.subscriptions`.  `Each` walks that list as the loops of the code do.

* `tokenHandlers` are the one-time handlers `connect` registers on the provider
  when the token has expired: any attempt adds one, a new token runs all, the
  last first (`src/src/micro-emitter.js:142`).
* `reconnectTimer` and `lostTimers`: the retry timer the code has a handle of,
  and those it has not.
* `tagCalls` are the promises of unsubscribe by tag: the members each waits for
  and, once all were ready together, the DELETE that is on its way with the
  context id of that moment.
* `contexts` of a subscription gives the context id each POST carried; the
  server streams a reference id in the context it was made in.
* `connection` and `former` are promises of `ConnectionContract`: the present
  connection, and the one before it, which may still call.  Reports come in any
  order the contract allows.  `replaced` counts connections.
* **The finder's time** is an integer; a timer fires when due, or later if the
  device sleeps (`Sleep`).  The periods are constants.  Heartbeats stand for
  updates as well: both only record activity.
* A consumer's callback may dispose a subscription while `CONNECTED` is handed
  round (`ConnectedWhileDisposing`), and the connection may report RECONNECTING
  from inside `onOrphanFound`, as the websocket transport does when it finds the
  network gone.

### How state and actions correspond to the code: calls

The chain modelled is diagnostics queue over TransportRetry over TransportBatch
over the core transport; each passes calls to the next synchronously, so a
handler of the chain is one operator.  A call is known by its name and by the
request ids it carries.

* A **request** on its way is one call, or a batch: the calls, the ids each one
  names (two if its headers object holds an older one), and the id of the whole.
* **An answer to a batch** is a sequence of parts in an order of the server's
  choosing, each with the id it names; `parse` places them as `batch-util.js`
  does, relative to the id of the whole, and `batchCallSuccess` hands them out.
* **Microtasks**: between the diagnostics' `isQueueing = false` and the release
  of the queue lies one microtask, in which only code of the same turn may make
  a call (`MadeInBetween`); all else waits for it (`BetweenTasks`).
* Of a result the model keeps which call the server made it for and whether it
  went through; `arrived` are the calls whose success has reached the client.

### Environments

Several promises of the code hold only if some events do not meet.  A constant,
`Environments`, gives sets of kinds of events; each behaviour picks one (`env`)
and only such events happen in it.  A property that needs a condition states
it over `env` (`Without({...})`), so the condition is part of the property, and
TLC checks the property in *maximal* environments: every environment in
`MCEnvironments` is one a property is about, and `EventKinds` itself, in which
everything may happen, is among them.  The conditions are what TLC left after
refuting each weaker one:

| condition | because otherwise |
|---|---|
| `OneTagCall` (no by-tag call while an earlier one is under way) | the second DELETE's answer makes a subscription UNSUBSCRIBED that has been made again meanwhile (`streaming.js:676-679`) |
| `PatchNotOvertaken` (no PATCH, or no reset and no unparsable update) | the response of a PATCH given up by a reset is taken for current (run `patch_reset`) |
| no `ByTag` for a wanted subscription | a subscribe while ready for unsubscribe by tag is dropped (run `by_tag`) |
| no `BadUpdate` for a wanted subscription | the reset happens inside `onSubscribeSuccess` (run `bad_update`) |
| no `network` error for an unwanted one | a queued subscribe survives (run `network_error`); a timer whose handle was lost subscribes |
| no `Modify` together with `Reentrant` | a modify inside the snapshot callback queues its subscribe, which `onSubscribeSuccess` then drops, as in `bad_update` |
| no `Patch` together with `duplicate`, `unsupportedFormat`, `network`, `Reset`, `Reentrant` | a queued PATCH hides an unsubscribe from `peekAction`, is cleared together with what stands behind it, or cancels a retry |
| no `network`, `DeleteFails` for "the server streams nothing else" in `ServerAgrees` | a POST whose answer was lost may have been accepted, and nobody deletes that reference id; a DELETE that failed is not repeated |
| no `ByTag` with `duplicate`, `network` or `DeleteFails`, for `SnapshotBeforeDelta` | a subscription ready for unsubscribe by tag without having been made is streamed to if something of its reference id was left over, and delivers |
| no `network` for `DisposedStaysSilent` | after a network error the queue is not worked off, and a later call, or the timer, performs the subscribe in it |
| no `Connection` for the order of snapshot and deltas | offline, an unsubscribe that is queued when the snapshot arrives withholds it, and is then taken back |

`AuthTransport` does the same with its own kinds of events:

| condition | because otherwise |
|---|---|
| no `WaitFor` for `NewTokenForRetry` | a promise that resolves empties the queue as soon as the token has not *expired*, though a refresh is under way because it was *refused*: the comment "if we are fetching a new token, wait" (`transport/queue.js:190`) is kept by the 401 handler only |
| no `TokenMissing` for `NewTokenForRetry` | an answer without a token ends the refresh, and the next call that is refused empties the queue: one that waited goes out with the token it was refused with |
| no `QueueDispose` for `RefusalsAreSpaced`, `QueueMoves` | dispose forgets the errors, stops listening for tokens, and leaves `isQueueing` as it is |
| no `TokenMissing`, `TimersDropped` for `QueueMoves`, no `TokenMissing` for the second half of `RefreshCycle` | a response without a token leaves neither timer nor request (`authProvider.js:82`) |
| not FAILED, provider not disposed of, no rejected promise, for `QueueMoves` | the calls stay in the queue for ever: a provider that has given up still says that it is fetching (`authProvider.js:254`), and `waitFor` has no handler for a rejection (`transport/queue.js:165`) |
| no `TimersDropped`, no dispose, not FAILED for that half | then there is rightly, or visibly, no timer |
| no `Stream` for `NoNeedlessRefresh` | the streaming does not know which token was refused, and the provider guesses (`authProvider.js:282`) |

`Connection` has scenarios in place of environments: the list of transports, what
the browser supports, what the server works with, and the events.  Its
exceptions, each also told at the property:

| condition | because otherwise |
|---|---|
| `~late` (nothing was cut short) | a stop while a hub reconnects, or while its stream is being cancelled, is lost; a stop and a new start while an authorisation is in flight make two sockets; a transport that failed and fails again drops the one that works (`connection.js:80`), for `handleFailure` leaves its reconnect timer running |
| `StopEarly`, `BadMessage`, `Renewal`, `TokenDown` (for what a stopped connection told last) | a hub that fails, or cannot read a message or the answer to a renewal, while it stops falls over to the next transport and never reports DISCONNECTED |
| `startLost` | an authorisation that is refused after its token was replaced fails silently (`websocket-transport.js:420`), and with it the start that waited |
| `StreamEnds` | a stream that completes after messages were received leaves the hub up and mute |
| `ProtocolMismatch` | the library stays connecting for good |
| `Token`, `TokenDown` (for an authorised context) | a token given while the connection is down is authorised for the former context, and the next start makes do with that |

`Streaming` has environments again:

| condition | because otherwise |
|---|---|
| no `WhileStarting` | between `start` and the first report `connectionState` is still DISCONNECTED: `disconnect()` leads to a report of the same state, which is ignored (`streaming.js:200`), so nothing retries although the comment at 929 says "We will follow normal reconnection logic"; `resetStreaming` takes the connection for one that is down and drops it while it starts |
| no `Expired` with `Disconnect` or `ResetStreaming` | a token handler left over by a superseded attempt starts the connection again, even a connected one, and gives it a new context id while the subscriptions stay in the old |
| no `FailsWhileDown` | FAILED, reported by a connection that is down, makes the state differ, and the next DISCONNECTED sets a second retry timer |
| no `FormerFails` (for `OneConnection`, `NeverAbandoned`) | `onStreamingFailed`, which a connection that was replaced may still call, sets `connectionState` to DISCONNECTED while the present connection is up: a retry then starts it again, or its next report of DISCONNECTED is ignored as nothing new and nobody retries |
| no `Overtaken` (for `OneConnection`, `NeverAbandoned`) | the reports `late` allows reach a connection that has been started again |
| no `Exhausted`, `FormerFails` (for `Informed`) | `onStreamingFailed`, which a disposed connection may still call, sets DISCONNECTED and tells no subscription |
| no `CreateDuringReset` | a subscription made while a reset waits takes the connection for available |
| no `DisposeInCallback` (for `Informed` of every subscription) | disposing in the loop over the live list skips the next subscription (`streaming.js:269-271`); it is the only one, also if more follow |
| no `ControlDisconnect` (for `Informed` while connected) | the control message calls the subscriptions unavailable and nothing calls them back while the connection stays up |
| no `ByTag` with `Dispose`, `DisposeInCallback`, `Unsubscribe`, resets or the orphan finder | a member that leaves while its group waits keeps the others ready for ever; a reconnect in between makes the DELETE name the new context |
| no `ByTag` with `CreateDuringByTag` | a subscription made with the tag while the DELETE is on its way is ended by it, and not told |
| no `ByTagAgain` with `Resubscribe` | the second DELETE, answered late, ends a subscription made again since (`streaming.js:676-679`) |
| no `Unsubscribe` and `Resubscribe` with a new context | an unsubscribe queued behind a POST is taken back by the next subscribe, though that POST was made in the old context; only the orphan finder mends it |
| no `LinkBreaks`, `OrphanBreaks`, `ControlDisconnect`, nor `TransportFails` with `ByTagDispose` (for disposed subscriptions) | an unsubscribe queued while the connection is unavailable is dropped with the subscription |
| no `DeleteFails` (for what the server should not stream) | the code takes a failed DELETE for one that went through |

and `Calls`:

| condition | because otherwise |
|---|---|
| no `OldIds` with `Network` or `Busy` | a call keeps the id of an earlier single send in its own headers object (`core.js:52`), names two ids in a later batch, and if the server goes by that one its answer is placed with another call |
| no `NoParentId` | without the response header `x-request-id` ids are placed as they are |
| no `NoIds` with `Reordered` | parts without ids are placed in the order they come |
| no `CutOff` (an answer that ends before its last part does, or before whole parts) | a part of which only the id arrived has no status, and is resolved: the comment "decide in the same way as transport" (`batch.js:86`) is not what `fetch.js:147` does |
| no `Unreadable` | a batch answered with 200 that cannot be parsed is reported as a network error and its calls are sent again though the server has worked on them |
| no `MadeInBetween` | a put made between `isQueueing = false` and the release overtakes those held back |
| no `Dispose` (for `EventuallySettled`) | the calls in TransportBatch's queue are dropped with their promises |

## Runs

| run | what it shows | states |
|---|---|---|
| `queue` | all queues of up to six items, next to a transcription of the code's loops: the closed forms of the model are exact (`ClosedForms`); the last subscribe or unsubscribe dequeued is the last asked for (`LastRequestWins`); a forced unsubscribe is not reduced away (`ForcedIsKept`) | 841 |
| `subscription` | one subscription, up to five events besides responses, updates and timers, in 18 environments: the safety properties | 1,835,697 |
| `live` | the liveness properties, four events, in 2 environments | 24,602 |
| `patch_reset`, `by_tag`, `bad_update`, `network_error` | four disagreements between the code and what its comments, docs or tests say; each is a finding in `PROJECT.json` | |
| `auth` | two calls and one promise with a token that is refreshed, refused or not to be had, in 4 environments: the safety properties | 854,061 |
| `connection` | a connection over each list of transports of `MCConnection`, with up to four events besides what the server and the libraries answer | 480,048 |
| `streaming` | Streaming with two or three subscriptions in 13 environments, three events | 895,174 |
| `calls` | five calls, two of them puts, to two services, in 8 environments | 206,583 |
| `auth_dispose` | a fifth finding: a provider disposed of while a token request is on its way goes on refreshing | |

The properties of `subscription`:

* `NeverStuck`: a state that waits for a response has that request in flight
  under the *current* reference id, and a subscription that is ready for
  unsubscribe by tag has the DELETE on its way.
* `PostAlone`, `ReadyIsQuiet`: a POST is never on its way together with another
  request of the subscription, except the clean-up DELETE of an earlier POST that
  was refused as a duplicate; and a subscription that is ready for the DELETE by
  tag has nothing on its way but such a clean-up.  The comment above `reset`
  gives the reason (the server's subscription limit).  The exception is a real
  one: there the new POST may overtake the DELETE.
* `ServerAgrees`: once all is settled the server streams what the subscription
  believes, and nothing else unless the network lost the answer to a POST or a
  DELETE failed.
* `KeepsWanted`, `DropsUnwanted`: once all is settled the subscription is what
  the consumer asked for last.
* `SnapshotBeforeDelta`, `SnapshotDelivered`: no delta before its snapshot, and
  no snapshot missed.
* `DisposedStaysSilent`: a disposed subscription sends no POST again, where the
  network loses none.

`EventuallySubscribed` and `EventuallyUnsubscribed` say that, if the connection
comes back for good, the subscription ends up as asked, for good.

The properties of `auth`:

* `RefreshCycle`: the provider never has two things pending (requests, timers),
  and always one unless it has failed for good or a condition above applies.
* `NotSentExpired`: no call leaves with a token that has expired.
* `QueueMoves`: calls are held back only for a promise that is yet to be settled,
  or for a token that is coming: a request for it is on its way, or a timer
  leads to one.  A provider that has given up, a promise that was rejected and
  the other cases of the table above, which hold them for ever, are excepted.
* `NewTokenForRetry`: a call is not tried again with the token it was refused
  with.
* `FirstComeFirstSent`: no new call overtakes one that has never been sent.
  (One that was refused goes to the end of the queue, and may be overtaken.)
* `RefusalsAreSpaced`: a call refused with two different tokens within the
  debounce period is given up.
* `NoNeedlessRefresh`: a refresh begins only for a token that is due, expired
  or itself refused; the late refusal of an old token costs nothing.

The properties of `connection`:

* `ImplementsContract`: every behaviour of the connection, its transports and
  their libraries is one of `ConnectionContract`, the refinement mapping being
  the record of what was asked and told.
* `OneLink`: never two links to the server at once.
* `StoppedStaysDown`: what was stopped comes to rest without a link.
* `UserIsTold`: what was started comes to rest connected and delivering, or the
  user was told that it is down.
* `Resumes`: a socket names the present context and the last message received.
* `SessionToken`: the connected hub of the current transport has the user's last
  token.

The properties of `streaming`:

* `NeverAbandoned`: a connection that is down has a retry or a start for a new
  token under way.
* `OneConnection`: none is started while it is up, none is replaced before it is
  down, and a disposed Streaming makes no new attempt.
* `Informed`: every subscription in the list knows whether it may send; where a
  consumer disposes of one while they are told, one at most does not.
* `ServerAgrees`: once all is settled a subscription that believes itself
  subscribed is streamed to in the present context, and none is left waiting for
  the rest of its tag.  Unless a DELETE failed, the server streams no other, and
  nothing of those disposed of while the subscriptions could send.
* `OrphansWillBeFound`: while enabled, the finder has a timer that is due in time
  for every subscription.

The properties of `calls`:

* `RightAnswer`: a call gets its own answer, and is resolved only if it went
  through.
* `NotRepeated`: a call whose success has arrived is not sent again.
* `PutsWait`: no put or patch leaves before the diagnostics or overtakes one that
  was held back, and it leaves in the form the diagnostics called for.
* `EventuallySettled`: every call is settled, however often it fails.

### Bounds

`MaxEvents` bounds the events of a behaviour (calls, resets, failures, losses of
the connection); responses, updates, timers and the return of the connection
cost nothing.  Every refuted condition above needed at most four events, most
of them two or three; the run uses five.  The first `onSubscribe` is part of `Init`.
Queues of six items hold every pattern of merging and skipping: an item's fate
depends on its neighbour, on the first and on the last unsubscribe.

`MaxTime` bounds the clock of `AuthTransport`; nothing else is bounded there.
It starts at two, so that the first token may have expired already, and ends at
seven: five units with tokens that live up to three, and margin, retry and guess
delays of one, hold a whole cycle: a token, its refusal or expiry, a failed refresh and
its retry, the next token and its refusal.  The debounce period, two, is shorter
than the life of a token, as in the code, so that an error may be forgotten
before its token is replaced.  A token may also have expired when
it arrives (lifetime 0), at the start or later.  Every condition above was refuted without it
within these bounds.  Two calls suffice
for one to overtake, or be refused after, the other; the calls are symmetric.

`Connection` counts events in the same way (four), with two contexts, three
tokens, two messages and up to two retries of a socket or a hub: enough for a
transport to reconnect, give way to the next, and for a stop and a new start to
meet what is left of it.  In `Streaming` two subscriptions of one tag suffice
for one to be skipped, or to wait for the other, and a third shows that those
behind the skipped one are told; three events, and a clock of
seven with periods of one to three for a start delay, an orphan, a sleep and an
update after it.  Every condition in the tables above was refuted within these
bounds.  `Calls` needs no bound: calls are made once and tries are counted by
the code.  Three calls to one service make a batch in which a permutation is
not its own inverse; one retries first by its own timer, then with the others.

A behaviour ends when its events, or its time, are used up and all is answered,
so the runs do not check deadlock.  Properties take its place: `NeverStuck` in
`Subscription`, `QueueMoves` and `RefreshCycle` in `AuthTransport`, `UserIsTold`
in `Connection`, `NeverAbandoned` and `ServerAgrees` in `Streaming`,
`EventuallySettled` in `Calls`.

### Fairness

`FairSpec` assumes that every request is answered in the end, well or badly
(`fetch` settles every promise), that the DELETE by tag is, and that a running
timer fires.  Nothing is assumed of the consumer, the connection, the control
messages or which answer comes.  The properties assume `<>[]connectionAvailable`
themselves.  `AuthTransport` has no liveness property: what it promises about
the future is put into `RefreshCycle` and `QueueMoves`, which name the pending
event.  `Streaming` and `Connection` do the same (`NeverAbandoned`,
`OrphansWillBeFound`, `UserIsTold`): the server and the consumer may stop for
good, so that nothing but the pending event can be promised.

`Spec` of `Calls` assumes weak fairness of `Environment`: timers fire, microtasks
run, `fetch` settles each request, well or badly.  One condition for all of them
suffices, since between two calls of the consumer every step of the environment
brings the calls closer to their end: requests and timers are finite, and each
retry costs a try.

## Proofs

`tlapm` checks the proof modules from nothing in about an hour (two of them, of
the connection, take twenty minutes each); every one
of their theorems holds for all values of the constants that meet the named
assumptions, where TLC has one instance.

### The subscription

* `Inductive`: `Spec => []IInv`
* `TypeCorrect`: `Spec => []TypeOK`
* `NeverWaitsInVain`: `Spec => []NeverStuck`
* `FullyInductive`: `Spec => []Full`
* `PostsTravelAlone`: `Spec => []PostAlone`
* `ReadyWhenQuiet`: `Spec => []ReadyIsQuiet`
* `ServerAgreesInTheEnd`: `Spec => []ServerAgrees`
* `SnapshotFirst`: `Spec => []SnapshotBeforeDelta`
* `SnapshotArrives`: `Spec => []SnapshotDelivered`
* `WantedIsKept`: `Spec => []KeepsWanted`
* `UnwantedIsDropped`: `Spec => []DropsUnwanted`
* `DisposedIsSilent`: `Spec => DisposedStaysSilent`

for all values of `Environments` and `MaxEvents` that meet the two named
assumptions of `Subscription`.  No other assumption is made: these are all the
safety properties the run `subscription` checks.

None of them is inductive.  `NeverStuck` does not say that a by-tag action that
is *queued* has a promise waiting for it, so that `tagDeletes > 0` could fail
when the queue is worked off.  And `TypeOK` does not say that `becameReady` is
false between actions.  `IInv` is `TypeOK` with

* `Good(sub)`: the subscription has its type, each state that waits has its
  request in flight, and whoever has become ready, or has left the initial
  state, has a reference id;
* `TagQueued(sub) => tagWaiting > 0` and
  `isReadyForUnsubscribeByTag(sub) => tagDeletes > 0`.

The argument goes handler by handler: for each operator `h` of
`SubscriptionHandlers` a lemma of `SubscriptionHandlersProofs` says
`Good(s) => Good(h(s))` and `Leads(s, h(s))`, where `Leads` says that `h` puts no
by-tag action into the queue and makes the subscription ready only if that
action was queued, telling the callbacks.  `Leads` is transitive, so handlers
made of handlers follow.  `Answered` is the one place where `Good` is broken for
a moment: between taking a response off the count and changing the state that
waited for it.  `SubscriptionQueueProofs` has what the queue's operators
preserve: their result is a queue, made of items that were in it or of the new
one (`EnqueueType`), and `dequeue` takes one item, with all that stood behind it
left in order (`DequeueTakesOne`).  What it passes over stands before an
unsubscribe, which is then the item, and nothing behind the item ends the
subscription.

`Full` adds five parts, each of which needs those before it.

* `Tied`: a kind of event that the environment has not leaves no trace: no PATCH
  is queued or awaited without `Patch`, no unparsable update buffered without
  `BadUpdate`, no retry timer running without `network`.  A connected
  subscription that waits for nothing has worked its queue off, unless it is to
  try again after a network error (`Served`), and a by-tag action is never behind
  another in the queue (`TagAtHead`).  Without this part the
  conditions of the properties, which speak of kinds of events, say nothing of
  the state.
* `Orderly`: in the environments of `PatchNotOvertaken` and one by-tag call at a
  time, exactly the request the state waits for is in flight, under the last
  reference id, and the server streams what the state has it (`Agrees`), and
  nothing else unless the network lost an answer or a DELETE failed (`Backs`);
  whatever else it streams has a clean-up DELETE on its way, and a clean-up is
  for an earlier reference id than a POST; the DELETE by tag is counted once,
  for a ready subscription.
  `PostAlone`, `ReadyIsQuiet` and `ServerAgrees` are read off it; without it an
  answer could find two requests and leave the other to arrive later.  Its last
  line (`Shown`) relates what the consumer was shown, what is buffered and what
  stands in the queue, for the two properties of snapshots.
* `Wanted` and `Unwanted`: what is still to come ends as the consumer asked last.
  Every unsubscribe in the queue is followed by a subscribe, or the other way
  round (`Followed`), and what is awaited or timed now is of the right kind or
  has something queued behind it.  `KeepsWanted` and `DropsUnwanted` are the
  special case in which nothing is to come.
* `Silent`: the same of a disposed subscription, as `DisposedStaysSilent` is an
  action property: a POST would leave only for a queued subscribe that nothing
  follows, or for a refused one that is tried again.

What `enqueue` does to a queue that is `Followed`, and `dequeue` to one that is
worked off, are lemmas of `SubscriptionHandlersProofs` too: the merging of
`subscription-queue.js` is where a lost subscribe would come from.

### Authorisation

* `AuthInductive`: `Spec => []IInv`
* `AuthTypeCorrect`: `Spec => []TypeOK`
* `OneRefreshAtATime`: `Spec => []RefreshCycle`
* `SentWithValidToken`: `Spec => []NotSentExpired`
* `QueueNeverStalls`: `Spec => []QueueMoves`
* `NoRefusalLoop`: `Spec => RefusalsAreSpaced`

for all calls, promises, delays, lifetimes, retry counts and environments, and
a clock that runs as far as one likes, under `ProviderOptions` and
`TransportAssumption` (the constants are of their types).

`IInv` is `TypeOK` and `NotSentExpired` with

* `CycleInv`: the provider has one of three shapes: refreshing with one request
  and no timer; failed with neither; waiting with no request and at most the
  timer it has the handle of, which is a retry's if `retries > 0`.  This is what
  makes `clearTimeout` always clear the timer that runs, and a timer that fires
  never meet a request.  The number of pending things alone is not inductive.
* `Listening`: the queue hears of new tokens unless it was disposed of; without
  it a token could end the refresh and not the queueing.
* `HeldForCause`: calls are held back only for a promise, a refresh or an expired
  token.  It lacks what `QueueMoves` adds, that the promise can still settle and
  the token comes.  `QueueMoves` follows with `CycleInv` and `NearTimers` (a timer
  of a provider that waits is due before its token expires, one for a retry
  after the delay), an invariant of its own.
* `Remembered`: a call that was refused and is not settled has left its error in
  `authorizationErrors`, or the debounce period since its request is over.  A
  second refusal with another token then finds it there, which is
  `NoRefusalLoop`.

One lemma per method of the provider says that it keeps the shape and whether
something is pending after it; one per action of `AuthTransport` that `IInv` is
kept.

The last part of `AuthTransportProofs` extends this to what becomes of calls:

* `RetryInductive`: `Spec => []RInv`
* `RetriedWithNewToken`: `Spec => []NewTokenForRetry`
* `NewCallsKeepOrder`: `Spec => FirstComeFirstSent`
* `RefreshOnlyForCause`: `Spec => NoNeedlessRefresh`

under the same assumptions.  None of the three properties is inductive.
`RInv` adds to `IInv`

* `Tried`: no try and no refusal names a later token than the provider's; a call
  that was sent was given a token, and one not made has not been refused;
* `InOrder`: the queue holds queued calls only, and while new calls go past it
  each of them has been sent before;
* `Renewed`: a queued call that was refused with the token of the moment finds a
  refresh under way, or that token expired; so whichever way the queue is
  emptied, the token it hands out is another.

`EmptiedStep` says this once for `tryEmptyQueue`, which sends all calls or none;
`QuietStep`, for the steps that leave queue and calls alone.  That a 401 which
starts no refresh was for an old token (`RejectedReplaces`) is what
`tokenRejected` compares expiries for, and also why no refresh is needless.

### The orphan finder

* `StaysArmed`: a stop, a start, an update, a late one or a timer that fires
  leaves a timer for `nextUpdateTime`, unless that has come or there is none
* `OrphanAwaited`: an update of an enabled finder reports a subscription or
  leaves a timer that is due by the time it is orphaned, or by the end of the
  start delay

for all delays, any number of subscriptions and whatever time each has left,
under `FinderAssumption` (the constants are numbers) and as long as no time
reaches `Infinity`.  They are at the head of `StreamingHandlersProofs`, and are
about the finder's methods; that Streaming calls them when it should is
`OrphansAreFound`, below.  The early return
when the interval has not changed (`orphan-finder.js:127`) is right because the
timer it relies on is still there (`Armed`): a timer that has fired leaves a
`nextUpdateTime` that is over, and no next interval is zero.

### Streaming

* `Inductive`: `Spec => []IInv`
* `TypeCorrect`: `Spec => []TypeOK`
* `OneUp`: `Spec => OneConnection`
* `DownIsStarted`: `Spec => []NeverAbandoned`
* `AllAreInformed`: `Spec => []Informed`
* `OrphansAreFound`: `Spec => []OrphansWillBeFound`

for any number of subscriptions, any times, any number of events and all
environments, under `StreamingAssumption` (the bounds are numbers),
`FinderAssumption` (the delays are numbers) and `TimeAssumption`: no time of the
behaviour reaches `Infinity`, and `startDelay` is positive.  In the code it is
one second: Streaming gives none (`streaming.js:739`), and the finder takes its
default for none and for 0 (`orphan-finder.js:42`).  Without a delay, `start`
would report at once those that are still to be told that the connection is
back.

`IInv` is `TypeOK` and `Firm`, which says what a call may rely on and leaves
behind.  It has three parts.

* `Sound`: every subscription is `Clean`, which is `Good` with its queue worked
  off, and without a PATCH, as Streaming sends none; none has become ready and
  not been asked whether its tag is (`NoneReady`); the finder has a timer for
  what it announced, no activity lies in the future (`Clock`), and while it is
  enabled some timer is due in time for each listed subscription that is
  subscribed and may send (`Watched`).  `OrphansWillBeFound` is not inductive
  without `Clock`: an update computes its timer from the activity times.
* `Control`: the connection.  `Ruled`: Streaming disposes of no connection and
  starts none that has no transport.  `Heeds`: `connectionState` is what the
  connection told last; that is what lets `connect`, which looks at
  `connectionState`, speak of the connection.  `Handed`: a connection that was
  left down (also while `connectionState` says so before it did) is taken up by
  a retry, or by a token handler that will not give way; this is `NeverAbandoned`
  with the start of a *new* connection added, which waits for its token.
  `Single`: at most one start is to come, of a connection that may be started;
  `OneConnection` is an action property and needs this of the state before the
  step.
* `Telling`: `Informed`, for the list as it is *during* a reset as well
  (`IsGone`), and that a disposed Streaming has no list.  Of the loop that a
  callback disposes in, `StreamingHandlersProofs` shows that it leaves out the
  neighbour and nobody else (`OneOut`).  A subscription that is
  created or left over while a reset is waited for would not be told otherwise.

The proof has two layers.  `StreamingHandlersProofs` says of each operator of
`StreamingHandlers` what it does to the subscriptions, the finder and the
connection.  A call is *quiet* when it makes no subscription and tells none that
the connection is there; most calls are, a quiet call disturbs neither `Sound`
nor the finder, and two quiet calls make one.  What is done to the connection is
one relation for each method (`Connects`, `Inits`, `Retries`, `Ends`, `Stops`).
`StreamingProofs` shows that each relation keeps `Control`, so that each call
*serves* (`Serves`), that the end of a call (`Done`, the callbacks of the tag)
then makes the streaming firm again (`ServesDone`), and one lemma per action
puts the step together.  Of a subscription nothing is used but what
`SubscriptionHandlersProofs` says of its handlers, and of a connection nothing
but `ConnectionContract`.

Three conditions of `Streaming` were found, or found too weak, by these proofs:
that a connection which was replaced may fail (`FormerFails`) breaks
`NeverAbandoned` and `OneConnection` too, which the run hides, as that event
comes there with others that the two properties except already; that a
connection is at rest exactly when the contract lets it be started; and that the
start delay must be positive.

### The connection

* `TypeCorrect`: `Spec => []TypeOK`
* `SessionHasToken`: `Spec => []SessionToken`
* `ContractIsKept`: `Spec => ImplementsContract`
* `AtMostOneLink`: `Spec => []OneLink`
* `ResumesWhereItWas`: `Spec => []Resumes`
* `StoppedForGood`: `Spec => []StoppedStaysDown`
* `ToldWhenQuiet`: `Spec => []UserIsTold`

for any list of transports and any scenarios, any number of reconnects, retries
and transports of the library, and any bounds, under `TransportsAssumption`,
`ScenariosAssumption` and `BoundsAssumption` (the constants are of their types).

`TypeOK` is not inductive.  A timer that fires counts a reconnect, and only
`reconnectCount` below the limit while a timer runs keeps the count within it; a
hub that is not there must have nothing under way; a connection of the library
that is up must have a transport; and no transport may stand in the list beyond
the current one, or the next would be made over it.  `Fits` says this of every
transport ever made (`Shape`), with what the state of the connection has to do
with what was asked of it (`Standing`).

The proof goes outwards.  A lemma for each method and callback of a transport
says that it keeps the shape and tells its callbacks what they know; `StartOk`,
`StopOk` and `UpdateQueryOk` say it of whichever transport is current.  `FailOk`
says what becomes of the connection when a transport fails: the next of the list
takes its place, not started, or started and asked for what the connection asks
for (`Replaces`), or the list is at its end.  The callbacks of a step are a
recursive function of their number, and so are the starts that wait for one
authorisation; that these functions exist, and that what each callback keeps
their delivery keeps (`DeliverKeeps`), is proved by induction over the natural
numbers, which `WellFoundedInduction` gives for sets.

`SessionToken` needs more of a hub than it says (`Sess`): whenever there is one,
the transport has the token of the connection; while it connects or reconnects
nothing is in flight, and `state` is not CONNECTED, so that `renewSession` is
called by `Connected` and by nobody before it; and the *last* renewal in flight
is for the token of the moment, as the server answers in order.  The proof has
the effect of each of the hub's steps, field by field, and shows `Sess` for
each; a rejected renewal is the one step after which it holds only once its
callback has run (`Bound`).

The last five are read off one inductive invariant, `Agreement` (at the end of
`ConnectionAgreementProofs`): `Inv`, the shapes above, and, as long as the
promise of the contract is not late, `Agrees`, which says of every phase what
each property says of one.

* `Says`: what was told fits what was asked for: "exhausted" just when no
  transport is left, nothing but that before the first start, and no transport
  missing while the user believes that the connection is started.
* `AllLeft`: a transport that was left has no link, no timer and no request.
  With the phases of the current one this is `OneLink`.
* `WsAgrees`: at most one authorisation in flight counts, at most one will start
  the connection, and each other one is superseded and will be ignored
  (`Authorizings`), and the transport is in one of five phases: idle, with its
  start lost if the user believes it started; waiting for the authorisation of
  its context; with a socket being opened, which names the context and the last
  message (`Opening`, which gives `Resumes`); with a socket that is open, or
  closed while a token is awaited; or with a timer running.  Each phase knows
  what was told last.
* `CoreAgrees`: the same of the phases of a hub.  It is there just while the user
  wants it or it is being stopped, and a hub that is being stopped has an answer
  on its way.
* `LibraryAgrees`: the state of the library's connection is the one the user was
  told, and while it connects something is under way.

Without the phases none of the properties is inductive: that a quiet transport
was told CONNECTED needs what was told while it connected, and that a stopped
one has told so needs that nobody starts it behind the stop.

A step is shown to *land* (`Lands`): the contract allows the change of the
promise (`Goes`), and what is there after it agrees.  The callbacks of a step are
first put together to one of four outcomes (`Outcome`): nothing is reported; one
state is, which the contract allows; the token is rejected; or the transport
fails, and the connection goes to the next (`FailLands`).  Then there is one
lemma for each action of a transport that leads to its outcome, and one for each
method the user calls.  Once the promise is late (a start, stop or disposal cut
into a start), the contract allows whatever is told late, and `ContractIsKept`
needs only that each step reports that way, and of a disposed connection no more
than that no transport is left (`LateReports`).  The other four properties
except late promises, for the reasons given under Environments.

Working towards these proofs corrected the model in three places.  `stop` of the
websocket transport clears `authorizePromise`, so an authorisation in flight is no
longer the present one when it settles; the model had let it become so again.
`SessionToken` is about the hub of the *current* transport: one the connection
has left, because the websocket before it failed once more, is told of no
token.  The contract promised that RECONNECTING never follows CONNECTING at
once, which a websocket transport breaks when it takes over from a hub that has
failed without a report, while the user, still told CONNECTED, finds orphans;
the run did not show it, as the contract allowed any two reports in one step.
It now says which one may come first, and `Streaming` is checked and proved
against that.

### Out of the prover's reach, or left to TLC

* `ServerAgrees` of `Streaming` is not proved: it needs the context of every
  request in flight and of everything the server streams, for each subscription,
  beside what `Full` says of one subscription alone.
* `Calls`: parts of batches are handed on in folds over sequences with an
  operator as argument.
* `ClosedForms`, `LastRequestWins` and `ForcedIsKept` of the queue: they compare
  with the code's loops, written with RECURSIVE operators, and speak of what is
  dequeued in the end, which is induction over data too.
* All liveness (`EventuallySubscribed`, `EventuallyUnsubscribed`,
  `EventuallySettled`): fairness and ENABLED are out of the prover's reach.

## Not modelled

Of the subscription: a
2xx answer without a body, which makes `onSubscribeSuccess` throw into
`onSubscribeError` (`subscription.js:91-93`); consumer callbacks other than
`onUpdate` of a snapshot, and `onQueueEmpty` in `Streaming`, calling back.
`Streaming` has no refused POSTs, and so no clean-up DELETEs.
Exceptions thrown by `onUpdate` are caught by the code and change nothing.

Of Streaming: the count and delay of retries; listeners of its own events that
call back; the pushing of new tokens to the connection (`Connection` has the
receiving side); forced authentication; network errors of subscriptions, which
the run `subscription` has; parsers and options.

Of the connection: a user who stops a connection never started or already
stopped, as an application's `disconnect` or `dispose` may (`streaming.js:932`, `958`),
or disposes of one that is not down; the byte layout of messages, close codes, the choice of a
protocol of the hub, slow-connection warnings.  Of the SignalR library: hubs,
the frame and event-source transports, deferral until the page has loaded, the
unload handler.

Of calls: urls, headers other than X-Request-Id (also the X-HTTP-Method-Override
that stays in the caller's headers object, `src/src/utils/fetch.js:231-237`), languages, caching; the lengths
of retry timeouts; a `dispose` of the diagnostics queue, which the code has not.
The auth transports and the call chain are modelled apart: what one passes to
the other is a call and a result.

Of authorisation: a provider without `tokenRefreshUrl`, to which the application
gives tokens by the public `set`; an answer that has a token and no usable expiry
(`authProvider.js:90`), after which the timer fires at once, again and again; a TransportQueue without a provider, whose
queue is a list that promises empty; several urls; listeners of the provider's
events other than the queue.  That a call put back after the queue was disposed
of stays there for ever is in the model, but no property speaks of it.

Formatting and parsing of numbers, prices and messages is data conversion
without concurrency, in part over floating point numbers, and is left out.

Parsers, number and price formatting, logging and the package file keep no state
that the rest of the system depends on.

## What is left

The components not modelled are those of the last paragraph; of the others what
is named above.  Worth doing next, in this order: the other way out of
`waitFor` (a promise that rejects holds the queue for ever, and one that
resolves during a refresh sends refused calls again with the same token) as a
composition of `AuthTransport` and the diagnostics queue; `Subscription` as an
implementation of an abstract subscription (wanted, settled, streamed); a
theorem for `ServerAgrees` of `Streaming`, for which `Full` would have to be
stated of each subscription of a streaming; and prices, of which TLC can evaluate what is exact: fractions of a power of two and
decimals that `formatNumber` rounds in their text, as whole multiples of a small
unit, formatted and then parsed with the same options.
