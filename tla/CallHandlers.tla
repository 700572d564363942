---------------------------- MODULE CallHandlers ----------------------------
(***************************************************************************)
(* The transports a call passes on its way to the server, apart from those *)
(* of AuthTransport: TransportPutPatchDiagnositicsQueue, which holds PUTs  *)
(* and PATCHes back until it is known that they get through, over          *)
(* TransportRetry, over TransportBatch, over the core Transport            *)
(* (src/openapi/transport/).  Each handler is an operator from the         *)
(* transports before the call to the transports after it.                  *)
(*                                                                         *)
(* The transports t are a record:                                          *)
(*   calls        what has become of each call: unmade; queued for the     *)
(*       diagnostics, batched, sent or waiting for a retry; resolved,      *)
(*       rejected or dropped.  xRequestId is the id its own headers object *)
(*       holds, 0 for none                                                 *)
(*   diagnostics  the outcome of the two diagnostic calls (none, one,      *)
(*       passed, failed), isQueueing as in the code, held: whether its     *)
(*       TransportQueue still queues, and that queue                       *)
(*   retry        TransportRetry; timers are the calls that wait for a     *)
(*       timer of their own (individualFailedCalls)                        *)
(*   batch        TransportBatch                                           *)
(*   useXHttpMethodOverride, requestCounter     as in the code             *)
(*   requests     those on their way: the calls, the id of each, with the  *)
(*       older one its headers add, the id of the whole, and, for a single *)
(*       call, whether it is a POST with an override header                *)
(***************************************************************************)
EXTENDS Integers, Sequences, FiniteSets
LOCAL INSTANCE SequencesExt

CONSTANTS
    Calls,
    NoCall,
    Puts,           \* the calls that are a PUT or a PATCH,
    WithHeaders,    \* that come with a headers object of their own,
    Cloud,          \* whose service is not batched
    servicePath,    \* the service of each call
    methods         \* the retry options for the method of each call

RetryOptions == [retryLimit : Nat, retryTimeouts : Nat,
                 retryNetworkError : BOOLEAN,
                 statuses : SUBSET {"busy", "unauthorized"}]

(* A result is of a call the server has worked on, or of NoCall.  Its      *)
(* status is ok if the call went through; busy, unauthorized, network or   *)
(* failed if not; none if the result has no status.                        *)
NoResult == [of |-> NoCall, status |-> "none"]

(* The diagnostic calls leave at once and take the first two ids. *)
NewTransports ==
    [calls |-> [c \in Calls |-> [status |-> "unmade", retryCount |-> 0,
                                 xRequestId |-> 0, result |-> NoResult]],
     diagnostics |-> [outcome |-> "none", isQueueing |-> TRUE, held |-> TRUE,
                      queue |-> <<>>],
     retry |-> [failedCalls |-> <<>>, retryTimer |-> FALSE,
                timers |-> {}, isDisposed |-> FALSE],
     batch |-> [queue |-> <<>>, nextTickTimer |-> FALSE],
     useXHttpMethodOverride |-> FALSE,
     requestCounter |-> 2,
     requests |-> {}]
-----------------------------------------------------------------------------
(* The core Transport and fetch. *)
Own(t, c) == IF t.calls[c].xRequestId = 0 THEN <<>> ELSE <<t.calls[c].xRequestId>>

(* The id is written into the headers object of the call, if it has one,   *)
(* and an id that is there already is kept.  The header of an override is  *)
(* written there too, and stays; it never says but what the method says.   *)
SendAlone(t, c) ==
    LET ids == IF Own(t, c) = <<>> THEN <<t.requestCounter + 1>> ELSE Own(t, c)
    IN  [t EXCEPT
            !.requestCounter = IF Own(t, c) = <<>> THEN @ + 1 ELSE @,
            !.calls[c].status = "sent",
            !.calls[c].xRequestId = IF c \in WithHeaders
                                    THEN ids[1] ELSE 0,
            !.requests = @ \cup {[calls |-> <<c>>, ids |-> <<ids>>,
                                  parentRequestId |-> 0, isBatch |-> FALSE,
                                  override |-> /\ c \in Puts
                                               /\ t.useXHttpMethodOverride]}]
-----------------------------------------------------------------------------
(* TransportBatch. *)
(* Mutant: the id of the whole is taken last. *)
runBatchCallIdLast(t, cs) ==
    LET ids == [k \in DOMAIN cs |-> <<t.requestCounter + k>> \o Own(t, cs[k])]
    IN  [t EXCEPT
            !.requestCounter = @ + Len(cs) + 1,
            !.calls = [c \in Calls |-> IF Contains(cs, c)
                                       THEN [@[c] EXCEPT !.status = "sent"]
                                       ELSE @[c]],
            !.requests = @ \cup {[calls |-> cs, ids |-> ids,
                                  parentRequestId |-> t.requestCounter + Len(cs) + 1,
                                  isBatch |-> TRUE, override |-> FALSE]}]

(* The whole takes an id, then each call does.  The headers of a call that *)
(* has been sent alone before hold a second id for it.                     *)
runBatchCall(t, cs) ==
    LET parentRequestId == t.requestCounter + 1
        ids == [k \in DOMAIN cs |-> <<parentRequestId + k>> \o Own(t, cs[k])]
    IN  [t EXCEPT
            !.requestCounter = @ + 1 + Len(cs),
            !.calls = [c \in Calls |-> IF Contains(cs, c)
                                       THEN [@[c] EXCEPT !.status = "sent"]
                                       ELSE @[c]],
            !.requests = @ \cup {[calls |-> cs, ids |-> ids,
                                  parentRequestId |-> parentRequestId,
                                  isBatch |-> TRUE, override |-> FALSE]}]

emptyQueueIntoServiceGroups(queue) ==
    LET paths == FoldLeft(LAMBDA ps, c : IF Contains(ps, servicePath[c]) THEN ps
                                         ELSE Append(ps, servicePath[c]),
                          <<>>, queue)
    IN  [k \in DOMAIN paths |->
            SelectSeq(queue, LAMBDA c : servicePath[c] = paths[k])]

runBatches(t) ==
    FoldLeft(LAMBDA u, group : IF Len(group) = 1 THEN SendAlone(u, group[1])
                               ELSE runBatchCall(u, group),
             [t EXCEPT !.batch = [queue |-> <<>>, nextTickTimer |-> FALSE]],
             emptyQueueIntoServiceGroups(t.batch.queue))

(* A call made to TransportBatch. *)
Batch(t, c) ==
    IF c \in Cloud THEN SendAlone(t, c)
    ELSE [t EXCEPT !.batch.queue = Append(@, c),
                   !.batch.nextTickTimer = TRUE,
                   !.calls[c].status = "batched"]

globalToLocalRequestId(id, parentRequestId) ==
    IF id > parentRequestId + 1 THEN id - parentRequestId - 1 ELSE 0

Put(data, index, result) ==
    [i \in DOMAIN data \cup {index} |-> IF i = index THEN result ELSE data[i]]
NextIndex(data) == IF data = <<>> THEN 0 ELSE Max(DOMAIN data) + 1

(* Mutant: the results are taken in the order they came in. *)
parseInOrder(parts, parentRequestId, isComplete) ==
    FoldLeft(LAMBDA data, part : Put(data, NextIndex(data), part.result),
             <<>>, parts)

(* A part is placed by the request id it names, one without after all      *)
(* others.  Of a part that is cut off the id alone is read.                *)
parse(parts, parentRequestId, isComplete) ==
    LET Index(data, part) ==
            IF part.xRequestId = 0 THEN NextIndex(data)
            ELSE globalToLocalRequestId(part.xRequestId, parentRequestId)
        whole == FoldLeft(LAMBDA data, part :
                              Put(data, Index(data, part), part.result),
                          <<>>, IF isComplete THEN parts ELSE Front(parts))
        rest == Last(parts)
    IN  IF isComplete \/ rest.xRequestId = 0 THEN whole
        ELSE Put(whole, Index(whole, rest), NoResult)
-----------------------------------------------------------------------------
(* TransportRetry. *)
MayRetry(t, c, status) ==
    /\ IF status = "network" THEN methods[c].retryNetworkError
       ELSE status \in methods[c].statuses
    /\ \/ t.calls[c].retryCount < methods[c].retryLimit
       \/ t.calls[c].retryCount < methods[c].retryTimeouts
    /\ ~t.retry.isDisposed

(* Each of the first retries has a timer of its own, the others share one. *)
addFailedCall(t, c) ==
    LET u == [t EXCEPT !.calls[c].status = "waiting",
                       !.calls[c].retryCount = @ + 1]
    IN  IF t.calls[c].retryCount < methods[c].retryTimeouts
        THEN [u EXCEPT !.retry.timers = @ \cup {c}]
        ELSE [u EXCEPT !.retry.failedCalls = Append(@, c),
                       !.retry.retryTimer = TRUE]

(* The promise of the call below TransportRetry is settled.  A result      *)
(* without a status is no failure.                                         *)
Settle(t, c, result) ==
    IF result.status \notin {"ok", "none"} /\ MayRetry(t, c, result.status)
    THEN addFailedCall(t, c)
    ELSE [t EXCEPT !.calls[c].result = result,
                   !.calls[c].status = IF result.status \in {"ok", "none"}
                                       THEN "resolved" ELSE "rejected"]

(* Each call of the request gets its result, in this order. *)
SettleAll(t, request, results) ==
    FoldLeft(LAMBDA u, k : Settle(u, request.calls[k], results[k]),
             [t EXCEPT !.requests = @ \ {request}],
             [k \in DOMAIN results |-> k])

Failure(status) == [of |-> NoCall, status |-> status]

batchCallFailure(t, request, status) ==
    SettleAll(t, request, [k \in DOMAIN request.calls |-> Failure(status)])

(* Mutant: a call without a result is left alone. *)
batchCallSuccessSilent(t, request, parts, parentRequestId, isComplete) ==
    LET results == parse(parts, parentRequestId, isComplete)
    IN  FoldLeft(LAMBDA u, k : IF k - 1 \in DOMAIN results
                               THEN Settle(u, request.calls[k], results[k - 1]) ELSE u,
                 [t EXCEPT !.requests = @ \ {request}],
                 [k \in DOMAIN request.calls |-> k])

(* A call without a result is rejected, and not retried. *)
batchCallSuccess(t, request, parts, parentRequestId, isComplete) ==
    LET results == parse(parts, parentRequestId, isComplete)
    IN  SettleAll(t, request,
                  [k \in DOMAIN request.calls |->
                      IF k - 1 \in DOMAIN results THEN results[k - 1]
                      ELSE Failure("failed")])

retryFailedCalls(t) ==
    FoldLeft(Batch, [t EXCEPT !.retry.failedCalls = <<>>,
                              !.retry.retryTimer = FALSE], t.retry.failedCalls)

retryIndividualFailedCall(t, c) ==
    Batch([t EXCEPT !.retry.timers = @ \ {c}], c)

(* The calls that wait to be retried are rejected; those TransportBatch    *)
(* holds are dropped, their promises never settled.                        *)
dispose(t) ==
    [t EXCEPT
        !.retry = [failedCalls |-> <<>>, retryTimer |-> FALSE,
                   timers |-> {}, isDisposed |-> TRUE],
        !.batch.queue = <<>>,
        !.calls = [c \in Calls |->
                      CASE @[c].status = "waiting" ->
                               [@[c] EXCEPT !.status = "rejected",
                                            !.result = Failure("failed")]
                        [] @[c].status = "batched" -> [@[c] EXCEPT !.status = "dropped"]
                        [] OTHER -> @[c]]]
-----------------------------------------------------------------------------
(* TransportPutPatchDiagnositicsQueue. *)
(* Mutant: a put or a patch is held back only after the others. *)
putPatchBehind(t, c) ==
    IF c \in Puts /\ t.diagnostics.queue # <<>>
    THEN [t EXCEPT !.diagnostics.queue = Append(@, c), !.calls[c].status = "queued"]
    ELSE Batch(t, c)

(* A call is made: a put or a patch may be queued. *)
putPatchTransportMethod(t, c) ==
    IF c \in Puts /\ t.diagnostics.isQueueing
    THEN [t EXCEPT !.diagnostics.queue = Append(@, c), !.calls[c].status = "queued"]
    ELSE Batch(t, c)

(* Both diagnostic calls have to pass, and one that fails will do. *)
DiagnosticsAnswered(t, passes) ==
    [t EXCEPT !.diagnostics.outcome = IF ~passes THEN "failed"
                                      ELSE IF @ = "none" THEN "one"
                                      ELSE "passed"]

DiagnosticsFinished(t) ==
    [t EXCEPT !.useXHttpMethodOverride = (t.diagnostics.outcome = "failed"),
              !.diagnostics.isQueueing = FALSE]

(* The TransportQueue hears of it one microtask later. *)
DiagnosticsReleased(t) ==
    FoldLeft(Batch, [t EXCEPT !.diagnostics.held = FALSE,
                              !.diagnostics.queue = <<>>],
             t.diagnostics.queue)
=============================================================================
