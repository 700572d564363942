-------------------------------- MODULE Calls --------------------------------
(***************************************************************************)
(* Calls through the transports of CallHandlers, to a server that may be   *)
(* out of reach or busy and whose answers to a batch may come in many      *)
(* forms.  Every action is one handler, with all that follows from it in   *)
(* the same turn of the event loop.  The delays of the timers are left     *)
(* out: a timer may fire at any time.                                      *)
(***************************************************************************)
EXTENDS CallHandlers, TLC
LOCAL INSTANCE SequencesExt

CONSTANTS
    Others,         \* the calls that are made only where "Others" may be
    Environments    \* each a set of events that may happen

EventKinds == {"Undiagnosed", "DiagnosticsFail", "MadeInBetween", "Others",
               "Network", "Busy", "Unauthorized", "Unreadable",
               "Reordered", "OldIds", "NoIds", "NoParentId", "CutOff",
               "Dispose"}

ASSUME CallsAssumption ==
    /\ NoCall \notin Calls
    /\ Puts \subseteq Calls /\ WithHeaders \subseteq Calls /\ Cloud \subseteq Calls
    /\ Others \subseteq Calls
    /\ methods \in [Calls -> RetryOptions]
    /\ DOMAIN servicePath = Calls
    /\ Environments \subseteq SUBSET EventKinds

VARIABLES
    t,          \* the transports
    arrived,    \* the calls that went through, of the requests answered
    env         \* the kinds of events of this behaviour

vars == <<t, arrived, env>>

Without(kinds) == env \cap kinds = {}
Happens(kind, if) == if => kind \in env

(* Undiagnosed: there is no TransportPutPatchDiagnositicsQueue. *)
Init ==
    /\ env \in Environments
    /\ t = IF "Undiagnosed" \in env
           THEN DiagnosticsReleased(
                    [NewTransports EXCEPT !.diagnostics.outcome = "passed",
                                          !.diagnostics.isQueueing = FALSE,
                                          !.requestCounter = 0])
           ELSE NewTransports
    /\ arrived = {}

Handles(u) == t' = u /\ UNCHANGED <<arrived, env>>

(* No microtask is due: those of the diagnostics come before all else. *)
BetweenTasks == t.diagnostics.held = t.diagnostics.isQueueing
IsKnown == t.diagnostics.outcome \in {"passed", "failed"}
-----------------------------------------------------------------------------
(* The consumer; a call may be made in any microtask. *)
MakeCall(c) ==
    /\ t.calls[c].status = "unmade"
    /\ Happens("MadeInBetween", ~BetweenTasks)
    /\ Happens("Others", c \in Others)
    /\ Handles(putPatchTransportMethod(t, c))

Dispose ==
    /\ BetweenTasks /\ ~t.retry.isDisposed
    /\ "Dispose" \in env
    /\ Handles(dispose(t))

Consumer == Dispose \/ \E c \in Calls : MakeCall(c)
-----------------------------------------------------------------------------
(* Timers and the diagnostics. *)
NextTick ==
    /\ BetweenTasks /\ t.batch.nextTickTimer
    /\ Handles(runBatches(t))

RetryTimeout ==
    /\ BetweenTasks /\ t.retry.retryTimer
    /\ Handles(retryFailedCalls(t))

IndividualTimeout(c) ==
    /\ BetweenTasks /\ c \in t.retry.timers
    /\ Handles(retryIndividualFailedCall(t, c))

Diagnose(passes) ==
    /\ ~IsKnown
    /\ Happens("DiagnosticsFail", ~passes)
    /\ Handles(DiagnosticsAnswered(t, passes))

Continue ==
    /\ IsKnown /\ t.diagnostics.isQueueing
    /\ Handles(DiagnosticsFinished(t))

Release ==
    /\ ~BetweenTasks
    /\ Handles(DiagnosticsReleased(t))
-----------------------------------------------------------------------------
(* What becomes of a request. *)
(* There is no answer, or it is one to the whole request.  A batch that    *)
(* fails otherwise than by a 401 passes no status on.                      *)
NoAnswer(request) ==
    /\ "Network" \in env
    /\ Handles(batchCallFailure(t, request, "network"))

Refused(request) ==
    \/ /\ "Unauthorized" \in env
       /\ Handles(batchCallFailure(t, request, "unauthorized"))
    \/ /\ "Busy" \in env
       /\ Handles(batchCallFailure(t, request,
                                   IF request.isBatch THEN "failed" ELSE "busy"))

(* The body is lost, or is not of the kind expected: a batch throws where  *)
(* it parses it, unless the body is empty.                                 *)
Unreadable(request) ==
    /\ "Unreadable" \in env
    /\ \E status \in {"failed"} \cup IF request.isBatch THEN {"network"} ELSE {} :
          t' = batchCallFailure(t, request, status)
    /\ arrived' = arrived \cup Range(request.calls)
    /\ UNCHANGED env

Result(request, k, status) == [of |-> request.calls[k], status |-> status]

(* The server has worked on each call.  It answers those of a batch in its *)
(* own order, with the id of each, or the older id its headers hold, or    *)
(* none; the headers of the answer may lack the id of the whole, and it    *)
(* may be cut off in the middle of a part, or between two: the client gets *)
(* the first n parts, the last of them perhaps not whole.                  *)
AnsweredAlone(request, status) ==
    t' = SettleAll(t, request, <<Result(request, 1, status[1])>>)

AnsweredBatch(request, status) ==
    \E order \in Permutations(DOMAIN request.calls), n \in 0..Len(request.calls),
       ids \in {"new", "old", "none"}, named, isComplete \in BOOLEAN :
        /\ isComplete \/ n > 0
        /\ Happens("Reordered", order # [k \in DOMAIN order |-> k])
        /\ Happens("OldIds", ids = "old") /\ Happens("NoIds", ids = "none")
        /\ Happens("NoParentId", ~named)
        /\ Happens("CutOff", ~isComplete \/ n < Len(request.calls))
        /\ t' = batchCallSuccess(t, request,
                    [k \in 1..n |->
                        [result |-> Result(request, order[k], status[order[k]]),
                         xRequestId |-> CASE ids = "new" -> Head(request.ids[order[k]])
                                          [] ids = "old" -> Last(request.ids[order[k]])
                                          [] ids = "none" -> 0]],
                    IF named THEN request.parentRequestId ELSE 0, isComplete)

Answered(request) ==
    \E status \in [DOMAIN request.calls -> {"ok", "busy"}] :
        /\ Happens("Busy", "busy" \in Range(status))
        /\ IF request.isBatch THEN AnsweredBatch(request, status)
           ELSE AnsweredAlone(request, status)
        /\ arrived' = arrived \cup
               {request.calls[k] : k \in {i \in DOMAIN status : status[i] = "ok"}}
        /\ UNCHANGED env

Response ==
    /\ BetweenTasks
    /\ \E request \in t.requests :
          NoAnswer(request) \/ Refused(request) \/ Unreadable(request) \/ Answered(request)
-----------------------------------------------------------------------------
Environment ==
    \/ NextTick \/ RetryTimeout \/ Continue \/ Release \/ Response
    \/ \E c \in Calls : IndividualTimeout(c)
    \/ \E passes \in BOOLEAN : Diagnose(passes)

Next == Consumer \/ Environment

(* Timers fire, microtasks run, and fetch settles in the end. *)
Spec == Init /\ [][Next]_vars /\ WF_vars(Environment)
-----------------------------------------------------------------------------
(***************************************************************************)
(* What must hold.  Each condition names the kinds of events for which TLC *)
(* finds the code to break the promise; README.md tells how.               *)
(***************************************************************************)
IsSettled(c) == t.calls[c].status \in {"resolved", "rejected"}

(* The server names the calls of a batch, or answers them in their order.  *)
Identified ==
    /\ Without({"NoParentId"})
    /\ Without({"NoIds"}) \/ Without({"Reordered"})
    /\ Without({"OldIds"}) \/ Without({"Network", "Busy"})

(* A call that is settled with an answer of the server has its own, and it *)
(* is resolved only if it went through, however the answers to its batch   *)
(* were ordered, and though it may have been sent before, alone or with    *)
(* others.                                                                 *)
RightAnswer ==
    Identified /\ Without({"CutOff"}) =>
        \A c \in Calls :
            /\ t.calls[c].result.of \in {c, NoCall}
            /\ t.calls[c].status = "resolved"
               => t.calls[c].result = [of |-> c, status |-> "ok"]

(* A call is not sent again once the client has had the answer that it     *)
(* went through: an order would be placed twice.                           *)
SentFor(transports, c) ==
    {request.ids : request \in {r \in transports.requests : c \in Range(r.calls)}}

NotRepeated ==
    [][Identified /\ Without({"Unreadable"}) =>
          \A c \in arrived : SentFor(t', c) \subseteq SentFor(t, c)]_vars

(* No put or patch leaves before it is known whether it gets through, nor  *)
(* does one overtake those that were held back before it; if it does not   *)
(* get through, it is sent as a POST.                                      *)
PutsWait ==
    [][/\ Without({"MadeInBetween"}) =>
              \A c \in Puts :
                  /\ t.calls[c].status = "unmade"
                  /\ t'.calls[c].status \notin {"unmade", "queued"}
                  => IsKnown /\ t.diagnostics.queue = <<>>
       /\ \A r \in t'.requests :
              ~r.isBatch /\ r.calls[1] \in Puts =>
                  /\ t'.diagnostics.outcome \in {"passed", "failed"}
                  /\ r.override = (t'.diagnostics.outcome = "failed")]_vars

(* Every call that is made is settled, whatever fails and how often.       *)
EventuallySettled ==
    Without({"Dispose"}) =>
        []<>(\A c \in Calls : t.calls[c].status # "unmade" => IsSettled(c))
=============================================================================
