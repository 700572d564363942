---------------------------- MODULE StreamingProofs ----------------------------
(***************************************************************************)
(* The safety properties of Streaming, for all environments, any number of *)
(* subscriptions, any time and any number of events.  The inductive        *)
(* invariant IInv is TypeOK and Firm, which has three parts:               *)
(*   Sound     every subscription is where a call may find it, and the     *)
(*             orphan finder watches those that are subscribed             *)
(*   Control   the connection and the starts that are to come: who starts  *)
(*             it next, and that nobody else does                          *)
(*   Telling   what the subscriptions have been told of it                 *)
(* Each handler serves: it leaves the parts that its caller needs, and     *)
(* ServesDone adds the end of the call.                                    *)
(***************************************************************************)
EXTENDS StreamingHandlersProofs

(***************************************************************************)
(* The connection and its starts: an induction over what the calls do to   *)
(* them.                                                                   *)
(***************************************************************************)
(* No kind of event cuts into a start, or into one that may be a second.   *)
Uncut(e) ==
    "WhileStarting" \notin e /\ "Overtaken" \notin e /\ "FormerFails" \notin e

OneAtATime(e) ==
    /\ Uncut(e) /\ "FailsWhileDown" \notin e
    /\ "Expired" \notin e \/ ("Disconnect" \notin e /\ "ResetStreaming" \notin e)

(* Streaming never disposes of its connection, nor starts one without a    *)
(* transport.                                                              *)
Ruled(a) ==
    /\ ~a.connection.late /\ a.connection.asked # "disposed"
    /\ a.connection.told = "exhausted" => a.connection.asked # "started"

(* The state of the streaming is the last that the connection has told. *)
Heeds(a, e) ==
    "FormerFails" \notin e =>
        /\ a.connection.told \in ConnectionStates => a.connectionState = a.connection.told
        /\ a.connection.told = "exhausted" => a.connectionState = "DISCONNECTED"
        /\ a.connection.told = "none" =>
               a.connectionState \in {"INITIALIZING", "STARTED", "DISCONNECTED"}

(* A connection that is down is in the hands of a retry or of a token.     *)
LeftDown(a) ==
    /\ ~a.disposed /\ a.connection.asked \in {"created", "stopped", "down"}
    /\ a.connection.told \in {"none", "DISCONNECTED"}
    /\ a.connectionState = "DISCONNECTED" \/ a.connection.asked = "created"

TakenUp(a) ==
    \/ \E j \in DOMAIN a.tokenHandlers : ~a.tokenHandlers[j]
    \/ /\ a.reconnecting /\ a.connectionState = "DISCONNECTED"
       /\ a.reconnectTimer \/ a.lostTimers > 0 \/ a.tokenHandlers # <<>>

Handed(a, e) == Uncut(e) /\ LeftDown(a) => TakenUp(a)

(* One start at most is to come, of a connection that is down.             *)
Single(a, e) ==
    OneAtATime(e) =>
        /\ Starts(a) <= 1 /\ a.lostTimers = 0
        /\ Starts(a) = 1 =>
               /\ Contract!MayStart(a.connection)
               /\ a.disposed \/ a.connection.told # "none"
                             \/ a.connection.asked = "created"
        /\ a.reconnectTimer => a.reconnecting
        /\ a.tokenHandlers # <<>> => "Expired" \in e
        /\ ~a.disposed /\ a.connection.asked = "created" =>
               a.connection.told = "exhausted" \/ a.tokenHandlers # <<>>

Control(a, e) == Ruled(a) /\ Heeds(a, e) /\ Handed(a, e) /\ Single(a, e)

(* What OneConnection says of a step. *)
KeepsToOne(a, b, e) ==
    /\ OneAtATime(e) =>
          /\ b.contextId # a.contextId =>
                /\ b.contextId = a.contextId + 1
                /\ AtRest(a.connection) \/ b.replaced # a.replaced
          /\ b.replaced # a.replaced => AtRest(b.former)
    /\ a.disposed => Starts(b) + b.contextId <= Starts(a) + a.contextId

(* The handlers that wait for a token, and one more.                       *)
LEMMA TokenTypes ==
    ASSUME NEW q \in Seq(BOOLEAN)
    PROVE  /\ Len(q) \in Nat /\ DOMAIN q = 1 .. Len(q)
           /\ q = <<>> <=> Len(q) = 0
           /\ \A v \in BOOLEAN :
                 /\ Append(q, v) \in Seq(BOOLEAN)
                 /\ Len(Append(q, v)) = Len(q) + 1
                 /\ Append(q, v) # <<>>
                 /\ \A j \in DOMAIN q : j \in DOMAIN Append(q, v) /\ Append(q, v)[j] = q[j]
                 /\ Len(q) + 1 \in DOMAIN Append(q, v)
                 /\ Append(q, v)[Len(q) + 1] = v
OBVIOUS

(* The types of all that concerns the connection.                          *)
LEMMA ControlTypes ==
    ASSUME NEW a \in Streamings
    PROVE  /\ a.connection \in Contract!Promises /\ a.former \in Contract!Promises
           /\ a.connection.asked \in Contract!Asked
           /\ a.connection.told \in Contract!States \cup {"none"}
           /\ a.connection.late \in BOOLEAN
           /\ a.reconnectTimer \in BOOLEAN /\ a.reconnecting \in BOOLEAN
           /\ a.isReset \in BOOLEAN /\ a.disposed \in BOOLEAN
           /\ a.lostTimers \in Nat /\ a.contextId \in Nat /\ a.replaced \in Nat
           /\ a.tokenHandlers \in Seq(BOOLEAN)
           /\ Len(a.tokenHandlers) \in Nat
           /\ a.tokenHandlers = <<>> <=> Len(a.tokenHandlers) = 0
           /\ a.connectionState \in ConnectionStates
<1>1. /\ a.connection \in Contract!Promises /\ a.former \in Contract!Promises
      /\ a.reconnectTimer \in BOOLEAN /\ a.reconnecting \in BOOLEAN
      /\ a.isReset \in BOOLEAN /\ a.disposed \in BOOLEAN
      /\ a.lostTimers \in Nat /\ a.contextId \in Nat /\ a.replaced \in Nat
      /\ a.tokenHandlers \in Seq(BOOLEAN)
      /\ a.connectionState \in ConnectionStates
  BY DEF Streamings
<1>2. /\ a.connection.asked \in Contract!Asked
      /\ a.connection.told \in Contract!States \cup {"none"}
      /\ a.connection.late \in BOOLEAN
  BY <1>1 DEF Contract!Promises
<1> QED BY <1>1, <1>2, TokenTypes

(* What a connection may tell that could be started.                       *)
LEMMA RestTells ==
    ASSUME NEW k \in Contract!Promises, ~k.late, k.asked # "disposed",
           NEW state \in Contract!States, Contract!MayTell(k, state)
    PROVE  /\ Contract!MayStart(k) =>
                  \/ state = "exhausted"
                  \/ k.asked \in {"down", "stopped"} /\ state = "FAILED"
                  \/ k.asked = "stopped" /\ state = "DISCONNECTED"
           /\ state = "DISCONNECTED" =>
                  /\ k.asked \in {"started", "stopped"} /\ k.told # "exhausted"
                  /\ k.told = "none" => k.asked = "stopped"
           /\ state = "RECONNECTING" => k.told \in {"CONNECTED", "CONNECTING"}
<1>1. k.asked \in Contract!Asked /\ k.told \in Contract!States \cup {"none"}
  BY DEF Contract!Promises
<1>2. CASE k.asked = "started"
  <2>1. state \in Contract!Follows(k.told)
    BY <1>2 DEF Contract!MayTell
  <2>2. ~Contract!MayStart(k)
    BY <1>2 DEF Contract!MayStart
  <2>3. state = "DISCONNECTED" => k.told # "exhausted" /\ k.told # "none"
    BY <1>1, <2>1 DEF Contract!Follows, Contract!States
  <2>4. state = "RECONNECTING" => k.told \in {"CONNECTED", "CONNECTING"}
    BY <1>1, <2>1 DEF Contract!Follows, Contract!States
  <2> QED BY <1>2, <2>2, <2>3, <2>4
<1>3. CASE k.asked # "started"
  BY <1>1, <1>3 DEF Contract!MayTell, Contract!MayStart, Contract!Asked, Contract!States
<1> QED BY <1>2, <1>3

(* The starts that are to come are a number.                               *)
LEMMA StartsIs ==
    ASSUME NEW a \in Streamings
    PROVE  /\ Starts(a) \in Nat
           /\ a.reconnectTimer => Starts(a) = Len(a.tokenHandlers) + a.lostTimers + 1
           /\ ~a.reconnectTimer => Starts(a) = Len(a.tokenHandlers) + a.lostTimers
BY ControlTypes DEF Starts

(* What concerns the connection and its starts but not its state.          *)
LEMMA KeptControl ==
    ASSUME NEW a \in Streamings, NEW b \in Streamings, NEW e,
           Control(a, e), Kept(a, b)
    PROVE  Control(b, e) /\ KeepsToOne(a, b, e)
<1>1. Starts(b) = Starts(a)
  BY DEF Kept, Starts
<1>2. Starts(a) \in Nat /\ a.contextId \in Nat
  BY StartsIs, ControlTypes
<1> QED
  BY <1>1, <1>2 DEF Kept, Control, Ruled, Heeds, Handed, LeftDown, TakenUp, Single,
     KeepsToOne

(* The connection has told something. *)
Notes(a, b, told, state) ==
    /\ b.connectionState = state
    /\ b.connection = Contract!Tell(a.connection, told)
    /\ b.isReset = a.isReset /\ b.disposed = a.disposed
    /\ KeptRetry(a, b) /\ b.tokenHandlers = a.tokenHandlers
    /\ b.contextId = a.contextId /\ b.former = a.former /\ b.replaced = a.replaced

(* What it may, with these kinds of events. *)
MayNote(a, e, state) ==
    /\ state \in Contract!States /\ state # a.connection.told
    /\ "Overtaken" \notin e => Contract!MayTell(a.connection, state)
    /\ state = "FAILED" /\ "FailsWhileDown" \notin e => a.connection.asked = "started"

(* When the connection tells something: it is still ruled; and with the    *)
(* kinds of events that OneConnection excepts not there, what is to be     *)
(* started tells only its end, or that of its stop.                        *)
LEMMA NotesIs ==
    ASSUME NEW a \in Streamings, NEW e, Control(a, e),
           NEW told, MayNote(a, e, told), NEW state,
           NEW b \in Streamings, Notes(a, b, told, state)
    PROVE  /\ Ruled(b) /\ b.connection.told = told
           /\ told = "DISCONNECTED" =>
                  b.connection.asked \in {"created", "down", "stopped"}
           /\ Starts(b) = Starts(a)
           /\ OneAtATime(e) /\ Starts(a) = 1 =>
                  \/ told = "exhausted"
                  \/ told = "DISCONNECTED" /\ a.connection.asked = "stopped"
                                           /\ (a.disposed \/ a.connection.told # "none")
           /\ Uncut(e) /\ told = "DISCONNECTED" =>
                  /\ a.connection.asked \in {"started", "stopped"}
                  /\ a.connection.told # "exhausted"
                  /\ a.connection.told = "none" => a.connection.asked = "stopped"
<1> DEFINE k == a.connection
<1>1. /\ k \in Contract!Promises /\ told \in Contract!States
      /\ k.asked \in Contract!Asked
      /\ ~k.late /\ k.asked # "disposed"
  BY ControlTypes DEF MayNote, Control, Ruled
<1>2. /\ b.connection.told = told /\ b.connection.late = k.late
      /\ b.connection.asked =
             IF told \in {"DISCONNECTED", "exhausted"}
             THEN IF k.asked = "started" THEN "down" ELSE k.asked
             ELSE IF k.asked = "down" THEN "started" ELSE k.asked
  BY <1>1, PromiseType DEF Notes
<1>3. Ruled(b)
  BY <1>1, <1>2 DEF Ruled
<1>4. told = "DISCONNECTED" => b.connection.asked \in {"created", "down", "stopped"}
  BY <1>1, <1>2 DEF Contract!Asked
<1>5. Starts(b) = Starts(a)
  BY DEF Notes, KeptRetry, Starts
<1>6. Uncut(e) => Contract!MayTell(k, told)
  BY DEF MayNote, Uncut
<1>7. ASSUME OneAtATime(e), Starts(a) = 1
      PROVE  \/ told = "exhausted"
             \/ told = "DISCONNECTED" /\ k.asked = "stopped"
                                      /\ (a.disposed \/ k.told # "none")
  <2>1. Contract!MayStart(k) /\ (a.disposed \/ k.told # "none" \/ k.asked = "created")
    BY <1>7 DEF Control, Single
  <2>2. \/ told = "exhausted"
        \/ k.asked \in {"down", "stopped"} /\ told = "FAILED"
        \/ k.asked = "stopped" /\ told = "DISCONNECTED"
    BY <1>1, <1>6, <1>7, <2>1, RestTells DEF OneAtATime
  <2>3. told = "FAILED" => k.asked = "started"
    BY <1>7 DEF MayNote, OneAtATime
  <2> QED BY <2>1, <2>2, <2>3
<1>8. Uncut(e) /\ told = "DISCONNECTED" =>
          /\ k.asked \in {"started", "stopped"} /\ k.told # "exhausted"
          /\ k.told = "none" => k.asked = "stopped"
  BY <1>1, <1>6, RestTells
<1> QED BY <1>2, <1>3, <1>4, <1>5, <1>7, <1>8

(* Nothing follows from what the connection tells: it is what streaming    *)
(* knew, or streaming has been disposed of, or it is neither that the      *)
(* connection is there nor that it has ended.                              *)
LEMMA NotedControl ==
    ASSUME NEW a \in Streamings, NEW e, Control(a, e),
           NEW state, MayNote(a, e, state), state # "exhausted",
           NEW b \in Streamings, Notes(a, b, state, state),
           state = "DISCONNECTED" => state = a.connectionState \/ a.disposed
    PROVE  Control(b, e) /\ KeepsToOne(a, b, e)
<1>1. /\ Ruled(b) /\ b.connection.told = state /\ Starts(b) = Starts(a)
      /\ state = "DISCONNECTED" => b.connection.asked \in {"created", "down", "stopped"}
      /\ OneAtATime(e) /\ Starts(a) = 1 =>
             /\ state = "DISCONNECTED" /\ a.connection.asked = "stopped"
             /\ a.disposed \/ a.connection.told # "none"
      /\ Uncut(e) /\ state = "DISCONNECTED" =>
             /\ a.connection.asked \in {"started", "stopped"}
             /\ a.connection.told # "exhausted"
             /\ a.connection.told = "none" => a.connection.asked = "stopped"
  BY NotesIs
<1>2. /\ b.connectionState = state /\ b.disposed = a.disposed
      /\ b.reconnecting = a.reconnecting /\ b.reconnectTimer = a.reconnectTimer
      /\ b.lostTimers = a.lostTimers /\ b.tokenHandlers = a.tokenHandlers
      /\ b.contextId = a.contextId /\ b.former = a.former /\ b.replaced = a.replaced
  BY DEF Notes, KeptRetry
<1>3. Starts(a) \in Nat /\ a.contextId \in Nat
  BY StartsIs, ControlTypes
<1>4. state \in Contract!States /\ state # a.connection.told
  BY DEF MayNote
<1>5. Heeds(b, e)
  BY <1>1, <1>2, <1>4 DEF Heeds, Contract!States
<1>6. Handed(b, e)
  <2> SUFFICES ASSUME Uncut(e), LeftDown(b)
               PROVE  TakenUp(b)
    BY DEF Handed
  <2>1. state = "DISCONNECTED" /\ ~a.disposed
    BY <1>1, <1>2, <1>4 DEF LeftDown, Contract!States
  <2>2. a.connectionState = "DISCONNECTED"
    BY <2>1
  <2>3. a.connection.told \in Contract!States \cup {"none"}
    BY ControlTypes
  <2>4. a.connection.told = "none"
    <3>1. "FormerFails" \notin e /\ Heeds(a, e)
      BY DEF Uncut, Control
    <3>2. Contract!States \ {"exhausted"} \subseteq ConnectionStates
      BY ReportedStates
    <3> QED BY <1>1, <1>4, <2>1, <2>2, <2>3, <3>1, <3>2 DEF Heeds
  <2>5. LeftDown(a)
    BY <1>1, <2>1, <2>2, <2>4 DEF LeftDown
  <2>6. TakenUp(a)
    BY <2>5 DEF Control, Handed
  <2> QED BY <1>2, <2>1, <2>2, <2>6 DEF TakenUp
<1>7. Single(b, e)
  <2> SUFFICES ASSUME OneAtATime(e)
               PROVE  Single(b, e)
    BY DEF Single
  <2>1. Starts(b) = 1 => Contract!MayStart(b.connection) /\ b.connection.told # "none"
    BY <1>1 DEF Contract!MayStart
  <2>2. ~b.disposed /\ b.connection.asked = "created" => b.tokenHandlers # <<>>
    <3> SUFFICES ASSUME ~b.disposed, b.connection.asked = "created"
                 PROVE  b.tokenHandlers # <<>>
      OBVIOUS
    <3>1. a.connection.asked = "created"
      <4>1. a.connection \in Contract!Promises
        BY ControlTypes
      <4> QED BY <1>4, <4>1, PromiseType DEF Notes
    <3>2. state # "DISCONNECTED"
      BY <1>1, <3>1 DEF OneAtATime
    <3>3. Contract!MayTell(a.connection, state)
      BY DEF MayNote, OneAtATime, Uncut
    <3>4. ~a.connection.late
      BY DEF Control, Ruled
    <3> QED BY <3>1, <3>3, <3>4 DEF Contract!MayTell
  <2> QED BY <1>1, <1>2, <2>1, <2>2 DEF Single, Control
<1>8. KeepsToOne(a, b, e)
  BY <1>1, <1>2, <1>3 DEF KeepsToOne
<1> QED BY <1>1, <1>5, <1>6, <1>7, <1>8 DEF Control

(* The connection has ended, and is tried again.                           *)
LEMMA RetriedControl ==
    ASSUME NEW a \in Streamings, NEW e, Control(a, e),
           MayNote(a, e, "DISCONNECTED"), ~a.disposed,
           NEW c \in Streamings, Notes(a, c, "DISCONNECTED", "DISCONNECTED"),
           NEW b \in Streamings, Retries(c, b)
    PROVE  Control(b, e) /\ KeepsToOne(a, b, e)
<1>1. /\ Ruled(c) /\ c.connection.told = "DISCONNECTED" /\ Starts(c) = Starts(a)
      /\ c.connection.asked \in {"created", "down", "stopped"}
      /\ OneAtATime(e) /\ Starts(a) = 1 => a.connection.told # "none"
  BY NotesIs
<1>2. OneAtATime(e) => Starts(a) = 0
  <2> SUFFICES ASSUME OneAtATime(e), Starts(a) # 0
               PROVE  FALSE
    OBVIOUS
  <2>1. Starts(a) = 1
    BY StartsIs DEF Control, Single
  <2>2. Contract!MayStart(a.connection) /\ a.connection.asked = "stopped"
    BY <2>1, NotesIs DEF Control, Single
  <2>3. a.connection.told \in {"none", "DISCONNECTED", "exhausted"}
    BY <2>2 DEF Contract!MayStart
  <2>4. a.connection.told # "exhausted" /\ a.connection.told # "DISCONNECTED"
    BY NotesIs DEF OneAtATime, MayNote
  <2> QED BY <1>1, <2>1, <2>3, <2>4
<1>3. /\ b.connectionState = "DISCONNECTED" /\ b.disposed = a.disposed
      /\ b.reconnecting /\ b.reconnectTimer
      /\ b.lostTimers = IF a.reconnectTimer THEN a.lostTimers + 1 ELSE a.lostTimers
      /\ b.tokenHandlers = a.tokenHandlers
      /\ b.contextId = a.contextId /\ b.connection = c.connection
      /\ b.former = a.former /\ b.replaced = a.replaced
  BY DEF Notes, Retries, KeptRetry, KeptState, KeptLink
<1>4. Ruled(b) /\ Heeds(b, e)
  BY <1>1, <1>3 DEF Ruled, Heeds
<1>5. Handed(b, e)
  BY <1>3 DEF Handed, TakenUp
<1>6. Single(b, e)
  <2> SUFFICES ASSUME OneAtATime(e)
               PROVE  Single(b, e)
    BY DEF Single
  <2>1. Starts(a) = 0 /\ ~a.reconnectTimer /\ a.lostTimers = 0 /\ a.tokenHandlers = <<>>
    BY <1>2, StartsIs, ControlTypes DEF Control, Single
  <2>2. Starts(b) = 1
    BY <1>3, <2>1, StartsIs, ControlTypes
  <2>3. Contract!MayStart(b.connection)
    BY <1>1, <1>3 DEF Contract!MayStart
  <2>4. b.connection.asked # "created"
    <3>1. a.connection.asked \in {"started", "stopped"}
      BY NotesIs DEF OneAtATime
    <3>2. a.connection \in Contract!Promises
      BY ControlTypes
    <3>3. "DISCONNECTED" \in Contract!States
      BY ReportedStates
    <3> QED BY <1>3, <3>1, <3>2, <3>3, PromiseType DEF Notes
  <2> QED BY <1>1, <1>3, <2>1, <2>2, <2>3, <2>4 DEF Single
<1>7. KeepsToOne(a, b, e)
  BY <1>3 DEF KeepsToOne
<1> QED BY <1>4, <1>5, <1>6, <1>7 DEF Control

(* A new connection, before any call cuts in.                              *)
LEMMA NewControl ==
    ASSUME NEW a \in Streamings, NEW e, NEW expired \in BOOLEAN, NEW exhausted \in BOOLEAN,
           NEW b \in Streamings, Inits(a, b, expired, exhausted),
           expired => "Expired" \in e,
           "FormerFails" \notin e => a.connectionState \in {"INITIALIZING", "DISCONNECTED"},
           OneAtATime(e) => Starts(a) = 0
    PROVE  /\ Control(b, e)
           /\ OneAtATime(e) /\ b.contextId # a.contextId => b.contextId = a.contextId + 1
<1> DEFINE k == Anew(exhausted)
<1>1. /\ k \in Contract!Promises
      /\ k.told = IF exhausted THEN "exhausted" ELSE "none"
      /\ k.asked = "created" /\ k.late = FALSE
  BY AnewType
<1>2. /\ Contract!Start(k).asked = "started"
      /\ Contract!Start(k).told = k.told /\ Contract!Start(k).late = k.late
  BY <1>1, AskType
<1> HIDE DEF k
<1>3. /\ b.disposed = a.disposed
      /\ b.reconnecting = a.reconnecting /\ b.reconnectTimer = a.reconnectTimer
      /\ b.lostTimers = a.lostTimers
      /\ b.connectionState = IF exhausted THEN "DISCONNECTED" ELSE a.connectionState
  BY DEF Inits, KeptRetry
<1>4. \/ /\ b.connectionState \notin {"DISCONNECTED", "INITIALIZING"}
         /\ b.connection = k /\ b.tokenHandlers = a.tokenHandlers
         /\ b.contextId = a.contextId
      \/ /\ expired /\ b.connection = k /\ b.contextId = a.contextId
         /\ b.tokenHandlers = Append(a.tokenHandlers, FALSE)
      \/ /\ ~expired /\ b.contextId = a.contextId + 1
         /\ b.tokenHandlers = a.tokenHandlers
         /\ b.connection = IF exhausted THEN k ELSE Contract!Start(k)
  BY DEF Inits, k
<1>5. Ruled(b)
  BY <1>1, <1>2, <1>4 DEF Ruled
<1>6. Heeds(b, e)
  BY <1>1, <1>2, <1>3, <1>4 DEF Heeds, ConnectionStates
<1>7. /\ Len(a.tokenHandlers) \in Nat
      /\ Append(a.tokenHandlers, FALSE) # <<>>
      /\ Len(Append(a.tokenHandlers, FALSE)) = Len(a.tokenHandlers) + 1
      /\ \E j \in DOMAIN Append(a.tokenHandlers, FALSE) : ~Append(a.tokenHandlers, FALSE)[j]
  BY ControlTypes, TokenTypes
<1>8. Handed(b, e)
  <2> SUFFICES ASSUME Uncut(e), LeftDown(b)
               PROVE  TakenUp(b)
    BY DEF Handed
  <2>1. b.connectionState \in {"DISCONNECTED", "INITIALIZING"}
    BY <1>3 DEF Uncut
  <2>2. expired /\ b.tokenHandlers = Append(a.tokenHandlers, FALSE)
    BY <1>1, <1>2, <1>4, <2>1 DEF LeftDown
  <2> QED BY <1>7, <2>2 DEF TakenUp
<1>9. Single(b, e)
  <2> SUFFICES ASSUME OneAtATime(e)
               PROVE  Single(b, e)
    BY DEF Single
  <2>1. Starts(a) = 0 /\ ~a.reconnectTimer /\ a.lostTimers = 0 /\ a.tokenHandlers = <<>>
    BY StartsIs, ControlTypes
  <2>2. b.connectionState \in {"DISCONNECTED", "INITIALIZING"}
    BY <1>3 DEF OneAtATime, Uncut
  <2>3. CASE expired /\ b.connection = k /\ b.tokenHandlers = Append(a.tokenHandlers, FALSE)
    <3>1. Starts(b) = 1
      <4>1. Len(b.tokenHandlers) = 1
        BY <1>7, <2>1, <2>3, ControlTypes
      <4>2. b.lostTimers = 0 /\ ~b.reconnectTimer
        BY <1>3, <2>1
      <4>3. Starts(b) = Len(b.tokenHandlers) + b.lostTimers
        BY <4>2 DEF Starts
      <4> QED BY <4>1, <4>2, <4>3
    <3>2. Contract!MayStart(b.connection)
      BY <1>1, <2>3 DEF Contract!MayStart
    <3> QED BY <1>1, <1>3, <1>7, <2>1, <2>3, <3>1, <3>2 DEF Single
  <2>4. CASE /\ b.tokenHandlers = a.tokenHandlers
             /\ b.connection = IF exhausted THEN k ELSE Contract!Start(k)
    <3>1. Starts(b) = 0
      BY <1>3, <2>1, <2>4, StartsIs DEF Starts
    <3> QED BY <1>1, <1>2, <1>3, <2>1, <2>4, <3>1 DEF Single
  <2> QED BY <1>4, <2>2, <2>3, <2>4
<1>10. OneAtATime(e) /\ b.contextId # a.contextId => b.contextId = a.contextId + 1
  BY <1>4
<1> QED BY <1>5, <1>6, <1>8, <1>9, <1>10 DEF Control

(* A connection that is there, or has ended for streaming to hear, leaves  *)
(* no start behind.                                                        *)
LEMMA NotedNoStart ==
    ASSUME NEW a \in Streamings, NEW e, Control(a, e), OneAtATime(e), ~a.disposed,
           NEW state, MayNote(a, e, state), state # "exhausted",
           NEW b \in Streamings, Notes(a, b, state, state)
    PROVE  Starts(a) = 0
<1> SUFFICES ASSUME Starts(a) # 0
             PROVE  FALSE
  OBVIOUS
<1>1. Starts(a) = 1
  BY StartsIs DEF Control, Single
<1>2. Contract!MayStart(a.connection)
  BY <1>1 DEF Control, Single
<1>3. state = "DISCONNECTED" /\ a.connection.told # "none"
  BY <1>1, NotesIs
<1>4. a.connection.told # "exhausted" /\ a.connection.told # "DISCONNECTED"
  BY <1>3, NotesIs DEF OneAtATime, MayNote
<1> QED BY <1>2, <1>3, <1>4 DEF Contract!MayStart

(* The connection has ended, and is replaced.                              *)
LEMMA ReplacedControl ==
    ASSUME NEW a \in Streamings, NEW e, Control(a, e),
           MayNote(a, e, "DISCONNECTED"), ~a.disposed,
           NEW c \in Streamings, Notes(a, c, "DISCONNECTED", "DISCONNECTED"),
           NEW expired \in BOOLEAN, NEW exhausted \in BOOLEAN,
           expired => "Expired" \in e,
           NEW b \in Streamings, Inits(c, b, expired, exhausted)
    PROVE  Control(b, e) /\ KeepsToOne(a, b, e)
<1>1. /\ c.connection.told = "DISCONNECTED" /\ Starts(c) = Starts(a)
      /\ c.connection.asked \in {"created", "down", "stopped"}
  BY NotesIs
<1>2. OneAtATime(e) => Starts(c) = 0
  BY <1>1, NotedNoStart
<1>3. c.connectionState = "DISCONNECTED" /\ c.contextId = a.contextId
      /\ c.replaced = a.replaced
  BY DEF Notes
<1>4. /\ Control(b, e)
      /\ OneAtATime(e) /\ b.contextId # c.contextId => b.contextId = c.contextId + 1
  BY <1>2, <1>3, NewControl
<1>5. b.former = c.connection /\ b.replaced = c.replaced + 1
  BY DEF Inits
<1>6. AtRest(b.former)
  BY <1>1, <1>5 DEF AtRest, Contract!MayStart
<1>7. a.replaced \in Nat
  BY ControlTypes
<1> QED BY <1>3, <1>4, <1>5, <1>6, <1>7 DEF KeepsToOne

(* The connection is there.                                                *)
LEMMA ResumedControl ==
    ASSUME NEW a \in Streamings, NEW e, Control(a, e),
           MayNote(a, e, "CONNECTED"), ~a.disposed,
           NEW c \in Streamings, Notes(a, c, "CONNECTED", "CONNECTED"),
           NEW b \in Streamings, Resumes(c, b)
    PROVE  Control(b, e) /\ KeepsToOne(a, b, e)
<1>1. Ruled(c) /\ c.connection.told = "CONNECTED" /\ Starts(c) = Starts(a)
  BY NotesIs
<1>2. OneAtATime(e) => Starts(a) = 0
  BY NotedNoStart
<1>3. /\ b.connectionState = "CONNECTED" /\ b.disposed = a.disposed
      /\ ~b.reconnecting /\ b.reconnectTimer = a.reconnectTimer
      /\ b.lostTimers = a.lostTimers
      /\ b.tokenHandlers = a.tokenHandlers
      /\ b.contextId = a.contextId /\ b.connection = c.connection
      /\ b.former = a.former /\ b.replaced = a.replaced
  BY DEF Notes, Resumes, KeptRetry, KeptLink
<1>4. Control(c, e)
  BY NotedControl
<1>5. Starts(b) = Starts(c)
  BY <1>1, <1>3 DEF Starts
<1>6. Ruled(b) /\ Heeds(b, e) /\ Handed(b, e)
  BY <1>1, <1>3 DEF Ruled, Heeds, Handed, LeftDown
<1>7. Single(b, e)
  <2> SUFFICES ASSUME OneAtATime(e)
               PROVE  Single(b, e)
    BY DEF Single
  <2>1. Starts(b) = 0 /\ ~a.reconnectTimer
    <3>1. Starts(b) = 0 /\ Starts(a) = 0
      BY <1>1, <1>2, <1>5
    <3>2. Len(a.tokenHandlers) \in Nat /\ a.lostTimers \in Nat
      BY ControlTypes
    <3>3. a.reconnectTimer => Starts(a) = Len(a.tokenHandlers) + a.lostTimers + 1
      BY DEF Starts
    <3> QED BY <3>1, <3>2, <3>3
  <2>2. /\ c.lostTimers = a.lostTimers /\ c.tokenHandlers = a.tokenHandlers
        /\ c.disposed = a.disposed
    BY DEF Notes, KeptRetry
  <2>3. /\ c.lostTimers = 0 /\ (c.tokenHandlers # <<>> => "Expired" \in e)
        /\ ~c.disposed /\ c.connection.asked = "created" =>
               c.connection.told = "exhausted" \/ c.tokenHandlers # <<>>
    BY <1>4 DEF Control, Single
  <2> QED BY <1>3, <2>1, <2>2, <2>3 DEF Single
<1>8. KeepsToOne(a, b, e)
  BY <1>3 DEF KeepsToOne
<1> QED BY <1>6, <1>7, <1>8 DEF Control

(* No transport is left.                                                   *)
LEMMA ExhaustedControl ==
    ASSUME NEW a \in Streamings, NEW e, Control(a, e),
           MayNote(a, e, "exhausted"),
           NEW b \in Streamings, Notes(a, b, "exhausted", "DISCONNECTED")
    PROVE  Control(b, e) /\ KeepsToOne(a, b, e)
<1>1. Ruled(b) /\ b.connection.told = "exhausted" /\ Starts(b) = Starts(a)
  BY NotesIs
<1>2. /\ b.connectionState = "DISCONNECTED" /\ b.disposed = a.disposed
      /\ b.reconnecting = a.reconnecting /\ b.reconnectTimer = a.reconnectTimer
      /\ b.lostTimers = a.lostTimers /\ b.tokenHandlers = a.tokenHandlers
      /\ b.contextId = a.contextId /\ b.former = a.former /\ b.replaced = a.replaced
  BY DEF Notes, KeptRetry
<1>3. b.connection.asked \in {"created", "stopped", "down"}
  BY <1>1, ControlTypes DEF Ruled, Contract!Asked
<1>4. Heeds(b, e)
  BY <1>1, <1>2 DEF Heeds, ConnectionStates
<1>5. Handed(b, e)
  BY <1>1 DEF Handed, LeftDown
<1>6. Contract!MayStart(b.connection)
  BY <1>1, <1>3 DEF Contract!MayStart
<1>7. Single(b, e)
  BY <1>1, <1>2, <1>6 DEF Single, Control
<1>8. Starts(a) \in Nat /\ a.contextId \in Nat
  BY StartsIs, ControlTypes
<1>9. KeepsToOne(a, b, e)
  BY <1>1, <1>2, <1>8 DEF KeepsToOne
<1> QED BY <1>1, <1>4, <1>5, <1>7, <1>9 DEF Control

(* The connection reports that it was started.                             *)
LEMMA StartedControl ==
    ASSUME NEW a \in Streamings, NEW e, Control(a, e),
           a.connection.asked # "created",
           NEW b \in Streamings,
           Enters(a, b, IF a.connectionState = "INITIALIZING" THEN "STARTED"
                       ELSE a.connectionState)
    PROVE  Control(b, e) /\ KeepsToOne(a, b, e)
<1>1. /\ b.disposed = a.disposed /\ b.connection = a.connection
      /\ b.reconnecting = a.reconnecting /\ b.reconnectTimer = a.reconnectTimer
      /\ b.lostTimers = a.lostTimers /\ b.tokenHandlers = a.tokenHandlers
      /\ b.contextId = a.contextId /\ b.former = a.former /\ b.replaced = a.replaced
      /\ \/ b.connectionState = a.connectionState
         \/ a.connectionState = "INITIALIZING" /\ b.connectionState = "STARTED"
  BY DEF Enters, KeptRetry, KeptLink
<1>2. Starts(b) = Starts(a) /\ Starts(a) \in Nat /\ a.contextId \in Nat
  BY <1>1, StartsIs, ControlTypes DEF Starts
<1>3. Ruled(b) /\ Single(b, e) /\ KeepsToOne(a, b, e)
  BY <1>1, <1>2 DEF Control, Ruled, Single, KeepsToOne
<1>4. a.connection.told \in Contract!States \cup {"none"}
  BY ControlTypes
<1>5. Heeds(b, e)
  BY <1>1, <1>4 DEF Control, Heeds, Contract!States
<1>6. Handed(b, e)
  BY <1>1 DEF Control, Handed, LeftDown, TakenUp
<1> QED BY <1>3, <1>5, <1>6 DEF Control

(* A former connection fails.                                              *)
Muddles(a, b) ==
    /\ b.connectionState = "DISCONNECTED"
    /\ b.isReset = a.isReset /\ b.disposed = a.disposed
    /\ KeptRetry(a, b) /\ b.tokenHandlers = a.tokenHandlers
    /\ b.contextId = a.contextId /\ b.connection = a.connection
    /\ b.replaced = a.replaced

(* Control is kept: Heeds speaks of no such behaviour.                     *)
LEMMA MuddledControl ==
    ASSUME NEW a \in Streamings, NEW e, Control(a, e), "FormerFails" \in e,
           NEW b \in Streamings, Muddles(a, b)
    PROVE  Control(b, e) /\ KeepsToOne(a, b, e)
<1>1. Starts(b) = Starts(a) /\ Starts(a) \in Nat /\ a.contextId \in Nat
  BY StartsIs, ControlTypes DEF Muddles, KeptRetry, Starts
<1> QED
  BY <1>1 DEF Muddles, Control, Ruled, Heeds, Handed, Single, KeepsToOne, OneAtATime, Uncut

(* The new token is there.                                                 *)
LEMMA TokenControl ==
    ASSUME NEW a \in Streamings, NEW e, Control(a, e), a.tokenHandlers # <<>>,
           NEW b \in Streamings, Tokens(a, b)
    PROVE  Control(b, e) /\ KeepsToOne(a, b, e)
<1> DEFINE q == a.tokenHandlers
<1>1. /\ q \in Seq(BOOLEAN) /\ Len(q) \in Nat /\ Len(q) # 0
      /\ DOMAIN q = 1 .. Len(q)
      /\ a.lostTimers \in Nat /\ a.contextId \in Nat /\ a.replaced \in Nat
      /\ a.reconnectTimer \in BOOLEAN /\ a.reconnecting \in BOOLEAN
      /\ a.connection \in Contract!Promises
  BY ControlTypes, TokenTypes
<1>2. /\ b.connectionState = a.connectionState /\ b.disposed = a.disposed
      /\ b.reconnecting = a.reconnecting /\ b.reconnectTimer = a.reconnectTimer
      /\ b.lostTimers = a.lostTimers /\ b.tokenHandlers = <<>>
      /\ b.former = a.former /\ b.replaced = a.replaced
  BY DEF Tokens, KeptState, KeptRetry
<1>3. \/ Starting(a) = {} /\ b.contextId = a.contextId /\ b.connection = a.connection
      \/ /\ b.contextId \in a.contextId + 1 .. a.contextId + Len(q)
         /\ b.connection = IF a.connection.told = "exhausted" THEN a.connection
                           ELSE Contract!Start(a.connection)
  BY DEF Tokens, KeptLink
<1>4. /\ Contract!Start(a.connection).asked = "started"
      /\ Contract!Start(a.connection).told = a.connection.told
      /\ Contract!Start(a.connection).late = a.connection.late
  BY <1>1, AskType
<1>5. /\ a.reconnectTimer => /\ Starts(a) = Len(q) + a.lostTimers + 1
                             /\ Starts(b) = a.lostTimers + 1
      /\ ~a.reconnectTimer => /\ Starts(a) = Len(q) + a.lostTimers
                              /\ Starts(b) = a.lostTimers
  <2>1. Len(b.tokenHandlers) = 0
    BY <1>2
  <2> QED BY <1>1, <1>2, <2>1 DEF Starts
<1>6. Starts(a) = Starts(b) + Len(q) /\ Starts(b) \in Nat
  BY <1>1, <1>5
<1>7. Ruled(b) /\ Heeds(b, e)
  BY <1>2, <1>3, <1>4 DEF Control, Ruled, Heeds
<1>8. ASSUME Uncut(e), LeftDown(b)
      PROVE  FALSE
  <2> DEFINE idle == Starting(a) = {}
             begun == IF a.connection.told = "exhausted" THEN a.connection
                      ELSE Contract!Start(a.connection)
  <2>1. b.connection = a.connection /\ Starting(a) = {}
    <3>1. (idle /\ b.connection = a.connection) \/ b.connection = begun
      BY <1>3
    <3> HIDE DEF idle
    <3>2. b.connection # begun
      BY <1>4, <1>8 DEF LeftDown
    <3> QED BY <3>1, <3>2 DEF idle
  <2>2. TakenUp(a)
    <3>1. LeftDown(a)
      BY <1>2, <1>8, <2>1 DEF LeftDown
    <3> QED BY <1>8, <3>1 DEF Control, Handed
  <2>3. \A j \in DOMAIN q : q[j] /\ ~a.reconnecting
    BY <1>1, <2>1 DEF Starting
  <2>4. 1 \in DOMAIN q
    BY <1>1
  <2> QED BY <2>2, <2>3, <2>4 DEF TakenUp
<1>9. ASSUME OneAtATime(e)
      PROVE  /\ Starts(b) = 0 /\ Len(q) = 1 /\ ~a.reconnectTimer /\ a.lostTimers = 0
             /\ Contract!MayStart(a.connection)
  <2>1. Starts(a) <= 1
    BY <1>9 DEF Control, Single
  <2>2. Starts(b) = 0 /\ Len(q) = 1 /\ Starts(a) = 1
    <3>1. Len(q) \in Nat /\ Len(q) # 0
      BY <1>1
    <3> DEFINE m == Len(q)
               u == Starts(a)
               v == Starts(b)
    <3>2. m \in Nat /\ m # 0 /\ u = v + m /\ v \in Nat /\ u <= 1
      BY <1>6, <2>1, <3>1
    <3> HIDE DEF m, u, v
    <3>3. v = 0 /\ m = 1 /\ u = 1
      BY <3>2
    <3> QED BY <3>3 DEF m, u, v
  <2>3. ~a.reconnectTimer /\ a.lostTimers = 0
    BY <1>1, <1>5, <2>2
  <2>4. Contract!MayStart(a.connection)
    BY <1>9, <2>2 DEF Control, Single
  <2> QED BY <2>2, <2>3, <2>4
<1>10. Single(b, e)
  <2> SUFFICES ASSUME OneAtATime(e)
               PROVE  Single(b, e)
    BY DEF Single
  <2>1. SUFFICES ASSUME ~b.disposed, b.connection.asked = "created",
                        b.connection.told # "exhausted"
                 PROVE  FALSE
    BY <1>2, <1>9 DEF Single
  <2>2. b.connection = a.connection
    BY <1>3, <1>4, <2>1
  <2>3. a.connection.told \in {"none", "DISCONNECTED"}
    BY <2>1, <2>2, <1>9 DEF Contract!MayStart
  <2>4. LeftDown(b)
    BY <2>1, <2>2, <2>3 DEF LeftDown
  <2> QED BY <1>8, <2>4 DEF OneAtATime
<1>11. KeepsToOne(a, b, e)
  <2>1. ASSUME OneAtATime(e)
        PROVE  b.contextId = a.contextId \/ b.contextId = a.contextId + 1
    <3>1. Len(q) = 1 /\ a.contextId \in Nat
      BY <1>1, <1>9, <2>1
    <3>2. b.contextId = a.contextId \/ b.contextId \in a.contextId + 1 .. a.contextId + Len(q)
      BY <1>3
    <3> HIDE DEF q
    <3> QED BY <3>1, <3>2
  <2>2. b.contextId <= a.contextId + Len(q) /\ b.contextId \in Nat
    BY <1>1, <1>3
  <2>3. Starts(b) + b.contextId <= Starts(a) + a.contextId
    BY <1>1, <1>6, <2>2
  <2> QED BY <1>2, <1>9, <2>1, <2>3 DEF KeepsToOne, AtRest
<1> QED BY <1>7, <1>8, <1>10, <1>11 DEF Control, Handed

(* The timer of a retry fires.                                             *)
LEMMA RetryControl ==
    ASSUME NEW a \in Streamings, NEW e, Control(a, e),
           NEW lost \in BOOLEAN, MayFire(a, lost),
           NEW expired \in BOOLEAN,
           expired => a.connectionState = "DISCONNECTED" /\ "Expired" \in e,
           NEW c, Fires(a, c, lost),
           NEW b \in Streamings, Connects(c, b, TRUE, expired)
    PROVE  Control(b, e) /\ KeepsToOne(a, b, e)
<1> DEFINE q == a.tokenHandlers
           m == b.lostTimers + (IF b.reconnectTimer THEN 1 ELSE 0)
<1>1. /\ q \in Seq(BOOLEAN) /\ Len(q) \in Nat
      /\ a.lostTimers \in Nat /\ a.contextId \in Nat /\ a.replaced \in Nat
      /\ a.reconnectTimer \in BOOLEAN /\ a.reconnecting \in BOOLEAN
      /\ a.connection \in Contract!Promises
  BY ControlTypes
<1>2. /\ b.connectionState = a.connectionState /\ b.disposed = a.disposed
      /\ b.reconnecting = a.reconnecting
      /\ b.reconnectTimer = IF lost THEN a.reconnectTimer ELSE FALSE
      /\ b.lostTimers = IF lost THEN a.lostTimers - 1 ELSE a.lostTimers
      /\ b.former = a.former /\ b.replaced = a.replaced
  BY DEF Fires, Connects, KeptState, KeptRetry, KeptLink, Begins
<1>3. \/ /\ a.connectionState # "DISCONNECTED"
         /\ b.contextId = a.contextId /\ b.connection = a.connection
         /\ b.tokenHandlers = q
      \/ /\ expired
         /\ b.contextId = a.contextId /\ b.connection = a.connection
         /\ b.tokenHandlers = Append(q, TRUE)
      \/ /\ b.contextId = a.contextId + 1 /\ b.tokenHandlers = q
         /\ b.connection = IF a.connection.told = "exhausted" THEN a.connection
                           ELSE Contract!Start(a.connection)
  BY DEF Fires, Connects, KeptState, KeptLink, Begins
<1>4. /\ Contract!Start(a.connection).asked = "started"
      /\ Contract!Start(a.connection).told = a.connection.told
      /\ Contract!Start(a.connection).late = a.connection.late
  BY <1>1, AskType
<1>5. /\ Append(q, TRUE) # <<>> /\ Len(Append(q, TRUE)) = Len(q) + 1
      /\ \A j \in DOMAIN q : j \in DOMAIN Append(q, TRUE) /\ Append(q, TRUE)[j] = q[j]
  BY <1>1, TokenTypes
<1>6. /\ Starts(b) = Len(b.tokenHandlers) + m
      /\ Starts(a) = Len(q) + m + 1 /\ m \in Nat
      /\ m = 0 => b.lostTimers = 0 /\ ~b.reconnectTimer
  <2>1. Len(b.tokenHandlers) \in Nat /\ b.lostTimers \in Nat
    BY ControlTypes
  <2>2. Starts(b) = Len(b.tokenHandlers) + m
    BY <2>1 DEF Starts
  <2>3. Starts(a) = Len(q) + m + 1
    BY <1>1, <1>2 DEF Starts, MayFire
  <2>4. m \in Nat /\ (m = 0 => b.lostTimers = 0 /\ ~b.reconnectTimer)
    BY <2>1
  <2> QED BY <2>2, <2>3, <2>4
<1>7. Ruled(b) /\ Heeds(b, e)
  BY <1>2, <1>3, <1>4 DEF Control, Ruled, Heeds
<1>8. Handed(b, e)
  <2> SUFFICES ASSUME Uncut(e), LeftDown(b)
               PROVE  TakenUp(b)
    BY DEF Handed
  <2>1. b.connection = a.connection
    BY <1>3, <1>4 DEF LeftDown
  <2>2. TakenUp(a)
    BY <1>2, <2>1 DEF LeftDown, Control, Handed
  <2>3. \/ a.connectionState # "DISCONNECTED" /\ b.tokenHandlers = q
        \/ expired /\ b.tokenHandlers = Append(q, TRUE)
    BY <1>3, <1>4, <2>1 DEF LeftDown
  <2>4. CASE a.connectionState # "DISCONNECTED" /\ b.tokenHandlers = q
    BY <1>2, <2>2, <2>4 DEF TakenUp
  <2>5. CASE expired /\ b.tokenHandlers = Append(q, TRUE)
    BY <1>2, <1>5, <2>2, <2>5 DEF TakenUp
  <2> QED BY <2>3, <2>4, <2>5
<1>9. ASSUME OneAtATime(e)
      PROVE  /\ b.lostTimers = 0 /\ ~b.reconnectTimer /\ m = 0 /\ Len(q) = 0
             /\ Starts(a) = 1
             /\ Contract!MayStart(a.connection)
             /\ a.disposed \/ a.connection.told # "none" \/ a.connection.asked = "created"
  <2>1. Starts(a) <= 1
    BY <1>9 DEF Control, Single
  <2>2. /\ b.lostTimers = 0 /\ ~b.reconnectTimer /\ m = 0 /\ Len(q) = 0
        /\ Starts(a) = 1
    <3> HIDE DEF m
    <3> QED BY <1>1, <1>6, <2>1
  <2> QED BY <1>9, <2>2 DEF Control, Single
<1>10. Single(b, e)
  <2> SUFFICES ASSUME OneAtATime(e)
               PROVE  Single(b, e)
    BY DEF Single
  <2>1. Starts(b) = Len(b.tokenHandlers)
    <3>1. Len(b.tokenHandlers) \in Nat
      BY ControlTypes
    <3> QED BY <1>6, <1>9, <3>1
  <2>2. q = <<>>
    BY <1>1, <1>9
  <2>3. CASE b.connection = a.connection /\ b.tokenHandlers = q
    <3>1. Starts(b) = 0
      BY <1>9, <2>1, <2>3
    <3> QED BY <1>2, <1>9, <2>2, <2>3, <3>1 DEF Single, Control
  <2>4. CASE expired /\ b.connection = a.connection /\ b.tokenHandlers = Append(q, TRUE)
    <3>1. Starts(b) = 1
      BY <1>5, <1>9, <2>1, <2>4
    <3>2. ~b.reconnectTimer /\ b.disposed = a.disposed
      BY <1>2, <1>9
    <3>3. b.tokenHandlers # <<>> /\ "Expired" \in e
      BY <1>5, <2>4
    <3>4. /\ b.lostTimers = 0
          /\ Contract!MayStart(b.connection)
          /\ b.disposed \/ b.connection.told # "none" \/ b.connection.asked = "created"
      BY <1>9, <2>4, <3>2
    <3> QED BY <3>1, <3>2, <3>3, <3>4 DEF Single
  <2>5. CASE /\ b.tokenHandlers = q
             /\ b.connection = IF a.connection.told = "exhausted" THEN a.connection
                               ELSE Contract!Start(a.connection)
    <3>1. Starts(b) = 0
      BY <1>9, <2>1, <2>5
    <3> QED BY <1>2, <1>4, <1>9, <2>2, <2>5, <3>1 DEF Single
  <2> QED BY <1>3, <2>3, <2>4, <2>5
<1>11. KeepsToOne(a, b, e)
  <2>1. Starts(b) + b.contextId <= Starts(a) + a.contextId
    <3>1. \/ b.contextId = a.contextId /\ Len(b.tokenHandlers) \in {Len(q), Len(q) + 1}
          \/ b.contextId = a.contextId + 1 /\ Len(b.tokenHandlers) = Len(q)
      BY <1>3, <1>5
    <3>2. Len(q) \in Nat /\ a.contextId \in Nat
      BY <1>1
    <3> HIDE DEF q, m
    <3> QED BY <1>6, <3>1, <3>2
  <2>2. b.contextId = a.contextId \/ b.contextId = a.contextId + 1
    BY <1>3
  <2> QED BY <1>2, <1>9, <2>1, <2>2 DEF KeepsToOne, AtRest
<1> QED BY <1>7, <1>8, <1>10, <1>11 DEF Control

(* What stops a connection.                                                *)
LEMMA StopsIs ==
    ASSUME NEW a \in Streamings, NEW b, Stops(a, b)
    PROVE  /\ b.connectionState = a.connectionState /\ b.disposed = a.disposed
           /\ b.isReset = a.isReset
           /\ b.reconnecting = a.reconnecting /\ b.reconnectTimer = a.reconnectTimer
           /\ b.lostTimers = a.lostTimers /\ b.tokenHandlers = a.tokenHandlers
           /\ b.contextId = a.contextId
           /\ b.former = a.former /\ b.replaced = a.replaced
           /\ b.connection.told = a.connection.told
           /\ b.connection.late = a.connection.late
           /\ a.connection.told = "exhausted" => b.connection = a.connection
           /\ a.connection.told # "exhausted" => b.connection.asked = "stopped"
           /\ Contract!MayStart(a.connection) => Contract!MayStart(b.connection)
           /\ Starts(b) = Starts(a)
<1>1. a.connection \in Contract!Promises
  BY ControlTypes
<1>2. /\ Contract!Stop(a.connection).asked = "stopped"
      /\ Contract!Stop(a.connection).told = a.connection.told
      /\ Contract!Stop(a.connection).late = a.connection.late
  BY <1>1, AskType
<1>3. /\ b.connectionState = a.connectionState /\ b.disposed = a.disposed
      /\ b.isReset = a.isReset
      /\ b.reconnecting = a.reconnecting /\ b.reconnectTimer = a.reconnectTimer
      /\ b.lostTimers = a.lostTimers /\ b.tokenHandlers = a.tokenHandlers
      /\ b.contextId = a.contextId
      /\ b.former = a.former /\ b.replaced = a.replaced
      /\ b.connection = IF a.connection.told = "exhausted" THEN a.connection
                        ELSE Contract!Stop(a.connection)
  BY DEF Stops, KeptState, KeptRetry
<1>4. Starts(b) = Starts(a)
  BY <1>3 DEF Starts
<1>5. Contract!MayStart(a.connection) => Contract!MayStart(b.connection)
  BY <1>2, <1>3 DEF Contract!MayStart
<1> QED BY <1>2, <1>3, <1>4, <1>5

(* A connection that is stopped is ruled still.                            *)
LEMMA RuledStops ==
    ASSUME NEW a \in Streamings, NEW b, Stops(a, b), Ruled(a)
    PROVE  Ruled(b)
BY StopsIs DEF Ruled

(* disconnect.                                                             *)
LEMMA DisconnectControl ==
    ASSUME NEW a \in Streamings, NEW e, Control(a, e), ~a.disposed,
           "Disconnect" \in e,
           a.connection.asked = "started" /\ a.connectionState = "DISCONNECTED"
               => "WhileStarting" \in e,
           NEW b \in Streamings, Stops(a, b)
    PROVE  Control(b, e) /\ KeepsToOne(a, b, e)
<1>1. Starts(a) \in Nat /\ a.contextId \in Nat
  BY StartsIs, ControlTypes
<1>2. Ruled(b) /\ Heeds(b, e)
  BY StopsIs, RuledStops DEF Control, Heeds
<1>3. Handed(b, e)
  <2> SUFFICES ASSUME Uncut(e), LeftDown(b)
               PROVE  TakenUp(b)
    BY DEF Handed
  <2>1. a.connection.asked \in Contract!Asked /\ a.connection.asked # "disposed"
    BY ControlTypes DEF Control, Ruled
  <2>2. b.connection.asked = "stopped" /\ b.connectionState = "DISCONNECTED"
    BY StopsIs DEF LeftDown
  <2>3. a.connection.asked # "started"
    BY <2>2, StopsIs DEF Uncut
  <2>4. LeftDown(a)
    BY <2>1, <2>2, <2>3, StopsIs DEF LeftDown, Contract!Asked
  <2>5. TakenUp(a)
    BY <2>4 DEF Control, Handed
  <2> QED BY <2>5, StopsIs DEF TakenUp
<1>4. Single(b, e)
  <2> SUFFICES ASSUME OneAtATime(e)
               PROVE  Single(b, e)
    BY DEF Single
  <2>1. "Expired" \notin e
    BY DEF OneAtATime
  <2>2. a.tokenHandlers = <<>>
    BY <2>1 DEF Control, Single
  <2>3. a.connection.asked = "created" => a.connection.told = "exhausted"
    BY <2>2 DEF Control, Single
  <2>4. Starts(a) = 1 => a.connection.told # "none"
    BY <2>3 DEF Control, Single
  <2>5. /\ Starts(a) <= 1 /\ a.lostTimers = 0
        /\ Starts(a) = 1 => Contract!MayStart(a.connection)
        /\ a.reconnectTimer => a.reconnecting
    BY DEF Control, Single
  <2>6. b.connection.asked = "created" => b.connection.told = "exhausted"
    BY <2>3, StopsIs
  <2> QED BY <2>1, <2>2, <2>4, <2>5, <2>6, StopsIs DEF Single
<1>5. KeepsToOne(a, b, e)
  BY <1>1, StopsIs DEF KeepsToOne
<1> QED BY <1>2, <1>3, <1>4, <1>5 DEF Control

(* dispose.                                                                *)
LEMMA DisposeControl ==
    ASSUME NEW a \in Streamings, NEW e, Control(a, e), ~a.disposed,
           NEW c \in Streamings, Disposes(a, c),
           NEW b \in Streamings, Stops(c, b)
    PROVE  Control(b, e) /\ KeepsToOne(a, b, e)
<1>1. /\ c.connectionState = a.connectionState /\ c.disposed
      /\ c.reconnecting = a.reconnecting /\ c.reconnectTimer = a.reconnectTimer
      /\ c.lostTimers = a.lostTimers /\ c.tokenHandlers = a.tokenHandlers
      /\ c.contextId = a.contextId /\ c.connection = a.connection
      /\ c.former = a.former /\ c.replaced = a.replaced
  BY DEF Disposes, KeptRetry, KeptLink
<1>2. Starts(c) = Starts(a) /\ Ruled(c)
  BY <1>1 DEF Starts, Control, Ruled
<1>3. Ruled(b) /\ Heeds(b, e)
  BY <1>1, <1>2, StopsIs, RuledStops DEF Control, Heeds
<1>4. Handed(b, e)
  BY <1>1, StopsIs DEF Handed, LeftDown
<1>5. Single(b, e)
  BY <1>1, <1>2, StopsIs DEF Control, Single
<1>6. KeepsToOne(a, b, e)
  BY <1>1, StopsIs DEF KeepsToOne
<1> QED BY <1>3, <1>4, <1>5, <1>6 DEF Control

(* The server asks for a reconnection.                                     *)
LEMMA ReconnectControl ==
    ASSUME NEW a \in Streamings, NEW e, Control(a, e),
           a.connection.told = "CONNECTED",
           NEW c \in Streamings, IsToReset(a, c),
           NEW b \in Streamings, Stops(c, b)
    PROVE  Control(b, e) /\ KeepsToOne(a, b, e)
<1>1. /\ c.connectionState = a.connectionState /\ c.disposed = a.disposed
      /\ c.reconnecting = a.reconnecting /\ c.reconnectTimer = a.reconnectTimer
      /\ c.lostTimers = a.lostTimers /\ c.tokenHandlers = a.tokenHandlers
      /\ c.contextId = a.contextId /\ c.connection = a.connection
      /\ c.former = a.former /\ c.replaced = a.replaced
  BY DEF IsToReset, KeptRetry, KeptLink
<1>2. Starts(c) = Starts(a) /\ Ruled(c) /\ Starts(a) \in Nat /\ a.contextId \in Nat
  BY <1>1, StartsIs, ControlTypes DEF Starts, Control, Ruled
<1>3. Ruled(b) /\ Heeds(b, e)
  BY <1>1, <1>2, StopsIs, RuledStops DEF Control, Heeds
<1>4. Handed(b, e)
  BY <1>1, StopsIs DEF Handed, LeftDown
<1>5. ~Contract!MayStart(a.connection)
  BY DEF Contract!MayStart
<1>6. Single(b, e)
  BY <1>1, <1>2, <1>5, StopsIs DEF Control, Single
<1>7. KeepsToOne(a, b, e)
  BY <1>1, <1>2, StopsIs DEF KeepsToOne
<1> QED BY <1>3, <1>4, <1>6, <1>7 DEF Control

(* The connection finds itself broken.                                     *)
LEMMA BrokenControl ==
    ASSUME NEW a \in Streamings, NEW e, Control(a, e), ~a.disposed,
           Contract!MayTell(a.connection, "RECONNECTING"),
           NEW c \in Streamings, c = Broken(a, TRUE),
           NEW b \in Streamings, Kept(c, b)
    PROVE  Control(b, e) /\ KeepsToOne(a, b, e)
<1>1. a.connection \in Contract!Promises /\ ~a.connection.late
      /\ a.connection.asked # "disposed" /\ "RECONNECTING" \in Contract!States
  BY ControlTypes, ReportedStates DEF Control, Ruled
<1>2. a.connection.told \in {"CONNECTED", "CONNECTING"}
  BY <1>1, RestTells
<1>3. MayNote(a, e, "RECONNECTING")
  BY <1>1, <1>2 DEF MayNote
<1>4. Notes(a, b, "RECONNECTING", "RECONNECTING")
  <2>1. c = [a EXCEPT !.connectionState = "RECONNECTING",
                      !.connection = Contract!Tell(a.connection, "RECONNECTING")]
    BY DEF Broken
  <2>2. Notes(a, c, "RECONNECTING", "RECONNECTING")
    <3> DEFINE k == Contract!Tell(a.connection, "RECONNECTING")
    <3> HIDE DEF k
    <3>1. c = [a EXCEPT !.connectionState = "RECONNECTING", !.connection = k]
      BY <2>1 DEF k
    <3>2. /\ c.connectionState = "RECONNECTING" /\ c.connection = k
          /\ c.isReset = a.isReset /\ c.disposed = a.disposed
          /\ KeptRetry(a, c) /\ c.tokenHandlers = a.tokenHandlers
          /\ c.contextId = a.contextId /\ c.former = a.former /\ c.replaced = a.replaced
      BY <3>1 DEF Streamings, KeptRetry
    <3> QED BY <3>2 DEF Notes, k
  <2> QED BY <2>2 DEF Notes, Kept, KeptRetry
<1> QED BY <1>3, <1>4, NotedControl

(* No start is to come then.                                               *)
LEMMA PreparesIs ==
    ASSUME NEW a \in Streamings, NEW e, Control(a, e),
           "ResetStreaming" \in e,
           NEW c \in Streamings, Prepares(a, c)
    PROVE  /\ c.connectionState = a.connectionState /\ c.disposed = a.disposed
           /\ ~c.reconnecting /\ c.tokenHandlers = a.tokenHandlers
           /\ c.contextId = a.contextId /\ c.connection = a.connection
           /\ c.former = a.former /\ c.replaced = a.replaced
           /\ OneAtATime(e) =>
                  /\ Starts(c) = 0 /\ ~c.reconnectTimer /\ c.lostTimers = 0
                  /\ a.tokenHandlers = <<>> /\ "Expired" \notin e
<1>1. /\ c.connectionState = a.connectionState /\ c.disposed = a.disposed
      /\ ~c.reconnecting /\ c.tokenHandlers = a.tokenHandlers
      /\ c.reconnectTimer = IF a.reconnecting THEN FALSE ELSE a.reconnectTimer
      /\ c.lostTimers = a.lostTimers
      /\ c.contextId = a.contextId /\ c.connection = a.connection
      /\ c.former = a.former /\ c.replaced = a.replaced
  BY DEF Prepares, KeptLink
<1>2. ASSUME OneAtATime(e)
      PROVE  /\ Starts(c) = 0 /\ ~c.reconnectTimer /\ c.lostTimers = 0
             /\ a.tokenHandlers = <<>> /\ "Expired" \notin e
  <2>1. "Expired" \notin e
    BY <1>2 DEF OneAtATime
  <2>2. /\ a.tokenHandlers = <<>> /\ a.lostTimers = 0
        /\ a.reconnectTimer => a.reconnecting
    BY <1>2, <2>1 DEF Control, Single
  <2>3. ~c.reconnectTimer /\ c.lostTimers = 0 /\ c.tokenHandlers = <<>>
    BY <1>1, <2>2, ControlTypes
  <2>4. Starts(c) = 0
    BY <2>3 DEF Starts
  <2> QED BY <2>1, <2>2, <2>3, <2>4
<1> QED BY <1>1, <1>2

(* resetStreaming.                                                         *)
LEMMA ResetControl ==
    ASSUME NEW a \in Streamings, NEW e, Control(a, e), ~a.disposed,
           "ResetStreaming" \in e,
           a.connection.asked = "started" /\ a.connectionState = "DISCONNECTED"
               => "WhileStarting" \in e,
           NEW expired \in BOOLEAN, NEW exhausted \in BOOLEAN,
           expired => "Expired" \in e,
           NEW c \in Streamings, Prepares(a, c),
           NEW b \in Streamings,
           IF MustInit(a) THEN Inits(c, b, expired, exhausted) ELSE Stops(c, b)
    PROVE  Control(b, e) /\ KeepsToOne(a, b, e)
<1>1. /\ c.connectionState = a.connectionState /\ c.disposed = a.disposed
      /\ ~c.reconnecting /\ c.tokenHandlers = a.tokenHandlers
      /\ c.contextId = a.contextId /\ c.connection = a.connection
      /\ c.former = a.former /\ c.replaced = a.replaced
      /\ OneAtATime(e) =>
             /\ Starts(c) = 0 /\ ~c.reconnectTimer /\ c.lostTimers = 0
             /\ a.tokenHandlers = <<>> /\ "Expired" \notin e
  BY PreparesIs
<1>2. CASE MustInit(a)
  <2>1. "FormerFails" \notin e => c.connectionState = "DISCONNECTED"
    BY <1>1, <1>2 DEF MustInit, Control, Heeds
  <2>2. Inits(c, b, expired, exhausted)
    BY <1>2
  <2>3. OneAtATime(e) => Starts(c) = 0
    BY <1>1
  <2>4. /\ Control(b, e)
        /\ OneAtATime(e) /\ b.contextId # c.contextId => b.contextId = c.contextId + 1
    BY <2>1, <2>2, <2>3, NewControl
  <2>5. b.former = a.connection /\ b.replaced = a.replaced + 1
    BY <1>1, <2>2 DEF Inits
  <2>6. ASSUME OneAtATime(e)
        PROVE  AtRest(b.former)
    <3>1. /\ a.connection.asked \in Contract!Asked /\ a.connection.asked # "disposed"
          /\ a.connection.told \in Contract!States \cup {"none"}
          /\ a.connection.told = "exhausted" => a.connection.asked # "started"
      BY ControlTypes DEF Control, Ruled
    <3>2. "FormerFails" \notin e /\ "WhileStarting" \notin e
      BY <2>6 DEF OneAtATime, Uncut
    <3>3. a.connectionState = "DISCONNECTED"
      BY <1>1, <2>1, <3>2
    <3>4. a.connection.asked # "started"
      BY <3>2, <3>3
    <3>5. a.connection.told \in {"none", "DISCONNECTED", "exhausted"}
      <4>1. Contract!States \ {"exhausted"} \subseteq ConnectionStates /\ Heeds(a, e)
        BY ReportedStates DEF Control
      <4> QED BY <3>1, <3>2, <3>3, <4>1 DEF Heeds
    <3> QED BY <2>5, <3>1, <3>4, <3>5 DEF AtRest, Contract!MayStart, Contract!Asked
  <2>7. a.replaced \in Nat
    BY ControlTypes
  <2> QED BY <1>1, <2>4, <2>5, <2>6, <2>7 DEF KeepsToOne
<1>3. CASE ~MustInit(a)
  <2>1. Stops(c, b)
    BY <1>3
  <2>2. a.connection.told # "exhausted" /\ a.connectionState # "DISCONNECTED"
    BY <1>3 DEF MustInit
  <2>3. /\ b.connectionState = a.connectionState /\ b.disposed = a.disposed
        /\ ~b.reconnecting /\ b.tokenHandlers = a.tokenHandlers
        /\ b.reconnectTimer = c.reconnectTimer /\ b.lostTimers = c.lostTimers
        /\ b.contextId = a.contextId /\ b.replaced = a.replaced
        /\ b.connection.told = a.connection.told /\ b.connection.asked = "stopped"
        /\ Starts(b) = Starts(c)
    BY <1>1, <2>1, <2>2, StopsIs
  <2>4. Ruled(b) /\ Heeds(b, e)
    <3>1. Ruled(c)
      BY <1>1 DEF Control, Ruled
    <3> QED BY <2>1, <2>3, <3>1, RuledStops DEF Control, Heeds
  <2>5. Handed(b, e)
    BY <2>2, <2>3 DEF Handed, LeftDown
  <2>6. Single(b, e)
    BY <1>1, <2>3 DEF Single
  <2>7. KeepsToOne(a, b, e)
    BY <2>3 DEF KeepsToOne
  <2> QED BY <2>4, <2>5, <2>6, <2>7 DEF Control
<1> QED BY <1>2, <1>3

(* A new streaming.                                                        *)
LEMMA InitControl ==
    ASSUME NEW e, NEW expired \in BOOLEAN, NEW exhausted \in BOOLEAN,
           expired => "Expired" \in e,
           NEW b \in Streamings, Inits(NewStreaming, b, expired, exhausted)
    PROVE  Control(b, e)
<1>1. /\ NewStreaming \in Streamings
      /\ NewStreaming.connectionState = "INITIALIZING"
      /\ ~NewStreaming.reconnectTimer /\ NewStreaming.lostTimers = 0
      /\ NewStreaming.tokenHandlers = <<>>
  BY NewIs DEF AllClean
<1>2. Starts(NewStreaming) = 0
  BY <1>1 DEF Starts
<1> QED BY <1>1, <1>2, NewControl

(***************************************************************************)
(* What the subscriptions have been told of the connection.                *)
(***************************************************************************)
Steadfast(e) ==
    "Exhausted" \notin e /\ "FormerFails" \notin e /\ "CreateDuringReset" \notin e

IsGone(a) == a.connectionState \in {"DISCONNECTED", "RECONNECTING"} \/ a.isReset
IsThere(a) == a.connectionState = "CONNECTED" /\ ~a.isReset

Telling(a, e) ==
    /\ a.disposed => Listed(a) = {}
    /\ "ControlDisconnect" \notin e /\ IsThere(a)
           => OneOut(a) /\ ("DisposeInCallback" \notin e => AllTold(a, TRUE))
    /\ Steadfast(e) => /\ a.connection.told # "exhausted"
                       /\ IsGone(a) => AllTold(a, FALSE)

(* Nobody is told anything. *)
LEMMA TellingSame ==
    ASSUME NEW a, NEW e, Telling(a, e), NEW b, SameAvail(a, b),
           b.disposed => Listed(b) = {},
           IsThere(b) => IsThere(a),
           Steadfast(e) => b.connection.told # "exhausted",
           Steadfast(e) /\ IsGone(b) => IsGone(a)
    PROVE  Telling(b, e)
BY DEF Telling, SameAvail, AllTold, OneOut

(* All are told that it is not there. *)
LEMMA TellingGone ==
    ASSUME NEW e, NEW b, AllTold(b, FALSE),
           b.disposed => Listed(b) = {},
           IsThere(b) => "ControlDisconnect" \in e,
           Steadfast(e) => b.connection.told # "exhausted"
    PROVE  Telling(b, e)
BY DEF Telling

(* The calls: what each has to leave behind.                               *)
Firm(a, n, e) == Sound(a, n) /\ Control(a, e) /\ Telling(a, e)

Serves(a, b, n, e) ==
    /\ AllClean(b) /\ Clock(b, n) /\ Watched(b)
    /\ DOMAIN b.all = DOMAIN a.all
    /\ Control(b, e) /\ Telling(b, e) /\ KeepsToOne(a, b, e)

(* A call that tells nobody anything, and concerns nothing of the          *)
(* connection.                                                             *)
LEMMA KeptTelling ==
    ASSUME NEW a, NEW b, NEW e, Telling(a, e), Kept(a, b), SameAvail(a, b)
    PROVE  Telling(b, e)
<1>1. Listed(b) \subseteq Listed(a)
  BY DEF SameAvail
<1>2. /\ b.disposed = a.disposed /\ b.connectionState = a.connectionState
      /\ b.isReset = a.isReset /\ b.connection = a.connection
  BY DEF Kept
<1> QED
  BY <1>1, <1>2, TellingSame DEF IsThere, IsGone, Telling

(* What serves, serves once it is done.                                    *)
LEMMA ServesDone ==
    ASSUME NEW a, NEW n \in Nat, NEW e, NEW t, Serves(a, t, n, e),
           NEW b, b = Done(t)
    PROVE  /\ Firm(b, n, e) /\ DOMAIN b.all = DOMAIN a.all
           /\ KeepsToOne(a, b, e)
<1>1. /\ Sound(b, n) /\ Kept(t, b) /\ SameAvail(t, b)
      /\ DOMAIN b.all = DOMAIN t.all
  BY DoneSound DEF Serves
<1>2. t \in Streamings /\ b \in Streamings
  BY <1>1 DEF Serves, AllClean, Sound
<1>3. Control(b, e)
  BY <1>1, <1>2, KeptControl DEF Serves
<1>4. Telling(b, e)
  BY <1>1, KeptTelling DEF Serves
<1>5. KeepsToOne(a, b, e)
  BY <1>1 DEF Serves, KeepsToOne, Kept, Starts
<1> QED BY <1>1, <1>3, <1>4, <1>5 DEF Firm, Serves

(* A quiet call that does not concern the connection.                      *)
LEMMA QuietServes ==
    ASSUME NEW a, NEW n \in Nat, NEW e, Firm(a, n, e), NEW b,
           Quietly(a, b), Untold(a, b), Kept(a, b)
    PROVE  Serves(a, b, n, e)
<1>1. AllClean(a) /\ Clock(a, n) /\ Watched(a) /\ Control(a, e) /\ Telling(a, e)
  BY DEF Firm, Sound
<1>2. /\ AllClean(b) /\ DOMAIN b.all = DOMAIN a.all /\ Listed(b) \subseteq Listed(a)
      /\ a \in Streamings /\ b \in Streamings
  BY <1>1 DEF Quietly, Heard, AllClean
<1>3. Clock(b, n) /\ Watched(b)
  BY <1>1, QuietSteady, SteadyClock, QuietWatched DEF AllClean
<1>4. Control(b, e) /\ KeepsToOne(a, b, e)
  BY <1>1, <1>2, KeptControl
<1>5. SameAvail(a, b)
  BY <1>1, <1>2, UntoldSame
<1>6. Telling(b, e)
  BY <1>1, <1>5, KeptTelling
<1> QED BY <1>2, <1>3, <1>4, <1>6 DEF Serves

(* A quiet call that does.                                                 *)
LEMMA QuietMay ==
    ASSUME NEW a, NEW n \in Nat, NEW e, Firm(a, n, e), NEW b, Quietly(a, b),
           Control(b, e), KeepsToOne(a, b, e), Telling(b, e)
    PROVE  Serves(a, b, n, e)
<1>1. AllClean(a) /\ Clock(a, n) /\ Watched(a)
  BY DEF Firm, Sound
<1>2. AllClean(b) /\ DOMAIN b.all = DOMAIN a.all
  BY DEF Quietly, Heard
<1>3. Clock(b, n) /\ Watched(b)
  BY <1>1, QuietSteady, SteadyClock, QuietWatched DEF AllClean
<1> QED BY <1>2, <1>3 DEF Serves

(* What the calls rely on.                                                 *)
LEMMA FirmParts ==
    ASSUME NEW a, NEW n, NEW e, Firm(a, n, e)
    PROVE  /\ AllClean(a) /\ NoneReady(a) /\ Clock(a, n) /\ Watched(a)
           /\ Control(a, e) /\ Telling(a, e) /\ a \in Streamings
BY DEF Firm, Sound, AllClean

(* All are told that the connection is not there.                          *)
LEMMA UnavailableServes ==
    ASSUME NEW a, NEW n \in Nat, NEW e, Firm(a, n, e), "ControlDisconnect" \in e
    PROVE  Serves(a, AllUnavailable(a), n, e)
<1> DEFINE b == AllUnavailable(a)
<1>1. Quietly(a, b) /\ Kept(a, b) /\ AllTold(b, FALSE)
  BY FirmParts, UnavailableQuiet
<1> HIDE DEF b
<1>2. a \in Streamings /\ b \in Streamings /\ Listed(b) \subseteq Listed(a)
  BY <1>1, FirmParts DEF Quietly, AllClean
<1>3. Control(b, e) /\ KeepsToOne(a, b, e)
  BY <1>1, <1>2, FirmParts, KeptControl
<1>4. b.disposed = a.disposed /\ b.connection = a.connection
  BY <1>1 DEF Kept
<1>5. Telling(b, e)
  BY <1>1, <1>2, <1>4, FirmParts, TellingGone DEF Telling
<1> QED BY <1>1, <1>3, <1>5, QuietMay DEF b

(* The connection is asked to stop.                                        *)
LEMMA DisconnectServes ==
    ASSUME NEW a, NEW n \in Nat, NEW e, Firm(a, n, e), ~a.disposed,
           "Disconnect" \in e,
           a.connection.asked = "started" /\ a.connectionState = "DISCONNECTED"
               => "WhileStarting" \in e
    PROVE  Serves(a, disconnect(a), n, e)
<1> DEFINE b == disconnect(a)
<1>1. Quietly(a, b) /\ Untold(a, b) /\ Stops(a, b) /\ Listed(b) = Listed(a)
  BY FirmParts, DisconnectIs
<1> HIDE DEF b
<1>2. a \in Streamings /\ b \in Streamings
  BY <1>1, FirmParts DEF Quietly, AllClean
<1>3. Control(b, e) /\ KeepsToOne(a, b, e)
  BY <1>1, <1>2, FirmParts, DisconnectControl
<1>4. /\ b.connectionState = a.connectionState /\ b.disposed = a.disposed
      /\ b.isReset = a.isReset /\ b.connection.told = a.connection.told
  BY <1>1, <1>2, StopsIs
<1>5. SameAvail(a, b)
  BY <1>1, FirmParts, UntoldSame
<1>6. Telling(b, e)
  BY <1>1, <1>4, <1>5, FirmParts, TellingSame DEF IsThere, IsGone, Telling
<1> QED BY <1>1, <1>3, <1>6, QuietMay DEF b

(* The server asks for a reconnection.                                     *)
LEMMA ReconnectServes ==
    ASSUME NEW a, NEW n \in Nat, NEW e, Firm(a, n, e),
           a.connection.told = "CONNECTED"
    PROVE  Serves(a, handleControlMessageReconnect(a), n, e)
<1> DEFINE b == handleControlMessageReconnect(a)
<1>1. /\ Quietly(a, b) /\ AllTold(b, FALSE)
      /\ \E c \in Streamings : IsToReset(a, c) /\ Stops(c, b)
  BY FirmParts, ControlReconnectIs
<1> HIDE DEF b
<1>2. PICK c \in Streamings : IsToReset(a, c) /\ Stops(c, b)
  BY <1>1
<1>3. a \in Streamings /\ b \in Streamings /\ Listed(b) \subseteq Listed(a)
  BY <1>1, FirmParts DEF Quietly, AllClean
<1>4. Control(b, e) /\ KeepsToOne(a, b, e)
  BY <1>2, <1>3, FirmParts, ReconnectControl
<1>5. /\ c.disposed = a.disposed /\ c.isReset = TRUE
      /\ c.connection = a.connection
  BY <1>2 DEF IsToReset, KeptLink
<1>6. /\ b.disposed = a.disposed /\ b.isReset = TRUE
      /\ b.connection.told = a.connection.told
  BY <1>2, <1>5, StopsIs
<1>7. Telling(b, e)
  BY <1>1, <1>3, <1>6, FirmParts, TellingGone DEF IsThere, Telling
<1> QED BY <1>1, <1>4, <1>7, QuietMay DEF b

(* dispose.                                                                *)
LEMMA DisposeServes ==
    ASSUME NEW a, NEW n \in Nat, NEW e, Firm(a, n, e), ~a.disposed
    PROVE  Serves(a, disposeStreaming(a), n, e)
<1> DEFINE b == disposeStreaming(a)
<1>1. /\ Steady(a, b) /\ b.subscriptions = <<>>
      /\ \E c \in Streamings : Disposes(a, c) /\ Stops(c, b)
  BY FirmParts, DisposeStreamingIs
<1> HIDE DEF b
<1>2. PICK c \in Streamings : Disposes(a, c) /\ Stops(c, b)
  BY <1>1
<1>3. /\ a \in Streamings /\ b \in Streamings /\ AllClean(b)
      /\ DOMAIN b.all = DOMAIN a.all
  BY <1>1, FirmParts DEF Steady, AllClean, Heard
<1>4. Control(b, e) /\ KeepsToOne(a, b, e)
  BY <1>2, <1>3, FirmParts, DisposeControl
<1>5. Listed(b) = {}
  BY <1>1 DEF Listed
<1>6. c.connection = a.connection
  BY <1>2 DEF Disposes, KeptLink
<1>7. b.connection.told = a.connection.told
  BY <1>2, <1>6, StopsIs
<1>8. Telling(b, e)
  BY <1>5, <1>7, FirmParts DEF Telling, AllTold, OneOut
<1>9. Clock(b, n) /\ Watched(b)
  BY <1>1, <1>5, FirmParts, SteadyClock DEF Watched
<1> QED BY <1>3, <1>4, <1>8, <1>9 DEF Serves, b

(* resetStreaming.                                                         *)
LEMMA ResetServes ==
    ASSUME NEW a, NEW n \in Nat, NEW e, Firm(a, n, e), ~a.disposed,
           "ResetStreaming" \in e,
           a.connection.asked = "started" /\ a.connectionState = "DISCONNECTED"
               => "WhileStarting" \in e,
           NEW expired \in BOOLEAN, NEW exhausted \in BOOLEAN,
           expired => "Expired" \in e, exhausted => "Exhausted" \in e
    PROVE  Serves(a, resetStreaming(a, expired, exhausted), n, e)
<1> DEFINE b == resetStreaming(a, expired, exhausted)
<1>1. /\ Quietly(a, b)
      /\ MustInit(a) => Untold(a, b)
      /\ ~MustInit(a) => AllTold(b, FALSE)
      /\ \E c \in Streamings :
            /\ Prepares(a, c)
            /\ IF MustInit(a) THEN Inits(c, b, expired, exhausted) ELSE Stops(c, b)
  BY FirmParts, ResetStreamingIs
<1> HIDE DEF b
<1>2. PICK c \in Streamings :
          /\ Prepares(a, c)
          /\ IF MustInit(a) THEN Inits(c, b, expired, exhausted) ELSE Stops(c, b)
  BY <1>1
<1>3. a \in Streamings /\ b \in Streamings /\ Listed(b) \subseteq Listed(a)
  BY <1>1, FirmParts DEF Quietly, AllClean
<1>4. Control(b, e) /\ KeepsToOne(a, b, e)
  BY <1>2, <1>3, FirmParts, ResetControl
<1>5. /\ c.connectionState = a.connectionState /\ c.disposed = a.disposed
      /\ c.isReset = TRUE /\ c.connection = a.connection
  BY <1>2 DEF Prepares, KeptLink
<1>6. CASE MustInit(a)
  <2>1. Inits(c, b, expired, exhausted)
    BY <1>2, <1>6
  <2>2. b.isReset = TRUE /\ b.disposed = a.disposed
    BY <1>5, <2>1 DEF Inits
  <2>3. SameAvail(a, b)
    BY <1>1, <1>3, <1>6, FirmParts, UntoldSame
  <2>4. Steadfast(e) => b.connection.told # "exhausted"
    <3> SUFFICES ASSUME Steadfast(e)
                 PROVE  b.connection.told # "exhausted"
      OBVIOUS
    <3>1. ~exhausted
      BY DEF Steadfast
    <3>2. Anew(exhausted) \in Contract!Promises /\ Anew(exhausted).told = "none"
      BY <3>1, AnewType
    <3>3. Contract!Start(Anew(exhausted)).told = "none"
      BY <3>2, AskType
    <3>4. b.connection \in {Anew(exhausted), Contract!Start(Anew(exhausted))}
      BY <2>1 DEF Inits
    <3> QED BY <3>2, <3>3, <3>4
  <2>5. Steadfast(e) => IsGone(a)
    BY <1>6, FirmParts DEF MustInit, Telling, IsGone
  <2>6. Telling(b, e)
    BY <1>3, <2>2, <2>3, <2>4, <2>5, FirmParts, TellingSame DEF IsThere, Telling
  <2> QED BY <1>1, <1>4, <2>6, QuietMay DEF b
<1>7. CASE ~MustInit(a)
  <2>1. Stops(c, b)
    BY <1>2, <1>7
  <2>2. b.isReset = TRUE /\ b.disposed = a.disposed
        /\ b.connection.told = a.connection.told
    BY <1>5, <2>1, StopsIs
  <2>3. Telling(b, e)
    BY <1>1, <1>3, <1>7, <2>2, FirmParts, TellingGone DEF IsThere, Telling
  <2> QED BY <1>1, <1>4, <2>3, QuietMay DEF b
<1> QED BY <1>6, <1>7

(* The new token is there.                                                 *)
LEMMA TokenServes ==
    ASSUME NEW a, NEW n \in Nat, NEW e, Firm(a, n, e), a.tokenHandlers # <<>>
    PROVE  Serves(a, TokenReceived(a), n, e)
<1> DEFINE b == TokenReceived(a)
<1>1. Quietly(a, b) /\ Untold(a, b) /\ Tokens(a, b)
  BY FirmParts, TokenReceivedIs
<1> HIDE DEF b
<1>2. a \in Streamings /\ b \in Streamings /\ Listed(b) \subseteq Listed(a)
  BY <1>1, FirmParts DEF Quietly, AllClean
<1>3. Control(b, e) /\ KeepsToOne(a, b, e)
  BY <1>1, <1>2, FirmParts, TokenControl
<1>4. SameAvail(a, b)
  BY <1>1, <1>2, FirmParts, UntoldSame
<1>5. /\ b.connectionState = a.connectionState /\ b.isReset = a.isReset
      /\ b.disposed = a.disposed
  BY <1>1 DEF Tokens, KeptState
<1>6. b.connection.told = a.connection.told
  <2>1. Contract!Start(a.connection).told = a.connection.told
    BY <1>2, ControlTypes, AskType
  <2>2. b.connection \in {a.connection, Contract!Start(a.connection)}
    BY <1>1 DEF Tokens, KeptLink
  <2> QED BY <2>1, <2>2
<1>7. Telling(b, e)
  BY <1>2, <1>4, <1>5, <1>6, FirmParts, TellingSame DEF IsThere, IsGone, Telling
<1> QED BY <1>1, <1>3, <1>7, QuietMay DEF b

(* The timer of a retry fires.                                             *)
LEMMA RetryServes ==
    ASSUME NEW a, NEW n \in Nat, NEW e, Firm(a, n, e),
           NEW lost \in BOOLEAN, MayFire(a, lost),
           NEW expired \in BOOLEAN,
           expired => a.connectionState = "DISCONNECTED" /\ "Expired" \in e
    PROVE  Serves(a, RetryFires(a, lost, expired), n, e)
<1> DEFINE b == RetryFires(a, lost, expired)
<1>1. /\ Quietly(a, b) /\ Untold(a, b)
      /\ \E c : Fires(a, c, lost) /\ Connects(c, b, TRUE, expired)
  BY FirmParts, RetryFiresIs
<1> HIDE DEF b
<1>2. PICK c : Fires(a, c, lost) /\ Connects(c, b, TRUE, expired)
  BY <1>1
<1>3. a \in Streamings /\ b \in Streamings /\ Listed(b) \subseteq Listed(a)
  BY <1>1, FirmParts DEF Quietly, AllClean
<1>4. Control(b, e) /\ KeepsToOne(a, b, e)
  BY <1>2, <1>3, FirmParts, RetryControl
<1>5. SameAvail(a, b)
  BY <1>1, <1>3, FirmParts, UntoldSame
<1>6. /\ b.connectionState = a.connectionState /\ b.isReset = a.isReset
      /\ b.disposed = a.disposed
  BY <1>2 DEF Fires, Connects, KeptState
<1>7. b.connection.told = a.connection.told
  <2>1. Contract!Start(a.connection).told = a.connection.told
    BY <1>3, ControlTypes, AskType
  <2>2. b.connection \in {a.connection, Contract!Start(a.connection)}
    BY <1>2 DEF Fires, Connects, KeptLink, Begins
  <2> QED BY <2>1, <2>2
<1>8. Telling(b, e)
  BY <1>3, <1>5, <1>6, <1>7, FirmParts, TellingSame DEF IsThere, IsGone, Telling
<1> QED BY <1>1, <1>4, <1>8, QuietMay DEF b

(* The connection reports that it was started.                             *)
LEMMA StartedServes ==
    ASSUME NEW a, NEW n \in Nat, NEW e, Firm(a, n, e), a.connection.asked # "created"
    PROVE  Serves(a, onConnectionStarted(a), n, e)
<1> DEFINE b == onConnectionStarted(a)
           state == IF a.connectionState = "INITIALIZING" THEN "STARTED"
                    ELSE a.connectionState
<1>1. Quietly(a, b) /\ Untold(a, b) /\ Enters(a, b, state)
  BY FirmParts, FailedIs
<1> HIDE DEF b
<1>2. a \in Streamings /\ b \in Streamings /\ Listed(b) \subseteq Listed(a)
  BY <1>1, FirmParts DEF Quietly, AllClean
<1>3. Control(b, e) /\ KeepsToOne(a, b, e)
  BY <1>1, <1>2, FirmParts, StartedControl
<1>4. SameAvail(a, b)
  BY <1>1, <1>2, FirmParts, UntoldSame
<1>5. /\ b.connectionState = state /\ b.isReset = a.isReset
      /\ b.disposed = a.disposed /\ b.connection = a.connection
  BY <1>1 DEF Enters, KeptLink
<1>6. Telling(b, e)
  BY <1>2, <1>4, <1>5, FirmParts, TellingSame DEF IsThere, IsGone, Telling
<1> QED BY <1>1, <1>3, <1>6, QuietMay DEF b

(* The connection fails.  Its last word is that no transport is left.      *)
LEMMA FailServes ==
    ASSUME NEW a, NEW n \in Nat, NEW e, Firm(a, n, e),
           MayNote(a, e, "exhausted"), "Exhausted" \in e,
           NEW h, h = [a EXCEPT !.connection = Contract!Tell(a.connection, "exhausted")]
    PROVE  Serves(a, onStreamingFailed(h), n, e)
<1> DEFINE k == Contract!Tell(a.connection, "exhausted")
           b == onStreamingFailed(h)
<1>1. k \in Contract!Promises
  BY FirmParts, ControlTypes, PromiseType DEF MayNote
<1> HIDE DEF k
<1>2. /\ Quietly(a, h) /\ Untold(a, h) /\ Listed(h) = Listed(a)
      /\ KeptState(a, h) /\ KeptRetry(a, h)
      /\ h.tokenHandlers = a.tokenHandlers
      /\ h.contextId = a.contextId /\ h.connection = k
      /\ h.former = a.former /\ h.replaced = a.replaced
  <2>1. h = [a EXCEPT !.connection = k]
    BY DEF k
  <2> DEFINE c == [a EXCEPT !.connection = k]
  <2>2. AllClean(a)
    BY FirmParts
  <2>3. /\ Quietly(a, c) /\ Untold(a, c) /\ Listed(c) = Listed(a)
        /\ KeptState(a, c) /\ KeptRetry(a, c)
        /\ c.tokenHandlers = a.tokenHandlers
        /\ c.contextId = a.contextId /\ c.connection = k
        /\ c.former = a.former /\ c.replaced = a.replaced
    BY <1>1, <2>2, ConnectionChanged
  <2> HIDE DEF c
  <2>4. h = c
    BY <2>1 DEF c
  <2> QED BY <2>3, <2>4
<1>3. AllClean(h)
  BY <1>2 DEF Quietly
<1>4. Quietly(h, b) /\ Untold(h, b) /\ Enters(h, b, "DISCONNECTED")
  BY <1>3, FailedIs
<1> HIDE DEF b
<1>5. Quietly(a, b) /\ Untold(a, b)
  BY <1>2, <1>4, QuietOn
<1>6. a \in Streamings /\ b \in Streamings /\ Listed(b) \subseteq Listed(a)
  BY <1>5, FirmParts DEF Quietly, AllClean
<1>7. Notes(a, b, "exhausted", "DISCONNECTED")
  BY <1>2, <1>4 DEF Notes, Enters, KeptState, KeptRetry, KeptLink, k
<1>8. Control(b, e) /\ KeepsToOne(a, b, e)
  BY <1>6, <1>7, FirmParts, ExhaustedControl
<1>9. SameAvail(a, b)
  BY <1>5, <1>6, FirmParts, UntoldSame
<1>10. b.connectionState = "DISCONNECTED" /\ b.disposed = a.disposed
  BY <1>7 DEF Notes
<1>11. Telling(b, e)
  BY <1>6, <1>9, <1>10, FirmParts, TellingSame DEF Telling, IsThere, Steadfast
<1> QED BY <1>5, <1>8, <1>11, QuietMay DEF b

(* That of a former connection is heard too.                               *)
LEMMA MuddleServes ==
    ASSUME NEW a, NEW n \in Nat, NEW e, Firm(a, n, e), "FormerFails" \in e,
           NEW h, h = [a EXCEPT !.former.told = "exhausted"]
    PROVE  Serves(a, onStreamingFailed(h), n, e)
<1> DEFINE k == [a.former EXCEPT !.told = "exhausted"]
           b == onStreamingFailed(h)
<1>1. a \in Streamings /\ AllClean(a)
  BY FirmParts
<1>2. k \in Contract!Promises
  BY <1>1, ControlTypes, ReportedStates DEF Contract!Promises
<1> HIDE DEF k
<1>3. h = [a EXCEPT !.former = k]
  BY <1>1 DEF Streamings, k
<1>4. /\ h \in Streamings /\ h.all = a.all /\ h.subscriptions = a.subscriptions
      /\ h.finder = a.finder
      /\ KeptState(a, h) /\ KeptRetry(a, h) /\ h.tokenHandlers = a.tokenHandlers
      /\ h.contextId = a.contextId /\ h.connection = a.connection
      /\ h.replaced = a.replaced
  BY <1>1, <1>2, <1>3 DEF Streamings, KeptState, KeptRetry
<1>5. Quietly(a, h) /\ Untold(a, h) /\ AllClean(h)
  BY <1>1, <1>4, LinkQuiet
<1>6. Quietly(h, b) /\ Untold(h, b) /\ Enters(h, b, "DISCONNECTED")
  BY <1>5, FailedIs
<1> HIDE DEF b
<1>7. Quietly(a, b) /\ Untold(a, b)
  BY <1>5, <1>6, QuietOn
<1>8. b \in Streamings /\ Listed(b) \subseteq Listed(a)
  BY <1>7 DEF Quietly, AllClean
<1>9. Muddles(a, b)
  BY <1>4, <1>6 DEF Muddles, Enters, KeptState, KeptRetry, KeptLink
<1>10. Control(b, e) /\ KeepsToOne(a, b, e)
  BY <1>1, <1>8, <1>9, FirmParts, MuddledControl
<1>11. SameAvail(a, b)
  BY <1>1, <1>7, <1>8, UntoldSame
<1>12. b.connectionState = "DISCONNECTED" /\ b.disposed = a.disposed
  BY <1>9 DEF Muddles
<1>13. Telling(b, e)
  BY <1>8, <1>11, <1>12, FirmParts, TellingSame DEF Telling, IsThere, Steadfast
<1> QED BY <1>7, <1>10, <1>13, QuietMay DEF b

(* Nor does what keeps all that concerns the connection undo a note.       *)
LEMMA KeptNotes ==
    ASSUME NEW a, NEW c, NEW b, NEW told, NEW state,
           Notes(a, c, told, state), Kept(c, b)
    PROVE  Notes(a, b, told, state)
BY DEF Notes, Kept, KeptRetry

(* The connection reports a state.                                         *)
LEMMA ReportControl ==
    ASSUME NEW a, a \in Streamings, NEW e, Control(a, e),
           NEW state, MayNote(a, e, state), state # "exhausted",
           NEW expired \in BOOLEAN, NEW exhausted \in BOOLEAN,
           expired => "Expired" \in e,
           NEW c \in Streamings, Notes(a, c, state, state),
           NEW b \in Streamings,
           Ensues(a, c, b, state, expired, exhausted)
    PROVE  Control(b, e) /\ KeepsToOne(a, b, e)
<1>1. CASE \/ state = a.connectionState \/ a.disposed
           \/ state \notin {"DISCONNECTED", "CONNECTED"}
  <2>1. Kept(c, b)
    BY <1>1 DEF Ensues
  <2>2. Notes(a, b, state, state)
    BY <2>1, KeptNotes
  <2>3. state = "DISCONNECTED" => state = a.connectionState \/ a.disposed
    BY <1>1
  <2> QED BY <2>2, <2>3, NotedControl
<1>2. CASE state # a.connectionState /\ ~a.disposed /\ state = "DISCONNECTED"
  <2>1. Ends(c, b, expired, exhausted)
    BY <1>2 DEF Ensues
  <2>2. Inits(c, b, expired, exhausted) \/ Retries(c, b)
    BY <2>1 DEF Ends
  <2>3. MayNote(a, e, "DISCONNECTED") /\ Notes(a, c, "DISCONNECTED", "DISCONNECTED")
    BY <1>2
  <2>4. CASE Inits(c, b, expired, exhausted)
    BY <1>2, <2>3, <2>4, ReplacedControl
  <2>5. CASE Retries(c, b)
    BY <1>2, <2>3, <2>5, RetriedControl
  <2> QED BY <2>2, <2>4, <2>5
<1>3. CASE state # a.connectionState /\ ~a.disposed /\ state = "CONNECTED"
  <2>1. Resumes(c, b)
    BY <1>3 DEF Ensues
  <2>2. MayNote(a, e, "CONNECTED") /\ Notes(a, c, "CONNECTED", "CONNECTED")
    BY <1>3
  <2> QED BY <1>3, <2>1, <2>2, ResumedControl
<1> QED BY <1>1, <1>2, <1>3

(* What is left of the state and of the connection then.                   *)
LeavesBehind(a, b, state, exhausted) ==
    /\ b.disposed = a.disposed /\ b.connectionState = state
    /\ b.isReset = IF state = "CONNECTED" /\ state # a.connectionState /\ ~a.disposed
                   THEN FALSE ELSE a.isReset
    /\ ~exhausted => b.connection.told # "exhausted"

(* That follows from what ensues.                                          *)
LEMMA ReportLeaves ==
    ASSUME NEW a, a \in Streamings, NEW state \in Contract!States, state # "exhausted",
           NEW expired \in BOOLEAN, NEW exhausted \in BOOLEAN,
           NEW c \in Streamings, Notes(a, c, state, state),
           NEW b,
           Ensues(a, c, b, state, expired, exhausted)
    PROVE  LeavesBehind(a, b, state, exhausted)
<1>1. /\ c.disposed = a.disposed /\ c.connectionState = state /\ c.isReset = a.isReset
      /\ c.connection.told = state
  BY ControlTypes, PromiseType DEF Notes
<1>2. CASE Kept(c, b) /\ (\/ state = a.connectionState \/ a.disposed
                          \/ state \notin {"DISCONNECTED", "CONNECTED"})
  BY <1>1, <1>2 DEF Kept, LeavesBehind
<1>3. CASE /\ state # a.connectionState /\ ~a.disposed /\ state = "DISCONNECTED"
           /\ Retries(c, b)
  BY <1>1, <1>3 DEF Retries, KeptState, KeptLink, LeavesBehind
<1>4. CASE /\ state # a.connectionState /\ ~a.disposed /\ state = "DISCONNECTED"
           /\ Inits(c, b, expired, exhausted)
  <2>1. /\ b.disposed = a.disposed /\ b.connectionState = state /\ b.isReset = a.isReset
        /\ b.connection \in {Anew(exhausted), Contract!Start(Anew(exhausted))}
    BY <1>1, <1>4 DEF Inits
  <2>2. ~exhausted => b.connection.told = "none"
    <3> SUFFICES ASSUME ~exhausted
                 PROVE  b.connection.told = "none"
      OBVIOUS
    <3>1. Anew(exhausted) \in Contract!Promises /\ Anew(exhausted).told = "none"
      BY AnewType
    <3>2. Contract!Start(Anew(exhausted)).told = "none"
      BY <3>1, AskType
    <3> QED BY <2>1, <3>1, <3>2
  <2> QED BY <1>4, <2>1, <2>2 DEF LeavesBehind
<1>5. CASE /\ state # a.connectionState /\ ~a.disposed /\ state = "CONNECTED"
           /\ Resumes(c, b)
  BY <1>1, <1>5 DEF Resumes, KeptLink, LeavesBehind
<1> QED BY <1>2, <1>3, <1>4, <1>5 DEF Ensues, Ends

(* onConnectionStateChanged, for a state that the connection may report.   *)
LEMMA ReportServes ==
    ASSUME NEW a, NEW n \in Nat, n <= MaxTime, NEW e, Firm(a, n, e),
           NEW state, MayNote(a, e, state), state # "exhausted",
           NEW expired \in BOOLEAN, NEW exhausted \in BOOLEAN,
           expired => "Expired" \in e, exhausted => "Exhausted" \in e,
           NEW p \in Nat, NEW j, p # 0 => "DisposeInCallback" \in e,
           NEW h, h = [a EXCEPT !.connection = Contract!Tell(a.connection, state)]
    PROVE  Serves(a, onConnectionStateChanged(h, state, n, expired, exhausted, p, j), n, e)
<1> DEFINE k == Contract!Tell(a.connection, state)
           b == onConnectionStateChanged(h, state, n, expired, exhausted, p, j)
<1>1. k \in Contract!Promises /\ state \in ConnectionStates /\ state \in Contract!States
  BY FirmParts, ControlTypes, PromiseType, ReportedStates DEF MayNote
<1> HIDE DEF k
<1>2. /\ Quietly(a, h) /\ Untold(a, h) /\ Listed(h) = Listed(a)
      /\ KeptState(a, h) /\ KeptRetry(a, h)
      /\ h.tokenHandlers = a.tokenHandlers
      /\ h.contextId = a.contextId /\ h.connection = k
      /\ h.former = a.former /\ h.replaced = a.replaced
  <2> DEFINE c == [a EXCEPT !.connection = k]
  <2>1. AllClean(a)
    BY FirmParts
  <2>2. /\ Quietly(a, c) /\ Untold(a, c) /\ Listed(c) = Listed(a)
        /\ KeptState(a, c) /\ KeptRetry(a, c)
        /\ c.tokenHandlers = a.tokenHandlers
        /\ c.contextId = a.contextId /\ c.connection = k
        /\ c.former = a.former /\ c.replaced = a.replaced
    BY <1>1, <2>1, ConnectionChanged
  <2>3. h = c
    BY DEF k
  <2> HIDE DEF c
  <2> QED BY <2>2, <2>3
<1>3. AllClean(h) /\ Clock(h, n) /\ Watched(h)
  <2>1. AllClean(a) /\ Clock(a, n) /\ Watched(a) /\ Listed(a) \subseteq DOMAIN a.all
    BY FirmParts DEF AllClean
  <2>2. Clock(h, n)
    BY <1>2, <2>1, QuietSteady, SteadyClock
  <2>3. Watched(h)
    BY <1>2, <2>1, QuietWatched
  <2> QED BY <1>2, <2>2, <2>3 DEF Quietly
<1>4. /\ AllClean(b) /\ Heard(h, b) /\ Listed(b) \subseteq Listed(h)
      /\ Clock(b, n) /\ Watched(b)
      /\ Announces(h, b, state, p)
      /\ Changes(h, b, state, expired, exhausted)
  BY ZenonT(40), <1>1, <1>3, StateChangedIs
<1> HIDE DEF b
<1>5. /\ h.connectionState = a.connectionState /\ h.disposed = a.disposed
      /\ h.isReset = a.isReset
  BY <1>2 DEF KeptState
<1>6. PICK c \in Streamings :
          /\ Enters(h, c, state)
          /\ Ensues(a, c, b, state, expired, exhausted)
  BY <1>4, <1>5 DEF Changes, Ensues
<1>7. Notes(a, c, state, state)
  BY <1>2, <1>6 DEF Notes, Enters, KeptState, KeptRetry, KeptLink, k
<1>8. /\ a \in Streamings /\ b \in Streamings
      /\ Listed(b) \subseteq Listed(a) /\ DOMAIN b.all = DOMAIN a.all
  BY <1>2, <1>4, FirmParts DEF AllClean, Heard, Quietly
<1>9. Control(b, e) /\ KeepsToOne(a, b, e)
  BY <1>6, <1>7, <1>8, FirmParts, ReportControl
<1>10. /\ b.disposed = a.disposed /\ b.connectionState = state
       /\ b.isReset = IF state = "CONNECTED" /\ state # a.connectionState /\ ~a.disposed
                      THEN FALSE ELSE a.isReset
       /\ ~exhausted => b.connection.told # "exhausted"
  <2>1. LeavesBehind(a, b, state, exhausted)
    BY <1>1, <1>6, <1>7, <1>8, ReportLeaves
  <2> QED BY <2>1 DEF LeavesBehind
<1>11. Untold(h, b) => SameAvail(a, b)
  <2>1. Untold(h, b) => Untold(a, b)
    BY <1>2 DEF Untold, Quietly, Heard
  <2> QED BY <1>8, <2>1, FirmParts, UntoldSame
<1>12. Steadfast(e) => b.connection.told # "exhausted"
  BY <1>10 DEF Steadfast
<1>13. b.disposed => Listed(b) = {}
  BY <1>8, <1>10, FirmParts DEF Telling
<1>14. Telling(b, e)
  <2>1. CASE a.disposed
    <3>1. Listed(b) = {}
      BY <1>10, <1>13, <2>1
    <3> QED BY <1>12, <3>1 DEF Telling, AllTold, OneOut
  <2>2. CASE ~a.disposed /\ state = a.connectionState
    <3>1. SameAvail(a, b)
      BY <1>4, <1>5, <1>11, <2>2 DEF Announces
    <3> QED BY <1>10, <1>12, <1>13, <2>2, <3>1, FirmParts, TellingSame DEF IsThere, IsGone
  <2>3. CASE ~a.disposed /\ state # a.connectionState /\ state = "DISCONNECTED"
    <3>1. CASE a.isReset
      <4>1. SameAvail(a, b)
        BY <1>4, <1>5, <1>11, <2>3, <3>1 DEF Announces
      <4> QED BY <1>10, <1>12, <1>13, <2>3, <3>1, <4>1, FirmParts, TellingSame
              DEF IsThere, IsGone
    <3>2. CASE ~a.isReset
      <4>1. AllTold(b, FALSE)
        BY <1>4, <1>5, <2>3, <3>2 DEF Announces
      <4> QED BY <1>10, <1>12, <1>13, <2>3, <4>1, TellingGone DEF IsThere
    <3> QED BY <3>1, <3>2
  <2>4. CASE ~a.disposed /\ state # a.connectionState /\ state = "RECONNECTING"
    <3>1. AllTold(b, FALSE)
      BY <1>4, <1>5, <2>4 DEF Announces
    <3> QED BY <1>10, <1>12, <1>13, <2>4, <3>1, TellingGone DEF IsThere
  <2>5. CASE ~a.disposed /\ state # a.connectionState /\ state = "CONNECTED"
    <3>1. OneOut(b) /\ ("DisposeInCallback" \notin e => AllTold(b, TRUE))
      BY <1>4, <1>5, <2>5 DEF Announces
    <3>2. ~IsGone(b)
      BY <1>10, <2>5 DEF IsGone
    <3> QED BY <1>12, <1>13, <3>1, <3>2 DEF Telling
  <2>6. CASE /\ ~a.disposed /\ state # a.connectionState
             /\ state \notin {"DISCONNECTED", "RECONNECTING", "CONNECTED"}
    <3>1. SameAvail(a, b)
      BY <1>4, <1>5, <1>11, <2>6 DEF Announces
    <3> QED BY <1>10, <1>12, <1>13, <2>6, <3>1, FirmParts, TellingSame DEF IsThere, IsGone
  <2> QED BY <2>1, <2>2, <2>3, <2>4, <2>5, <2>6
<1> QED BY <1>4, <1>8, <1>9, <1>14 DEF Serves, b

(* A call in which the connection may find itself broken.                  *)
LEMMA BreaksServes ==
    ASSUME NEW a, NEW n \in Nat, NEW e, Firm(a, n, e), NEW breaks \in BOOLEAN,
           breaks => ~a.disposed /\ Contract!MayTell(a.connection, "RECONNECTING"),
           NEW b, AllClean(b), Kept(Broken(a, breaks), b),
           Listed(b) = Listed(a), DOMAIN b.all = DOMAIN a.all,
           breaks => AllTold(b, FALSE), ~breaks => Untold(a, b),
           Clock(b, n), Watched(b)
    PROVE  Serves(a, b, n, e)
<1>1. /\ a \in Streamings /\ b \in Streamings
      /\ Control(a, e) /\ Telling(a, e) /\ AllClean(a)
  BY FirmParts DEF AllClean
<1>2. CASE ~breaks
  <2>1. Kept(a, b) /\ Untold(a, b)
    BY <1>2 DEF Broken
  <2>2. Control(b, e) /\ KeepsToOne(a, b, e)
    BY <1>1, <2>1, KeptControl
  <2>3. Telling(b, e)
    BY <1>1, <2>1, UntoldSame, KeptTelling
  <2> QED BY <2>2, <2>3 DEF Serves
<1>3. CASE breaks
  <2> DEFINE k == Contract!Tell(a.connection, "RECONNECTING")
             c == Broken(a, TRUE)
  <2>1. k \in Contract!Promises /\ k.told = "RECONNECTING"
    BY <1>1, ControlTypes, ReportedStates, PromiseType
  <2> HIDE DEF k
  <2>2. c = [a EXCEPT !.connectionState = "RECONNECTING", !.connection = k]
    BY DEF Broken, k
  <2> HIDE DEF c
  <2>3. /\ c \in Streamings /\ c.connectionState = "RECONNECTING" /\ c.connection = k
        /\ c.disposed = a.disposed
    BY <1>1, <2>1, <2>2, ReportedStates DEF Streamings
  <2>4. Kept(c, b)
    <3>1. breaks = TRUE
      BY <1>3
    <3> QED BY <3>1 DEF c
  <2>5. Control(b, e) /\ KeepsToOne(a, b, e)
    <3>1. c = Broken(a, TRUE)
      BY DEF c
    <3> QED BY <1>1, <1>3, <2>3, <2>4, <3>1, BrokenControl
  <2>6. /\ b.connectionState = "RECONNECTING" /\ b.connection = k
        /\ b.disposed = a.disposed
    BY <2>3, <2>4 DEF Kept
  <2>7. Telling(b, e)
    BY <1>3, <2>1, <2>6, TellingGone DEF IsThere
  <2> QED BY <2>5, <2>7 DEF Serves
<1> QED BY <1>2, <1>3

(* The timer of the orphan finder.                                         *)
LEMMA OrphanServes ==
    ASSUME NEW a, NEW n \in Nat, n <= MaxTime, NEW e, Firm(a, n, e),
           NEW due \in Due(a.finder), due <= n, NEW breaks \in BOOLEAN,
           breaks => ~a.disposed /\ Contract!MayTell(a.connection, "RECONNECTING"),
           NEW t, t = [a EXCEPT !.finder = TimerFires(@, due)]
    PROVE  Serves(a, UpdateFinder(t, n, breaks), n, e)
<1> DEFINE u == UpdateFinder([a EXCEPT !.finder = TimerFires(@, due)], n, breaks)
           b == UpdateFinder(t, n, breaks)
<1>1. AllClean(a) /\ Clock(a, n)
  BY FirmParts
<1>2. /\ AllClean(u) /\ Kept(Broken(a, breaks), u) /\ Heard(a, u)
      /\ Listed(u) = Listed(a)
      /\ breaks => AllTold(u, FALSE)
      /\ ~breaks => Untold(a, u)
      /\ Clock(u, n) /\ Watched(u)
  BY <1>1, OrphanTimeoutIs
<1>3. b = u
  OBVIOUS
<1> HIDE DEF u, b
<1>4. DOMAIN u.all = DOMAIN a.all
  BY <1>2 DEF Heard
<1>5. Serves(a, u, n, e)
  BY <1>2, <1>4, BreaksServes
<1> QED BY <1>3, <1>5 DEF b

(* The answer to a POST.                                                   *)
LEMMA SubscribedServes ==
    ASSUME NEW a, NEW n \in Nat, n <= MaxTime, NEW e, Firm(a, n, e),
           NEW i \in DOMAIN a.all, NEW r \in DOMAIN a.all[i].sub.inFlight,
           a.all[i].sub.inFlight[r]["post"] > 0,
           NEW breaks \in BOOLEAN,
           breaks => /\ r = referenceId(a.all[i].sub) /\ ~a.disposed
                     /\ Contract!MayTell(a.connection, "RECONNECTING")
    PROVE  Serves(a, SubscribeSucceeded(a, i, r, n, breaks), n, e)
<1> DEFINE b == SubscribeSucceeded(a, i, r, n, breaks)
<1>1. AllClean(a) /\ Clock(a, n) /\ Watched(a)
  BY FirmParts
<1>2. breaks => r = referenceId(a.all[i].sub)
  OBVIOUS
<1>3. /\ AllClean(b) /\ Kept(Broken(a, breaks), b)
      /\ DOMAIN b.all = DOMAIN a.all /\ Listed(b) = Listed(a)
      /\ breaks => AllTold(b, FALSE)
      /\ ~breaks => Untold(a, b)
      /\ Clock(b, n)
      /\ Watched(a) => Watched(b)
  BY <1>1, <1>2, SubscribeSucceededIs
<1> HIDE DEF b
<1>4. Serves(a, b, n, e)
  BY <1>1, <1>3, BreaksServes
<1> QED BY <1>4 DEF b

(* A new subscription.                                                     *)
LEMMA CreateServes ==
    ASSUME NEW a, NEW n \in Nat, NEW e, Firm(a, n, e), ~a.disposed,
           a.isReset /\ a.connectionState = "CONNECTED" => "CreateDuringReset" \in e,
           NEW b, b = Done(createSubscription(a))
    PROVE  /\ Firm(b, n, e) /\ KeepsToOne(a, b, e)
           /\ Len(a.all) \in Nat
           /\ DOMAIN a.all = 1 .. Len(a.all) /\ DOMAIN b.all = 1 .. Len(a.all) + 1
<1> DEFINE t == createSubscription(a)
           m == Len(a.all) + 1
<1>1. AllClean(a) /\ Clock(a, n) /\ Watched(a) /\ Control(a, e) /\ Telling(a, e)
  BY FirmParts
<1>2. /\ AllClean(t) /\ Kept(a, t) /\ t.finder = a.finder
      /\ Len(a.all) \in Nat /\ Len(t.all) = m
      /\ DOMAIN a.all = 1 .. Len(a.all) /\ DOMAIN t.all = 1 .. m
      /\ \A i \in DOMAIN a.all : t.all[i] = a.all[i]
      /\ Listed(t) \subseteq Listed(a) \cup {m}
      /\ t.all[m].sub.connectionAvailable = (a.connectionState = "CONNECTED")
      /\ t.all[m].sub.currentState # STATE_SUBSCRIBED
      /\ t.all[m].latestActivity = 0 /\ t.all[m].inactivityTimeout = 0
  BY <1>1, CreatedIs
<1>3. b = Done(t)
  OBVIOUS
<1> HIDE DEF t
<1>4. /\ \A i \in DOMAIN t.all : i \in DOMAIN a.all \/ i = m
      /\ Listed(a) \subseteq DOMAIN a.all
  BY <1>1, <1>2 DEF AllClean
<1>5. Clock(t, n)
  BY <1>1, <1>2, <1>4 DEF Clock
<1>6. Watched(t)
  BY <1>1, <1>2, <1>4 DEF Watched
<1>7. /\ Sound(b, n) /\ Kept(t, b) /\ SameAvail(t, b) /\ DOMAIN b.all = DOMAIN t.all
      /\ Listed(b) = Listed(t)
  BY <1>2, <1>3, <1>5, <1>6, DoneSound
<1>8. a \in Streamings /\ b \in Streamings /\ Kept(a, b)
  BY <1>1, <1>2, <1>7, KeptOn DEF Sound, AllClean
<1>9. Control(b, e) /\ KeepsToOne(a, b, e)
  BY <1>1, <1>8, KeptControl
<1>10. \A i \in Listed(b) :
          \/ /\ i \in Listed(a)
             /\ b.all[i].sub.connectionAvailable = a.all[i].sub.connectionAvailable
          \/ b.all[i].sub.connectionAvailable = (a.connectionState = "CONNECTED")
  BY <1>2, <1>4, <1>7 DEF SameAvail
<1>11. /\ b.disposed = a.disposed /\ b.connectionState = a.connectionState
       /\ b.isReset = a.isReset /\ b.connection = a.connection
  BY <1>8 DEF Kept
<1>12. Telling(b, e)
  <2>1. ASSUME "ControlDisconnect" \notin e, IsThere(b)
        PROVE  OneOut(b) /\ ("DisposeInCallback" \notin e => AllTold(b, TRUE))
    <3>1. IsThere(a)
      BY <1>11, <2>1 DEF IsThere
    <3>2. OneOut(a) /\ ("DisposeInCallback" \notin e => AllTold(a, TRUE))
      BY <1>1, <2>1, <3>1 DEF Telling
    <3>3. \A i \in Listed(b) :
            \/ /\ i \in Listed(a)
               /\ b.all[i].sub.connectionAvailable = a.all[i].sub.connectionAvailable
            \/ b.all[i].sub.connectionAvailable = TRUE
      BY <1>10, <3>1 DEF IsThere
    <3>4. OneOut(b)
      BY <3>2, <3>3 DEF OneOut
    <3>5. "DisposeInCallback" \notin e => AllTold(b, TRUE)
      BY <3>2, <3>3 DEF AllTold
    <3> QED BY <3>4, <3>5
  <2>2. ASSUME Steadfast(e), IsGone(b)
        PROVE  AllTold(b, FALSE)
    <3>1. IsGone(a)
      BY <1>11, <2>2 DEF IsGone
    <3>2. AllTold(a, FALSE)
      BY <1>1, <2>2, <3>1 DEF Telling
    <3>3. a.connectionState # "CONNECTED"
      BY <2>2, <3>1 DEF Steadfast, IsGone
    <3> QED BY <1>10, <3>2, <3>3 DEF AllTold
  <2>3. Steadfast(e) => b.connection.told # "exhausted"
    BY <1>1, <1>11 DEF Telling
  <2> QED BY <1>11, <2>1, <2>2, <2>3 DEF Telling
<1> QED BY <1>2, <1>7, <1>9, <1>12 DEF Firm

(***************************************************************************)
(* The steps of the specification.                                         *)
(***************************************************************************)
IInv == TypeOK /\ Firm(s, now, env)

(* What a step must do. *)
StepHolds == IInv' /\ KeepsToOne(s, s', env) /\ env' = env

(* An event is of the kinds of the behaviour, and there is one less to     *)
(* come.                                                                   *)
LEMMA EventIs ==
    ASSUME TypeOK, NEW kinds, Event(kinds)
    PROVE  kinds \subseteq env /\ env' = env /\ budget' \in 0 .. MaxEvents
<1>1. kinds \subseteq env /\ env' = env
  BY DEF Event
<1>2. budget \in 0 .. MaxEvents /\ MaxEvents \in Nat
  BY StreamingAssumption DEF TypeOK
<1>3. CASE kinds = {}
  BY <1>1, <1>2, <1>3 DEF Event
<1>4. CASE kinds # {}
  <2>1. budget > 0 /\ budget' = budget - 1
    BY <1>4 DEF Event
  <2>. QED  BY <1>1, <1>2, <2>1
<1>. QED  BY <1>3, <1>4

(* What the invariant says of the streaming.                               *)
LEMMA TimeIs ==
    ASSUME IInv
    PROVE  /\ now \in Nat /\ now <= MaxTime
           /\ s \in Streamings /\ Firm(s, now, env)
           /\ AllClean(s) /\ NoneReady(s) /\ Clock(s, now) /\ Watched(s)
           /\ Control(s, env) /\ Telling(s, env)
<1>1. TypeOK /\ Firm(s, now, env)
  BY DEF IInv
<1>2. now \in 0 .. MaxTime /\ MaxTime \in Nat
  BY <1>1, StreamingAssumption DEF TypeOK
<1>. QED  BY <1>1, <1>2, FirmParts

(* A call that serves, and what the server has in the end.                 *)
LEMMA BecomesIs ==
    ASSUME IInv, NEW kinds, Event(kinds), NEW t, Serves(s, t, now, env), Becomes(t),
           live' \in [DOMAIN s.all -> SUBSET Nat], now' = now
    PROVE  StepHolds
<1>1. now \in Nat /\ TypeOK
  BY TimeIs DEF IInv
<1>2. env' = env /\ budget' \in 0 .. MaxEvents
  BY <1>1, EventIs
<1>3. s' = Done(t)
  BY DEF Becomes
<1>4. /\ Firm(s', now, env) /\ DOMAIN s'.all = DOMAIN s.all
      /\ KeepsToOne(s, s', env)
  <2>1. /\ Firm(Done(t), now, env) /\ DOMAIN Done(t).all = DOMAIN s.all
        /\ KeepsToOne(s, Done(t), env)
    BY <1>1, ServesDone
  <2>. QED  BY <1>3, <2>1
<1>5. s' \in Streamings
  BY <1>4, FirmParts
<1>6. TypeOK'
  BY <1>1, <1>2, <1>4, <1>5 DEF TypeOK
<1>. QED  BY <1>2, <1>4, <1>6 DEF StepHolds, IInv

(* A call that leaves the server alone.                                    *)
LEMMA HandlesIs ==
    ASSUME IInv, NEW kinds, Event(kinds), NEW t, Serves(s, t, now, env), Handles(t)
    PROVE  StepHolds
<1>1. Becomes(t) /\ live' = live /\ now' = now
  BY DEF Handles
<1>2. live' \in [DOMAIN s.all -> SUBSET Nat]
  BY <1>1 DEF IInv, TypeOK
<1>. QED  BY <1>1, <1>2, BecomesIs

(* A quiet call that does not concern the connection.                      *)
LEMMA QuietHandles ==
    ASSUME IInv, NEW kinds, Event(kinds), NEW t, Quietly(s, t), Untold(s, t), Kept(s, t)
    PROVE  Serves(s, t, now, env)
BY TimeIs, QuietServes

-----------------------------------------------------------------------------
(* The connection. *)
LEMMA ToldNotes ==
    ASSUME IInv, NEW state \in Contract!States, Told(state),
           Late(s.connection, state) \subseteq env,
           state = "FAILED" /\ s.connection.asked # "started" => "FailsWhileDown" \in env
    PROVE  MayNote(s, env, state)
<1>1. state # s.connection.told
  BY DEF Told
<1>2. ASSUME "Overtaken" \notin env
      PROVE  Contract!MayTell(s.connection, state)
  <2>1. SUFFICES ASSUME ~Contract!MayTell(s.connection, state) PROVE FALSE
    OBVIOUS
  <2>2. Late(s.connection, state) = {"Overtaken"}
    BY <2>1 DEF Late, Kind
  <2>. QED  BY <1>2, <2>2
<1>. QED  BY <1>1, <1>2 DEF MayNote

(* What happens is of a kind of the behaviour.                             *)
LEMMA KindIs ==
    ASSUME NEW happens, NEW kind, Kind(happens, kind) \subseteq env, happens
    PROVE  kind \in env
BY DEF Kind

(* It reports a state.                                                     *)
LEMMA ReportsStep ==
    ASSUME IInv, NEW state \in Contract!States \ {"exhausted"}, ConnectionReports(state)
    PROVE  StepHolds
<1>1. PICK expired \in BOOLEAN, exhausted \in BOOLEAN :
        /\ Told(state)
        /\ Event(ReportKind(s.connection, state) \cup
                 Kind(expired, "Expired") \cup Kind(exhausted, "Exhausted"))
        /\ Handles(onConnectionStateChanged(Hears(state), state, now,
                                            expired, exhausted, 0, 0))
  BY DEF ConnectionReports
<1>2. TypeOK
  BY DEF IInv
<1>. DEFINE kinds == ReportKind(s.connection, state) \cup
                 Kind(expired, "Expired") \cup Kind(exhausted, "Exhausted")
<1>3. Event(kinds)
  BY <1>1
<1>. HIDE DEF kinds
<1>4. kinds \subseteq env
  BY <1>2, <1>3, EventIs
<1>5. /\ ReportKind(s.connection, state) \subseteq env
      /\ Kind(expired, "Expired") \subseteq env /\ Kind(exhausted, "Exhausted") \subseteq env
  BY <1>4 DEF kinds
<1>6. (expired => "Expired" \in env) /\ (exhausted => "Exhausted" \in env)
  BY <1>5, KindIs
<1>7. Late(s.connection, state) \subseteq env
  BY <1>5 DEF ReportKind
<1>8. state = "FAILED" /\ s.connection.asked # "started" => "FailsWhileDown" \in env
  BY <1>5 DEF ReportKind
<1>9. MayNote(s, env, state)
  BY <1>1, <1>7, <1>8, ToldNotes
<1>10. Hears(state) = [s EXCEPT !.connection = Contract!Tell(s.connection, state)]
  BY DEF Hears
<1>11. Serves(s, onConnectionStateChanged(Hears(state), state, now,
                                          expired, exhausted, 0, 0), now, env)
  BY <1>6, <1>9, <1>10, TimeIs, ReportServes
<1>. QED  BY <1>1, <1>3, <1>11, HandlesIs

(* It is there again, and the consumer disposes of a subscription          *)
(* meanwhile.                                                              *)
LEMMA DisposingStep ==
    ASSUME IInv, NEW p \in DOMAIN s.subscriptions, NEW j, ConnectedWhileDisposing(p, j)
    PROVE  StepHolds
<1>. DEFINE kinds == {"DisposeInCallback"} \cup Late(s.connection, "CONNECTED")
<1>1. Told("CONNECTED") /\ Event(kinds)
  BY DEF ConnectedWhileDisposing
<1>2. Handles(onConnectionStateChanged(Hears("CONNECTED"), "CONNECTED", now,
                                       FALSE, FALSE, p, j))
  BY DEF ConnectedWhileDisposing
<1>3. "DisposeInCallback" \in kinds /\ Late(s.connection, "CONNECTED") \subseteq kinds
  OBVIOUS
<1>. HIDE DEF kinds
<1>4. kinds \subseteq env
  BY <1>1, EventIs DEF IInv
<1>5. "CONNECTED" \in Contract!States
  BY ReportedStates
<1>6. MayNote(s, env, "CONNECTED")
  BY <1>1, <1>3, <1>4, <1>5, ToldNotes
<1>7. Hears("CONNECTED") = [s EXCEPT !.connection = Contract!Tell(s.connection, "CONNECTED")]
  BY DEF Hears
<1>8. p \in Nat
  <2>1. s \in Streamings
    BY TimeIs
  <2>2. s.subscriptions \in Seq(Nat)
    BY <2>1 DEF Streamings
  <2>. QED  BY <2>2
<1>9. Serves(s, onConnectionStateChanged(Hears("CONNECTED"), "CONNECTED", now,
                                         FALSE, FALSE, p, j), now, env)
  BY <1>3, <1>4, <1>6, <1>7, <1>8, TimeIs, ReportServes
<1>. QED  BY <1>1, <1>2, <1>9, HandlesIs

(* It has no transport left.                                               *)
LEMMA FailsStep ==
    ASSUME IInv, ConnectionFails
    PROVE  StepHolds
<1>. DEFINE kinds == {"Exhausted"} \cup Late(s.connection, "exhausted")
<1>1. Told("exhausted") /\ Event(kinds) /\ Handles(onStreamingFailed(Hears("exhausted")))
  BY DEF ConnectionFails
<1>3. "Exhausted" \in kinds /\ Late(s.connection, "exhausted") \subseteq kinds
  OBVIOUS
<1>. HIDE DEF kinds
<1>4. kinds \subseteq env
  BY <1>1, EventIs DEF IInv
<1>5. "exhausted" \in Contract!States
  BY ReportedStates
<1>6. MayNote(s, env, "exhausted")
  BY <1>1, <1>3, <1>4, <1>5, ToldNotes
<1>7. Hears("exhausted") = [s EXCEPT !.connection = Contract!Tell(s.connection, "exhausted")]
  BY DEF Hears
<1>8. Serves(s, onStreamingFailed(Hears("exhausted")), now, env)
  BY <1>3, <1>4, <1>6, <1>7, TimeIs, FailServes
<1>. QED  BY <1>1, <1>8, HandlesIs

(* It says that it was started.                                            *)
LEMMA StartedStep ==
    ASSUME IInv, ConnectionStarted
    PROVE  StepHolds
<1>1. s.connection.asked # "created" /\ Event({}) /\ Handles(onConnectionStarted(s))
  BY DEF ConnectionStarted
<1>2. Serves(s, onConnectionStarted(s), now, env)
  BY <1>1, TimeIs, StartedServes
<1>. QED  BY <1>1, <1>2, HandlesIs

(* One that was replaced has no transport left.                            *)
LEMMA FormerStep ==
    ASSUME IInv, FormerConnectionFails
    PROVE  StepHolds
<1>. DEFINE h == [s EXCEPT !.former.told = "exhausted"]
<1>1. Event({"FormerFails"}) /\ Handles(onStreamingFailed(h))
  BY DEF FormerConnectionFails
<1>2. "FormerFails" \in env
  BY <1>1, EventIs DEF IInv
<1>3. Serves(s, onStreamingFailed(h), now, env)
  BY <1>2, TimeIs, MuddleServes
<1>. QED  BY <1>1, <1>3, HandlesIs

(* Every step of the connection.                                           *)
LEMMA ConnectionStep ==
    ASSUME IInv, Connection
    PROVE  StepHolds
BY ReportsStep, DisposingStep, FailsStep, StartedStep, FormerStep DEF Connection

-----------------------------------------------------------------------------
(* Time. *)
LEMMA SameStep ==
    ASSUME IInv, s' = s, live' = live, env' = env, budget' \in 0 .. MaxEvents,
           now' \in Nat, now <= now', now' <= MaxTime
    PROVE  StepHolds
<1>1. now \in Nat /\ s \in Streamings /\ Clock(s, now) /\ Firm(s, now, env)
  BY TimeIs
<1>2. s.finder \in Finders /\ startDelay \in Nat /\ s.finder.minCheckTime \in Nat
  BY <1>1, FinderAssumption DEF Streamings, Finders
<1>3. Armed(s.finder, now')
  BY <1>1, <1>2, StaysArmed DEF Clock
<1>4. s.finder.minCheckTime <= now' + startDelay
  BY <1>1, <1>2 DEF Clock
<1>5. ASSUME NEW i \in DOMAIN s.all
      PROVE  /\ s.all[i].latestActivity <= now'
             /\ s.all[i].inactivityTimeout \in {0, InactivityTimeout}
  <2>1. /\ s.all[i].latestActivity <= now
        /\ s.all[i].inactivityTimeout \in {0, InactivityTimeout}
    BY <1>1 DEF Clock
  <2>2. s.all[i].latestActivity \in Nat
    <3>1. s.all \in Seq(Entries)
      BY <1>1 DEF Streamings
    <3>2. s.all[i] \in Entries
      BY <3>1
    <3>. QED  BY <3>2 DEF Entries
  <2>. QED  BY <1>1, <2>1, <2>2
<1>6. Clock(s, now')
  BY <1>3, <1>4, <1>5 DEF Clock
<1>7. Firm(s, now', env)
  BY <1>1, <1>6 DEF Firm, Sound
<1>8. TypeOK'
  <2>1. TypeOK
    BY DEF IInv
  <2>2. now' \in 0 .. MaxTime /\ MaxTime \in Nat
    BY StreamingAssumption
  <2>. QED  BY <2>1, <2>2 DEF TypeOK
<1>9. KeepsToOne(s, s', env)
  <2>1. Starts(s) \in Nat /\ s.contextId \in Nat
    BY <1>1, StartsIs, ControlTypes
  <2>. DEFINE m == Starts(s) + s.contextId
  <2>2. m <= m
    BY <2>1
  <2>3. KeepsToOne(s, s, env)
    BY <2>2 DEF KeepsToOne
  <2>. QED  BY <2>3
<1>. QED  BY <1>7, <1>8, <1>9 DEF StepHolds, IInv

(* Time passes.                                                            *)
LEMMA TickStep ==
    ASSUME IInv, Tick \/ Sleep
    PROVE  StepHolds
<1>1. now \in Nat /\ TypeOK
  BY TimeIs DEF IInv
<1>2. MAX_UPDATE_DELAY \in Nat /\ MaxTime \in Nat
  BY FinderAssumption, StreamingAssumption
<1>3. CASE Tick
  <2>1. /\ now < MaxTime /\ Event({}) /\ now' = now + 1
        /\ s' = s /\ live' = live
    BY <1>3 DEF Tick
  <2>2. env' = env /\ budget' \in 0 .. MaxEvents
    BY <1>1, <2>1, EventIs
  <2>3. now' \in Nat /\ now <= now' /\ now' <= MaxTime
    BY <1>1, <1>2, <2>1
  <2>. QED  BY <2>1, <2>2, <2>3, SameStep
<1>4. CASE Sleep
  <2>1. /\ now + MAX_UPDATE_DELAY + 1 <= MaxTime /\ Event({"Time", "Sleep"})
        /\ now' = now + MAX_UPDATE_DELAY + 1
        /\ s' = s /\ live' = live
    BY <1>4 DEF Sleep
  <2>2. env' = env /\ budget' \in 0 .. MaxEvents
    BY <1>1, <2>1, EventIs
  <2>3. now' \in Nat /\ now <= now' /\ now' <= MaxTime
    BY <1>1, <1>2, <2>1
  <2>. QED  BY <2>1, <2>2, <2>3, SameStep
<1>. QED  BY <1>3, <1>4

(* Nothing happens.                                                        *)
LEMMA StutterStep ==
    ASSUME IInv, UNCHANGED vars
    PROVE  StepHolds
<1>1. TypeOK /\ now \in Nat /\ now <= MaxTime
  BY TimeIs DEF IInv
<1>2. s' = s /\ live' = live /\ now' = now /\ env' = env /\ budget' = budget
  BY DEF vars
<1>3. budget' \in 0 .. MaxEvents /\ now' \in Nat /\ now <= now' /\ now' <= MaxTime
  BY <1>1, <1>2 DEF TypeOK
<1>. QED  BY <1>2, <1>3, SameStep

(* A timer that fires, and the auth provider. *)
LEMMA TimersAreDue ==
    ASSUME NEW due \in Timers
    PROVE  due \in Due(s.finder)
BY DEF Timers, Due

(* ... and the other way round.                                            *)
LEMMA DueAreTimers ==
    ASSUME NEW due \in Due(s.finder)
    PROVE  due \in Timers
BY DEF Timers, Due

(* The new token comes.                                                    *)
LEMMA TokenStep ==
    ASSUME IInv, NewToken
    PROVE  StepHolds
<1>1. s.tokenHandlers # <<>> /\ Event({}) /\ Handles(TokenReceived(s))
  BY DEF NewToken
<1>2. Serves(s, TokenReceived(s), now, env)
  BY <1>1, TimeIs, TokenServes
<1>. QED  BY <1>1, <1>2, HandlesIs

(* The same of a single kind.                                              *)
LEMMA KindEvent ==
    ASSUME IInv, NEW happens, NEW kind, Event(Kind(happens, kind)), happens
    PROVE  kind \in env
BY EventIs, KindIs DEF IInv

(* The timer of a retry.                                                   *)
LEMMA RetryStep ==
    ASSUME IInv, RetryTimeout
    PROVE  StepHolds
<1>1. PICK lost \in BOOLEAN, expired \in BOOLEAN :
        /\ MayFire(s, lost)
        /\ expired => s.connectionState = "DISCONNECTED"
        /\ Event(Kind(expired, "Expired"))
        /\ Handles(RetryFires(s, lost, expired))
  BY DEF RetryTimeout, MayFire
<1>2. expired => "Expired" \in env
  BY <1>1, KindEvent
<1>3. Serves(s, RetryFires(s, lost, expired), now, env)
  BY <1>1, <1>2, TimeIs, RetryServes
<1>. QED  BY <1>1, <1>3, HandlesIs

(* The timer of the orphan finder.                                         *)
LEMMA OrphanStep ==
    ASSUME IInv, NEW due \in Timers, OrphanTimeout(due)
    PROVE  StepHolds
<1>. DEFINE t == [s EXCEPT !.finder = TimerFires(@, due)]
<1>1. PICK breaks \in BOOLEAN :
        /\ breaks => MayBreak(t, now)
        /\ Event(Kind(breaks, "OrphanBreaks"))
        /\ Handles(UpdateFinder(t, now, breaks))
  BY DEF OrphanTimeout
<1>2. due <= now /\ due \in Due(s.finder)
  BY TimersAreDue DEF OrphanTimeout
<1>3. t.disposed = s.disposed /\ t.connection = s.connection
  BY TimeIs DEF Streamings
<1>4. breaks => ~s.disposed /\ Contract!MayTell(s.connection, "RECONNECTING")
  BY <1>1, <1>3 DEF MayBreak
<1>5. Serves(s, UpdateFinder(t, now, breaks), now, env)
  BY <1>2, <1>4, TimeIs, OrphanServes
<1>. QED  BY <1>1, <1>5, HandlesIs
-----------------------------------------------------------------------------
(* The consumer. *)
LEMMA CreateStep ==
    ASSUME IInv, Create
    PROVE  StepHolds
<1>. DEFINE during == Kind(s.isReset /\ s.connectionState = "CONNECTED", "CreateDuringReset")
            kinds == during \cup Kind(s.tagCalls # <<>>, "CreateDuringByTag")
                            \cup Kind(Len(s.all) > 1, "CreateMany")
<1>1. /\ ~s.disposed /\ Event(kinds) /\ Becomes(createSubscription(s))
      /\ live' = Append(live, {}) /\ now' = now
  BY DEF Create
<1>2. s.isReset /\ s.connectionState = "CONNECTED" => "CreateDuringReset" \in env
  <2>1. kinds \subseteq env
    BY <1>1, EventIs DEF IInv
  <2>2. during \subseteq env
    BY <2>1
  <2>. QED  BY <2>2, KindIs
<1>3. s' = Done(createSubscription(s))
  BY <1>1 DEF Becomes
<1>4. /\ Firm(s', now, env) /\ KeepsToOne(s, s', env) /\ Len(s.all) \in Nat
      /\ DOMAIN s.all = 1 .. Len(s.all) /\ DOMAIN s'.all = 1 .. Len(s.all) + 1
  <2>1. LET b == Done(createSubscription(s)) IN
        /\ Firm(b, now, env) /\ KeepsToOne(s, b, env) /\ Len(s.all) \in Nat
        /\ DOMAIN s.all = 1 .. Len(s.all) /\ DOMAIN b.all = 1 .. Len(s.all) + 1
    BY <1>1, <1>2, TimeIs, CreateServes
  <2>. QED  BY <1>3, <2>1
<1>5. live' \in [DOMAIN s'.all -> SUBSET Nat]
  <2>1. live \in [1 .. Len(s.all) -> SUBSET Nat]
    BY <1>4 DEF IInv, TypeOK
  <2>2. PICK n \in Nat : n = Len(s.all)
    BY <1>4
  <2>3. live \in Seq(SUBSET Nat) /\ Len(live) = n
    BY <2>1, <2>2
  <2>4. live' \in Seq(SUBSET Nat) /\ Len(live') = n + 1
    BY <1>1, <2>3
  <2>5. live' \in [1 .. n + 1 -> SUBSET Nat]
    BY <2>2, <2>4
  <2>. QED  BY <1>4, <2>2, <2>5
<1>6. env' = env /\ budget' \in 0 .. MaxEvents
  BY <1>1, EventIs DEF IInv
<1>7. s' \in Streamings
  BY <1>4, FirmParts
<1>8. TypeOK'
  BY <1>1, <1>5, <1>6, <1>7 DEF IInv, TypeOK
<1>. QED  BY <1>1, <1>4, <1>6, <1>8 DEF StepHolds, IInv

(* A subscription subscribes, unsubscribes or is disposed of.              *)
LEMMA SubscribeStep ==
    ASSUME IInv, NEW i \in DOMAIN s.all, Subscribe(i) \/ Unsubscribing(i) \/ Dispose(i)
    PROVE  StepHolds
<1>1. AllClean(s)
  BY TimeIs
<1>2. CASE Subscribe(i)
  <2>1. Event({"Resubscribe"}) /\ Handles(SubscribeEach(s, {i}))
    BY <1>2 DEF Subscribe, SubscribeEach
  <2>2. Gentle(s, SubscribeEach(s, {i}))
    BY <1>1, EachSubscribe
  <2>3. Serves(s, SubscribeEach(s, {i}), now, env)
    BY <1>1, <2>1, <2>2, GentleQuiet, QuietHandles
  <2>. QED  BY <2>1, <2>3, HandlesIs
<1>3. CASE Unsubscribing(i)
  <2>1. Event({"Unsubscribe"}) /\ Handles(UnsubscribeEach(s, {i}))
    BY <1>3 DEF Unsubscribing, UnsubscribeEach
  <2>2. Gentle(s, UnsubscribeEach(s, {i}))
    BY <1>1, EachUnsubscribe
  <2>3. Serves(s, UnsubscribeEach(s, {i}), now, env)
    BY <1>1, <2>1, <2>2, GentleQuiet, QuietHandles
  <2>. QED  BY <2>1, <2>3, HandlesIs
<1>4. CASE Dispose(i)
  <2>1. Event({"Dispose"}) /\ Handles(disposeSubscription(s, i))
    BY <1>4 DEF Dispose
  <2>2. Serves(s, disposeSubscription(s, i), now, env)
    BY <1>1, <2>1, DisposeSubscriptionIs, QuietHandles
  <2>. QED  BY <2>1, <2>2, HandlesIs
<1>. QED  BY <1>2, <1>3, <1>4

(* All of the tag are unsubscribed.                                        *)
LEMMA ByTagStep ==
    ASSUME IInv, NEW shouldDispose \in BOOLEAN, ByTag(shouldDispose)
    PROVE  StepHolds
<1>1. PICK kinds : Event(kinds)
  BY DEF ByTag
<1>2. Handles(unsubscribeSubscriptionByTag(s, shouldDispose))
  BY DEF ByTag
<1>3. Serves(s, unsubscribeSubscriptionByTag(s, shouldDispose), now, env)
  BY <1>1, TimeIs, ByTagIs, QuietHandles
<1>. QED  BY <1>1, <1>2, <1>3, HandlesIs

(* The consumer disconnects.                                               *)
LEMMA DisconnectStep ==
    ASSUME IInv, Disconnect
    PROVE  StepHolds
<1>. DEFINE kinds == {"Disconnect"} \cup Kind(IsStarting, "WhileStarting")
<1>1. ~s.disposed /\ Event(kinds) /\ Handles(disconnect(s))
  BY DEF Disconnect
<1>2. kinds \subseteq env
  BY <1>1, EventIs DEF IInv
<1>3. "Disconnect" \in env /\ (IsStarting => "WhileStarting" \in env)
  BY <1>2, KindIs
<1>4. Serves(s, disconnect(s), now, env)
  BY <1>1, <1>3, TimeIs, DisconnectServes DEF IsStarting
<1>. QED  BY <1>1, <1>4, HandlesIs

(* The consumer resets the streaming.                                      *)
LEMMA ResetStep ==
    ASSUME IInv, ResetStreaming
    PROVE  StepHolds
<1>1. PICK expired \in BOOLEAN, exhausted \in BOOLEAN :
        /\ ~s.disposed
        /\ Event({"ResetStreaming"} \cup Kind(IsStarting, "WhileStarting")
                                    \cup Kind(expired, "Expired")
                                    \cup Kind(exhausted, "Exhausted"))
        /\ Handles(resetStreaming(s, expired, exhausted))
  BY DEF ResetStreaming
<1>. DEFINE kinds == {"ResetStreaming"} \cup Kind(IsStarting, "WhileStarting")
                                        \cup Kind(expired, "Expired")
                                        \cup Kind(exhausted, "Exhausted")
<1>2. kinds \subseteq env
  BY <1>1, EventIs DEF IInv
<1>3. /\ "ResetStreaming" \in env /\ (IsStarting => "WhileStarting" \in env)
      /\ (expired => "Expired" \in env) /\ (exhausted => "Exhausted" \in env)
  BY <1>2, KindIs
<1>4. Serves(s, resetStreaming(s, expired, exhausted), now, env)
  BY <1>1, <1>3, TimeIs, ResetServes DEF IsStarting
<1>. QED  BY <1>1, <1>4, HandlesIs

(* The consumer disposes of the streaming.                                 *)
LEMMA DisposeStep ==
    ASSUME IInv, DisposeStreaming
    PROVE  StepHolds
<1>1. ~s.disposed /\ Event({"DisposeStreaming"}) /\ Handles(disposeStreaming(s))
  BY DEF DisposeStreaming
<1>2. Serves(s, disposeStreaming(s), now, env)
  BY <1>1, TimeIs, DisposeServes
<1>. QED  BY <1>1, <1>2, HandlesIs

(* Every step of the consumer.                                             *)
LEMMA ConsumerStep ==
    ASSUME IInv, Consumer
    PROVE  StepHolds
BY CreateStep, SubscribeStep, ByTagStep, DisconnectStep, ResetStep, DisposeStep
   DEF Consumer

-----------------------------------------------------------------------------
(* The server. *)
LEMMA ControlStep ==
    ASSUME IInv, ControlReconnect \/ ControlDisconnect \/ \E chosen : ControlReset(chosen)
    PROVE  StepHolds
<1>1. AllClean(s)
  BY TimeIs
<1>2. CASE ControlReconnect
  <2>1. /\ s.connection.told = "CONNECTED" /\ Event({"ControlReconnect"})
        /\ Handles(handleControlMessageReconnect(s))
    BY <1>2 DEF ControlReconnect, IsConnected
  <2>2. Serves(s, handleControlMessageReconnect(s), now, env)
    BY <2>1, TimeIs, ReconnectServes
  <2>. QED  BY <2>1, <2>2, HandlesIs
<1>3. CASE ControlDisconnect
  <2>1. Event({"ControlDisconnect"}) /\ Handles(AllUnavailable(s))
    BY <1>3 DEF ControlDisconnect
  <2>2. "ControlDisconnect" \in env
    BY <2>1, EventIs DEF IInv
  <2>3. Serves(s, AllUnavailable(s), now, env)
    BY <2>2, TimeIs, UnavailableServes
  <2>. QED  BY <2>1, <2>3, HandlesIs
<1>4. ASSUME NEW chosen, ControlReset(chosen)
      PROVE  StepHolds
  <2>1. Event({"ControlReset"}) /\ Handles(ResetEach(s, chosen))
    BY <1>4 DEF ControlReset, ResetEach
  <2>2. Gentle(s, ResetEach(s, chosen))
    BY <1>1, EachReset
  <2>3. Serves(s, ResetEach(s, chosen), now, env)
    BY <1>1, <2>1, <2>2, GentleQuiet, QuietHandles
  <2>. QED  BY <2>1, <2>3, HandlesIs
<1>. QED  BY <1>2, <1>3, <1>4

(* The server keeps a subscription alive.                                  *)
LEMMA HeartbeatStep ==
    ASSUME IInv, NEW i \in DOMAIN s.all, Heartbeat(i)
    PROVE  StepHolds
<1>1. /\ Event({}) /\ s' = [s EXCEPT !.all[i].latestActivity = now]
      /\ live' = live /\ now' = now
  BY DEF Heartbeat
<1>2. TypeOK /\ now \in Nat /\ Sound(s, now) /\ Control(s, env) /\ Telling(s, env)
  BY TimeIs DEF IInv, Firm
<1>3. env' = env /\ budget' \in 0 .. MaxEvents
  BY <1>1, <1>2, EventIs
<1>. DEFINE b == Beats(s, i, now)
<1>4. s' = b
  BY <1>1 DEF Beats
<1>5. /\ Sound(b, now) /\ Kept(s, b) /\ DOMAIN b.all = DOMAIN s.all
      /\ SameAvail(s, b)
  BY <1>2, HeartbeatIs
<1>. HIDE DEF b
<1>6. b \in Streamings /\ s \in Streamings
  BY <1>2, <1>5 DEF Sound, AllClean
<1>7. Control(b, env) /\ KeepsToOne(s, b, env)
  BY <1>2, <1>5, <1>6, KeptControl
<1>8. Telling(b, env)
  BY <1>2, <1>5, KeptTelling
<1>9. Firm(b, now, env)
  BY <1>5, <1>7, <1>8 DEF Firm
<1>10. live \in [DOMAIN b.all -> SUBSET Nat]
  BY <1>2, <1>5 DEF TypeOK
<1>11. IInv'
  BY <1>1, <1>2, <1>3, <1>4, <1>6, <1>9, <1>10 DEF IInv, TypeOK
<1>. QED  BY <1>3, <1>4, <1>7, <1>11 DEF StepHolds

(* The reference ids of a subscription are numbers. *)
LEMMA InFlightIs ==
    ASSUME s \in Streamings, NEW i \in DOMAIN s.all
    PROVE  /\ \A r \in DOMAIN s.all[i].sub.inFlight : r \in Nat
<1>1. s.all \in Seq(Entries)
  BY DEF Streamings
<1>2. s.all[i] \in Entries
  BY <1>1
<1>3. s.all[i].sub \in SubscriptionRecords
  BY <1>2 DEF Entries
<1>4. PICK S : s.all[i].sub.inFlight \in Seq(S)
  BY <1>3 DEF SubscriptionRecords
<1>. QED  BY <1>4

(* It answers a POST,                                                      *)
LEMMA SubscribedStep ==
    ASSUME IInv, NEW i \in DOMAIN s.all, NEW r \in DOMAIN s.all[i].sub.inFlight,
           Subscribed(i, r)
    PROVE  StepHolds
<1>1. PICK breaks \in BOOLEAN :
        /\ Waiting(i, r, "post")
        /\ breaks => MayBreak(s, now) /\ r = referenceId(s.all[i].sub)
        /\ Event(Kind(breaks, "OrphanBreaks"))
        /\ Becomes(SubscribeSucceeded(s, i, r, now, breaks))
        /\ live' = [live EXCEPT ![i] = @ \cup {r}]
        /\ now' = now
  BY DEF Subscribed
<1>2. s.all[i].sub.inFlight[r]["post"] > 0
  BY <1>1 DEF Waiting
<1>3. breaks => /\ r = referenceId(s.all[i].sub) /\ ~s.disposed
                /\ Contract!MayTell(s.connection, "RECONNECTING")
  BY <1>1 DEF MayBreak
<1>4. Serves(s, SubscribeSucceeded(s, i, r, now, breaks), now, env)
  BY <1>2, <1>3, TimeIs, SubscribedServes
<1>5. live' \in [DOMAIN s.all -> SUBSET Nat]
  <2>1. live \in [DOMAIN s.all -> SUBSET Nat]
    BY DEF IInv, TypeOK
  <2>2. r \in Nat
    BY TimeIs, InFlightIs
  <2>. QED  BY <1>1, <2>1, <2>2
<1>. QED  BY <1>1, <1>4, <1>5, BecomesIs

(* What a DELETE that may have failed leaves with the server.              *)
LEMMA DeletesStep ==
    ASSUME IInv, NEW t, Serves(s, t, now, env), Becomes(t), now' = now,
           NEW left \in [DOMAIN s.all -> SUBSET Nat], Deletes(left)
    PROVE  StepHolds
<1>1. PICK fails \in BOOLEAN :
        Event(Kind(fails, "DeleteFails")) /\ live' = IF fails THEN live ELSE left
  BY DEF Deletes
<1>2. live' \in [DOMAIN s.all -> SUBSET Nat]
  BY <1>1 DEF IInv, TypeOK
<1>. QED  BY <1>1, <1>2, BecomesIs

(* a DELETE,                                                               *)
LEMMA UnsubscribedStep ==
    ASSUME IInv, NEW i \in DOMAIN s.all, NEW r \in DOMAIN s.all[i].sub.inFlight,
           Unsubscribed(i, r)
    PROVE  StepHolds
<1>1. /\ Waiting(i, r, "delete")
      /\ Becomes(UnsubscribeAnswered(s, i, r))
      /\ Deletes([live EXCEPT ![i] = @ \ {r}])
      /\ now' = now
  BY DEF Unsubscribed
<1>2. s.all[i].sub.inFlight[r]["delete"] > 0
  BY <1>1 DEF Waiting
<1>3. Serves(s, UnsubscribeAnswered(s, i, r), now, env)
  BY <1>1, <1>2, TimeIs, UnsubscribeAnsweredQuiet, QuietServes
<1>4. [live EXCEPT ![i] = @ \ {r}] \in [DOMAIN s.all -> SUBSET Nat]
  BY DEF IInv, TypeOK
<1>. QED  BY <1>1, <1>3, <1>4, DeletesStep

(* and a DELETE by tag.                                                    *)
LEMMA ByTagAnsweredStep ==
    ASSUME IInv, NEW k \in DOMAIN s.tagCalls, ByTagAnswered(k)
    PROVE  StepHolds
<1>. DEFINE left == [i \in DOMAIN live |->
                        {r \in live[i] : s.all[i].contexts[r] # s.tagCalls[k].context}]
<1>1. Becomes(UnsubscribedByTag(s, k)) /\ now' = now /\ Deletes(left)
  BY DEF ByTagAnswered
<1>2. Serves(s, UnsubscribedByTag(s, k), now, env)
  BY <1>1, TimeIs, UnsubscribedByTagIs, QuietServes
<1>3. left \in [DOMAIN s.all -> SUBSET Nat]
  <2>1. live \in [DOMAIN s.all -> SUBSET Nat]
    BY DEF IInv, TypeOK
  <2>2. \A i \in DOMAIN s.all :
          {r \in live[i] : s.all[i].contexts[r] # s.tagCalls[k].context} \in SUBSET Nat
    BY <2>1
  <2>. QED  BY <2>1, <2>2
<1>. QED  BY <1>1, <1>2, <1>3, DeletesStep

(* Every step of the server.                                               *)
LEMMA ServerStep ==
    ASSUME IInv, Server
    PROVE  StepHolds
BY ControlStep, HeartbeatStep, SubscribedStep, UnsubscribedStep, ByTagAnsweredStep
   DEF Server

(* Every step keeps the invariant, and no step makes a second connection.  *)
LEMMA Step ==
    ASSUME IInv, [Next]_vars
    PROVE  StepHolds
BY ConnectionStep, ConsumerStep, ServerStep, TokenStep, RetryStep, TickStep,
   OrphanStep, StutterStep
   DEF Next

-----------------------------------------------------------------------------

(* A new streaming, that has been asked to connect.                        *)
LEMMA Initially ==
    ASSUME Init
    PROVE  IInv
<1>1. PICK expired \in BOOLEAN, exhausted \in BOOLEAN :
          /\ Kind(expired, "Expired") \cup Kind(exhausted, "Exhausted") \subseteq env
          /\ s = init(NewStreaming, expired, exhausted)
  BY DEF Init
<1>2. live = <<>> /\ now = 0 /\ budget = MaxEvents /\ env \in Environments
  BY DEF Init
<1>3. (expired => "Expired" \in env) /\ (exhausted => "Exhausted" \in env)
  BY <1>1, KindIs
<1>4. /\ AllClean(NewStreaming) /\ Clock(NewStreaming, 0) /\ Watched(NewStreaming)
      /\ NewStreaming.all = <<>> /\ NewStreaming.subscriptions = <<>>
  BY NewIs
<1>5. /\ Quietly(NewStreaming, s) /\ Listed(s) = Listed(NewStreaming)
      /\ Inits(NewStreaming, s, expired, exhausted)
  BY <1>1, <1>4, InitIs
<1>6. /\ AllClean(s) /\ Clock(s, 0)
  <2>1. Steady(NewStreaming, s)
    BY <1>5, QuietSteady
  <2>2. Clock(s, 0)
    BY <1>4, <2>1, SteadyClock
  <2>. QED  BY <2>1, <2>2 DEF Steady
<1>7. Watched(s)
  BY <1>4, <1>5, QuietWatched DEF AllClean
<1>8. DOMAIN s.all = {} /\ Listed(s) = {}
  <2>1. DOMAIN s.all = DOMAIN NewStreaming.all
    BY <1>5 DEF Quietly, Heard
  <2>2. DOMAIN NewStreaming.all = {} /\ DOMAIN NewStreaming.subscriptions = {}
    BY <1>4
  <2>. QED  BY <1>5, <2>1, <2>2 DEF Listed
<1>9. Sound(s, now)
  BY <1>2, <1>6, <1>7, <1>8 DEF Sound, NoneReady
<1>10. s \in Streamings
  BY <1>6 DEF AllClean
<1>11. Control(s, env)
  BY <1>3, <1>5, <1>10, InitControl
<1>12. Steadfast(env) => s.connection.told # "exhausted"
  <2>1. SUFFICES ASSUME Steadfast(env) PROVE s.connection.told # "exhausted"
    OBVIOUS
  <2>2. ~exhausted
    BY <1>3, <2>1 DEF Steadfast
  <2>3. Anew(exhausted) = Contract!NewPromise /\ Contract!NewPromise \in Contract!Promises
    BY <2>2, AnewType DEF Anew
  <2>4. /\ Contract!NewPromise.told = "none"
        /\ Contract!Start(Contract!NewPromise).told = "none"
    BY <2>3, AskType
  <2>5. s.connection \in {Contract!NewPromise, Contract!Start(Contract!NewPromise)}
    BY <1>5, <2>2, <2>3 DEF Inits
  <2>. QED  BY <2>4, <2>5
<1>13. Telling(s, env)
  BY <1>8, <1>12 DEF Telling, AllTold, OneOut
<1>14. TypeOK
  <2>1. live \in [{} -> SUBSET Nat]
    BY <1>2
  <2>2. now \in 0 .. MaxTime /\ budget \in 0 .. MaxEvents
    BY <1>2, StreamingAssumption
  <2>. QED  BY <1>2, <1>8, <1>10, <2>1, <2>2 DEF TypeOK
<1>. QED  BY <1>9, <1>11, <1>13, <1>14 DEF IInv, Firm

(* The invariant holds in every behaviour: whatever the connection, the    *)
(* server, the auth provider and the consumer do, in whatever order, the   *)
(* methods and callbacks of Streaming (streaming.js) leave the streaming   *)
(* in a state in which each of them can be called.                         *)
THEOREM Inductive == Spec => []IInv
<1>1. Init => IInv
  BY Initially
<1>2. IInv /\ [Next]_vars => IInv'
  BY Step DEF StepHolds
<1>. QED  BY <1>1, <1>2, PTL DEF Spec

(* Every variable has its type always: no call of Streaming, and none of   *)
(* its subscriptions, leaves a record the code could not have.             *)
THEOREM TypeCorrect == Spec => []TypeOK
<1>1. IInv => TypeOK
  BY DEF IInv
<1>. QED  BY <1>1, Inductive, PTL

(* Streaming starts a connection once and only one that is down, replaces  *)
(* none that is up, and starts nothing new once disposed of (connect,      *)
(* startConnection, init and retryConnection of streaming.js), unless a    *)
(* call cuts into a start.                                                 *)
THEOREM OneUp == Spec => OneConnection
<1>1. IInv /\ [Next]_vars =>
      [/\ OneStartAtATime =>
              /\ s'.contextId # s.contextId =>
                     /\ s'.contextId = s.contextId + 1
                     /\ AtRest(s.connection) \/ s'.replaced # s.replaced
              /\ s'.replaced # s.replaced => AtRest(s'.former)
       /\ s.disposed => Starts(s') + s'.contextId <= Starts(s) + s.contextId]_vars
  <2>1. SUFFICES ASSUME IInv, [Next]_vars
                 PROVE  /\ OneStartAtATime =>
                              /\ s'.contextId # s.contextId =>
                                     /\ s'.contextId = s.contextId + 1
                                     /\ AtRest(s.connection) \/ s'.replaced # s.replaced
                              /\ s'.replaced # s.replaced => AtRest(s'.former)
                        /\ s.disposed =>
                              Starts(s') + s'.contextId <= Starts(s) + s.contextId
    OBVIOUS
  <2>2. KeepsToOne(s, s', env)
    BY <2>1, Step DEF StepHolds
  <2>3. OneStartAtATime => OneAtATime(env)
    BY DEF OneStartAtATime, Without, OneAtATime, Uncut
  <2>. QED  BY <2>2, <2>3 DEF KeepsToOne
<1>. QED  BY <1>1, Inductive, PTL DEF Spec, OneConnection

(* A connection that is down and can be started is in the hands of a retry *)
(* or of a start that waits for its token: no order of retries, resets,    *)
(* refused connects and tokens drops it (onConnectionStateChanged,         *)
(* retryConnection and resetStreaming of streaming.js).                    *)
THEOREM DownIsStarted == Spec => []NeverAbandoned
<1>1. IInv => NeverAbandoned
  <2>1. SUFFICES ASSUME IInv, Without({"WhileStarting", "Overtaken", "FormerFails"}),
                        ~s.disposed, IsDown(s.connection)
                 PROVE  WillStart
    BY DEF NeverAbandoned
  <2>2. s \in Streamings /\ Control(s, env)
    BY <2>1, TimeIs
  <2>3. Uncut(env) /\ "FormerFails" \notin env
    BY <2>1 DEF Without, Uncut
  <2>4. /\ s.connection.asked \in {"created", "stopped", "down"}
        /\ \/ s.connection.told = "DISCONNECTED"
           \/ s.connection.told = "none" /\ s.connection.asked = "created"
    BY <2>1 DEF IsDown, Contract!MayStart
  <2>5. s.connection.told = "DISCONNECTED" => s.connectionState = "DISCONNECTED"
    BY <2>2, <2>3, ReportedStates DEF Control, Heeds
  <2>6. LeftDown(s)
    BY <2>1, <2>4, <2>5 DEF LeftDown
  <2>7. TakenUp(s)
    BY <2>2, <2>3, <2>6 DEF Control, Handed
  <2>8. s.tokenHandlers # <<>> => \E j \in DOMAIN s.tokenHandlers : TRUE
    <3>1. s.tokenHandlers \in Seq(BOOLEAN)
      BY <2>2, ControlTypes
    <3>2. DOMAIN s.tokenHandlers = 1 .. Len(s.tokenHandlers) /\ Len(s.tokenHandlers) \in Nat
          /\ (s.tokenHandlers = <<>> <=> Len(s.tokenHandlers) = 0)
      BY <3>1, TokenTypes
    <3>3. Len(s.tokenHandlers) # 0 => 1 \in DOMAIN s.tokenHandlers
      BY <3>2
    <3>. QED  BY <3>2, <3>3
  <2>. QED  BY <2>7, <2>8 DEF TakenUp, WillStart
<1>. QED  BY <1>1, Inductive, PTL

(* While the connection is there every listed subscription has been told   *)
(* so, and while it is down or reconnecting none believes it is there (the *)
(* loops of onConnectionStateChanged, resetStreaming and                   *)
(* createSubscription in streaming.js).  Where the consumer disposes of a  *)
(* subscription while the loop of "CONNECTED" walks the array, the loop    *)
(* may pass over one neighbour, and over no more than that one.            *)
THEOREM AllAreInformed == Spec => []Informed
<1>1. IInv => Informed
  <2>1. SUFFICES ASSUME IInv PROVE Informed
    OBVIOUS
  <2>2. Telling(s, env)
    BY <2>1, TimeIs
  <2>3. ASSUME Without({"ControlDisconnect"}),
               s.connectionState = "CONNECTED" /\ ~s.isReset
        PROVE  /\ Without({"DisposeInCallback"}) => LeftOut = {}
               /\ \A i, j \in LeftOut : i = j
    <3>1. OneOut(s) /\ ("DisposeInCallback" \notin env => AllTold(s, TRUE))
      BY <2>2, <2>3 DEF Telling, Without, IsThere
    <3>2. Without({"DisposeInCallback"}) => LeftOut = {}
      BY <3>1 DEF Without, AllTold, LeftOut
    <3>3. \A i, j \in LeftOut : i = j
      BY <3>1 DEF OneOut, LeftOut
    <3>. QED  BY <3>2, <3>3
  <2>4. ASSUME Without({"Exhausted", "FormerFails", "CreateDuringReset"}),
               s.connectionState \in {"DISCONNECTED", "RECONNECTING"}
        PROVE  LeftOut = Listed(s)
    <3>1. AllTold(s, FALSE)
      BY <2>2, <2>4 DEF Telling, Without, IsGone, Steadfast
    <3>. QED  BY <3>1 DEF AllTold, LeftOut
  <2>. QED  BY <2>3, <2>4 DEF Informed
<1>. QED  BY <1>1, Inductive, PTL

(* While the orphan finder runs, one of its timers is due by the time each *)
(* subscribed subscription is orphaned, or by the end of the start delay   *)
(* (streaming-orphan-finder.js as Streaming uses it): no order of updates, *)
(* stops and starts loses a subscription.                                  *)
THEOREM OrphansAreFound == Spec => []OrphansWillBeFound
<1>1. IInv => OrphansWillBeFound
  <2>1. SUFFICES ASSUME IInv, s.finder.enabled, NEW i \in Listed(s),
                        At(timeTillOrphaned(s.all[i], now), now) # Infinity,
                        s.all[i].sub.currentState = STATE_SUBSCRIBED
                 PROVE  \E due \in Timers :
                            \/ due <= At(timeTillOrphaned(s.all[i], now), now)
                            \/ due <= s.finder.minCheckTime
    BY DEF OrphansWillBeFound
  <2>2. AllClean(s) /\ Watched(s) /\ now \in Nat
    BY <2>1, TimeIs
  <2>3. s.all[i] \in Entries
    <3>1. i \in DOMAIN s.all /\ s.all \in Seq(Entries)
      BY <2>1, <2>2 DEF AllClean, Streamings
    <3>. QED  BY <3>1
  <2>4. /\ s.all[i].latestActivity \in Nat /\ s.all[i].inactivityTimeout \in Nat
    BY <2>3 DEF Entries
  <2>5. timeTillOrphaned(s.all[i], now) # Infinity
    BY <2>1 DEF At
  <2>6. s.all[i].sub.connectionAvailable /\ s.all[i].inactivityTimeout # 0
    BY <2>5 DEF timeTillOrphaned
  <2>7. timeTillOrphaned(s.all[i], now)
            = s.all[i].inactivityTimeout - (now - s.all[i].latestActivity)
    BY <2>1, <2>2, <2>3, <2>6, TimeLeft
  <2>8. At(timeTillOrphaned(s.all[i], now), now)
            = s.all[i].latestActivity + s.all[i].inactivityTimeout
    <3>1. At(timeTillOrphaned(s.all[i], now), now) = now + timeTillOrphaned(s.all[i], now)
      BY <2>5 DEF At
    <3>. QED  BY <2>2, <2>4, <2>7, <3>1
  <2>9. PICK due \in Due(s.finder) :
            \/ due <= s.all[i].latestActivity + s.all[i].inactivityTimeout
            \/ due <= s.finder.minCheckTime
    BY <2>1, <2>2, <2>6 DEF Watched
  <2>10. due \in Timers
    BY DueAreTimers
  <2>. QED  BY <2>8, <2>9, <2>10
<1>. QED  BY <1>1, Inductive, PTL
=============================================================================
