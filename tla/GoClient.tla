------------------------------ MODULE GoClient ------------------------------
(***************************************************************************)
(* The echo client in Go: a robot (main.go) that connects, with retries,   *)
(* and then sends one request after the other, and the read loops that     *)
(* Connect starts.  Every attempt starts a loop of its own; none is ever   *)
(* stopped, and all of them read the connection that c.conn names when     *)
(* they turn to it, into one framing state.                                *)
(*                                                                         *)
(* A package travels in two pieces, its head and its body, and a read may  *)
(* end after any of them.  The heartbeat timers are not in this module:    *)
(* they only write, and log.  The server is external.                      *)
(***************************************************************************)
EXTENDS Integers, Sequences

CONSTANTS
    MaxRetries,   \* maxRetries
    MaxRequests   \* bound: requests of the robot

ASSUME ClientAssumption == {MaxRetries, MaxRequests} \subseteq Nat \ {0}

Conns == 1 .. MaxRetries       \* the connection of an attempt, and its loop
Requests == 1 .. MaxRequests
NoConn == 0

VARIABLES
    at,            \* the robot's goroutine, see Robot
    attempt,       \* i + 1 in runRobot
    conn,          \* c.conn
    netState,      \* c.netState
    reqId,         \* c.reqId
    callbacks,     \* the keys of c.callbacks
    delivered,     \* requests whose callback has sent to their resultChan
    outcome,       \* what Request has returned
    handshakeChan, \* c.handshakeChan: whether the response's code is OK
    errorChan,     \* the length of c.errorChan
    frame,         \* the framing state of the read loops, see Frames
    loop,          \* a read loop, see LoopAt
    reading,       \* the connection its Read was called on
    chunk,         \* what it has read and not handled
    resp,          \* the handshake response it hands over
    up,            \* the server has not closed the connection
    wire,          \* pieces on their way to the client
    greeted,       \* connections whose handshake the server has answered
    asked          \* what the server has received and not answered

robot == <<at, attempt, conn, netState, reqId, outcome>>
shared == <<callbacks, delivered, handshakeChan, errorChan>>
reader == <<frame, loop, reading, chunk, resp>>
server == <<up, wire, greeted, asked>>
vars == <<robot, shared, reader, server>>

Robot == {"dial", "hello", "shake", "agree", "ready", "register", "wait", "gave up"}
LoopAt == {"none", "read", "await", "parse", "push", "done"}

Responses == [type : {"handshake"}, ok : BOOLEAN]
Answers == [type : {"answer"}, id : Requests]
Packages == Responses \cup Answers
Pieces == [pkg : Packages, part : {"head", "body"}]

\* Between two packages; head read; body read but not handled yet; or out of
\* step, when body bytes are taken for a head or the other way round.  Then
\* the type is none of the five or the size is that of several megabytes, and
\* the client handles no package any more.
Between == [at |-> "head"]
Lost == [at |-> "lost"]
Frames == [at : {"body", "full"}, pkg : Packages] \cup {Between, Lost}

Init ==
    /\ at = "dial" /\ attempt = 0 /\ conn = NoConn /\ netState = "Inited"
    /\ reqId = 0
    /\ callbacks = {} /\ delivered = {}
    /\ outcome = [q \in Requests |-> "none"]
    /\ handshakeChan = <<>> /\ errorChan = 0
    /\ frame = Between
    /\ loop = [l \in Conns |-> "none"]
    /\ reading = [l \in Conns |-> NoConn]
    /\ chunk = [l \in Conns |-> <<>>]
    /\ resp = [l \in Conns |-> FALSE]
    /\ up = [c \in Conns |-> FALSE]
    /\ wire = [c \in Conns |-> <<>>]
    /\ greeted = {}
    /\ asked = [c \in Conns |-> {}]

-----------------------------------------------------------------------------
(* Connect and the retries around it *)

\* A failed attempt leaves its connection open and its read loop running.
Retry == at' = IF attempt < MaxRetries THEN "dial" ELSE "gave up"

Dial ==
    /\ at = "dial"
    /\ attempt' = attempt + 1
    /\ \/ /\ at' = "hello"
          /\ conn' = attempt'
          /\ netState' = "Inited"
          /\ up' = [up EXCEPT ![attempt'] = TRUE]
       \/ /\ at' = IF attempt' < MaxRetries THEN "dial" ELSE "gave up"
          /\ UNCHANGED <<conn, netState, up>>
    /\ UNCHANGED <<reqId, outcome, shared, reader, wire, greeted, asked>>

\* Write succeeds, or fails on a connection that the server has closed.
MayFail == ~up[conn]

\* Mutant of Hello: only the first attempt starts a read loop.
HelloOneLoop ==
    /\ at = "hello"
    /\ \/ /\ at' = "shake"
          /\ loop' = [loop EXCEPT ![1] = IF @ = "none" THEN "read" ELSE @]
       \/ /\ MayFail
          /\ Retry
          /\ UNCHANGED loop
    /\ UNCHANGED <<attempt, conn, netState, reqId, outcome, shared, frame, reading,
                   chunk, resp, server>>

Hello ==
    /\ at = "hello"
    /\ \/ /\ at' = "shake"
          /\ loop' = [loop EXCEPT ![attempt] = "read"]
       \/ /\ MayFail
          /\ Retry
          /\ UNCHANGED loop
    /\ UNCHANGED <<attempt, conn, netState, reqId, outcome, shared, frame, reading,
                   chunk, resp, server>>

\* Whichever response is in the channel, of this attempt or of an earlier one.
TakeHandshake ==
    /\ at = "shake"
    /\ handshakeChan # <<>>
    /\ handshakeChan' = Tail(handshakeChan)
    /\ IF Head(handshakeChan) THEN at' = "agree" ELSE Retry
    /\ UNCHANGED <<attempt, conn, netState, reqId, outcome, callbacks, delivered,
                   errorChan, reader, server>>

TakeError ==
    /\ at = "shake"
    /\ errorChan > 0
    /\ errorChan' = errorChan - 1
    /\ Retry
    /\ UNCHANGED <<attempt, conn, netState, reqId, outcome, callbacks, delivered,
                   handshakeChan, reader, server>>

HandshakeTimeout ==
    /\ at = "shake"
    /\ Retry
    /\ UNCHANGED <<attempt, conn, netState, reqId, outcome, shared, reader, server>>

SendAck ==
    /\ at = "agree"
    /\ \/ at' = "ready" /\ netState' = "Working"
       \/ MayFail /\ Retry /\ UNCHANGED netState
    /\ UNCHANGED <<attempt, conn, reqId, outcome, shared, reader, server>>

-----------------------------------------------------------------------------
(* Request *)

\* The robot asks once a second, one request after the other.
MayAsk == at = "ready" /\ reqId < MaxRequests

SendRequest ==
    /\ MayAsk
    /\ reqId' = reqId + 1
    /\ \/ /\ at' = "register"
          /\ asked' = [asked EXCEPT ![conn] = IF up[conn] THEN @ \cup {reqId'} ELSE @]
          /\ UNCHANGED outcome
       \/ /\ MayFail
          /\ outcome' = [outcome EXCEPT ![reqId'] = "error"]
          /\ UNCHANGED <<at, asked>>
    /\ UNCHANGED <<attempt, conn, netState, shared, reader, up, wire, greeted>>

\* The callback is registered only after the request has been written.
Register ==
    /\ at = "register"
    /\ at' = "wait"
    /\ callbacks' = callbacks \cup {reqId}
    /\ UNCHANGED <<attempt, conn, netState, reqId, outcome, delivered, handshakeChan,
                   errorChan, reader, server>>

Return(how) ==
    /\ at = "wait"
    /\ at' = "ready"
    /\ outcome' = [outcome EXCEPT ![reqId] = how]
    /\ UNCHANGED <<attempt, conn, netState, reqId, delivered, handshakeChan, reader, server>>

ReturnAnswer ==
    /\ reqId \in delivered
    /\ Return("answer")
    /\ UNCHANGED <<callbacks, errorChan>>

\* The callback stays registered.
ReturnError ==
    /\ errorChan > 0
    /\ errorChan' = errorChan - 1
    /\ Return("error")
    /\ UNCHANGED callbacks

\* Mutant of RequestTimeout: the callback stays registered.
RequestTimeoutOnly ==
    /\ Return("timeout")
    /\ UNCHANGED <<callbacks, errorChan>>

RequestTimeout ==
    /\ callbacks' = callbacks \ {reqId}
    /\ Return("timeout")
    /\ UNCHANGED errorChan

-----------------------------------------------------------------------------
(* readLoop *)

\* c.conn is evaluated for every Read.
CallRead(l) ==
    /\ loop[l] = "read"
    /\ loop' = [loop EXCEPT ![l] = "await"]
    /\ reading' = [reading EXCEPT ![l] = conn]
    /\ UNCHANGED <<robot, shared, frame, chunk, resp, server>>

Receive(l) ==
    LET c == reading[l] IN
    /\ loop[l] = "await"
    /\ \E n \in 1 .. Len(wire[c]) :
          /\ chunk' = [chunk EXCEPT ![l] = SubSeq(wire[c], 1, n)]
          /\ wire' = [wire EXCEPT ![c] = SubSeq(@, n + 1, Len(@))]
    /\ loop' = [loop EXCEPT ![l] = "parse"]
    /\ UNCHANGED <<robot, shared, frame, reading, resp, up, greeted, asked>>

\* Mutant of ReadFails: the end of the stream does not end the loop.
ReadFailsAndGoesOn(l) ==
    /\ loop[l] = "await"
    /\ ~up[reading[l]] /\ wire[reading[l]] = <<>>
    /\ loop' = [loop EXCEPT ![l] = "read"]
    /\ UNCHANGED <<robot, shared, frame, reading, chunk, resp, server>>

\* The end of the stream ends the loop silently, a reset is reported.
ReadFails(l) ==
    /\ loop[l] = "await"
    /\ ~up[reading[l]] /\ wire[reading[l]] = <<>>
    /\ loop' = [loop EXCEPT ![l] = "done"]
    /\ errorChan' \in {errorChan, errorChan + 1}
    /\ UNCHANGED <<robot, callbacks, delivered, handshakeChan, frame, reading, chunk, resp,
                   server>>

Piece(l) == Head(chunk[l])
Consume(l) == chunk' = [chunk EXCEPT ![l] = Tail(@)]

ReadHead(l) ==
    /\ loop[l] = "parse" /\ chunk[l] # <<>>
    /\ frame = Between /\ Piece(l).part = "head"
    /\ frame' = [at |-> "body", pkg |-> Piece(l).pkg]
    /\ Consume(l)
    /\ UNCHANGED <<robot, shared, loop, reading, resp, server>>

OutOfStep(l) ==
    \/ frame = Lost
    \/ frame = Between /\ Piece(l).part = "body"
    \/ frame.at = "body" /\ Piece(l) # [pkg |-> frame.pkg, part |-> "body"]

LoseStep(l) ==
    /\ loop[l] = "parse" /\ chunk[l] # <<>>
    /\ OutOfStep(l)
    /\ frame' = Lost
    /\ Consume(l)
    /\ UNCHANGED <<robot, shared, loop, reading, resp, server>>

\* The package that readBody finds complete: the one whose last bytes this
\* loop has, or one that another loop is still handling.
Complete(l) ==
    \/ frame.at = "body" /\ Piece(l) = [pkg |-> frame.pkg, part |-> "body"] /\ Consume(l)
    \/ frame.at = "full" /\ UNCHANGED chunk

ReadBody(l) ==
    /\ loop[l] = "parse" /\ chunk[l] # <<>>
    /\ Complete(l)
    /\ UNCHANGED <<reading, robot, errorChan, handshakeChan, server>>

\* handleHandshake: the loop waits for room in the channel, before reset().
ReadResponse(l) ==
    /\ ReadBody(l)
    /\ frame.pkg.type = "handshake" /\ netState = "Inited"
    /\ frame' = [frame EXCEPT !.at = "full"]
    /\ loop' = [loop EXCEPT ![l] = "push"]
    /\ resp' = [resp EXCEPT ![l] = frame'.pkg.ok]
    /\ UNCHANGED <<callbacks, delivered>>

PushResponse(l) ==
    /\ loop[l] = "push"
    /\ Len(handshakeChan) < 1
    /\ handshakeChan' = Append(handshakeChan, resp[l])
    /\ frame' = Between
    /\ loop' = [loop EXCEPT ![l] = "parse"]
    /\ UNCHANGED <<robot, callbacks, delivered, errorChan, reading, chunk, resp, server>>

\* A package that netState does not call for.
Ignore(l) ==
    /\ ReadBody(l)
    /\ netState # (IF frame.pkg.type = "handshake" THEN "Inited" ELSE "Working")
    /\ frame' = Between
    /\ UNCHANGED <<loop, resp, callbacks, delivered>>

\* handleData: the callback is taken out under callbackMutex, then called.  An
\* answer without a callback is dropped.
ReadAnswer(l) ==
    /\ ReadBody(l)
    /\ frame.pkg.type = "answer" /\ netState = "Working"
    /\ frame' = Between
    /\ callbacks' = callbacks \ {frame.pkg.id}
    /\ delivered' = delivered \cup ({frame.pkg.id} \cap callbacks)
    /\ UNCHANGED <<loop, resp>>

NextRead(l) ==
    /\ loop[l] = "parse" /\ chunk[l] = <<>>
    /\ loop' = [loop EXCEPT ![l] = "read"]
    /\ UNCHANGED <<robot, shared, frame, reading, chunk, resp, server>>

-----------------------------------------------------------------------------
(* The server, as far as the client can tell *)

Send(c, pkg) ==
    wire' = [wire EXCEPT ![c] = @ \o <<[pkg |-> pkg, part |-> "head"], [pkg |-> pkg, part |-> "body"]>>]

Greet(c) ==
    /\ up[c] /\ loop[c] # "none" /\ c \notin greeted
    /\ greeted' = greeted \cup {c}
    /\ \E r \in Responses : Send(c, r)
    /\ UNCHANGED <<robot, shared, reader, up, asked>>

Answer(c) ==
    /\ up[c]
    /\ \E q \in asked[c] :
          /\ asked' = [asked EXCEPT ![c] = @ \ {q}]
          /\ Send(c, [type |-> "answer", id |-> q])
    /\ UNCHANGED <<robot, shared, reader, up, greeted>>

HangUp(c) ==
    /\ up[c]
    /\ up' = [up EXCEPT ![c] = FALSE]
    /\ UNCHANGED <<robot, shared, reader, wire, greeted, asked>>

-----------------------------------------------------------------------------
RobotNext ==
    \/ Dial \/ Hello \/ TakeHandshake \/ TakeError \/ HandshakeTimeout \/ SendAck
    \/ SendRequest \/ Register \/ ReturnAnswer \/ ReturnError \/ RequestTimeout

LoopNext(l) ==
    \/ CallRead(l) \/ Receive(l) \/ ReadFails(l) \/ ReadHead(l) \/ LoseStep(l)
    \/ ReadResponse(l) \/ PushResponse(l) \/ Ignore(l) \/ ReadAnswer(l) \/ NextRead(l)

Next ==
    \/ RobotNext
    \/ \E l \in Conns : LoopNext(l)
    \/ \E c \in Conns : Greet(c) \/ Answer(c) \/ HangUp(c)

Spec == Init /\ [][Next]_vars

\* Goroutines are scheduled; select takes what is ready, and a timer fires.  The
\* server owes nothing.
FairSpec == Spec /\ WF_vars(RobotNext) /\ \A l \in Conns : WF_vars(LoopNext(l))

-----------------------------------------------------------------------------
(* Properties *)

(* The variables keep the types of the fields they stand for. *)
TypeOK ==
    /\ at \in Robot
    /\ attempt \in 0 .. MaxRetries /\ conn \in 0 .. MaxRetries
    /\ netState \in {"Inited", "Working"}
    /\ reqId \in 0 .. MaxRequests
    /\ callbacks \subseteq Requests /\ delivered \subseteq Requests
    /\ outcome \in [Requests -> {"none", "answer", "error", "timeout"}]
    /\ handshakeChan \in Seq(BOOLEAN) /\ errorChan \in Nat
    /\ frame \in Frames
    /\ loop \in [Conns -> LoopAt]
    /\ reading \in [Conns -> 0 .. MaxRetries]
    /\ chunk \in [Conns -> Seq(Pieces)]
    /\ resp \in [Conns -> BOOLEAN]
    /\ up \in [Conns -> BOOLEAN]
    /\ wire \in [Conns -> Seq(Pieces)]
    /\ greeted \subseteq Conns
    /\ asked \in [Conns -> SUBSET Requests]

Connected == at \in {"ready", "register", "wait"}

(* While the connection of a robot that got connected at its first or      *)
(* second attempt is up, a read loop is on its way to read it, whatever    *)
(* the other attempt has left behind.  From the third attempt on all loops *)
(* may be waiting for room in a handshakeChan that nobody reads any more.  *)
SomebodyReads ==
    attempt <= 2 /\ Connected /\ up[conn] =>
        \E l \in Conns :
            \/ loop[l] \in {"read", "parse"}
            \/ loop[l] = "push" /\ handshakeChan = <<>>
            \/ loop[l] = "await" /\ reading[l] = conn

(* A callback belongs to the request that waits, or to one that an error   *)
(* of a read loop has ended: those are forgotten.                          *)
CallbacksHaveOwners ==
    \A q \in callbacks : (at = "wait" /\ q = reqId) \/ outcome[q] = "error"

(* No goroutine is left for good: when the robot makes no more attempts    *)
(* and the server has closed every connection, each loop ends, but for     *)
(* those with a handshake response that the robot will not take.           *)
LoopsEnd ==
    ((Connected \/ at = "gave up") /\ \A c \in Conns : ~up[c])
        ~> \A l \in Conns : loop[l] \in {"none", "push", "done"}

=============================================================================
