----------------------------- MODULE GoSession -----------------------------
(***************************************************************************)
(* One session of the Go echo server (echo/server-go): the goroutine that  *)
(* reads the connection and processes its packages, the heartbeat          *)
(* goroutines that the acknowledgements start, and the Close() they share, *)
(* against a client that may send any package at any time and hang up.     *)
(*                                                                         *)
(* One unit of time is the heartbeat interval of handleHandshake.  A panic *)
(* in any goroutine ends the process.                                      *)
(***************************************************************************)
EXTENDS Naturals, Sequences

CONSTANTS
    Beats,         \* names for the heartbeat goroutines that can live at once
    Timeout,       \* heartbeatTimeout, in heartbeat intervals
    ReadDeadline,  \* the read deadline of Start, in heartbeat intervals
    MaxSent        \* bound: packages the client sends

ASSUME TimesAssumption == Timeout \in Nat /\ ReadDeadline \in Nat /\ MaxSent \in Nat

VARIABLES
    wire,        \* packages sent and not yet read from the connection
    hungUp,      \* the client has closed its end
    dataBuf,     \* complete packages read and not yet processed
    state,       \* s.state
    interval,    \* s.heartbeatInterval, in intervals
    age,         \* time since s.lastHeartbeat, up to Timeout + 1
    closeChan,   \* s.closeChan is closed
    connClosed,  \* s.conn is closed
    reader,      \* where the goroutine of Start is
    idle,        \* time since the read deadline was set, up to ReadDeadline
    beat,        \* where each heartbeat goroutine is
    due,         \* the ticker of each has a tick in its channel
    seen,        \* the state and the age each read under the lock
    panicked,    \* a goroutine has panicked: the process is gone
    sent,        \* history: how many packages the client sent
    asked,       \* history: how many of them were requests
    replies,     \* history: the requests answered on the open connection
    manners      \* history: how the client has kept to the protocol so far

sessionVars == <<state, interval, age, closeChan, connClosed>>
beatVars == <<beat, due, seen>>
clientVars == <<hungUp, sent, asked, manners>>
vars == <<wire, hungUp, dataBuf, state, interval, age, closeChan, connClosed, reader, idle,
          beat, due, seen, panicked, sent, asked, replies, manners>>

States == {"Inited", "WaitAck", "Working", "Closed"}

(***************************************************************************)
(* Packages.  A request has the number the client gave it; "hello" has a   *)
(* JSON object for a body, "null" a body that decodes to a nil map,        *)
(* "other" a route nobody registered.  "notify" and "bad" are data that is *)
(* logged only: a notification and a message that does not decode.         *)
(***************************************************************************)
Controls == {"handshake", "ack", "heartbeat", "kick"}
Requests == {"hello", "null", "other"}
Datas == Requests \cup {"notify", "bad"}
Packages == [type : Controls \cup Datas, id : 0..MaxSent]

NewSession ==
    /\ state = "Inited" /\ interval = 0 /\ age = 0
    /\ closeChan = FALSE /\ connClosed = FALSE

Init ==
    /\ NewSession
    /\ wire = <<>> /\ dataBuf = <<>> /\ hungUp = FALSE
    /\ reader = "select" /\ idle = 0
    /\ beat = [b \in Beats |-> "done"]
    /\ due = [b \in Beats |-> FALSE]
    /\ seen = [b \in Beats |-> [state |-> "Inited", age |-> 0]]
    /\ panicked = FALSE
    /\ sent = 0 /\ asked = 0 /\ replies = <<>>
    /\ manners = "new"

-----------------------------------------------------------------------------
(* The client. *)

(* A client that keeps to the protocol shakes hands, acknowledges, and     *)
(* from then on sends heartbeats and data with proper bodies.              *)
MannersAfter(type) ==
    CASE manners = "new" /\ type = "handshake" -> "shaken"
      [] manners = "shaken" /\ type = "ack" -> "polite"
      [] manners = "polite" /\ type \in {"heartbeat", "hello", "other", "notify", "bad"} -> "polite"
      [] OTHER -> "rude"

ClientSend ==
    /\ ~hungUp /\ sent < MaxSent
    /\ \E type \in Controls \cup Datas :
         LET number == IF type \in Requests THEN asked + 1 ELSE 0 IN
         /\ wire' = Append(wire, [type |-> type, id |-> number])
         /\ asked' = IF type \in Requests THEN asked + 1 ELSE asked
         /\ manners' = MannersAfter(type)
    /\ sent' = sent + 1
    /\ UNCHANGED <<hungUp, dataBuf, sessionVars, reader, idle, beatVars, panicked, replies>>

ClientHangUp ==
    /\ ~hungUp
    /\ hungUp' = TRUE
    /\ UNCHANGED <<wire, dataBuf, sessionVars, reader, idle, beatVars, panicked,
                   sent, asked, replies, manners>>

-----------------------------------------------------------------------------
(* Close() in two steps: its locked part decides who closes the channel,   *)
(* and closing a closed channel panics.  Each takes where the caller is    *)
(* next as a condition on its own program counter.                         *)

(* Mutant: Close() without its early return. *)
CloseAgain == state' = "Closed" /\ UNCHANGED <<interval, age, closeChan, connClosed>>

CloseLocked == state # "Closed" /\ state' = "Closed" /\ UNCHANGED <<interval, age, closeChan, connClosed>>

AlreadyClosed == state = "Closed" /\ UNCHANGED sessionVars

CloseChannel ==
    /\ panicked' = closeChan
    /\ closeChan' = TRUE
    /\ connClosed' = (connClosed \/ ~closeChan)
    /\ UNCHANGED <<state, interval, age>>

(* Mutant: an answer is written twice. *)
ReplyTwice(id) == replies' = IF connClosed THEN replies ELSE replies \o <<id, id>>

(* send(): conn.Write, whose error is ignored. *)
Reply(id) == replies' = IF connClosed THEN replies ELSE Append(replies, id)

-----------------------------------------------------------------------------
(* The goroutine of Start. *)

ReaderSelect ==
    /\ reader = "select" /\ ~panicked
    /\ reader' = IF closeChan THEN "deferred" ELSE "read"
    /\ idle' = 0
    /\ UNCHANGED <<wire, dataBuf, sessionVars, beatVars, clientVars, panicked, replies>>

(* A read delivers any number of the complete packages that have arrived; *)
(* the inner loop runs until the buffer holds none.                        *)
ReaderRead ==
    /\ reader = "read" /\ ~panicked /\ ~connClosed
    /\ \E n \in 1..Len(wire) :
         /\ dataBuf' = SubSeq(wire, 1, n)
         /\ wire' = SubSeq(wire, n + 1, Len(wire))
    /\ reader' = "package"
    /\ UNCHANGED <<sessionVars, idle, beatVars, clientVars, panicked, replies>>

(* Mutant: a read without a deadline. *)
ReaderErrorNoDeadline ==
    /\ reader = "read" /\ ~panicked
    /\ connClosed \/ (hungUp /\ wire = <<>>)
    /\ reader' = "deferred"
    /\ UNCHANGED <<wire, dataBuf, sessionVars, idle, beatVars, clientVars, panicked, replies>>

ReaderError ==
    /\ reader = "read" /\ ~panicked
    /\ connClosed \/ idle >= ReadDeadline \/ (hungUp /\ wire = <<>>)
    /\ reader' = "deferred"
    /\ UNCHANGED <<wire, dataBuf, sessionVars, idle, beatVars, clientVars, panicked, replies>>

ReaderDrained ==
    /\ reader = "package" /\ ~panicked /\ dataBuf = <<>>
    /\ reader' = "select"
    /\ UNCHANGED <<wire, dataBuf, sessionVars, idle, beatVars, clientVars, panicked, replies>>

(* The next package of the buffer, which processPackage dispatches. *)
Package(types) ==
    /\ reader = "package" /\ ~panicked
    /\ dataBuf # <<>> /\ Head(dataBuf).type \in types
    /\ dataBuf' = Tail(dataBuf)
    /\ UNCHANGED <<wire, idle, clientVars>>

HandleHandshake ==
    /\ Package({"handshake"})
    /\ state' = "WaitAck" /\ interval' = 1
    /\ UNCHANGED <<age, closeChan, connClosed, reader, beatVars, panicked, replies>>

(* Mutant: an acknowledgement keeps the heartbeat goroutine there is. *)
AckKeepsBeat ==
    /\ Package({"ack"})
    /\ state' = "Working" /\ age' = 0
    /\ beat' = IF \E b \in Beats : beat[b] # "done" THEN beat
               ELSE [beat EXCEPT ![CHOOSE b \in Beats : TRUE] = "start"]
    /\ UNCHANGED <<interval, closeChan, connClosed, reader, due, seen, panicked, replies>>

HandleHandshakeAck ==
    /\ Package({"ack"})
    /\ state' = "Working" /\ age' = 0
    /\ \E b \in Beats : beat[b] = "done" /\ beat' = [beat EXCEPT ![b] = "start"]
    /\ UNCHANGED <<interval, closeChan, connClosed, reader, due, seen, panicked, replies>>

HandleHeartbeat ==
    /\ Package({"heartbeat"})
    /\ age' = 0
    /\ UNCHANGED <<state, interval, closeChan, connClosed, reader, beatVars, panicked, replies>>

(* handleData and handleRequest: the hello handler stores into the body,   *)
(* and storing into a nil map panics.                                      *)
HandleData ==
    /\ Package(Datas)
    /\ age' = 0
    /\ panicked' = (Head(dataBuf).type = "null")
    /\ IF Head(dataBuf).type \in {"hello", "other"} THEN Reply(Head(dataBuf).id)
                                                    ELSE UNCHANGED replies
    /\ UNCHANGED <<state, interval, closeChan, connClosed, reader, beatVars>>

HandleKick ==
    /\ Package({"kick"})
    /\ \/ CloseLocked /\ reader' = "kick"
       \/ AlreadyClosed /\ reader' = "package"
    /\ UNCHANGED <<beatVars, panicked, replies>>

KickCloses ==
    /\ reader = "kick" /\ ~panicked
    /\ CloseChannel
    /\ reader' = "package"
    /\ UNCHANGED <<wire, dataBuf, idle, beatVars, clientVars, replies>>

(* defer s.Close() *)
ReaderDefers ==
    /\ reader = "deferred" /\ ~panicked
    /\ \/ CloseLocked /\ reader' = "closing"
       \/ AlreadyClosed /\ reader' = "done"
    /\ UNCHANGED <<wire, dataBuf, idle, beatVars, clientVars, panicked, replies>>

ReaderCloses ==
    /\ reader = "closing" /\ ~panicked
    /\ CloseChannel
    /\ reader' = "done"
    /\ UNCHANGED <<wire, dataBuf, idle, beatVars, clientVars, replies>>

Reader ==
    \/ ReaderSelect \/ ReaderRead \/ ReaderError \/ ReaderDrained
    \/ HandleHandshake \/ HandleHandshakeAck \/ HandleHeartbeat \/ HandleData
    \/ HandleKick \/ KickCloses \/ ReaderDefers \/ ReaderCloses

-----------------------------------------------------------------------------
(* heartbeatLoop *)

beatUnchanged == UNCHANGED <<wire, dataBuf, reader, idle, clientVars, replies>>

(* time.NewTicker panics on an interval that is not positive. *)
BeatStart(b) ==
    /\ beat[b] = "start" /\ ~panicked
    /\ panicked' = (interval = 0)
    /\ beat' = [beat EXCEPT ![b] = "wait"]
    /\ due' = [due EXCEPT ![b] = FALSE]
    /\ UNCHANGED <<sessionVars, seen>> /\ beatUnchanged

BeatStops(b) ==
    /\ beat[b] = "wait" /\ ~panicked
    /\ closeChan
    /\ beat' = [beat EXCEPT ![b] = "done"]
    /\ UNCHANGED <<sessionVars, due, seen, panicked>> /\ beatUnchanged

BeatReads(b) ==
    /\ beat[b] = "wait" /\ ~panicked
    /\ due[b]
    /\ due' = [due EXCEPT ![b] = FALSE]
    /\ seen' = [seen EXCEPT ![b] = [state |-> state, age |-> age]]
    /\ beat' = [beat EXCEPT ![b] = "check"]
    /\ UNCHANGED <<sessionVars, panicked>> /\ beatUnchanged

BeatChecks(b) ==
    /\ beat[b] = "check" /\ ~panicked
    /\ \/ /\ seen[b].state # "Working"
          /\ beat' = [beat EXCEPT ![b] = "done"] /\ UNCHANGED sessionVars
       \/ /\ seen[b].state = "Working" /\ seen[b].age > Timeout
          /\ \/ CloseLocked /\ beat' = [beat EXCEPT ![b] = "closing"]
             \/ AlreadyClosed /\ beat' = [beat EXCEPT ![b] = "done"]
       \/ /\ seen[b].state = "Working" /\ seen[b].age <= Timeout
          /\ beat' = [beat EXCEPT ![b] = "wait"] /\ UNCHANGED sessionVars
    /\ UNCHANGED <<due, seen, panicked>> /\ beatUnchanged

BeatCloses(b) ==
    /\ beat[b] = "closing" /\ ~panicked
    /\ CloseChannel
    /\ beat' = [beat EXCEPT ![b] = "done"]
    /\ UNCHANGED <<due, seen>> /\ beatUnchanged

Beat(b) == BeatStart(b) \/ BeatStops(b) \/ BeatReads(b) \/ BeatChecks(b) \/ BeatCloses(b)

-----------------------------------------------------------------------------
(* One interval passes.  A ticker whose channel is full drops the tick. *)

Older(a) == IF a > Timeout THEN a ELSE a + 1

Tick ==
    /\ ~panicked
    /\ age' = Older(age)
    /\ idle' = IF reader = "read" /\ idle < ReadDeadline THEN idle + 1 ELSE idle
    /\ seen' = [b \in Beats |-> [seen[b] EXCEPT !.age = Older(@)]]
    /\ due' = [b \in Beats |-> due[b] \/ beat[b] \in {"wait", "check"}]
    /\ UNCHANGED <<wire, dataBuf, state, interval, closeChan, connClosed, reader, beat,
                   clientVars, panicked, replies>>

Next == ClientSend \/ ClientHangUp \/ Reader \/ (\E b \in Beats : Beat(b)) \/ Tick

Spec == Init /\ [][Next]_vars

(* The Go scheduler runs every goroutine that can run, and time passes; *)
(* the client owes nothing.                                             *)
Fairness == WF_vars(Reader) /\ WF_vars(Tick) /\ \A b \in Beats : WF_vars(Beat(b))

FairSpec == Spec /\ Fairness

-----------------------------------------------------------------------------
(* Properties *)

(* Every variable keeps to the values the code can give it. *)
TypeOK ==
    /\ wire \in Seq(Packages) /\ dataBuf \in Seq(Packages)
    /\ hungUp \in BOOLEAN /\ panicked \in BOOLEAN
    /\ state \in States /\ interval \in {0, 1} /\ age \in 0..(Timeout + 1)
    /\ closeChan \in BOOLEAN /\ connClosed \in BOOLEAN
    /\ reader \in {"select", "read", "package", "kick", "deferred", "closing", "done"}
    /\ idle \in 0..ReadDeadline
    /\ beat \in [Beats -> {"start", "wait", "check", "closing", "done"}]
    /\ due \in [Beats -> BOOLEAN]
    /\ seen \in [Beats -> [state : States, age : 0..(Timeout + 1)]]
    /\ sent \in 0..MaxSent /\ asked \in 0..MaxSent /\ asked <= sent
    /\ replies \in Seq(0..MaxSent)
    /\ manners \in {"new", "shaken", "polite", "rude"}

(* No client that keeps to the protocol can bring the process down,        *)
(* however its packages, its hang-up and the time-outs interleave: the     *)
(* close channel is closed once, and no heartbeat starts without an        *)
(* interval.                                                               *)
PoliteNeverPanics == manners # "rude" => ~panicked

(* Whatever the client sends, a session that counts as working and has not *)
(* been closed is watched by a heartbeat goroutine that will notice when   *)
(* the client falls silent: one that has seen another state and is about   *)
(* to leave does not count.                                                *)
Watching(b) ==
    \/ beat[b] \in {"start", "wait", "closing"}
    \/ beat[b] = "check" /\ seen[b].state = "Working"

WorkingIsWatched ==
    state = "Working" /\ ~closeChan /\ ~panicked => \E b \in Beats : Watching(b)

(* The session implements the service an echo server promises. *)
Echo == INSTANCE EchoService WITH answered <- replies, open <- ~connClosed /\ ~panicked
ImplementsEcho == Echo!Spec

(* Once the client has sent its last package the session ends, and nothing *)
(* of it stays behind: the connection is closed, the reader has returned   *)
(* and so has every heartbeat goroutine -- or the process has panicked.    *)
EventuallyGone ==
    <>(panicked \/ (connClosed /\ reader = "done" /\ \A b \in Beats : beat[b] = "done"))

=============================================================================
