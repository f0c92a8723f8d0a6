---------------------------- MODULE SnakeClient ----------------------------
(***************************************************************************)
(* The C# snake client: the loop of Program.cs that connects, shakes hands *)
(* and plays until the connection is lost, with the tasks that listen and  *)
(* send while it plays, and the tracker that tells the AI whether a game   *)
(* is on.  Every connection has a NetworkClient with a buffer of its own.  *)
(*                                                                         *)
(* A package travels in two pieces, its head and its body, and a read may  *)
(* end after any of them.  A state is reduced to who is alive.  A failed   *)
(* ConnectAsync and a move that is sent change nothing here.  The server   *)
(* is external: it answers the handshake, pushes the states of games from  *)
(* then on, and may close a connection.                                    *)
(***************************************************************************)
EXTENDS Integers, Sequences, FiniteSets, SequencesExt

CONSTANTS
    Others,     \* the other players of a game
    MaxConns,   \* bound: connections ever made
    MaxPushes   \* bound: states pushed on all connections

ASSUME ClientAssumption == {Others, MaxConns, MaxPushes} \subseteq Nat

Conns == 1 .. MaxConns
NoConn == 0
Modes == {"ai", "player"}          \* CLIENT_MODE

States == [me : BOOLEAN, others : 0 .. Others]
NoGame == [me |-> FALSE, others |-> 0]

Response == [type |-> "handshake"]
Push(state) == [type |-> "push", state |-> state]
Packages == {Response} \cup {Push(s) : s \in States}
Pieces == [pkg : Packages, part : {"head", "body"}]

VARIABLES
    mode,       \* isAiMode or not
    at,         \* the main task, see Main
    cur,        \* tcp and networkClient
    socket,     \* the client's end: "none", "open", "closed"
    buffer,     \* NetworkClient._buffer
    listen,     \* the listenTask of a connection, see Task
    input,      \* its aiTask or inputTask
    running,    \* running
    cancelled,  \* listenCts
    view,       \* latestState of the tasks
    started,    \* _gameStarted of the connection's tracker
    wasAlive,   \* _wasAlive
    made,       \* connections made so far
    up,         \* the server's end is open
    stream,     \* pieces on their way to the client
    stage,      \* the server: "new", "asked", "answered", "acked"
    game,       \* the game the server pushes the states of
    pushes,     \* how many states it has pushed
    early       \* connections that got a push before the server had the ack

main == <<mode, at, cur, made>>
tasks == <<listen, input, running, cancelled>>
tracker == <<view, started, wasAlive>>
server == <<up, stage, game, pushes, early>>
vars == <<main, socket, buffer, tasks, tracker, stream, server>>

Main == {"connect", "greet", "await", "play", "stop", "reconnect", "regreet", "reawait", "crashed"}
Task == {"none", "read", "process", "on", "ended"}

Init ==
    /\ mode \in Modes
    /\ at = "connect" /\ cur = NoConn /\ made = 0
    /\ socket = [c \in Conns |-> "none"]
    /\ buffer = [c \in Conns |-> <<>>]
    /\ listen = [c \in Conns |-> "none"]
    /\ input = [c \in Conns |-> "none"]
    /\ running = [c \in Conns |-> FALSE]
    /\ cancelled = [c \in Conns |-> FALSE]
    /\ view = [c \in Conns |-> NoGame]
    /\ started = [c \in Conns |-> FALSE]
    /\ wasAlive = [c \in Conns |-> FALSE]
    /\ up = [c \in Conns |-> FALSE]
    /\ stream = [c \in Conns |-> <<>>]
    /\ stage = [c \in Conns |-> "new"]
    /\ game = [c \in Conns |-> NoGame]
    /\ pushes = 0
    /\ early = {}

-----------------------------------------------------------------------------
(* Connecting and shaking hands *)

\* A write fails on a connection that either side has closed, sooner or later.
MayFail(c) == ~up[c] \/ socket[c] = "closed"

Open(from, to) ==
    /\ at = from
    /\ made < MaxConns
    /\ made' = made + 1
    /\ cur' = made'
    /\ socket' = [socket EXCEPT ![made'] = "open"]
    /\ up' = [up EXCEPT ![made'] = TRUE]
    /\ at' = to
    /\ UNCHANGED <<mode, buffer, tasks, tracker, stream, stage, game, pushes, early>>

ConnectAsync == Open("connect", "greet")

\* Only a connection that RunPlayerModeAsync has lost with an exception comes here.
ReconnectAsync == Open("reconnect", "regreet")

\* An exception while shaking hands is caught nowhere.
Throw(c) ==
    /\ MayFail(c)
    /\ at' = "crashed"

SendHandshake ==
    /\ \/ at = "greet" /\ at' = "await"
          /\ stage' = [stage EXCEPT ![cur] = IF up[cur] THEN "asked" ELSE @]
       \/ at = "regreet" /\ at' = "reawait"
          /\ stage' = [stage EXCEPT ![cur] = IF up[cur] THEN "asked" ELSE @]
       \/ at \in {"greet", "regreet"} /\ Throw(cur) /\ UNCHANGED stage
    /\ UNCHANGED <<mode, cur, made, socket, buffer, tasks, tracker, stream, up, game,
                   pushes, early>>

Awaiting == at \in {"await", "reawait"}

Take(c, n) == stream' = [stream EXCEPT ![c] = SubSeq(@, n + 1, Len(@))]

\* Package.Decode: the package at the front of the buffer is there.  A buffer
\* that begins within a package shows a length of millions of bytes.
Decodes(b) == Len(b) >= 2 /\ b[1].part = "head"

\* PerformHandshakeAsync needs more bytes.
AwaitMore ==
    /\ Awaiting
    /\ \E n \in 1 .. Len(stream[cur]) :
          LET b == buffer[cur] \o SubSeq(stream[cur], 1, n)
          IN  /\ ~Decodes(b)
              /\ buffer' = [buffer EXCEPT ![cur] = b]
              /\ Take(cur, n)
    /\ UNCHANGED <<main, socket, tasks, tracker, server>>

\* The tasks of RunAiModeAsync or RunPlayerModeAsync start.
StartTasks ==
    /\ listen' = [listen EXCEPT ![cur] = "read"]
    /\ input' = [input EXCEPT ![cur] = "on"]
    /\ running' = [running EXCEPT ![cur] = TRUE]
    /\ UNCHANGED cancelled

\* After a reconnect the loop starts over and connects once more.
Welcome ==
    \/ at = "await" /\ at' = "play" /\ StartTasks
    \/ at = "reawait" /\ at' = "connect" /\ UNCHANGED tasks

\* Whatever has been read behind the response goes with the buffer.
HandshakeDone ==
    /\ Awaiting
    /\ \E n \in 1 .. Len(stream[cur]) :
          LET b == buffer[cur] \o SubSeq(stream[cur], 1, n)
          IN  /\ Decodes(b) /\ b[1].pkg = Response
              /\ Take(cur, n)
    /\ buffer' = [buffer EXCEPT ![cur] = <<>>]
    /\ \/ Welcome /\ stage' = [stage EXCEPT ![cur] = IF up[cur] THEN "acked" ELSE @]
       \/ Throw(cur) /\ UNCHANGED <<tasks, stage>>
    /\ UNCHANGED <<mode, cur, made, socket, tracker, up, game, pushes, early>>

\* The caller closes the connection and starts over; after a reconnect it only
\* starts over.
GiveUp ==
    /\ at' = "connect"
    /\ socket' = [socket EXCEPT ![cur] = IF at = "await" THEN "closed" ELSE @]

HandshakeEnds ==
    /\ Awaiting
    /\ stream[cur] = <<>> /\ ~up[cur]
    /\ GiveUp \/ (Throw(cur) /\ UNCHANGED socket)
    /\ UNCHANGED <<mode, cur, made, buffer, tasks, tracker, stream, server>>

-----------------------------------------------------------------------------
(* listenTask *)

ListenRead(c) ==
    /\ listen[c] = "read" /\ ~cancelled[c] /\ socket[c] = "open"
    /\ \E n \in 1 .. Len(stream[c]) :
          /\ buffer' = [buffer EXCEPT ![c] = @ \o SubSeq(stream[c], 1, n)]
          /\ Take(c, n)
    /\ listen' = [listen EXCEPT ![c] = "process"]
    /\ UNCHANGED <<main, socket, input, running, cancelled, tracker, server>>

AliveCount(state) == state.others + (IF state.me THEN 1 ELSE 0)

\* ProcessGameState.  Its player is in every state of its own room.
\* Mutant of Starts: a winner, who has not died, does not see the next game begin.
StartsFromDeath(c, state) == state.me /\ ~wasAlive[c]

Starts(c, state) == state.me /\ (~wasAlive[c] \/ ~started[c])
ProcessGameState(c, state) ==
    /\ wasAlive' = [wasAlive EXCEPT ![c] = state.me]
    /\ started' = [started EXCEPT ![c] = (@ \/ Starts(c, state)) /\ AliveCount(state) > 1]

\* Mutant of ProcessPackage: only the head is taken from the buffer.
ProcessPackageHead(c) ==
    /\ listen[c] = "process" /\ Decodes(buffer[c])
    /\ buffer' = [buffer EXCEPT ![c] = SubSeq(@, 2, Len(@))]
    /\ UNCHANGED <<main, socket, tasks, tracker, stream, server>>

ProcessPackage(c) ==
    /\ listen[c] = "process" /\ Decodes(buffer[c])
    /\ buffer' = [buffer EXCEPT ![c] = SubSeq(@, 3, Len(@))]
    /\ LET pkg == buffer[c][1].pkg IN
          IF pkg.type = "push"
          THEN /\ view' = [view EXCEPT ![c] = pkg.state]
               /\ ProcessGameState(c, pkg.state)
          ELSE UNCHANGED tracker
    /\ UNCHANGED <<main, socket, tasks, stream, server>>

\* A buffer that begins within a package only grows; its bytes are of no use.
Processed(c) ==
    /\ listen[c] = "process" /\ ~Decodes(buffer[c])
    /\ listen' = [listen EXCEPT ![c] = "read"]
    /\ buffer' = [buffer EXCEPT ![c] = IF @ = <<>> THEN @ ELSE SubSeq(@, 1, 1)]
    /\ UNCHANGED <<main, socket, input, running, cancelled, tracker, stream, server>>

\* The stream has ended, or Close() has ended it.
\* Mutant of ListenFails: the catch block leaves running as it is.
ListenFailsQuietly(c) ==
    /\ listen[c] = "read" /\ ~cancelled[c]
    /\ socket[c] = "closed" \/ (stream[c] = <<>> /\ ~up[c])
    /\ listen' = [listen EXCEPT ![c] = "ended"]
    /\ UNCHANGED <<main, socket, buffer, input, running, cancelled, tracker, stream, server>>

ListenFails(c) ==
    /\ listen[c] = "read" /\ ~cancelled[c]
    /\ socket[c] = "closed" \/ (stream[c] = <<>> /\ ~up[c])
    /\ listen' = [listen EXCEPT ![c] = "ended"]
    /\ running' = [running EXCEPT ![c] = FALSE]
    /\ UNCHANGED <<main, socket, buffer, input, cancelled, tracker, stream, server>>

ListenCancelled(c) ==
    /\ listen[c] = "read" /\ cancelled[c]
    /\ listen' = [listen EXCEPT ![c] = "ended"]
    /\ UNCHANGED <<main, socket, buffer, input, running, cancelled, tracker, stream, server>>

-----------------------------------------------------------------------------
(* aiTask, inputTask and the main task while they run *)

\* The AI moves while its snake lives in a game that the tracker sees, a player
\* at any time.
Moves(c) == mode = "ai" => view[c].me /\ started[c]

SendDirectionFails(c) ==
    /\ input[c] = "on" /\ running[c]
    /\ Moves(c)
    /\ MayFail(c)
    /\ input' = [input EXCEPT ![c] = "ended"]
    /\ running' = [running EXCEPT ![c] = FALSE]
    /\ cancelled' = [cancelled EXCEPT ![c] = TRUE]
    /\ UNCHANGED <<main, socket, buffer, listen, tracker, stream, server>>

InputEnds(c) ==
    /\ input[c] = "on" /\ ~running[c]
    /\ input' = [input EXCEPT ![c] = "ended"]
    /\ UNCHANGED <<main, socket, buffer, listen, running, cancelled, tracker, stream, server>>

\* Mutant of Leaves: the AI leaves when its game is over.
LeavesAfterGame ==
    \/ "ended" \in {listen[cur], input[cur]} \/ ~running[cur]
    \/ wasAlive[cur] /\ ~started[cur]

\* Task.WhenAny of the AI, or the render loop's test of running.
Leaves ==
    IF mode = "ai" THEN "ended" \in {listen[cur], input[cur]} ELSE ~running[cur]

StopPlaying ==
    /\ at = "play"
    /\ Leaves
    /\ at' = "stop"
    /\ cancelled' = [cancelled EXCEPT ![cur] = TRUE]
    /\ running' = [running EXCEPT ![cur] = FALSE]
    /\ UNCHANGED <<mode, cur, made, socket, buffer, listen, input, tracker, stream, server>>

\* WhenAll swallows what the tasks throw: the loop does not learn of the loss,
\* leaves the connection as it is and connects anew.
Stopped ==
    /\ at = "stop"
    /\ listen[cur] = "ended" /\ input[cur] = "ended"
    /\ at' = "connect"
    /\ UNCHANGED <<mode, cur, made, socket, buffer, tasks, tracker, stream, server>>

\* The console refuses to draw: the one exception that reaches the loop.
DrawFails ==
    /\ at = "play" /\ mode = "player" /\ running[cur]
    /\ at' = "reconnect"
    /\ socket' = [socket EXCEPT ![cur] = "closed"]
    /\ UNCHANGED <<mode, cur, made, buffer, tasks, tracker, stream, server>>

-----------------------------------------------------------------------------
(* The server *)

Write(c, pkg) ==
    stream' = [stream EXCEPT ![c] = @ \o <<[pkg |-> pkg, part |-> "head"], [pkg |-> pkg, part |-> "body"]>>]

ServerAnswers(c) ==
    /\ up[c] /\ stage[c] = "asked"
    /\ stage' = [stage EXCEPT ![c] = "answered"]
    /\ Write(c, Response)
    /\ UNCHANGED <<main, socket, buffer, tasks, tracker, up, game, pushes, early>>

\* A game starts with everybody alive, loses players, and is over with one left.
NextStates(state) ==
    IF AliveCount(state) <= 1
    THEN {[me |-> TRUE, others |-> Others]}
    ELSE {s \in States : s.others <= state.others /\ (s.me => state.me)}

ServerPushes(c) ==
    /\ up[c] /\ stage[c] \in {"answered", "acked"} /\ pushes < MaxPushes
    /\ \E s \in NextStates(game[c]) :
          /\ game' = [game EXCEPT ![c] = s]
          /\ Write(c, Push(s))
    /\ pushes' = pushes + 1
    /\ early' = IF stage[c] = "answered" THEN early \cup {c} ELSE early
    /\ UNCHANGED <<main, socket, buffer, tasks, tracker, up, stage>>

ServerCloses(c) ==
    /\ up[c]
    /\ up' = [up EXCEPT ![c] = FALSE]
    /\ UNCHANGED <<main, socket, buffer, tasks, tracker, stream, stage, game, pushes, early>>

-----------------------------------------------------------------------------
MainNext ==
    \/ ConnectAsync \/ ReconnectAsync \/ SendHandshake
    \/ AwaitMore \/ HandshakeDone \/ HandshakeEnds
    \/ StopPlaying \/ Stopped

ListenNext(c) ==
    ListenRead(c) \/ ProcessPackage(c) \/ Processed(c) \/ ListenFails(c) \/ ListenCancelled(c)

InputNext(c) == SendDirectionFails(c) \/ InputEnds(c)

Next ==
    \/ MainNext \/ DrawFails
    \/ \E c \in Conns : ListenNext(c) \/ InputNext(c)
    \/ \E c \in Conns : ServerAnswers(c) \/ ServerPushes(c) \/ ServerCloses(c)

Spec == Init /\ [][Next]_vars

\* The thread pool runs every task that can go on; nobody has to press keys.
FairSpec ==
    /\ Spec
    /\ WF_vars(MainNext)
    /\ \A c \in Conns : WF_vars(ListenNext(c)) /\ WF_vars(InputEnds(c))

-----------------------------------------------------------------------------
(* Properties *)

(* The variables keep to the values the code can give them. *)
TypeOK ==
    /\ mode \in Modes /\ at \in Main
    /\ cur \in 0 .. MaxConns /\ made \in 0 .. MaxConns
    /\ socket \in [Conns -> {"none", "open", "closed"}]
    /\ buffer \in [Conns -> Seq(Pieces)] /\ stream \in [Conns -> Seq(Pieces)]
    /\ listen \in [Conns -> Task] /\ input \in [Conns -> Task]
    /\ running \in [Conns -> BOOLEAN] /\ cancelled \in [Conns -> BOOLEAN]
    /\ view \in [Conns -> States] /\ game \in [Conns -> States]
    /\ started \in [Conns -> BOOLEAN] /\ wasAlive \in [Conns -> BOOLEAN]
    /\ up \in [Conns -> BOOLEAN]
    /\ stage \in [Conns -> {"new", "asked", "answered", "acked"}]
    /\ pushes \in 0 .. MaxPushes /\ early \subseteq Conns

(* A connection that is not in use is done with.  Its tasks have ended,    *)
(* unless they are about to on a socket that was closed under them; and    *)
(* the AI leaves no player behind in a game: it has turned away only from  *)
(* connections that one of the two sides had closed.  (The console client  *)
(* leaves one when it reconnects after an exception and connects again.)   *)
OneConnection ==
    \A c \in Conns \ {cur} :
        /\ listen[c] \in {"read", "process"} \/ input[c] = "on" => socket[c] = "closed"
        /\ mode = "ai" /\ socket[c] = "open" => ~up[c]

(* The client loses step with the stream only when the server pushes a     *)
(* state before it has the acknowledgement.                                *)
InStep ==
    \A c \in Conns : buffer[c] # <<>> /\ buffer[c][1].part = "body" => c \in early

(* What the AI takes for a running game is one: when the listener has      *)
(* handled all that was pushed, across the games of a connection.          *)
TrackerFollows ==
    \A c \in Conns \ early :
        listen[c] = "read" /\ stream[c] = <<>> =>
            (started[c] <=> AliveCount(game[c]) > 1)

(* The loss of the connection in use ends the session, even one that has   *)
(* lost step or waits for a game, and the client connects anew.            *)
LossIsNoticed ==
    (at = "play" /\ ~up[cur]) ~> at \in {"connect", "reconnect"}
=============================================================================
