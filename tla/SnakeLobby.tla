----------------------------- MODULE SnakeLobby -----------------------------
(***************************************************************************)
(* Matchmaking in the C# snake server: Program.cs (the connection          *)
(* handlers, MatchLoop, RoomCleanupLoop), MatchQueue.cs and the life cycle *)
(* of the rooms of Room.cs.  What happens on a board is in SnakeWorld; a   *)
(* tick is here the set of players it kills.                               *)
(*                                                                         *)
(* Every action is one critical section (playersLock, roomsLock,           *)
(* _queueLock or a room's _stateLock) or one step between two of them.     *)
(* Only RoomCleanupLoop keeps a lock, roomsLock, across several actions.   *)
(***************************************************************************)
EXTENDS Integers, Sequences, FiniteSets, SequencesExt

CONSTANTS
    Players,    \* one per connection; a client that returns is a new player
    MatchSize,  \* _matchSize
    MaxRooms    \* bound: rooms ever created

ASSUME LobbyAssumption ==
    /\ IsFiniteSet(Players)
    /\ MatchSize \in Nat \ {0}
    /\ MaxRooms \in Nat

Rooms == 1 .. MaxRooms
NoRoom == 0     \* the null of Player.RoomId

VARIABLES
    conn,        \* where HandleClient stands for each player
    socket,      \* the connection as the server could observe it
    roomOf,      \* Player.RoomId
    alive,       \* Player.Alive
    allPlayers,  \* the dictionary of connected players
    queue,       \* MatchQueue._queue
    rooms,       \* the dictionary of open rooms (its keys)
    nextRoomId,
    members,     \* Room._players
    status,      \* Room._status
    started,     \* history: StartGameAsync has started this room's game
    loop,        \* GameLoopAsync: "none" not running, "delay", "send" broadcasting
    matching,    \* MatchLoop: "idle", "create", "fill", "announce"
    matched,     \* its matched players still to be added
    newRoom,     \* the room it is filling
    cleaning,    \* RoomCleanupLoop: "idle", "scan", "ids", "collect", "close"
    toScan,      \* its rooms still to be looked at
    closing,     \* the room whose players it collects
    ids,         \* the ids GetPlayerIds returned for it
    toClose,     \* roomsToClose
    toRematch,   \* playersToRematch
    early        \* history: rooms found closable while still being filled

player == <<conn, socket, roomOf, alive>>
room == <<members, status, started, loop>>
matcher == <<matching, matched, newRoom>>
cleaner == <<cleaning, toScan, closing, ids, toClose, toRematch, early>>
vars == <<player, allPlayers, queue, rooms, nextRoomId, room, matcher, cleaner>>

-----------------------------------------------------------------------------
(* Helpers *)

\* RoomCleanupLoop holds roomsLock while it scans the dictionary.
RoomsLockFree == cleaning \in {"idle", "close"}

\* MatchQueue.Enqueue
Enqueue(q, p) == IF p \in ToSet(q) THEN q ELSE Append(q, p)

\* MatchQueue.Remove; the queue holds a player at most once (OnePlace)
Without(q, p) ==
    IF p \in ToSet(q) THEN RemoveAt(q, CHOOSE i \in DOMAIN q : q[i] = p) ELSE q

\* Mutants of CanClose: one forgets the end of the game, one closes a room as
\* soon as a single player is left in it.
CanCloseEmpty(r) == members[r] = {}
CanCloseLoneWinner(r) == Cardinality(members[r]) <= 1 \/ status[r] = "Waiting"

\* Room.CanClose
CanClose(r) == members[r] = {} \/ status[r] = "Waiting"

\* Mutant of Unreachable: a slow peer counts as failed.
Slow(r) == members[r]

\* Members whose send may have failed: the peer is gone or the socket disposed.
Unreachable(r) == {p \in members[r] : socket[p] # "open"}

Init ==
    /\ conn = [p \in Players |-> "new"]
    /\ socket = [p \in Players |-> "open"]
    /\ roomOf = [p \in Players |-> NoRoom]
    /\ alive = [p \in Players |-> TRUE]
    /\ allPlayers = {}
    /\ queue = <<>>
    /\ rooms = {}
    /\ nextRoomId = 1
    /\ members = [r \in Rooms |-> {}]
    /\ status = [r \in Rooms |-> "Waiting"]
    /\ started = [r \in Rooms |-> FALSE]
    /\ loop = [r \in Rooms |-> "none"]
    /\ matching = "idle"
    /\ matched = <<>>
    /\ newRoom = NoRoom
    /\ cleaning = "idle"
    /\ toScan = {}
    /\ closing = NoRoom
    /\ ids = {}
    /\ toClose = {}
    /\ toRematch = <<>>
    /\ early = {}

-----------------------------------------------------------------------------
(* HandleClient *)

\* The handshake request: the player is registered.
Connect(p) ==
    /\ conn[p] = "new"
    /\ conn' = [conn EXCEPT ![p] = "joined"]
    /\ allPlayers' = allPlayers \cup {p}
    /\ UNCHANGED <<socket, roomOf, alive, queue, rooms, nextRoomId, room, matcher, cleaner>>

\* The handshake response is sent, then the player joins the queue.
JoinQueue(p) ==
    /\ conn[p] = "joined"
    /\ conn' = [conn EXCEPT ![p] = "ack"]
    /\ queue' = Enqueue(queue, p)
    /\ UNCHANGED <<socket, roomOf, alive, allPlayers, rooms, nextRoomId, room, matcher, cleaner>>

\* The handler goes to its finally block from the stage "from".
Abandon(p, from) ==
    /\ conn[p] = from
    /\ conn' = [conn EXCEPT ![p] = "leaving"]
    /\ UNCHANGED <<socket, roomOf, alive, allPlayers, queue, rooms, nextRoomId, room,
                   matcher, cleaner>>

ResponseFails(p) == socket[p] # "open" /\ Abandon(p, "joined")

\* Any package but an acknowledgement ends the session.
UnexpectedPackage(p) == Abandon(p, "ack")

ReceiveAck(p) ==
    /\ conn[p] = "ack"
    /\ conn' = [conn EXCEPT ![p] = "main"]
    /\ UNCHANGED <<socket, roomOf, alive, allPlayers, queue, rooms, nextRoomId, room,
                   matcher, cleaner>>

\* The client goes away, perhaps leaving a heartbeat that is not yet read.
ClientGone(p) ==
    /\ conn[p] \notin {"new", "gone"}
    /\ socket[p] = "open"
    /\ \E s \in {"shut", "shut with heartbeat"} : socket' = [socket EXCEPT ![p] = s]
    /\ UNCHANGED <<conn, roomOf, alive, allPlayers, queue, rooms, nextRoomId, room,
                   matcher, cleaner>>

\* The reply to a heartbeat left behind by a client that is gone throws.  The
\* end of the stream does not: the loop never looks at result.IsCompleted, so
\* with nothing left to read the handler stays in "main", doing nothing.
HeartbeatReplyFails(p) == socket[p] = "shut with heartbeat" /\ Abandon(p, "main")

\* A snake.move: RoomId.HasValue is read before roomsLock is taken ...
ReceiveMove(p) ==
    /\ conn[p] = "main"
    /\ roomOf[p] # NoRoom
    /\ conn' = [conn EXCEPT ![p] = "move"]
    /\ UNCHANGED <<socket, roomOf, alive, allPlayers, queue, rooms, nextRoomId, room,
                   matcher, cleaner>>

\* ... and RoomId.Value inside it; a null throws out of the message loop.
\* (The turn itself is SnakeWorld!HandlePlayerMove.)
ForwardMove(p) ==
    /\ conn[p] = "move"
    /\ RoomsLockFree
    /\ conn' = [conn EXCEPT ![p] = IF roomOf[p] = NoRoom THEN "leaving" ELSE "main"]
    /\ UNCHANGED <<socket, roomOf, alive, allPlayers, queue, rooms, nextRoomId, room,
                   matcher, cleaner>>

\* The finally block: close the socket and unregister, ...
Unregister(p) ==
    /\ conn[p] = "leaving"
    /\ conn' = [conn EXCEPT ![p] = "left"]
    /\ socket' = [socket EXCEPT ![p] = "shut"]
    /\ allPlayers' = allPlayers \ {p}
    /\ UNCHANGED <<roomOf, alive, queue, rooms, nextRoomId, room, matcher, cleaner>>

\* ... look at RoomId, ...
ReadRoomId(p) ==
    /\ conn[p] = "left"
    /\ conn' = [conn EXCEPT ![p] = IF roomOf[p] # NoRoom THEN "leave room" ELSE "leave queue"]
    /\ UNCHANGED <<socket, roomOf, alive, allPlayers, queue, rooms, nextRoomId, room,
                   matcher, cleaner>>

\* ... and leave the room, if it is still open, or the queue.
LeaveRoom(p) ==
    /\ conn[p] = "leave room"
    /\ RoomsLockFree
    /\ conn' = [conn EXCEPT ![p] = "gone"]
    /\ members' = [r \in Rooms |-> IF r = roomOf[p] /\ r \in rooms
                                   THEN members[r] \ {p} ELSE members[r]]
    /\ UNCHANGED <<socket, roomOf, alive, allPlayers, queue, rooms, nextRoomId,
                   status, started, loop, matcher, cleaner>>

LeaveQueue(p) ==
    /\ conn[p] = "leave queue"
    /\ conn' = [conn EXCEPT ![p] = "gone"]
    /\ queue' = Without(queue, p)
    /\ UNCHANGED <<socket, roomOf, alive, allPlayers, rooms, nextRoomId, room, matcher, cleaner>>

-----------------------------------------------------------------------------
(* MatchLoop *)

\* Mutant of TryMatch: the players are peeked at, not dequeued.
PeekMatch ==
    /\ matching = "idle"
    /\ Len(queue) >= MatchSize
    /\ matching' = "create"
    /\ matched' = SubSeq(queue, 1, MatchSize)
    /\ UNCHANGED <<player, allPlayers, queue, rooms, nextRoomId, room, newRoom, cleaner>>

TryMatch ==
    /\ matching = "idle"
    /\ Len(queue) >= MatchSize
    /\ matching' = "create"
    /\ matched' = SubSeq(queue, 1, MatchSize)
    /\ queue' = SubSeq(queue, MatchSize + 1, Len(queue))
    /\ UNCHANGED <<player, allPlayers, rooms, nextRoomId, room, newRoom, cleaner>>

\* From here on RoomCleanupLoop sees the room, although nobody is in it yet.
CreateRoom ==
    /\ matching = "create"
    /\ RoomsLockFree
    /\ nextRoomId <= MaxRooms
    /\ matching' = "fill"
    /\ newRoom' = nextRoomId
    /\ nextRoomId' = nextRoomId + 1
    /\ rooms' = rooms \cup {nextRoomId}
    /\ UNCHANGED <<player, allPlayers, queue, room, matched, cleaner>>

\* Room.AddPlayer, which refuses when the game runs.
AddPlayer(r, p) ==
    IF status[r] = "Waiting"
    THEN /\ members' = [members EXCEPT ![r] = @ \cup {p}]
         /\ roomOf' = [roomOf EXCEPT ![p] = r]
         /\ alive' = [alive EXCEPT ![p] = TRUE]
    ELSE UNCHANGED <<members, roomOf, alive>>

\* One matched player, under playersLock, if it is still connected.
FillRoom ==
    /\ matching = "fill"
    /\ matched # <<>>
    /\ matched' = Tail(matched)
    /\ IF Head(matched) \in allPlayers
       THEN AddPlayer(newRoom, Head(matched))
       ELSE UNCHANGED <<members, roomOf, alive>>
    /\ UNCHANGED <<conn, socket, allPlayers, queue, rooms, nextRoomId, status, started, loop,
                   matching, newRoom, cleaner>>

\* Room.StartGameAsync: a room that stayed empty is not started, but its game
\* loop is spawned all the same.
StartGame ==
    /\ matching = "fill"
    /\ matched = <<>>
    /\ IF status[newRoom] = "Waiting" /\ members[newRoom] # {}
       THEN /\ status' = [status EXCEPT ![newRoom] = "Playing"]
            /\ started' = [started EXCEPT ![newRoom] = TRUE]
            /\ matching' = "announce"
            /\ UNCHANGED <<loop, newRoom>>
       ELSE /\ loop' = [loop EXCEPT ![newRoom] = "delay"]
            /\ matching' = "idle"
            /\ newRoom' = NoRoom
            /\ UNCHANGED <<status, started>>
    /\ UNCHANGED <<player, allPlayers, queue, rooms, nextRoomId, members, matched, cleaner>>

\* Room.BroadcastStateAsync drops the members it could not reach.
Broadcast(r) ==
    \E failed \in SUBSET Unreachable(r) : members' = [members EXCEPT ![r] = @ \ failed]

\* The first state goes out, then the game loop is spawned.
Announce ==
    /\ matching = "announce"
    /\ Broadcast(newRoom)
    /\ loop' = [loop EXCEPT ![newRoom] = "delay"]
    /\ matching' = "idle"
    /\ newRoom' = NoRoom
    /\ UNCHANGED <<player, allPlayers, queue, rooms, nextRoomId, status, started, matched,
                   cleaner>>

-----------------------------------------------------------------------------
(* GameLoopAsync *)

\* A tick kills any of the living; the game ends when at most one is left.
GameTick(r) ==
    /\ loop[r] = "delay"
    /\ status[r] = "Playing"
    /\ \E killed \in SUBSET {p \in members[r] : alive[p]} :
          LET living == {p \in members[r] : alive[p]} \ killed
          IN  /\ alive' = [p \in Players |-> alive[p] /\ p \notin killed]
              /\ status' = [status EXCEPT ![r] =
                               IF Cardinality(living) <= 1 THEN "Waiting" ELSE "Playing"]
    /\ loop' = [loop EXCEPT ![r] = "send"]
    /\ UNCHANGED <<conn, socket, roomOf, allPlayers, queue, rooms, nextRoomId, members, started,
                   matcher, cleaner>>

SendState(r) ==
    /\ loop[r] = "send"
    /\ Broadcast(r)
    /\ loop' = [loop EXCEPT ![r] = "delay"]
    /\ UNCHANGED <<player, allPlayers, queue, rooms, nextRoomId, status, started, matcher, cleaner>>

-----------------------------------------------------------------------------
(* RoomCleanupLoop *)

\* Takes roomsLock for the whole scan.
BeginScan ==
    /\ cleaning = "idle"
    /\ rooms # {}
    /\ cleaning' = "scan"
    /\ toScan' = rooms
    /\ UNCHANGED <<player, allPlayers, queue, rooms, nextRoomId, room, matcher,
                   closing, ids, toClose, toRematch, early>>

\* Room.CanClose of the next room, in any order of the dictionary.
CheckRoom(r) ==
    /\ cleaning = "scan"
    /\ r \in toScan
    /\ toScan' = toScan \ {r}
    /\ IF CanClose(r)
       THEN /\ cleaning' = "ids"
            /\ closing' = r
            /\ early' = IF matching = "fill" /\ newRoom = r THEN early \cup {r} ELSE early
       ELSE UNCHANGED <<cleaning, closing, early>>
    /\ UNCHANGED <<player, allPlayers, queue, rooms, nextRoomId, room, matcher,
                   ids, toClose, toRematch>>

GetPlayerIds ==
    /\ cleaning = "ids"
    /\ cleaning' = "collect"
    /\ ids' = members[closing]
    /\ UNCHANGED <<player, allPlayers, queue, rooms, nextRoomId, room, matcher,
                   toScan, closing, toClose, toRematch, early>>

\* Mutant of CollectPlayers: disconnected players are reset as well.
CollectAll ==
    /\ cleaning = "collect"
    /\ cleaning' = "scan"
    /\ \E s \in SetToSeqs(ids \cap allPlayers) : toRematch' = toRematch \o s
    /\ roomOf' = [p \in Players |-> IF p \in ids THEN NoRoom ELSE roomOf[p]]
    /\ alive' = [p \in Players |-> alive[p] \/ p \in ids]
    /\ toClose' = toClose \cup {closing}
    /\ closing' = NoRoom
    /\ ids' = {}
    /\ UNCHANGED <<conn, socket, allPlayers, queue, rooms, nextRoomId, room, matcher,
                   toScan, early>>

\* Under playersLock: the players still connected are to be matched again.
CollectPlayers ==
    /\ cleaning = "collect"
    /\ cleaning' = "scan"
    /\ \E s \in SetToSeqs(ids \cap allPlayers) : toRematch' = toRematch \o s
    /\ roomOf' = [p \in Players |-> IF p \in ids \cap allPlayers THEN NoRoom ELSE roomOf[p]]
    /\ alive' = [p \in Players |-> alive[p] \/ p \in ids \cap allPlayers]
    /\ toClose' = toClose \cup {closing}
    /\ closing' = NoRoom
    /\ ids' = {}
    /\ UNCHANGED <<conn, socket, allPlayers, queue, rooms, nextRoomId, room, matcher,
                   toScan, early>>

\* Releases roomsLock.
EndScan ==
    /\ cleaning = "scan"
    /\ toScan = {}
    /\ cleaning' = "close"
    /\ UNCHANGED <<player, allPlayers, queue, rooms, nextRoomId, room, matcher,
                   toScan, closing, ids, toClose, toRematch, early>>

CloseRoom(r) ==
    /\ cleaning = "close"
    /\ r \in toClose
    /\ rooms' = rooms \ {r}
    /\ toClose' = toClose \ {r}
    /\ UNCHANGED <<player, allPlayers, queue, nextRoomId, room, matcher,
                   cleaning, toScan, closing, ids, toRematch, early>>

Rematch ==
    /\ cleaning = "close"
    /\ toClose = {}
    /\ toRematch # <<>>
    /\ queue' = Enqueue(queue, Head(toRematch))
    /\ toRematch' = Tail(toRematch)
    /\ UNCHANGED <<player, allPlayers, rooms, nextRoomId, room, matcher,
                   cleaning, toScan, closing, ids, toClose, early>>

EndCleanup ==
    /\ cleaning = "close"
    /\ toClose = {}
    /\ toRematch = <<>>
    /\ cleaning' = "idle"
    /\ UNCHANGED <<player, allPlayers, queue, rooms, nextRoomId, room, matcher,
                   toScan, closing, ids, toClose, toRematch, early>>

-----------------------------------------------------------------------------
(* The specification *)

\* What a handler does of its own accord, whatever its client does.
HandlerStep(p) ==
    \/ JoinQueue(p) \/ HeartbeatReplyFails(p) \/ ForwardMove(p)
    \/ Unregister(p) \/ ReadRoomId(p) \/ LeaveRoom(p) \/ LeaveQueue(p)

\* What depends on the client and on the network.
ClientStep(p) ==
    \/ Connect(p) \/ ResponseFails(p) \/ UnexpectedPackage(p) \/ ReceiveAck(p)
    \/ ClientGone(p) \/ ReceiveMove(p)

MatchStep == TryMatch \/ CreateRoom \/ FillRoom \/ StartGame \/ Announce

GameStep(r) == GameTick(r) \/ SendState(r)

CleanupStep ==
    \/ BeginScan \/ (\E r \in Rooms : CheckRoom(r)) \/ GetPlayerIds \/ CollectPlayers
    \/ EndScan \/ (\E r \in Rooms : CloseRoom(r)) \/ Rematch \/ EndCleanup

Next ==
    \/ \E p \in Players : HandlerStep(p) \/ ClientStep(p)
    \/ MatchStep
    \/ \E r \in Rooms : GameStep(r)
    \/ CleanupStep

Spec == Init /\ [][Next]_vars

\* The loops run until the process ends and every lock section is short: each
\* task keeps making steps.  Nothing is assumed of the clients.
Fairness ==
    /\ \A p \in Players : WF_vars(HandlerStep(p))
    /\ WF_vars(MatchStep)
    /\ \A r \in Rooms : WF_vars(GameStep(r))
    /\ WF_vars(CleanupStep)

FairSpec == Spec /\ Fairness

-----------------------------------------------------------------------------
(* Properties *)

\* The variables keep the types of the fields they stand for.
TypeOK ==
    /\ conn \in [Players -> {"new", "joined", "ack", "main", "move", "leaving", "left",
                             "leave room", "leave queue", "gone"}]
    /\ socket \in [Players -> {"open", "shut", "shut with heartbeat"}]
    /\ roomOf \in [Players -> Rooms \cup {NoRoom}]
    /\ alive \in [Players -> BOOLEAN]
    /\ allPlayers \subseteq Players
    /\ queue \in Seq(Players)
    /\ rooms \subseteq Rooms
    /\ nextRoomId \in 1 .. MaxRooms + 1
    /\ members \in [Rooms -> SUBSET Players]
    /\ status \in [Rooms -> {"Waiting", "Playing"}]
    /\ started \in [Rooms -> BOOLEAN]
    /\ loop \in [Rooms -> {"none", "delay", "send"}]
    /\ matching \in {"idle", "create", "fill", "announce"}
    /\ matched \in Seq(Players)
    /\ newRoom \in Rooms \cup {NoRoom}
    /\ cleaning \in {"idle", "scan", "ids", "collect", "close"}
    /\ toScan \subseteq Rooms
    /\ closing \in Rooms \cup {NoRoom}
    /\ ids \subseteq Players
    /\ toClose \subseteq Rooms
    /\ toRematch \in Seq(Players)
    /\ early \subseteq Rooms

\* Once HandleClient has unregistered a player, no loop rewrites its RoomId:
\* the null test and the later RoomId.Value in the finally block agree.
LeavingRoomIdStable == \A p \in Players : conn[p] = "leave room" => roomOf[p] # NoRoom

\* A player whose connection is up and whose RoomId names a room is a member
\* of that room: moves and broadcasts find it.
SeatKept ==
    \A p \in Players : roomOf[p] # NoRoom /\ socket[p] = "open" => p \in members[roomOf[p]]

Waiting == ToSet(queue) \cup ToSet(matched) \cup ToSet(toRematch)
OpenRooms == rooms \ toClose

\* A player is in one place: it waits once - in the queue, in MatchLoop's hands
\* or on its way back to the queue - or it sits in one open room.  Handlers,
\* MatchLoop and the cleanup loop pass players on under three different locks.
OnePlace ==
    /\ IsInjective(queue) /\ IsInjective(matched) /\ IsInjective(toRematch)
    /\ ToSet(queue) \cap ToSet(matched) = {}
    /\ ToSet(queue) \cap ToSet(toRematch) = {}
    /\ ToSet(matched) \cap ToSet(toRematch) = {}
    /\ \A r \in OpenRooms : members[r] \cap Waiting = {}
    /\ \A r, s \in OpenRooms : r # s => members[r] \cap members[s] = {}

\* As long as the cleanup loop has not caught a room while MatchLoop was
\* filling it, a game with players goes on in an open room.
GamesAreOpen ==
    early = {} => \A r \in Rooms :
        status[r] = "Playing" /\ members[r] # {} => r \in OpenRooms

\* When the game of an open room is over, each player still connected gets
\* back to the queue, unless the cleanup loop had caught the room too early:
\* such a room is closed during its game and its players stay behind.
Rematched ==
    \A p \in Players, r \in Rooms :
        (r \in rooms \ early /\ started[r] /\ status[r] = "Waiting" /\ p \in members[r])
            ~> (p \in ToSet(queue) \/ socket[p] # "open" \/ p \notin allPlayers)

=============================================================================
