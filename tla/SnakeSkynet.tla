---------------------------- MODULE SnakeSkynet ----------------------------
(***************************************************************************)
(* The snake server on skynet: gateway, match_loop and room services that  *)
(* exchange messages.  A service handles its mailbox one message at a time *)
(* and another one whenever a handler waits for an answer, so an action is *)
(* the run of one coroutine from one wait to the next.                     *)
(*                                                                         *)
(* The gateways' mailboxes are kept apart by player: their handlers touch  *)
(* the session of one player only, and a node runs several gateways.  The  *)
(* board is SkynetRoom; a tick is here the set of players it kills.        *)
(***************************************************************************)
EXTENDS Integers, Sequences, FiniteSets, SequencesExt

CONSTANTS
    Players,    \* one per connection: a socket id is not used twice
    MatchSize,  \* MATCH_SIZE
    MaxRooms,   \* bound: rooms ever created
    MaxAcks,    \* bound: acknowledgements of a client; a polite one sends one
    MaxSent,    \* bound: moves and kicks of all clients
    MaxMail     \* bound: a room ticks when its players' mailboxes are shorter

ASSUME SkynetAssumption ==
    /\ IsFiniteSet(Players)
    /\ MatchSize \in Nat \ {0}
    /\ {MaxRooms, MaxAcks, MaxSent, MaxMail} \subseteq Nat

Rooms == 1 .. MaxRooms
NoRoom == 0

VARIABLES
    socket,    \* the connection: "new", "open", "left" by the client, "closed"
    inbox,     \* the package the client has sent and nobody has read, or "none"
    acks,      \* acknowledgements sent
    sent,      \* moves and kicks sent
    reader,    \* recv_loop: "new", "read", "join", "gone", "close", "done"
    mapped,    \* the keys of sessionMap
    roomOf,    \* session.roomService
    calls,     \* uniqueservice calls that the service manager has not answered
    gate,      \* the gateway's mailbox
    matchBox,  \* match_loop's mailbox
    known,     \* match_loop's players (its keys)
    queue,     \* match_queue.queue
    matching,  \* the match loop: "sleep", "create" while newservice runs
    batch,     \* roomPlayers
    nextRoom,  \* next_room_id
    status,    \* a room: "none", "init" before its first message, "PLAYING", "exited"
    members,   \* room.players
    alive,     \* the members that are alive
    roomBox,   \* a room's mailbox: the players whose move it carries
    turned     \* the members with a turn pending

client == <<socket, inbox, acks, sent>>
gateway == <<reader, mapped, roomOf, calls, gate>>
matcher == <<matchBox, known, queue, matching, batch, nextRoom>>
room == <<status, members, alive, roomBox, turned>>
vars == <<client, gateway, matcher, room>>

Init ==
    /\ socket = [p \in Players |-> "new"]
    /\ inbox = [p \in Players |-> "none"]
    /\ acks = [p \in Players |-> 0]
    /\ sent = 0
    /\ reader = [p \in Players |-> "new"]
    /\ mapped = {}
    /\ roomOf = [p \in Players |-> NoRoom]
    /\ calls = [p \in Players |-> <<>>]
    /\ gate = [p \in Players |-> <<>>]
    /\ matchBox = <<>>
    /\ known = {}
    /\ queue = <<>>
    /\ matching = "sleep"
    /\ batch = <<>>
    /\ nextRoom = 1
    /\ status = [r \in Rooms |-> "none"]
    /\ members = [r \in Rooms |-> {}]
    /\ alive = [r \in Rooms |-> {}]
    /\ roomBox = [r \in Rooms |-> <<>>]
    /\ turned = [r \in Rooms |-> {}]

Msg(type, r) == [type |-> type, room |-> r]

-----------------------------------------------------------------------------
(* Clients *)

Connect(p) ==
    /\ socket[p] = "new"
    /\ socket' = [socket EXCEPT ![p] = "open"]
    /\ UNCHANGED <<inbox, acks, sent, gateway, matcher, room>>

ClientAck(p) ==
    /\ socket[p] = "open" /\ inbox[p] = "none" /\ acks[p] < MaxAcks
    /\ inbox' = [inbox EXCEPT ![p] = "ack"]
    /\ acks' = [acks EXCEPT ![p] = @ + 1]
    /\ UNCHANGED <<socket, sent, gateway, matcher, room>>

\* A move, or a kick.  The clients of the repository send their moves as JSON
\* objects; a JSON string that holds the object is the other body there is.
ClientSend(p) ==
    /\ socket[p] = "open" /\ inbox[p] = "none" /\ sent < MaxSent
    /\ \E package \in {"object", "text", "kick"} : inbox' = [inbox EXCEPT ![p] = package]
    /\ sent' = sent + 1
    /\ UNCHANGED <<socket, acks, gateway, matcher, room>>

ClientLeave(p) ==
    /\ socket[p] = "open"
    /\ socket' = [socket EXCEPT ![p] = "left"]
    /\ UNCHANGED <<inbox, acks, sent, gateway, matcher, room>>

-----------------------------------------------------------------------------
(* The gateway: one recv_loop per connection *)

\* skynet.uniqueservice: the coroutine waits for the service manager.
Call(p, who) == calls' = [calls EXCEPT ![p] = Append(@, who)]

ServiceReplies(p) ==
    /\ calls[p] # <<>>
    /\ gate' = [gate EXCEPT ![p] = Append(@, Msg(Head(calls[p]), NoRoom))]
    /\ calls' = [calls EXCEPT ![p] = Tail(@)]
    /\ UNCHANGED <<client, reader, mapped, roomOf, matcher, room>>

Start(p) ==
    /\ reader[p] = "new" /\ socket[p] # "new"
    /\ reader' = [reader EXCEPT ![p] = "read"]
    /\ mapped' = mapped \union {p}
    /\ UNCHANGED <<client, roomOf, calls, gate, matcher, room>>

\* A package of the client, which is complete; it is read before the end of
\* the connection is.  Only an acknowledgement and a kick make the loop wait.
Reads(p, package) ==
    /\ reader[p] = "read" /\ inbox[p] = package
    /\ inbox' = [inbox EXCEPT ![p] = "none"]
    /\ UNCHANGED <<socket, acks, sent>>

HandshakeAck(p) ==
    /\ Reads(p, "ack")
    /\ Call(p, "join")
    /\ reader' = [reader EXCEPT ![p] = "join"]
    /\ UNCHANGED <<mapped, roomOf, gate, matcher, room>>

\* handleKick closes; the next read then finds no socket and ends the loop.
Kick(p) ==
    /\ Reads(p, "kick")
    /\ Call(p, "close")
    /\ reader' = [reader EXCEPT ![p] = "close"]
    /\ UNCHANGED <<mapped, roomOf, gate, matcher, room>>

\* The handler wants a string, but handleData has already decoded the body.
\* What is sent to a room that has exited is dropped.
MoveHandler(p) ==
    /\ \/ Reads(p, "object") /\ UNCHANGED roomBox
       \/ /\ Reads(p, "text")
          /\ LET r == roomOf[p]
             IN  roomBox' = IF r # NoRoom /\ status[r] # "exited"
                            THEN [roomBox EXCEPT ![r] = Append(@, p)] ELSE roomBox
    /\ UNCHANGED <<gateway, matcher, status, members, alive, turned>>

\* socket.read fails: remove_player, then close(), which sends it once more.
ReadFails(p) ==
    /\ reader[p] = "read" /\ inbox[p] = "none" /\ socket[p] = "left"
    /\ Call(p, "gone")
    /\ reader' = [reader EXCEPT ![p] = "gone"]
    /\ UNCHANGED <<client, mapped, roomOf, gate, matcher, room>>

\* The gateway takes a message of the given type for p.
Takes(p, type) ==
    /\ gate[p] # <<>> /\ Head(gate[p]).type = type
    /\ gate' = [gate EXCEPT ![p] = Tail(@)]

SendMatch(type, p) == matchBox' = Append(matchBox, [type |-> type, player |-> p])

\* joinMatching goes on after the wait: in the reader after an
\* acknowledgement, or in on_leave_room.  Nobody asks again for the session.
Joins(p) ==
    /\ \/ Takes(p, "join") /\ reader' = [reader EXCEPT ![p] = "read"]
       \/ Takes(p, "rejoin") /\ UNCHANGED reader
    /\ SendMatch("add", p)
    /\ UNCHANGED <<client, mapped, roomOf, calls, known, queue, matching, batch, nextRoom, room>>

\* After the first wait of the end of the connection.
Gone(p) ==
    /\ Takes(p, "gone")
    /\ SendMatch("remove", p)
    /\ Call(p, "close")
    /\ reader' = [reader EXCEPT ![p] = "close"]
    /\ UNCHANGED <<client, mapped, roomOf, known, queue, matching, batch, nextRoom, room>>

\* closeCallback, after its wait.
CloseCallback(p) ==
    /\ Takes(p, "close")
    /\ SendMatch("remove", p)
    /\ mapped' = mapped \ {p}
    /\ socket' = [socket EXCEPT ![p] = "closed"]
    /\ reader' = [reader EXCEPT ![p] = "done"]
    /\ UNCHANGED <<inbox, acks, sent, roomOf, calls, known, queue, matching, batch, nextRoom, room>>

OnJoinRoom(p) ==
    /\ Takes(p, "on_join_room")
    /\ roomOf' = IF p \in mapped
                 THEN [roomOf EXCEPT ![p] = Head(gate[p]).room] ELSE roomOf
    /\ UNCHANGED <<client, reader, mapped, calls, matcher, room>>

\* Mutants of OnLeaveRoom: one keeps the session's room, one does not rejoin.
OnLeaveRoomStale(p) ==
    /\ Takes(p, "on_leave_room")
    /\ IF p \in mapped THEN Call(p, "rejoin") ELSE UNCHANGED calls
    /\ UNCHANGED <<client, reader, mapped, roomOf, matcher, room>>

OnLeaveRoomStays(p) ==
    /\ Takes(p, "on_leave_room")
    /\ roomOf' = IF p \in mapped THEN [roomOf EXCEPT ![p] = NoRoom] ELSE roomOf
    /\ UNCHANGED <<client, reader, mapped, calls, matcher, room>>

OnLeaveRoom(p) ==
    /\ Takes(p, "on_leave_room")
    /\ roomOf' = IF p \in mapped THEN [roomOf EXCEPT ![p] = NoRoom] ELSE roomOf
    /\ IF p \in mapped THEN Call(p, "rejoin") ELSE UNCHANGED calls
    /\ UNCHANGED <<client, reader, mapped, matcher, room>>

\* A write to a connection the client has left may fail; the session is then
\* dropped, and the reader finds out later.
PushToClient(p) ==
    /\ Takes(p, "push_to_client")
    /\ \/ UNCHANGED mapped
       \/ p \in mapped /\ socket[p] # "open" /\ mapped' = mapped \ {p}
    /\ UNCHANGED <<client, reader, roomOf, calls, matcher, room>>

-----------------------------------------------------------------------------
(* match_loop *)

Enqueue(q, p) == IF p \in ToSet(q) THEN q ELSE Append(q, p)

AddPlayerToQueue ==
    /\ matchBox # <<>> /\ Head(matchBox).type = "add"
    /\ LET p == Head(matchBox).player
       IN  known' = known \union {p} /\ queue' = Enqueue(queue, p)
    /\ matchBox' = Tail(matchBox)
    /\ UNCHANGED <<client, gateway, matching, batch, nextRoom, room>>

\* The dispatcher passes the sender's address first and remove_player takes it
\* for the player's id, which is never a key of players.
RemovePlayer ==
    /\ matchBox # <<>> /\ Head(matchBox).type = "remove"
    /\ matchBox' = Tail(matchBox)
    /\ UNCHANGED <<client, gateway, known, queue, matching, batch, nextRoom, room>>

MatchReady == Len(queue) >= MatchSize

\* Mutant of Rest: one player of the batch stays in the queue.
RestKeepsOne == SubSeq(queue, MatchSize, Len(queue))

Rest == SubSeq(queue, MatchSize + 1, Len(queue))

MatchTake ==
    /\ matching = "sleep" /\ MatchReady /\ nextRoom <= MaxRooms
    /\ nextRoom' = nextRoom + 1
    /\ batch' = SubSeq(queue, 1, MatchSize)
    /\ known' = known \union ToSet(SubSeq(queue, 1, MatchSize))
    /\ queue' = Rest
    /\ matching' = "create"
    /\ UNCHANGED <<client, gateway, matchBox, room>>

\* newservice has returned; the batch is on its way to the room.
MatchCreate ==
    /\ matching = "create"
    /\ LET r == nextRoom - 1
       IN  /\ status' = [status EXCEPT ![r] = "init"]
           /\ members' = [members EXCEPT ![r] = ToSet(batch)]
    /\ batch' = <<>>
    /\ matching' = "sleep"
    /\ UNCHANGED <<client, gateway, matchBox, known, queue, nextRoom, alive, roomBox, turned>>

-----------------------------------------------------------------------------
(* Rooms *)

RoomInit(r) ==
    /\ status[r] = "init"
    /\ status' = [status EXCEPT ![r] = "PLAYING"]
    /\ alive' = [alive EXCEPT ![r] = members[r]]
    /\ gate' = [p \in Players |-> IF p \in members[r]
                    THEN gate[p] \o <<Msg("on_join_room", r), Msg("push_to_client", r)>>
                    ELSE gate[p]]
    /\ UNCHANGED <<client, reader, mapped, roomOf, calls, matcher, members, roomBox, turned>>

\* Everybody leaves a room with at most one player alive.
Leaving(r, left) == members[r]

\* game_loop after its sleep.
GameLoop(r) ==
    /\ status[r] = "PLAYING"
    /\ \A p \in members[r] : Len(gate[p]) < MaxMail
    /\ \E dead \in SUBSET alive[r] :
        LET left == alive[r] \ dead
            over == Cardinality(left) <= 1
            leaving == IF over THEN Leaving(r, left) ELSE {}
            state == <<Msg("push_to_client", r)>>
        IN  /\ gate' = [p \in Players |-> gate[p]
                          \o (IF p \in members[r] THEN state ELSE <<>>)
                          \o (IF p \in leaving THEN <<Msg("on_leave_room", r)>> ELSE <<>>)]
            /\ alive' = [alive EXCEPT ![r] = left]
            /\ status' = [status EXCEPT ![r] = IF over THEN "exited" ELSE @]
            /\ roomBox' = [roomBox EXCEPT ![r] = IF over THEN <<>> ELSE @]
            /\ turned' = [turned EXCEPT ![r] = {}]
    /\ UNCHANGED <<client, reader, mapped, roomOf, calls, matcher, members>>

HandlePlayerMove(r) ==
    /\ status[r] = "PLAYING" /\ roomBox[r] # <<>>
    /\ LET p == Head(roomBox[r])
       IN  turned' = IF p \in members[r] THEN [turned EXCEPT ![r] = @ \union {p}] ELSE turned
    /\ roomBox' = [roomBox EXCEPT ![r] = Tail(@)]
    /\ UNCHANGED <<client, gateway, matcher, status, members, alive>>

-----------------------------------------------------------------------------
Client(p) ==
    \/ Connect(p) \/ ClientAck(p) \/ ClientSend(p) \/ ClientLeave(p)

Reader(p) ==
    \/ Start(p) \/ HandshakeAck(p) \/ Kick(p) \/ MoveHandler(p) \/ ReadFails(p)

Gateway(p) ==
    \/ Joins(p) \/ Gone(p) \/ CloseCallback(p)
    \/ OnJoinRoom(p) \/ OnLeaveRoom(p) \/ PushToClient(p)

MatchLoop == MatchTake \/ MatchCreate

Room(r) == RoomInit(r) \/ GameLoop(r) \/ HandlePlayerMove(r)

Next ==
    \/ \E p \in Players : Client(p) \/ Reader(p) \/ ServiceReplies(p) \/ Gateway(p)
    \/ AddPlayerToQueue \/ RemovePlayer \/ MatchLoop
    \/ \E r \in Rooms : Room(r)

Spec == Init /\ [][Next]_vars

\* skynet's workers serve every mailbox and wake every coroutine that is due.
FairSpec ==
    /\ Spec
    /\ \A p \in Players : WF_vars(Reader(p) \/ ServiceReplies(p) \/ Gateway(p))
    /\ WF_vars(AddPlayerToQueue \/ RemovePlayer)
    /\ WF_vars(MatchLoop)
    /\ \A r \in Rooms : WF_vars(RoomInit(r))

-----------------------------------------------------------------------------
(* Properties *)

GateMsgs ==
    [type : {"join", "rejoin", "gone", "close", "on_join_room", "on_leave_room",
             "push_to_client"}, room : Rooms \union {NoRoom}]

\* Every variable holds values of its type; the mailboxes carry known messages.
TypeOK ==
    /\ socket \in [Players -> {"new", "open", "left", "closed"}]
    /\ inbox \in [Players -> {"none", "ack", "object", "text", "kick"}]
    /\ acks \in [Players -> 0 .. MaxAcks] /\ sent \in 0 .. MaxSent
    /\ reader \in [Players -> {"new", "read", "join", "gone", "close", "done"}]
    /\ mapped \subseteq Players /\ known \subseteq Players
    /\ roomOf \in [Players -> Rooms \union {NoRoom}]
    /\ calls \in [Players -> Seq({"join", "rejoin", "gone", "close"})]
    /\ gate \in [Players -> Seq(GateMsgs)]
    /\ matchBox \in Seq([type : {"add", "remove"}, player : Players])
    /\ queue \in Seq(Players) /\ batch \in Seq(Players)
    /\ matching \in {"sleep", "create"}
    /\ nextRoom \in 1 .. MaxRooms + 1
    /\ status \in [Rooms -> {"none", "init", "PLAYING", "exited"}]
    /\ members \in [Rooms -> SUBSET Players]
    /\ alive \in [Rooms -> SUBSET Players] /\ turned \in [Rooms -> SUBSET Players]
    /\ roomBox \in [Rooms -> Seq(Players)]

\* The positions of a sequence that satisfy a test, tagged with its name.
At(name, s, Test(_)) == {<<name, i>> : i \in {j \in DOMAIN s : Test(s[j])}}

Active(r) == status[r] \in {"init", "PLAYING"}

\* Everywhere a player is on its way through matchmaking: asking to join,
\* queued, being matched, in a room, or about to leave it.
Seats(p) ==
    At("calls", calls[p], LAMBDA c : c \in {"join", "rejoin"})
    \union At("gate", gate[p], LAMBDA m : m.type \in {"join", "rejoin", "on_leave_room"})
    \union At("match", matchBox, LAMBDA m : m = [type |-> "add", player |-> p])
    \union At("queue", queue, LAMBDA q : q = p)
    \union At("batch", batch, LAMBDA q : q = p)
    \union {<<"room", r>> : r \in {s \in Rooms : Active(s) /\ p \in members[s]}}

\* A player whose client acknowledges once is at one place of matchmaking at
\* most: never in two rooms, in a room and in the queue, or queued twice, also
\* while requests to join and to leave are under way.
OnePlace == \A p \in Players : acks[p] <= 1 => Cardinality(Seats(p)) <= 1

\* Matchmaking loses nobody: a player who has acknowledged and whose session
\* lives is somewhere on the way, or about to be put there.
NobodyIsLost ==
    \A p \in mapped : acks[p] > 0 /\ inbox[p] # "ack" => Seats(p) # {}

\* The room a session sends its moves to is the room its player plays in, but
\* for the messages that say so and have not been handled.
SessionKnowsRoom ==
    \A p \in Players : acks[p] <= 1 => \A r \in Rooms :
        /\ p \in mapped /\ p \in members[r] /\ status[r] = "PLAYING" =>
               roomOf[p] = r \/ Msg("on_join_room", r) \in ToSet(gate[p])
        /\ p \in mapped /\ roomOf[p] = r =>
               \/ status[r] = "PLAYING" /\ p \in members[r]
               \/ Msg("on_leave_room", r) \in ToSet(gate[p])

\* Who is told to leave a room is queued again if its session still lives.
LeaversRejoin ==
    \A p \in Players :
        (\E i \in DOMAIN gate[p] : gate[p][i].type = "on_leave_room")
            ~> p \in ToSet(queue) \/ p \notin mapped

=============================================================================
