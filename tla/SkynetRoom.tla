----------------------------- MODULE SkynetRoom -----------------------------
(***************************************************************************)
(* The board of a room of the skynet snake server: service/room/init.lua   *)
(* and lualib/snake/game.lua.  A coroutine of the room service only stops  *)
(* where it sleeps, so the set-up and a whole tick are one step each, with *)
(* the moves of the players in between.  The messages the room sends are   *)
(* in SnakeSkynet.  The service's remove_player changes nothing: it takes  *)
(* the sender for the player.                                              *)
(***************************************************************************)
EXTENDS Integers, Sequences, FiniteSets, SequencesExt

CONSTANTS
    Players,     \* the players match_loop sends along with init
    Width,       \* WIDTH
    Height,      \* HEIGHT
    SpawnSites,  \* heads room_find_spawn_position may draw
    FoodSites,   \* cells room_ensure_food may draw
    MaxTicks     \* bound: ticks explored

Cells == [x : 0 .. Width - 1, y : 0 .. Height - 1]

ASSUME RoomAssumption ==
    /\ Width \in Nat /\ Height \in Nat /\ MaxTicks \in Nat
    /\ SpawnSites \subseteq [x : 2 .. Width - 3, y : 2 .. Height - 3]
    /\ FoodSites \subseteq Cells
    /\ IsFiniteSet(Players)

Direction == {"Up", "Down", "Left", "Right"}

VARIABLES
    status,   \* room.status; the service exits with "Waiting"
    order,    \* the order of pairs(room.players)
    dir,      \* player.direction
    pending,  \* player.pending
    alive,    \* player.alive
    score,    \* player.score
    segs,     \* player.segments, head first
    foods,    \* room.foods
    ticks     \* ticks so far

roomVars == <<status, order, dir, pending, alive, score, segs, foods, ticks>>

-----------------------------------------------------------------------------
(* Geometry and the random choices *)

DX == [Up |-> 0, Down |-> 0, Left |-> -1, Right |-> 1]
DY == [Up |-> -1, Down |-> 1, Left |-> 0, Right |-> 0]
Step(pos, d) == [x |-> pos.x + DX[d], y |-> pos.y + DY[d]]

\* Mutant of IsOpposite: left and right are forgotten.
IsOppositeUpright(a, b) == {a, b} = {"Up", "Down"}

IsOpposite(a, b) ==
    {a, b} \in {{"Up", "Down"}, {"Left", "Right"}}

CoveredBy(bodies) == UNION {ToSet(bodies[p]) : p \in Players}

\* room_ensure_food: with no cell left its thousand attempts find nothing.
EnsureFood(fs, bodies) ==
    LET free == FoodSites \ CoveredBy(bodies)
    IN  IF fs # {} \/ free = {} THEN {fs} ELSE {{c} : c \in free}

NewSegments(pos) == <<pos, Step(pos, "Left"), Step(Step(pos, "Left"), "Left")>>

Collides(pos, other) ==
    \/ ToSet(NewSegments(pos)) \cap ToSet(NewSegments(other)) # {}
    \/ Step(pos, "Right") = other
    \/ pos = Step(other, "Right")

\* room_find_spawn_position: only a crowded board makes it give up and return
\* a position that collides.
FindSpawnPosition(others) ==
    LET free == {pos \in SpawnSites : \A other \in others : ~Collides(pos, other)}
    IN  IF free # {} THEN free ELSE SpawnSites

\* The board has a free position for each player of a match, who has to avoid
\* the others only.
NeverCrowded ==
    \A others \in SUBSET SpawnSites : Cardinality(others) < Cardinality(Players) =>
        \E pos \in SpawnSites : \A other \in others : ~Collides(pos, other)

-----------------------------------------------------------------------------
(* The messages init and handle_player_move *)

\* The heads of the players in the order of init's list.
Spawns(list) ==
    {heads \in [1 .. Len(list) -> SpawnSites] : \A i \in 1 .. Len(list) :
        heads[i] \in FindSpawnPosition({heads[j] : j \in 1 .. i - 1})}

\* The service's first message, before which it has no room.  The order of
\* pairs has nothing to do with that of the list.
RoomInit ==
    /\ status = "Playing"
    /\ order \in SetToSeqs(Players)
    /\ \E list \in SetToSeqs(Players) : \E heads \in Spawns(list) :
          segs = [p \in Players |-> NewSegments(heads[CHOOSE i \in DOMAIN list : list[i] = p])]
    /\ dir = [p \in Players |-> "Right"] /\ pending = dir
    /\ alive = [p \in Players |-> TRUE]
    /\ score = [p \in Players |-> 0]
    /\ foods \in EnsureFood({}, segs)
    /\ ticks = 0

HandlePlayerMove(p, d) ==
    /\ status = "Playing"
    /\ ~IsOpposite(dir[p], d)
    /\ pending' = [pending EXCEPT ![p] = d]
    /\ UNCHANGED <<status, order, dir, alive, score, segs, foods, ticks>>

-----------------------------------------------------------------------------
(* game_loop *)

\* What the iterations of a tick hand on to each other.
Board(bodies, living, fs, map, meals, heading) ==
    [segs |-> bodies, alive |-> living, foods |-> fs, map |-> map, score |-> meals, dir |-> heading]

Hits(head, map) == head \notin Cells \/ head \in map

\* The linked list of segments gets a new head, and loses its last but for a meal.
Crawl(list, head, ate) == <<head>> \o (IF ate THEN list ELSE Front(list))

\* One player's iteration: its tail is free from now on, a crash clears its
\* segments but not its cells on the map, a new head is entered at once.
MovePlayer(b, p) ==
    LET map  == b.map \ {Last(b.segs[p])}
        d    == IF IsOpposite(b.dir[p], pending[p]) THEN b.dir[p] ELSE pending[p]
        head == Step(b.segs[p][1], d)
        ate  == head \in b.foods
        dirs == [b.dir EXCEPT ![p] = d]
    IN  IF ~b.alive[p] THEN b
        ELSE IF Hits(head, map)
        THEN Board([b.segs EXCEPT ![p] = <<>>], [b.alive EXCEPT ![p] = FALSE], b.foods, map, b.score, dirs)
        ELSE Board([b.segs EXCEPT ![p] = Crawl(@, head, ate)], b.alive, b.foods \ {head},
                   map \cup {head}, [b.score EXCEPT ![p] = IF ate THEN @ + 1 ELSE @], dirs)

\* The board before the first iteration and after each.
Boards(fs) ==
    LET after[i \in 0 .. Len(order)] ==
            IF i = 0 THEN Board(segs, alive, fs, CoveredBy(segs), score, dir)
            ELSE MovePlayer(after[i - 1], order[i])
    IN  after

\* room_advance_world between its two calls of room_ensure_food.
MovePlayers(fs) == Boards(fs)[Len(order)]

\* The game is over with at most one player alive: the state is sent, the
\* players are told to leave and the service exits.
Tick ==
    /\ status = "Playing"
    /\ ticks < MaxTicks
    /\ \E fs \in EnsureFood(foods, segs) :
          LET b == MovePlayers(fs)
          IN  /\ foods' \in EnsureFood(b.foods, b.segs)
              /\ segs' = b.segs /\ alive' = b.alive /\ score' = b.score /\ dir' = b.dir
              /\ status' = IF Cardinality({p \in Players : b.alive[p]}) <= 1 THEN "Waiting" ELSE status
    /\ ticks' = ticks + 1
    /\ UNCHANGED <<order, pending>>

RoomNext ==
    \/ \E p \in Players, d \in Direction : HandlePlayerMove(p, d)
    \/ Tick

RoomSpec == RoomInit /\ [][RoomNext]_roomVars

-----------------------------------------------------------------------------
(* Properties *)

(* The fields keep their types. *)
RoomTypeOK ==
    /\ status \in {"Playing", "Waiting"}
    /\ order \in Seq(Players)
    /\ dir \in [Players -> Direction] /\ pending \in [Players -> Direction]
    /\ alive \in [Players -> BOOLEAN] /\ score \in [Players -> Nat]
    /\ segs \in [Players -> Seq(Cells)]
    /\ foods \subseteq Cells /\ Cardinality(foods) <= 1
    /\ ticks \in 0 .. MaxTicks

(* Whatever the players press, in whatever order pairs() visits them, what *)
(* the room broadcasts is a game by the rules.                             *)
Rules == INSTANCE SnakeRules WITH body <- segs, over <- (status = "Waiting")
ImplementsRules == Rules!Spec
=============================================================================
