----------------------------- MODULE SnakeWorld -----------------------------
(***************************************************************************)
(* One game room of the C# snake server: the class Room of                 *)
(* snake_game/server-cs/Room.cs with the Player objects it holds.          *)
(*                                                                         *)
(* Every method of Room runs inside lock(_stateLock).  A tick of the game  *)
(* loop (AdvanceWorld) is split here into its loop iterations - BeginTick, *)
(* one MovePlayer per living player, EndTick - so that properties can      *)
(* speak of the occupancy map between two moves; "ticking" is the lock     *)
(* held across them, and the operations of the other threads wait for it.  *)
(***************************************************************************)
EXTENDS Integers, Sequences, FiniteSets

CONSTANTS
    Players,     \* the players MatchLoop may add to this room
    Width,       \* _width
    Height,      \* _height
    SpawnSites,  \* heads FindSpawnPosition's random generator may draw
    FoodSites,   \* cells EnsureFood's random generator may draw
    MaxTicks     \* bound: ticks of the game loop that are explored

Cells == [x : 0 .. Width - 1, y : 0 .. Height - 1]

\* rng.Next(2, w - 2) excludes its upper bound: a spawning head is at least
\* two cells away from every wall.
ASSUME BoardAssumption ==
    /\ Width \in Nat
    /\ Height \in Nat
    /\ SpawnSites \subseteq [x : 2 .. Width - 3, y : 2 .. Height - 3]
    /\ FoodSites \subseteq Cells
    /\ SpawnSites # {}
    /\ MaxTicks \in Nat
    /\ IsFiniteSet(Players)

Direction == {"Up", "Down", "Left", "Right"}
Pos == [x : Int, y : Int]
Seats == 1 .. Cardinality(Players)

VARIABLES
    stage,      \* "filling" while MatchLoop adds players, then "looping"
    status,     \* _status
    seat,       \* place of a player in _players' enumeration, 0 when absent
    dir,        \* Player.Direction
    pending,    \* Player.Pending
    alive,      \* Player.Alive
    score,      \* Player.Score
    segs,       \* Player.Segments, head first
    foods,      \* _foods
    ticking,    \* a tick holds the lock
    todo,       \* players whose iteration of the tick is still to come
    occupancy,  \* the occupancy map of the running tick
    ticks       \* ticks begun so far

snake == <<dir, pending, alive, score, segs>>
tick == <<ticking, todo, occupancy, ticks>>
vars == <<stage, status, seat, snake, foods, tick>>

-----------------------------------------------------------------------------
(* Geometry and the random choices *)

DX == [Up |-> 0, Down |-> 0, Left |-> -1, Right |-> 1]
DY == [Up |-> -1, Down |-> 1, Left |-> 0, Right |-> 0]

Step(p, d) == [x |-> p.x + DX[d], y |-> p.y + DY[d]]

\* Mutant of IsOpposite: one of the four pairs is forgotten.
IsOppositeThreePairs(a, b) ==
    <<a, b>> \in {<<"Up", "Down">>, <<"Down", "Up">>, <<"Left", "Right">>}

IsOpposite(a, b) ==
    <<a, b>> \in {<<"Up", "Down">>, <<"Down", "Up">>,
                  <<"Left", "Right">>, <<"Right", "Left">>}

Members == {p \in Players : seat[p] # 0}
Living == {p \in Members : alive[p]}

Body(p) == {segs[p][i] : i \in DOMAIN segs[p]}
Covered == UNION {Body(p) : p \in Members}

\* Mutant of EnsureFood: the upper bounds of the draw are inclusive.
EnsureFoodInclusive(fs, covered) ==
    IF fs # {} THEN {fs} ELSE {{c} : c \in [x : 0 .. Width, y : 0 .. Height] \ covered}

\* The food list after EnsureFood, which draws until a cell is not covered.
\* With no such cell the code draws for ever: no result here.
EnsureFood(fs, covered) ==
    IF fs # {} THEN {fs} ELSE {{c} : c \in FoodSites \ covered}

SpawnBody(pos) == <<pos, Step(pos, "Left"), Step(Step(pos, "Left"), "Left")>>

\* Mutant of FindSpawnPosition: the first draw is taken.
FirstSpawnPosition == SpawnSites

\* The draw is repeated until the body is free; only a crowded board makes
\* the loop give up (attempts > 100) and return a colliding position.
FindSpawnPosition ==
    LET free == {c \in SpawnSites : \A i \in 1 .. 3 : SpawnBody(c)[i] \notin Covered}
    IN  IF free # {} THEN free ELSE SpawnSites

-----------------------------------------------------------------------------
(* Filling the room and starting the game: MatchLoop's calls *)

Init ==
    /\ stage = "filling"
    /\ status = "Waiting"
    /\ seat = [p \in Players |-> 0]
    /\ dir = [p \in Players |-> "Up"]
    /\ pending = [p \in Players |-> "Up"]
    /\ alive = [p \in Players |-> TRUE]
    /\ score = [p \in Players |-> 0]
    /\ segs = [p \in Players |-> <<>>]
    /\ foods \in EnsureFood({}, {})
    /\ ticking = FALSE
    /\ todo = {}
    /\ occupancy = {}
    /\ ticks = 0

\* .NET leaves the enumeration order of a Dictionary open, and an entry added
\* after a removal reuses a freed slot: any unused seat.
AddPlayer(p) ==
    /\ stage = "filling"
    /\ status = "Waiting"
    /\ p \notin Members
    /\ \E s \in Seats \ {seat[q] : q \in Players} : seat' = [seat EXCEPT ![p] = s]
    /\ \E pos \in FindSpawnPosition : segs' = [segs EXCEPT ![p] = SpawnBody(pos)]
    /\ dir' = [dir EXCEPT ![p] = "Right"]
    /\ pending' = [pending EXCEPT ![p] = "Right"]
    /\ alive' = [alive EXCEPT ![p] = TRUE]
    /\ score' = [score EXCEPT ![p] = 0]
    /\ UNCHANGED <<stage, status, foods, tick>>

\* An empty room is not started, but its game loop runs all the same.
StartGame ==
    /\ stage = "filling"
    /\ stage' = "looping"
    /\ IF status = "Waiting" /\ Members # {}
       THEN /\ status' = "Playing"
            /\ foods' \in EnsureFood(foods, Covered)
       ELSE UNCHANGED <<status, foods>>
    /\ UNCHANGED <<seat, snake, tick>>

-----------------------------------------------------------------------------
(* The game loop *)

BeginTick ==
    /\ stage = "looping"
    /\ status = "Playing"
    /\ ~ticking
    /\ ticks < MaxTicks
    /\ foods' \in EnsureFood(foods, Covered)
    /\ ticking' = TRUE
    /\ todo' = {p \in Living : segs[p] # <<>>}
    /\ occupancy' = UNION {Body(p) : p \in Living}
    /\ ticks' = ticks + 1
    /\ UNCHANGED <<stage, status, seat, snake>>

NextDirection(p) ==
    IF IsOpposite(dir[p], pending[p]) THEN dir[p] ELSE pending[p]

NextHead(p) == Step(segs[p][1], NextDirection(p))

\* The mover's tail is struck from the map, because it is about to move away.
MapWithoutTail(p) == occupancy \ {segs[p][Len(segs[p])]}

\* Mutant of Hits: the walls are forgotten.
HitsBodyOnly(p) == NextHead(p) \in MapWithoutTail(p)

Hits(p) == NextHead(p) \notin Cells \/ NextHead(p) \in MapWithoutTail(p)

IsNext(p) ==
    /\ ticking
    /\ p \in todo
    /\ \A q \in todo : seat[p] <= seat[q]

\* The mover runs into a wall or an occupied cell; its cells stay on the map.
Crash(p) ==
    /\ Hits(p)
    /\ alive' = [alive EXCEPT ![p] = FALSE]
    /\ segs' = [segs EXCEPT ![p] = <<>>]
    /\ occupancy' = MapWithoutTail(p)
    /\ UNCHANGED <<score, foods>>

\* The mover advances; a meal keeps the tail where it was.
Advance(p) ==
    LET ate == NextHead(p) \in foods
        kept == IF ate THEN segs[p] ELSE SubSeq(segs[p], 1, Len(segs[p]) - 1)
    IN  /\ ~Hits(p)
        /\ segs' = [segs EXCEPT ![p] = <<NextHead(p)>> \o kept]
        /\ foods' = foods \ {NextHead(p)}
        /\ score' = [score EXCEPT ![p] = IF ate THEN @ + 1 ELSE @]
        /\ occupancy' = MapWithoutTail(p) \cup {NextHead(p)}
        /\ UNCHANGED alive

MovePlayer(p) ==
    /\ IsNext(p)
    /\ Crash(p) \/ Advance(p)
    /\ dir' = [dir EXCEPT ![p] = NextDirection(p)]
    /\ todo' = todo \ {p}
    /\ UNCHANGED <<stage, status, seat, pending, ticking, ticks>>

\* The game is over when at most one player is left alive.
EndTick ==
    /\ ticking
    /\ todo = {}
    /\ foods' \in EnsureFood(foods, Covered)
    /\ status' = IF Cardinality(Living) <= 1 THEN "Waiting" ELSE status
    /\ ticking' = FALSE
    /\ occupancy' = {}
    /\ UNCHANGED <<stage, seat, snake, todo, ticks>>

-----------------------------------------------------------------------------
(* Calls of the connection threads *)

HandlePlayerMove(p, d) ==
    /\ ~ticking
    /\ p \in Members
    /\ ~IsOpposite(dir[p], d)
    /\ pending' = [pending EXCEPT ![p] = d]
    /\ UNCHANGED <<stage, status, seat, dir, alive, score, segs, foods, tick>>

\* A disconnect, or a send that failed while broadcasting the state.
RemovePlayer(p) ==
    /\ ~ticking
    /\ p \in Members
    /\ seat' = [seat EXCEPT ![p] = 0]
    /\ UNCHANGED <<stage, status, snake, foods, tick>>

Next ==
    \/ \E p \in Players : AddPlayer(p)
    \/ StartGame
    \/ BeginTick
    \/ \E p \in Players : MovePlayer(p)
    \/ EndTick
    \/ \E p \in Players, d \in Direction : HandlePlayerMove(p, d)
    \/ \E p \in Players : RemovePlayer(p)

Spec == Init /\ [][Next]_vars

-----------------------------------------------------------------------------
(* Properties *)

\* The variables keep the types of the fields they stand for.
TypeOK ==
    /\ stage \in {"filling", "looping"}
    /\ status \in {"Waiting", "Playing"}
    /\ seat \in [Players -> 0 .. Cardinality(Players)]
    /\ dir \in [Players -> Direction]
    /\ pending \in [Players -> Direction]
    /\ alive \in [Players -> BOOLEAN]
    /\ score \in [Players -> Nat]
    /\ segs \in [Players -> Seq(Pos)]
    /\ foods \subseteq Cells
    /\ ticking \in BOOLEAN
    /\ todo \subseteq Players
    /\ occupancy \subseteq Pos
    /\ ticks \in 0 .. MaxTicks

\* Whatever keys a player presses between two ticks, the move that follows
\* never turns the snake back onto its own neck (HandlePlayerMove accepts
\* several turns per tick, AdvanceWorld applies the last one).
NeckSafe ==
    \A p \in Living : Len(segs[p]) > 1 /\ NextHead(p) # segs[p][2]

Adjacent(a, b) == \E d \in Direction : Step(b, d) = a

\* A living snake is one unbroken line of cells on the board, as long as the
\* three cells it was born with plus one per meal; a dead one has no cells.
BodyIntact ==
    \A p \in Members :
        /\ alive[p] <=> segs[p] # <<>>
        /\ alive[p] => Len(segs[p]) = 3 + score[p]
        /\ Body(p) \subseteq Cells
        /\ \A i \in 1 .. Len(segs[p]) - 1 : Adjacent(segs[p][i], segs[p][i + 1])

\* No cell is covered twice: "hitting the wall, oneself or the body of another
\* player ends the game" (snake_game/README.md:74).
NoOverlap ==
    \A p, q \in Living : \A i \in DOMAIN segs[p], j \in DOMAIN segs[q] :
        segs[p][i] = segs[q][j] => p = q /\ i = j

\* The board is large enough for the players: wherever the others were born,
\* a spawning site is left whose body is disjoint from theirs.
Roomy ==
    \A p \in Players, born \in [Players -> SpawnSites] :
        \E c \in SpawnSites : \A q \in Players \ {p} : \A i, j \in 1 .. 3 :
            SpawnBody(c)[i] # SpawnBody(born[q])[j]

\* A collision is missed only through a meal: as long as nobody has eaten,
\* striking the mover's tail from the occupancy map is right, also between
\* two moves of one tick, and no cell is covered twice.
NobodyAte == \A p \in Players : score[p] = 0

OverlapNeedsMeal == Roomy /\ NobodyAte => NoOverlap

\* While nobody has eaten, the map of a running tick misses no cell of a
\* living snake, also after some players have moved and others have crashed.
OccupancyComplete ==
    Roomy /\ ticking /\ NobodyAte =>
        \A p \in Living : Body(p) \subseteq occupancy
=============================================================================
