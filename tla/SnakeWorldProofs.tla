-------------------------- MODULE SnakeWorldProofs --------------------------
(***************************************************************************)
(* Proofs about SnakeWorld, for every board, every set of players and      *)
(* every number of ticks.                                                  *)
(***************************************************************************)
EXTENDS SnakeWorld, FiniteSetTheorems, TLAPS

(***************************************************************************)
(* The inductive invariant.  Besides the shape of a body it needs that the *)
(* direction kept in the Player is the one its first two segments show     *)
(* (Facing), and that a tick only moves living members.                    *)
(***************************************************************************)
Facing(p) == Step(segs[p][2], dir[p]) = segs[p][1]

Intact(p) ==
    /\ alive[p] <=> segs[p] # <<>>
    /\ alive[p] => Len(segs[p]) = 3 + score[p] /\ Facing(p)
    /\ \A i \in 1 .. Len(segs[p]) : segs[p][i] \in Cells
    /\ \A i \in 1 .. Len(segs[p]) - 1 : Adjacent(segs[p][i], segs[p][i + 1])

IInv ==
    /\ TypeOK
    /\ \A p \in Members : Intact(p)
    /\ todo \subseteq Living
    /\ ~ticking => todo = {}

-----------------------------------------------------------------------------
(* Geometry *)

\* One step leads from a position to a position, one cell away.
LEMMA StepType ==
    ASSUME NEW p \in Pos, NEW d \in Direction
    PROVE  Step(p, d) \in Pos
  BY DEF Pos, Direction, Step, DX, DY

\* Two steps come back to where they began only if they are opposite.
LEMMA NoReturn ==
    ASSUME NEW p \in Pos, NEW d \in Direction, NEW e \in Direction,
           ~IsOpposite(d, e)
    PROVE  Step(Step(p, d), e) # p
  BY DEF Pos, Direction, Step, DX, DY, IsOpposite

\* The direction a move takes is never opposite to the one kept so far.
LEMMA NextDirectionSafe ==
    ASSUME NEW p \in Players, TypeOK
    PROVE  NextDirection(p) \in Direction /\ ~IsOpposite(dir[p], NextDirection(p))
  BY DEF TypeOK, NextDirection, IsOpposite, Direction

\* The board is a set of positions.
LEMMA CellsArePositions == Cells \subseteq Pos
  BY BoardAssumption DEF Cells, Pos

\* Step to the left and back, with the record written out.
LEMMA StepLeft ==
    ASSUME NEW p \in Pos
    PROVE  /\ Step(p, "Left") = [x |-> p.x - 1, y |-> p.y]
           /\ Step(Step(p, "Left"), "Right") = p
  BY DEF Pos, Step, DX, DY

\* A freshly spawned body lies on the board, unbroken, facing right.
LEMMA SpawnIntact ==
    ASSUME NEW c \in SpawnSites
    PROVE  /\ SpawnBody(c) \in Seq(Pos)
           /\ Len(SpawnBody(c)) = 3
           /\ \A i \in 1 .. 3 : SpawnBody(c)[i] \in Cells
           /\ \A i \in 1 .. 2 : Adjacent(SpawnBody(c)[i], SpawnBody(c)[i + 1])
           /\ Step(SpawnBody(c)[2], "Right") = SpawnBody(c)[1]
  <1> DEFINE b == Step(c, "Left")  t == Step(b, "Left")
  <1>1. c \in Cells /\ c.x >= 2
    <2>1. c \in [x : 2 .. Width - 3, y : 2 .. Height - 3]
      BY BoardAssumption
    <2>2. Width \in Nat /\ Height \in Nat
      BY BoardAssumption
    <2>3. QED
      BY <2>1, <2>2 DEF Cells
  <1>2. c \in Pos
    BY <1>1, CellsArePositions
  <1>3. b = [x |-> c.x - 1, y |-> c.y] /\ Step(b, "Right") = c
    BY <1>2, StepLeft
  <1>4. b \in Cells /\ b \in Pos /\ b.x >= 1
    BY <1>1, <1>2, <1>3, BoardAssumption DEF Cells, Pos
  <1>5. t = [x |-> b.x - 1, y |-> b.y] /\ Step(t, "Right") = b
    BY <1>4, StepLeft
  <1>6. t \in Cells /\ t \in Pos
    BY <1>4, <1>5, BoardAssumption DEF Cells, Pos
  <1>7. SpawnBody(c) = <<c, b, t>>
    BY DEF SpawnBody
  <1>8. Adjacent(c, b) /\ Adjacent(b, t)
    BY <1>3, <1>5 DEF Adjacent, Direction
  <1> HIDE DEF b, t
  <1>9. QED
    BY <1>1, <1>2, <1>3, <1>4, <1>6, <1>7, <1>8

\* An advancing snake: a new head in front of the old one, and the old body
\* with or without its last segment.
LEMMA LongerBody ==
    ASSUME NEW body \in Seq(Pos), Len(body) >= 3, NEW h \in Pos, NEW ate \in BOOLEAN
    PROVE  LET kept == IF ate THEN body ELSE SubSeq(body, 1, Len(body) - 1)
               new == <<h>> \o kept
           IN  /\ new \in Seq(Pos)
               /\ Len(new) = IF ate THEN Len(body) + 1 ELSE Len(body)
               /\ new[1] = h
               /\ \A i \in 2 .. Len(new) : new[i] = body[i - 1]
  <1> DEFINE kept == IF ate THEN body ELSE SubSeq(body, 1, Len(body) - 1)
  <1>1. kept \in Seq(Pos) /\ Len(kept) = IF ate THEN Len(body) ELSE Len(body) - 1
    OBVIOUS
  <1>2. \A i \in 1 .. Len(kept) : kept[i] = body[i]
    OBVIOUS
  <1> HIDE DEF kept
  <1>3. <<h>> \in Seq(Pos) /\ Len(<<h>>) = 1 /\ <<h>>[1] = h
    OBVIOUS
  <1>4. /\ <<h>> \o kept \in Seq(Pos)
        /\ Len(<<h>> \o kept) = 1 + Len(kept)
        /\ (<<h>> \o kept)[1] = h
        /\ \A i \in 2 .. 1 + Len(kept) : (<<h>> \o kept)[i] = kept[i - 1]
    BY <1>1, <1>3
  <1>5. QED
    BY <1>1, <1>2, <1>4 DEF kept

-----------------------------------------------------------------------------
(* The invariant is inductive *)

\* What a member of the room shows does not change while its own record and
\* its segments do not.
LEMMA UntouchedIntact ==
    ASSUME NEW p, Intact(p),
           dir'[p] = dir[p], alive'[p] = alive[p],
           score'[p] = score[p], segs'[p] = segs[p]
    PROVE  Intact(p)'
  BY DEF Intact, Facing

\* The random draws of EnsureFood stay on the board.
LEMMA FoodOnBoard ==
    ASSUME NEW fs, fs \subseteq Cells, NEW covered, NEW new \in EnsureFood(fs, covered)
    PROVE  new \subseteq Cells
  BY BoardAssumption DEF EnsureFood

\* The initial room satisfies the invariant: it is empty.
LEMMA InitIInv == Init => IInv
  <1> SUFFICES ASSUME Init PROVE IInv
    OBVIOUS
  <1>1. foods \subseteq Cells
    <2>1. {} \subseteq Cells /\ foods \in EnsureFood({}, {})
      BY DEF Init
    <2>2. QED
      BY <2>1, FoodOnBoard
  <1>2. Cardinality(Players) \in Nat /\ MaxTicks \in Nat
    BY BoardAssumption, FS_CardinalityType
  <1>3. TypeOK
    <2>1. segs \in [Players -> Seq(Pos)]
      BY DEF Init
    <2>2. ticks \in 0 .. MaxTicks /\ seat \in [Players -> 0 .. Cardinality(Players)]
      BY <1>2 DEF Init
    <2>3. QED
      BY <1>1, <2>1, <2>2 DEF Init, TypeOK, Direction
  <1>4. Members = {}
    BY DEF Init, Members
  <1>5. QED
    BY <1>3, <1>4 DEF Init, IInv

\* The next head of a snake in good shape is a position, and not its neck.
LEMMA NextHeadSafe ==
    ASSUME TypeOK, NEW p \in Players, Intact(p), alive[p]
    PROVE  /\ Len(segs[p]) >= 3
           /\ segs[p][1] \in Pos /\ segs[p][2] \in Pos
           /\ NextHead(p) \in Pos
           /\ NextHead(p) # segs[p][2]
  <1>1. segs[p] \in Seq(Pos) /\ Len(segs[p]) >= 3
    BY DEF TypeOK, Intact
  <1>2. segs[p][1] \in Pos /\ segs[p][2] \in Pos
    BY <1>1
  <1>3. dir[p] \in Direction
    BY DEF TypeOK
  <1>4. NextHead(p) = Step(segs[p][1], NextDirection(p))
    BY DEF NextHead
  <1>5. NextHead(p) = Step(Step(segs[p][2], dir[p]), NextDirection(p))
    BY <1>4 DEF Intact, Facing
  <1>6. NextHead(p) # segs[p][2]
    BY <1>2, <1>3, <1>5, NextDirectionSafe, NoReturn
  <1>7. NextHead(p) \in Pos
    BY <1>2, <1>4, NextDirectionSafe, StepType
  <1>8. QED
    BY <1>1, <1>2, <1>6, <1>7

\* A spawned player is intact; the others keep what they have.
LEMMA AddPlayerIInv ==
    ASSUME IInv, NEW p \in Players, AddPlayer(p)
    PROVE  IInv'
  <1>1. PICK pos \in SpawnSites : segs' = [segs EXCEPT ![p] = SpawnBody(pos)]
    BY DEF AddPlayer, FindSpawnPosition
  <1>2. PICK s \in Seats : seat' = [seat EXCEPT ![p] = s]
    BY DEF AddPlayer
  <1>3. Cardinality(Players) \in Nat
    BY BoardAssumption, FS_CardinalityType
  <1>4. TypeOK'
    BY <1>1, <1>2, <1>3, SpawnIntact DEF IInv, TypeOK, AddPlayer, tick, Direction, Seats
  <1>5. Intact(p)'
    <2>1. segs'[p] = SpawnBody(pos) /\ dir'[p] = "Right" /\ alive'[p] /\ score'[p] = 0
      BY <1>1 DEF IInv, TypeOK, AddPlayer
    <2>2. segs'[p] # <<>>
      BY <2>1, SpawnIntact
    <2>3. QED
      BY <2>1, <2>2, SpawnIntact DEF Intact, Facing
  <1>6. ASSUME NEW q \in Players, q # p, q \in Members' PROVE q \in Members /\ Intact(q)'
    <2>1. q \in Members
      BY <1>2, <1>6 DEF IInv, TypeOK, Members
    <2>2. QED
      BY <1>1, <1>6, <2>1, UntouchedIntact DEF IInv, TypeOK, AddPlayer
  <1>7. todo' \subseteq Living' /\ (~ticking' => todo' = {})
    <2>1. \A q \in Living : q \in Living'
      BY <1>2, <1>3 DEF IInv, TypeOK, AddPlayer, Living, Members, Seats
    <2>2. QED
      BY <2>1 DEF IInv, AddPlayer, tick
  <1>8. QED
    BY <1>4, <1>5, <1>6, <1>7 DEF IInv, Members

\* Starting the game leaves the snakes alone.
LEMMA StartGameIInv ==
    ASSUME IInv, StartGame
    PROVE  IInv'
  <1>1. foods' \subseteq Cells
    BY FoodOnBoard DEF IInv, TypeOK, StartGame
  <1>2. TypeOK'
    BY <1>1 DEF IInv, TypeOK, StartGame, snake, tick
  <1>3. \A p \in Members' : Intact(p)'
    BY UntouchedIntact DEF IInv, StartGame, snake, Members
  <1>4. QED
    BY <1>2, <1>3 DEF IInv, StartGame, snake, tick, Living, Members

\* A tick begins: the map is built and the living players are to move.
LEMMA BeginTickIInv ==
    ASSUME IInv, BeginTick
    PROVE  IInv'
  <1>1. foods' \subseteq Cells
    BY FoodOnBoard DEF IInv, TypeOK, BeginTick
  <1>2. ticks' \in 0 .. MaxTicks
    BY BoardAssumption DEF IInv, TypeOK, BeginTick
  <1>3. occupancy' \subseteq Pos
    <2>1. \A p \in Living : Body(p) \subseteq Cells
      BY DEF IInv, Intact, Living, Body, TypeOK, Members
    <2>2. QED
      BY <2>1, CellsArePositions DEF BeginTick
  <1>4. TypeOK'
    BY <1>1, <1>2, <1>3 DEF IInv, TypeOK, BeginTick, snake, Living, Members
  <1>5. \A p \in Members' : Intact(p)'
    BY UntouchedIntact DEF IInv, BeginTick, snake, Members
  <1>6. QED
    BY <1>4, <1>5 DEF IInv, BeginTick, snake, Living, Members

\* A tick ends: food is restored and the status is updated.
LEMMA EndTickIInv ==
    ASSUME IInv, EndTick
    PROVE  IInv'
  <1>1. foods' \subseteq Cells
    BY FoodOnBoard DEF IInv, TypeOK, EndTick
  <1>2. TypeOK'
    BY <1>1 DEF IInv, TypeOK, EndTick, snake
  <1>3. \A p \in Members' : Intact(p)'
    BY UntouchedIntact DEF IInv, EndTick, snake, Members
  <1>4. QED
    BY <1>2, <1>3 DEF IInv, EndTick, snake, Living, Members

\* A move rewrites one snake: it loses all cells, or gets a new head.
LEMMA MovePlayerIInv ==
    ASSUME IInv, NEW p \in Players, MovePlayer(p)
    PROVE  IInv'
  <1>1. p \in Living /\ p \in Members /\ alive[p] /\ Intact(p)
    BY DEF MovePlayer, IsNext, IInv, Living
  <1>2. /\ Len(segs[p]) >= 3 /\ segs[p] \in Seq(Pos)
        /\ segs[p][1] \in Pos /\ NextHead(p) \in Pos
        /\ NextDirection(p) \in Direction
    BY <1>1, NextHeadSafe, NextDirectionSafe DEF IInv, TypeOK
  <1>3. dir' = [dir EXCEPT ![p] = NextDirection(p)] /\ Members' = Members
    BY DEF MovePlayer, Members
  <1>4. ASSUME NEW q \in Members, q # p PROVE Intact(q)'
    <2>1. q \in Players
      BY DEF Members
    <2>2. /\ dir'[q] = dir[q] /\ alive'[q] = alive[q]
          /\ score'[q] = score[q] /\ segs'[q] = segs[q]
      BY <1>4, <2>1 DEF MovePlayer, Crash, Advance, IInv, TypeOK
    <2>3. QED
      BY <1>4, <2>2, UntouchedIntact DEF IInv
  <1>5. todo' \subseteq Living' /\ ticking'
    <2>1. \A q \in Living : q # p => q \in Living'
      BY <1>3 DEF MovePlayer, Crash, Advance, Living, Members, IInv, TypeOK
    <2>2. QED
      BY <2>1 DEF MovePlayer, IsNext, IInv
  <1>6. MapWithoutTail(p) \subseteq Pos
    BY DEF IInv, TypeOK, MapWithoutTail
  <1>7. CASE Crash(p)
    <2>1. TypeOK'
      <3>1. segs' \in [Players -> Seq(Pos)]
        BY <1>7 DEF Crash, IInv, TypeOK
      <3>2. QED
        BY <1>2, <1>3, <1>6, <1>7, <3>1 DEF Crash, MovePlayer, IInv, TypeOK
    <2>2. Intact(p)'
      BY <1>7 DEF Crash, Intact, IInv, TypeOK
    <2>3. QED
      BY <1>3, <1>4, <1>5, <2>1, <2>2 DEF IInv
  <1>8. CASE Advance(p)
    <2> DEFINE ate == NextHead(p) \in foods
               kept == IF ate THEN segs[p] ELSE SubSeq(segs[p], 1, Len(segs[p]) - 1)
               new == <<NextHead(p)>> \o kept
    <2>1. /\ new \in Seq(Pos)
          /\ Len(new) = IF ate THEN Len(segs[p]) + 1 ELSE Len(segs[p])
          /\ new[1] = NextHead(p)
          /\ \A i \in 2 .. Len(new) : new[i] = segs[p][i - 1]
      <3>1. ate \in BOOLEAN
        OBVIOUS
      <3>2. QED
        BY <1>2, <3>1, LongerBody
    <2>2. segs' = [segs EXCEPT ![p] = new]
      BY <1>8 DEF Advance
    <2>3. score' = [score EXCEPT ![p] = IF ate THEN @ + 1 ELSE @] /\ alive' = alive
      BY <1>8 DEF Advance
    <2>4. foods' \subseteq Cells /\ occupancy' \subseteq Pos
      BY <1>2, <1>6, <1>8 DEF Advance, IInv, TypeOK
    <2>5. NextHead(p) \in Cells
      BY <1>8 DEF Advance, Hits
    <2> HIDE DEF ate, kept, new
    <2>6. TypeOK'
      <3>1. segs' \in [Players -> Seq(Pos)]
        BY <2>1, <2>2 DEF IInv, TypeOK
      <3>2. score' \in [Players -> Nat]
        BY <2>3 DEF IInv, TypeOK
      <3>3. dir' \in [Players -> Direction]
        BY <1>2, <1>3 DEF IInv, TypeOK
      <3>4. /\ stage' \in {"filling", "looping"} /\ status' \in {"Waiting", "Playing"}
            /\ seat' \in [Players -> 0 .. Cardinality(Players)]
            /\ pending' \in [Players -> Direction] /\ alive' \in [Players -> BOOLEAN]
            /\ ticking' \in BOOLEAN /\ todo' \subseteq Players /\ ticks' \in 0 .. MaxTicks
        BY <2>3 DEF MovePlayer, IInv, TypeOK
      <3>5. QED
        BY <2>4, <3>1, <3>2, <3>3, <3>4 DEF TypeOK
    <2>7. Intact(p)'
      <3>1. segs'[p] = new /\ dir'[p] = NextDirection(p) /\ alive'[p]
        BY <1>1, <1>3, <2>2, <2>3 DEF IInv, TypeOK
      <3>2. Len(new) = 3 + score'[p] /\ Len(new) >= 3 /\ new # <<>>
        BY <1>1, <2>1, <2>3 DEF Intact, IInv, TypeOK
      <3>3. Step(new[2], NextDirection(p)) = new[1]
        BY <2>1, <3>2 DEF NextHead
      <3>4. \A i \in 1 .. Len(new) : new[i] \in Cells
        BY <1>1, <1>2, <2>1, <2>5 DEF Intact
      <3>5. \A i \in 1 .. Len(new) - 1 : Adjacent(new[i], new[i + 1])
        <4> TAKE i \in 1 .. Len(new) - 1
        <4>1. CASE i = 1
          BY <1>2, <3>2, <3>3, <4>1 DEF Adjacent
        <4>2. CASE i > 1
          <5>1. new[i] = segs[p][i - 1] /\ new[i + 1] = segs[p][(i - 1) + 1]
            BY <2>1, <4>2
          <5>2. i - 1 \in 1 .. Len(segs[p]) - 1
            BY <1>2, <2>1, <4>2
          <5>3. QED
            BY <1>1, <5>1, <5>2 DEF Intact
        <4>3. QED
          BY <2>1, <4>1, <4>2
      <3>6. QED
        BY <3>1, <3>2, <3>3, <3>4, <3>5 DEF Intact, Facing
    <2>8. QED
      BY <1>3, <1>4, <1>5, <2>6, <2>7 DEF IInv
  <1>9. QED
    BY <1>7, <1>8 DEF MovePlayer

\* A turn request touches only the direction kept for the next tick.
LEMMA HandlePlayerMoveIInv ==
    ASSUME IInv, NEW p \in Players, NEW d \in Direction, HandlePlayerMove(p, d)
    PROVE  IInv'
  <1>1. TypeOK'
    BY DEF IInv, TypeOK, HandlePlayerMove, tick
  <1>2. \A q \in Members' : Intact(q)'
    BY UntouchedIntact DEF IInv, HandlePlayerMove, Members
  <1>3. QED
    BY <1>1, <1>2 DEF IInv, HandlePlayerMove, tick, Living, Members

\* A player leaves between two ticks; the members that stay are untouched.
LEMMA RemovePlayerIInv ==
    ASSUME IInv, NEW p \in Players, RemovePlayer(p)
    PROVE  IInv'
  <1>1. 0 \in 0 .. Cardinality(Players)
    BY BoardAssumption, FS_CardinalityType
  <1>2. TypeOK'
    BY <1>1 DEF IInv, TypeOK, RemovePlayer, snake, tick
  <1>3. \A q \in Members' : q \in Members
    BY DEF IInv, TypeOK, RemovePlayer, Members
  <1>4. \A q \in Members' : Intact(q)'
    BY <1>3, UntouchedIntact DEF IInv, RemovePlayer, snake
  <1>5. todo' = {} /\ ~ticking'
    BY DEF IInv, RemovePlayer, tick
  <1>6. QED
    BY <1>2, <1>4, <1>5 DEF IInv

\* Steps of the rest of the server change nothing in the room.
LEMMA StutterIInv ==
    ASSUME IInv, UNCHANGED vars
    PROVE  IInv'
  <1>1. TypeOK'
    BY DEF IInv, TypeOK, vars, snake, tick
  <1>2. \A q \in Members' : Intact(q)'
    BY UntouchedIntact DEF IInv, vars, snake, Members
  <1>3. QED
    BY <1>1, <1>2 DEF IInv, vars, snake, tick, Living, Members

\* Every reachable state of a room satisfies the inductive invariant.
THEOREM Inductive == Spec => []IInv
  <1>1. IInv /\ [Next]_vars => IInv'
    BY AddPlayerIInv, StartGameIInv, BeginTickIInv, MovePlayerIInv, EndTickIInv,
       HandlePlayerMoveIInv, RemovePlayerIInv, StutterIInv DEF Next
  <1>2. QED
    BY InitIInv, <1>1, PTL DEF Spec

-----------------------------------------------------------------------------
(* The theorems *)

\* The fields of Room and Player keep their types.
THEOREM TypeCorrect == Spec => []TypeOK
  <1>1. IInv => TypeOK
    BY DEF IInv
  <1>2. QED
    BY Inductive, <1>1, PTL

\* However many turns arrive between two ticks, no snake turns onto its neck.
THEOREM NeckIsSafe == Spec => []NeckSafe
  <1>1. IInv => NeckSafe
    <2> SUFFICES ASSUME IInv, NEW p \in Living
                 PROVE  Len(segs[p]) > 1 /\ NextHead(p) # segs[p][2]
      BY DEF NeckSafe
    <2>1. p \in Players /\ Intact(p) /\ alive[p] /\ TypeOK
      BY DEF IInv, Living, Members
    <2>2. Len(segs[p]) >= 3 /\ NextHead(p) # segs[p][2] /\ segs[p] \in Seq(Pos)
      BY <2>1, NextHeadSafe DEF TypeOK
    <2>3. QED
      BY <2>2
  <1>2. QED
    BY Inductive, <1>1, PTL

\* A living snake is an unbroken line on the board, three cells plus one per
\* meal; a dead snake has no cells.
THEOREM BodyStaysIntact == Spec => []BodyIntact
  <1>1. IInv => BodyIntact
    <2> SUFFICES ASSUME IInv, NEW p \in Members
                 PROVE  /\ alive[p] <=> segs[p] # <<>>
                        /\ alive[p] => Len(segs[p]) = 3 + score[p]
                        /\ Body(p) \subseteq Cells
                        /\ \A i \in 1 .. Len(segs[p]) - 1 : Adjacent(segs[p][i], segs[p][i + 1])
      BY DEF BodyIntact
    <2>1. Intact(p) /\ segs[p] \in Seq(Pos)
      BY DEF IInv, TypeOK, Members
    <2>2. Body(p) \subseteq Cells
      BY <2>1 DEF Intact, Body
    <2>3. QED
      BY <2>1, <2>2 DEF Intact
  <1>2. QED
    BY Inductive, <1>1, PTL

-----------------------------------------------------------------------------
(***************************************************************************)
(* Collisions.  While nobody has eaten, the living snakes are disjoint and *)
(* the map of a running tick covers them.  While the room is filling every *)
(* member lies where it was born, so a roomy board has a free site.        *)
(***************************************************************************)
Disjoint(p, q) ==
    \A i \in 1 .. Len(segs[p]), j \in 1 .. Len(segs[q]) :
        segs[p][i] = segs[q][j] => p = q /\ i = j

Newborn ==
    stage = "filling" =>
        /\ NobodyAte /\ ~ticking
        /\ \A p \in Members : alive[p] /\ \E c \in SpawnSites : segs[p] = SpawnBody(c)

Apart ==
    NobodyAte =>
        /\ \A p, q \in Living : Disjoint(p, q)
        /\ ticking => \A p \in Living : \A i \in 1 .. Len(segs[p]) : segs[p][i] \in occupancy

CInv == IInv /\ Newborn /\ Apart

\* A spawned body does not touch itself.
LEMMA SpawnDistinct ==
    ASSUME NEW c \in SpawnSites, NEW i \in 1 .. 3, NEW j \in 1 .. 3,
           SpawnBody(c)[i] = SpawnBody(c)[j]
    PROVE  i = j
  <1> DEFINE b == Step(c, "Left")  t == Step(b, "Left")
  <1>1. c \in Pos
    BY BoardAssumption DEF Pos
  <1>2. b = [x |-> c.x - 1, y |-> c.y] /\ b \in Pos
    BY <1>1, StepLeft, StepType DEF Direction
  <1>3. t = [x |-> b.x - 1, y |-> b.y]
    BY <1>2, StepLeft
  <1>4. c.x \in Int /\ b.x = c.x - 1 /\ t.x = c.x - 2
    BY <1>1, <1>2, <1>3 DEF Pos
  <1>5. c.x # b.x /\ b.x # t.x /\ c.x # t.x
    BY <1>4
  <1>6. SpawnBody(c) = <<c, b, t>>
    BY DEF SpawnBody
  <1> HIDE DEF b, t
  <1>7. c # b /\ b # t /\ c # t
    BY <1>5
  <1>8. QED
    BY <1>6, <1>7

\* While a roomy board is being filled, a free spawning site is left.
LEMMA FreeSite ==
    ASSUME Roomy, IInv, Newborn, stage = "filling", NEW p \in Players, p \notin Members
    PROVE  \A c \in FindSpawnPosition : c \in SpawnSites /\
               \A q \in Members : \A i \in 1 .. 3, j \in 1 .. Len(segs[q]) :
                   SpawnBody(c)[i] # segs[q][j]
  <1> DEFINE site(q) == CHOOSE c \in SpawnSites : segs[q] = SpawnBody(c)
             born == [q \in Players |->
                        IF q \in Members THEN site(q) ELSE CHOOSE c \in SpawnSites : TRUE]
             free == {c \in SpawnSites : \A i \in 1 .. 3 : SpawnBody(c)[i] \notin Covered}
  <1>1. \A q \in Members : site(q) \in SpawnSites /\ segs[q] = SpawnBody(site(q))
    BY DEF Newborn
  <1>2. (CHOOSE c \in SpawnSites : TRUE) \in SpawnSites
    BY BoardAssumption
  <1> HIDE DEF site
  <1>3. born \in [Players -> SpawnSites]
    BY <1>1, <1>2
  <1>4. \A q \in Members : q \in Players \ {p} /\ segs[q] = SpawnBody(born[q])
    BY <1>1 DEF Members
  <1> HIDE DEF born
  <1>5. PICK c \in SpawnSites : \A q \in Players \ {p} : \A i, j \in 1 .. 3 :
            SpawnBody(c)[i] # SpawnBody(born[q])[j]
    BY <1>3 DEF Roomy
  <1>6. \A q \in Members : DOMAIN segs[q] = 1 .. 3
    BY <1>3, <1>4, SpawnIntact
  <1>7. c \in free
    BY <1>4, <1>5, <1>6 DEF Covered, Body
  <1>8. FindSpawnPosition = free
    BY <1>7 DEF FindSpawnPosition
  <1>9. \A q \in Members : \A j \in 1 .. Len(segs[q]) : segs[q][j] \in Covered
    BY DEF Covered, Body, IInv, TypeOK, Members
  <1>10. QED
    BY <1>8, <1>9

\* Steps that leave the living snakes, the map and the scores alone.
LEMMA KeepApart ==
    ASSUME Apart, score' = score, segs' = segs,
           \A p \in Living' : p \in Living,
           ticking' => ticking /\ occupancy' = occupancy
    PROVE  Apart'
  BY DEF Apart, NobodyAte, Disjoint

\* An empty room has no collisions.
LEMMA InitCInv == Init => CInv
  <1>1. Init => Newborn /\ Apart
    BY DEF Init, Newborn, Apart, NobodyAte, Members, Living
  <1>2. QED
    BY <1>1, InitIInv DEF CInv

\* On a roomy board a player is born away from the others.
LEMMA AddPlayerCInv ==
    ASSUME Roomy, CInv, IInv', NEW p \in Players, AddPlayer(p)
    PROVE  CInv'
  <1>1. PICK pos \in FindSpawnPosition : segs' = [segs EXCEPT ![p] = SpawnBody(pos)]
    BY DEF AddPlayer
  <1>2. /\ pos \in SpawnSites
        /\ \A q \in Members : \A i \in 1 .. 3, j \in 1 .. Len(segs[q]) :
               SpawnBody(pos)[i] # segs[q][j]
    BY FreeSite DEF CInv, AddPlayer
  <1>3. PICK s \in Seats : seat' = [seat EXCEPT ![p] = s]
    BY DEF AddPlayer
  <1>4. \A q \in Members' : q # p => q \in Members
    BY <1>3 DEF CInv, IInv, TypeOK, Members
  <1>5. segs'[p] = SpawnBody(pos) /\ alive'[p] /\ Len(segs'[p]) = 3
    BY <1>1, <1>2, SpawnIntact DEF CInv, IInv, TypeOK, AddPlayer
  <1>6. \A q \in Players : q # p => segs'[q] = segs[q] /\ alive'[q] = alive[q]
    BY <1>1 DEF CInv, IInv, TypeOK, AddPlayer
  <1>7. stage = "filling" /\ NobodyAte /\ ~ticking
    BY DEF CInv, Newborn, AddPlayer
  <1>8. NobodyAte' /\ ~ticking'
    BY <1>7 DEF NobodyAte, AddPlayer, tick, CInv, IInv, TypeOK
  <1>9. Newborn'
    <2>1. \A q \in Members' :
              alive'[q] /\ \E c \in SpawnSites : segs'[q] = SpawnBody(c)
      BY <1>2, <1>4, <1>5, <1>6, <1>7 DEF CInv, Newborn, Members
    <2>2. QED
      BY <1>8, <2>1 DEF Newborn
  <1>10. ASSUME NEW q \in Living', NEW r \in Living' PROVE Disjoint(q, r)'
    <2>1. q \in Players /\ r \in Players /\ q \in Members' /\ r \in Members'
      BY DEF Living, Members
    <2>2. CASE q = p /\ r = p
      BY <1>2, <1>5, <2>2, SpawnDistinct DEF Disjoint
    <2>3. CASE q = p /\ r # p
      BY <1>2, <1>4, <1>5, <1>6, <2>1, <2>3 DEF Disjoint
    <2>4. CASE q # p /\ r = p
      BY <1>2, <1>4, <1>5, <1>6, <2>1, <2>4 DEF Disjoint
    <2>5. CASE q # p /\ r # p
      <3>1. q \in Living /\ r \in Living
        BY <1>4, <1>6, <2>1, <2>5 DEF Living
      <3>2. QED
        BY <1>6, <1>7, <2>1, <2>5, <3>1 DEF CInv, Apart, Disjoint
    <2>6. QED
      BY <2>2, <2>3, <2>4, <2>5
  <1>11. Apart'
    BY <1>8, <1>10 DEF Apart
  <1>12. QED
    BY <1>9, <1>11 DEF CInv

\* Starting the game moves nobody.
LEMMA StartGameCInv ==
    ASSUME CInv, IInv', StartGame
    PROVE  CInv'
  BY KeepApart DEF CInv, Newborn, StartGame, snake, tick, Living, Members

\* The map is built from the living snakes.
LEMMA BeginTickCInv ==
    ASSUME CInv, IInv', BeginTick
    PROVE  CInv'
  <1>1. Newborn'
    BY DEF Newborn, BeginTick
  <1>2. Living' = Living /\ segs' = segs /\ score' = score
    BY DEF BeginTick, snake, Living, Members
  <1>3. \A p \in Living : \A i \in 1 .. Len(segs[p]) : segs[p][i] \in occupancy'
    <2>1. \A p \in Living : segs[p] \in Seq(Pos)
      BY DEF CInv, IInv, TypeOK, Living, Members
    <2>2. QED
      BY <2>1 DEF BeginTick, Body
  <1>4. Apart'
    BY <1>2, <1>3 DEF CInv, Apart, NobodyAte, Disjoint
  <1>5. QED
    BY <1>1, <1>4 DEF CInv

\* The end of a tick moves nobody and drops the map.
LEMMA EndTickCInv ==
    ASSUME CInv, IInv', EndTick
    PROVE  CInv'
  BY KeepApart DEF CInv, Newborn, EndTick, snake, Living, Members

\* One move of a tick.  The struck tail lies on no other snake, because the
\* snakes are disjoint; the mover leaves it unless it eats.
LEMMA MovePlayerCInv ==
    ASSUME CInv, IInv', NEW p \in Players, MovePlayer(p)
    PROVE  CInv'
  <1> DEFINE n == Len(segs[p])
             tail == segs[p][n]
  <1>1. p \in Living /\ ticking /\ ticking' /\ Members' = Members /\ stage' = stage
    BY DEF MovePlayer, IsNext, CInv, IInv, Members
  <1>2. segs[p] \in Seq(Pos) /\ n >= 3 /\ n \in Nat
    <2>1. Intact(p) /\ alive[p] /\ TypeOK
      BY <1>1 DEF CInv, IInv, Living
    <2>2. QED
      BY <2>1, NextHeadSafe DEF TypeOK
  <1>3. Newborn'
    BY <1>1 DEF CInv, Newborn
  <1>4. Apart'
    <2> SUFFICES ASSUME NobodyAte'
                 PROVE  /\ \A q, r \in Living' : Disjoint(q, r)'
                        /\ \A q \in Living' : \A i \in 1 .. Len(segs'[q]) : segs'[q][i] \in occupancy'
      BY DEF Apart
    <2>1. ASSUME NEW q \in Living, q # p
          PROVE  /\ segs'[q] = segs[q] /\ segs[q] \in Seq(Pos)
                 /\ q \in Players
      BY <2>1 DEF MovePlayer, Crash, Advance, CInv, IInv, TypeOK, Living, Members
    <2>2. \A q \in Living' : q # p => q \in Living
      BY <1>1 DEF MovePlayer, Crash, Advance, CInv, IInv, TypeOK, Living, Members
    <2>3. CASE Crash(p)
      <3>1. score' = score /\ NobodyAte
        BY <2>3 DEF Crash, NobodyAte
      <3>2. p \notin Living'
        BY <2>3 DEF Crash, Living, CInv, IInv, TypeOK
      <3>3. \A q, r \in Living' : Disjoint(q, r)'
        BY <2>1, <2>2, <3>1, <3>2 DEF CInv, Apart, Disjoint
      <3>4. ASSUME NEW q \in Living', NEW i \in 1 .. Len(segs'[q])
            PROVE  segs'[q][i] \in occupancy'
        <4>1. q \in Living /\ q # p /\ segs'[q] = segs[q]
          BY <2>1, <2>2, <3>2
        <4>2. segs[q][i] \in occupancy
          BY <1>1, <3>1, <4>1 DEF CInv, Apart
        <4>3. segs[q][i] # tail
          BY <1>1, <1>2, <3>1, <4>1 DEF CInv, Apart, Disjoint
        <4>4. QED
          BY <2>3, <4>1, <4>2, <4>3 DEF Crash, MapWithoutTail
      <3>5. QED
        BY <3>3, <3>4
    <2>4. CASE Advance(p)
      <3>1. score \in [Players -> Nat]
        BY DEF CInv, IInv, TypeOK
      <3>2. NextHead(p) \notin foods /\ NobodyAte
        BY <2>4, <3>1 DEF Advance, NobodyAte
      <3>3. segs' = [segs EXCEPT ![p] = <<NextHead(p)>> \o SubSeq(segs[p], 1, n - 1)]
        BY <2>4, <3>2 DEF Advance
      <3>4. segs'[p] = <<NextHead(p)>> \o SubSeq(segs[p], 1, n - 1)
        BY <3>3 DEF CInv, IInv, TypeOK
      <3>5. p \in Living' /\ NextHead(p) \notin MapWithoutTail(p)
        BY <1>1, <2>4 DEF Advance, Hits, Living
      <3>6. NextHead(p) \in Pos
        BY <1>1, NextHeadSafe DEF CInv, IInv, Living
      <3>7. /\ Len(segs'[p]) = n
            /\ segs'[p][1] = NextHead(p)
            /\ \A i \in 2 .. n : segs'[p][i] = segs[p][i - 1]
        <4>1. n - 1 \in 0 .. n
          BY <1>2
        <4>2. Len(SubSeq(segs[p], 1, n - 1)) = n - 1 /\
              \A i \in 1 .. n - 1 : SubSeq(segs[p], 1, n - 1)[i] = segs[p][i]
          BY <1>2, <4>1
        <4>3. SubSeq(segs[p], 1, n - 1) \in Seq(Pos)
          BY <1>2, <4>1
        <4>4. QED
          BY <1>2, <3>4, <3>6, <4>2, <4>3
      <3>8. occupancy' = MapWithoutTail(p) \cup {NextHead(p)}
        BY <2>4 DEF Advance
      \* no other living snake lies on the struck tail or on the new head
      <3>9. ASSUME NEW q \in Living, q # p, NEW i \in 1 .. Len(segs[q])
            PROVE  segs[q][i] \in MapWithoutTail(p)
        <4>1. segs[q][i] \in occupancy
          BY <1>1, <3>2, <3>9 DEF CInv, Apart
        <4>2. segs[q][i] # tail
          BY <1>1, <1>2, <3>2, <3>9 DEF CInv, Apart, Disjoint
        <4>3. QED
          BY <4>1, <4>2 DEF MapWithoutTail
      \* nor does the part of the mover that stays
      <3>10. ASSUME NEW i \in 1 .. n - 1
             PROVE  segs[p][i] \in MapWithoutTail(p)
        <4>1. i \in 1 .. n /\ n \in 1 .. n /\ i # n
          BY <1>2
        <4>2. segs[p][i] \in occupancy
          BY <1>1, <3>2, <4>1 DEF CInv, Apart
        <4>3. segs[p][i] # tail
          BY <1>1, <3>2, <4>1 DEF CInv, Apart, Disjoint
        <4>4. QED
          BY <4>2, <4>3 DEF MapWithoutTail
      <3>11. \A i \in 2 .. n : i - 1 \in 1 .. n - 1
        BY <1>2
      <3>12. ASSUME NEW q \in Living', NEW r \in Living' PROVE Disjoint(q, r)'
        <4>1. CASE q = p /\ r = p
          <5> SUFFICES ASSUME NEW i \in 1 .. n, NEW j \in 1 .. n, segs'[p][i] = segs'[p][j]
                       PROVE  i = j
            BY <3>7, <4>1 DEF Disjoint
          <5>1. CASE i = 1 /\ j = 1
            BY <5>1
          <5>2. CASE i = 1 /\ j # 1
            BY <3>5, <3>7, <3>10, <3>11, <5>2
          <5>3. CASE i # 1 /\ j = 1
            BY <3>5, <3>7, <3>10, <3>11, <5>3
          <5>4. CASE i # 1 /\ j # 1
            <6>1. i \in 2 .. n /\ j \in 2 .. n /\ i - 1 \in 1 .. n /\ j - 1 \in 1 .. n
              BY <1>2, <5>4
            <6>2. segs[p][i - 1] = segs[p][j - 1]
              BY <3>7, <6>1
            <6>3. i - 1 = j - 1
              BY <1>1, <3>2, <6>1, <6>2 DEF CInv, Apart, Disjoint
            <6>4. QED
              BY <6>1, <6>3
          <5>5. QED
            BY <5>1, <5>2, <5>3, <5>4
        <4>2. ASSUME NEW s \in Living, s # p, NEW i \in 1 .. n, NEW j \in 1 .. Len(segs[s])
              PROVE  segs'[p][i] # segs[s][j]
          <5>1. CASE i = 1
            BY <3>5, <3>7, <3>9, <4>2, <5>1
          <5>2. CASE i # 1
            <6>1. i \in 2 .. n /\ i - 1 \in 1 .. n
              BY <1>2, <5>2
            <6>2. segs'[p][i] = segs[p][i - 1]
              BY <3>7, <6>1
            <6>3. QED
              BY <1>1, <3>2, <4>2, <6>1, <6>2 DEF CInv, Apart, Disjoint
          <5>3. QED
            BY <5>1, <5>2
        <4>3. CASE q = p /\ r # p
          BY <2>1, <2>2, <3>7, <4>2, <4>3 DEF Disjoint
        <4>4. CASE q # p /\ r = p
          BY <2>1, <2>2, <3>7, <4>2, <4>4 DEF Disjoint
        <4>5. CASE q # p /\ r # p
          BY <2>1, <2>2, <3>2, <4>5 DEF CInv, Apart, Disjoint
        <4>6. QED
          BY <4>1, <4>3, <4>4, <4>5
      <3>13. ASSUME NEW q \in Living', NEW i \in 1 .. Len(segs'[q])
             PROVE  segs'[q][i] \in occupancy'
        <4>1. CASE q # p
          BY <2>1, <2>2, <3>8, <3>9, <4>1
        <4>2. CASE q = p /\ i = 1
          BY <3>7, <3>8, <4>2
        <4>3. CASE q = p /\ i # 1
          <5>1. i \in 2 .. n
            BY <1>2, <3>7, <4>3
          <5>2. QED
            BY <3>7, <3>8, <3>10, <3>11, <4>3, <5>1
        <4>4. QED
          BY <4>1, <4>2, <4>3
      <3>14. QED
        BY <3>12, <3>13
    <2>5. QED
      BY <2>3, <2>4 DEF MovePlayer
  <1>5. QED
    BY <1>3, <1>4 DEF CInv

\* A turn request moves nobody.
LEMMA HandlePlayerMoveCInv ==
    ASSUME CInv, IInv', NEW p \in Players, NEW d \in Direction, HandlePlayerMove(p, d)
    PROVE  CInv'
  BY KeepApart DEF CInv, Newborn, NobodyAte, HandlePlayerMove, tick, Living, Members

\* A player that leaves takes its cells away.
LEMMA RemovePlayerCInv ==
    ASSUME CInv, IInv', NEW p \in Players, RemovePlayer(p)
    PROVE  CInv'
  <1>1. \A q \in Members' : q \in Members
    BY DEF CInv, IInv, TypeOK, RemovePlayer, Members
  <1>2. Apart'
    BY <1>1, KeepApart DEF CInv, RemovePlayer, snake, tick, Living
  <1>3. Newborn'
    BY <1>1 DEF CInv, Newborn, NobodyAte, RemovePlayer, snake, tick
  <1>4. QED
    BY <1>2, <1>3 DEF CInv

\* Steps of the rest of the server move nobody.
LEMMA StutterCInv ==
    ASSUME CInv, IInv', UNCHANGED vars
    PROVE  CInv'
  BY KeepApart DEF CInv, Newborn, NobodyAte, vars, snake, tick, Living, Members

\* On a roomy board, disjointness while nobody ate is inductive.
THEOREM CollisionInductive == Roomy => (Spec => []CInv)
  <1> SUFFICES ASSUME Roomy PROVE Spec => []CInv
    OBVIOUS
  <1>1. CInv /\ [Next]_vars => CInv'
    <2> SUFFICES ASSUME CInv, [Next]_vars PROVE CInv'
      OBVIOUS
    <2>1. IInv'
      BY AddPlayerIInv, StartGameIInv, BeginTickIInv, MovePlayerIInv, EndTickIInv,
         HandlePlayerMoveIInv, RemovePlayerIInv, StutterIInv DEF Next, CInv
    <2>2. QED
      BY <2>1, AddPlayerCInv, StartGameCInv, BeginTickCInv, MovePlayerCInv, EndTickCInv,
         HandlePlayerMoveCInv, RemovePlayerCInv, StutterCInv DEF Next
  <1>2. QED
    BY InitCInv, <1>1, PTL DEF Spec

\* As long as nobody has eaten, no two living snakes share a cell, nor does a
\* snake touch itself, also between two moves of a tick.
THEOREM NoOverlapWithoutMeal == Spec => []OverlapNeedsMeal
  <1>1. CASE Roomy
    <2>1. CInv => OverlapNeedsMeal
      <3> SUFFICES ASSUME CInv, NobodyAte PROVE NoOverlap
        BY DEF OverlapNeedsMeal
      <3>1. \A p \in Living : segs[p] \in Seq(Pos)
        BY DEF CInv, IInv, TypeOK, Living, Members
      <3>2. QED
        BY <3>1 DEF CInv, Apart, Disjoint, NoOverlap
    <2>2. QED
      BY <1>1, <2>1, CollisionInductive, PTL
  <1>2. CASE ~Roomy
    <2>1. OverlapNeedsMeal
      BY <1>2 DEF OverlapNeedsMeal
    <2>2. QED
      BY <2>1, PTL
  <1>3. QED
    BY <1>1, <1>2

\* As long as nobody has eaten, the map of a running tick misses no cell of a
\* living snake.
THEOREM MapIsComplete == Spec => []OccupancyComplete
  <1>1. CASE Roomy
    <2>1. CInv => OccupancyComplete
      <3> SUFFICES ASSUME CInv, NobodyAte, ticking, NEW p \in Living
                   PROVE  Body(p) \subseteq occupancy
        BY DEF OccupancyComplete
      <3>1. segs[p] \in Seq(Pos)
        BY DEF CInv, IInv, TypeOK, Living, Members
      <3>2. QED
        BY <3>1 DEF CInv, Apart, Body
    <2>2. QED
      BY <1>1, <2>1, CollisionInductive, PTL
  <1>2. CASE ~Roomy
    <2>1. OccupancyComplete
      BY <1>2 DEF OccupancyComplete
    <2>2. QED
      BY <2>1, PTL
  <1>3. QED
    BY <1>1, <1>2
=============================================================================
