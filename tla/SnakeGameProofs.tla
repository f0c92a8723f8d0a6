--------------------------- MODULE SnakeGameProofs ---------------------------
(***************************************************************************)
(* What the players of a snake game are shown.  First SkynetRoom: on any   *)
(* board, with any number of players, the room broadcasts a game by the    *)
(* rules of SnakeRules.  Then the safety properties of SnakeClient, for    *)
(* any number of connections, of players and of states pushed.  The two    *)
(* models share nothing but this module.                                   *)
(***************************************************************************)
EXTENDS SkynetRoom, SnakeClient, FiniteSetTheorems, SequenceTheorems, WellFoundedInduction, TLAPS

(***************************************************************************)
(* The room                                                                *)
(***************************************************************************)

\* Everybody has a turn, and one only.
Visits ==
    /\ \A i, j \in 1..Len(order) : order[i] = order[j] => i = j
    /\ \A p \in Players : \E i \in 1..Len(order) : order[i] = p

\* The dead have no body; the head of the living is ahead of its neck.
Sound(p) ==
    /\ alive[p] <=> segs[p] # <<>>
    /\ alive[p] => Len(segs[p]) >= 3 /\ segs[p][1] = Step(segs[p][2], dir[p])

\* At most one piece of food, on a free cell.
Meal(fs) ==
    /\ fs \subseteq Cells /\ fs \cap CoveredBy(segs) = {}
    /\ \A c, d \in fs : c = d

\* What holds between the steps of the room.
RoomInv == RoomTypeOK /\ Visits /\ Meal(foods) /\ \A p \in Players : Sound(p)

(* A tick.  Below, b is the board after the moves of the players of D, in a *)
(* tick that began with the food fs.                                       *)

\* The cells that tails may leave, the new heads, and where p's goes.
Vacated == {Last(segs[p]) : p \in {q \in Players : alive[q]}}
Heads(b, D) == {b.segs[p][1] : p \in {q \in D : b.alive[q]}}
Ahead(b, p) == Step(segs[p][1], b.dir[p])

BoardType(b) ==
    /\ b.segs \in [Players -> Seq(Cells)] /\ b.alive \in [Players -> BOOLEAN]
    /\ b.score \in [Players -> Nat] /\ b.dir \in [Players -> Direction]

Unmoved(b, p) ==
    b.segs[p] = segs[p] /\ b.alive[p] = alive[p] /\ b.score[p] = score[p] /\ b.dir[p] = dir[p]

\* An iteration that makes c of b leaves everybody but p as they are.
OthersStay(b, c, p) ==
    \A q \in Players \ {p} :
        c.segs[q] = b.segs[q] /\ c.alive[q] = b.alive[q] /\ c.score[q] = b.score[q] /\ c.dir[q] = b.dir[q]

\* p has moved by one cell, or has met something that was or had just got there.
Lives(b, p, fs) ==
    /\ b.alive[p]
    /\ Ahead(b, p) \in Cells /\ Ahead(b, p) \notin CoveredBy(segs) \ Vacated
    /\ b.segs[p] = Crawl(segs[p], Ahead(b, p), Ahead(b, p) \in fs)
    /\ b.score[p] = IF Ahead(b, p) \in fs THEN score[p] + 1 ELSE score[p]

Falls(b, D, p) ==
    /\ ~b.alive[p] /\ b.segs[p] = <<>> /\ b.score[p] = score[p]
    /\ Ahead(b, p) \in Cells => Ahead(b, p) \in CoveredBy(segs) \cup Heads(b, D)

\* Nobody moves out of turn or back onto its neck.
Fates(b, D, fs) ==
    /\ \A p \in Players : p \notin D \/ ~alive[p] => Unmoved(b, p)
    /\ \A p \in D : alive[p] => ~IsOpposite(dir[p], b.dir[p]) /\ (Lives(b, p, fs) \/ Falls(b, D, p))

\* room_advance_world's map may have lost a tail that is there, and keeps the
\* cells of those that died: all else is as the bodies say.
MapKept(b, D, fs) ==
    /\ CoveredBy(segs) \ Vacated \subseteq b.map
    /\ b.map \subseteq CoveredBy(segs) \cup Heads(b, D)
    /\ b.foods = fs \ Heads(b, D) /\ fs \cap Heads(b, D) \subseteq b.map

OneEats(b, D) ==
    \A p, q \in D : b.score[p] > score[p] /\ b.score[q] > score[q] => p = q

\* What holds between the iterations of room_advance_world.
Underway(b, D, fs) == BoardType(b) /\ Fates(b, D, fs) /\ MapKept(b, D, fs) /\ OneEats(b, D)

-----------------------------------------------------------------------------
\* What the snakes cover.
LEMMA Covers ==
    ASSUME NEW bodies \in [Players -> Seq(Cells)], NEW p \in Players, NEW i \in 1..Len(bodies[p])
    PROVE  bodies[p][i] \in CoveredBy(bodies) /\ bodies[p][i] \in Cells
<1>1. bodies[p] \in Seq(Cells)
    OBVIOUS
<1>2. bodies[p][i] \in Cells /\ DOMAIN bodies[p] = 1..Len(bodies[p])
    BY <1>1, ElementOfSeq, LenProperties
<1> QED
    BY <1>2 DEF CoveredBy, ToSet

LEMMA CoveredHas ==
    ASSUME NEW bodies \in [Players -> Seq(Cells)], NEW c \in CoveredBy(bodies)
    PROVE  \E p \in Players : \E i \in 1..Len(bodies[p]) : c = bodies[p][i]
<1>1. PICK p \in Players : c \in ToSet(bodies[p])
    BY DEF CoveredBy
<1>2. DOMAIN bodies[p] = 1..Len(bodies[p])
    BY LenProperties
<1> QED
    BY <1>1, <1>2 DEF ToSet

\* A snake that moves: its new head, and the rest of its body behind it.
LEMMA CrawlProperties ==
    ASSUME NEW list \in Seq(Cells), Len(list) >= 3, NEW head \in Cells, NEW ate \in BOOLEAN
    PROVE  LET moved == Crawl(list, head, ate)
           IN  /\ moved \in Seq(Cells)
               /\ Len(moved) = IF ate THEN Len(list) + 1 ELSE Len(list)
               /\ moved[1] = head
               /\ \A i \in 2..Len(moved) : moved[i] = list[i - 1] /\ i - 1 \in 1..Len(list)
<1> DEFINE rest == IF ate THEN list ELSE Front(list)
<1>1. Len(list) \in Nat
    BY LenProperties
<1>2. /\ Front(list) \in Seq(Cells) /\ Len(Front(list)) = Len(list) - 1
      /\ \A i \in 1..Len(list) - 1 : Front(list)[i] = list[i]
    BY <1>1 DEF Front
<1>3. /\ rest \in Seq(Cells) /\ Len(rest) = IF ate THEN Len(list) ELSE Len(list) - 1
      /\ \A i \in 1..Len(rest) : rest[i] = list[i] /\ i \in 1..Len(list)
    BY <1>1, <1>2
<1>4. Crawl(list, head, ate) = <<head>> \o rest
    BY DEF Crawl
<1> HIDE DEF rest
<1>5. <<head>> \in Seq(Cells) /\ Len(<<head>>) = 1 /\ <<head>>[1] = head
    OBVIOUS
<1>6. /\ <<head>> \o rest \in Seq(Cells)
      /\ Len(<<head>> \o rest) = 1 + Len(rest)
      /\ \A i \in 1..(1 + Len(rest)) : (<<head>> \o rest)[i] = IF i <= 1 THEN <<head>>[i] ELSE rest[i - 1]
    BY <1>3, <1>5, ConcatProperties
<1> QED
    BY <1>1, <1>3, <1>4, <1>5, <1>6

LEMMA LivesHead ==
    ASSUME RoomInv, NEW fs, NEW b, NEW p \in Players, alive[p], Lives(b, p, fs)
    PROVE  b.segs[p][1] = Ahead(b, p)
<1> DEFINE ate == Ahead(b, p) \in fs
<1>1. b.segs[p] = Crawl(segs[p], Ahead(b, p), ate) /\ ate \in BOOLEAN /\ Ahead(b, p) \in Cells
    BY DEF Lives
<1>2. segs[p] \in Seq(Cells) /\ Len(segs[p]) >= 3
    BY DEF RoomInv, RoomTypeOK, Sound
<1> HIDE DEF ate
<1> QED
    BY <1>1, <1>2, CrawlProperties

LEMMA TurnSafe ==
    ASSUME NEW d \in Direction, NEW e \in Direction
    PROVE  LET t == IF IsOpposite(d, e) THEN d ELSE e
           IN  t \in Direction /\ ~IsOpposite(d, t)
BY DEF IsOpposite, Direction

-----------------------------------------------------------------------------
(* One player's iteration                                                  *)

\* Those who have had their turn keep their fate when it is somebody else's.
LEMMA FatesKept ==
    ASSUME NEW b, NEW c, NEW fs, NEW D \in SUBSET Players, NEW p \in Players \ D, Fates(b, D, fs),
           OthersStay(b, c, p), Heads(b, D) \subseteq Heads(c, D \cup {p})
    PROVE  /\ \A q \in Players \ {p} : q \notin D \/ ~alive[q] => Unmoved(c, q)
           /\ \A q \in D : alive[q] => ~IsOpposite(dir[q], c.dir[q])
                                     /\ (Lives(c, q, fs) \/ Falls(c, D \cup {p}, q))
<1>1. ASSUME NEW q \in Players \ {p}, q \notin D \/ ~alive[q] PROVE Unmoved(c, q)
    BY <1>1 DEF Fates, Unmoved, OthersStay
<1>2. ASSUME NEW q \in D, alive[q]
      PROVE  ~IsOpposite(dir[q], c.dir[q]) /\ (Lives(c, q, fs) \/ Falls(c, D \cup {p}, q))
    <2>1. q \in Players \ {p} /\ ~IsOpposite(dir[q], b.dir[q]) /\ (Lives(b, q, fs) \/ Falls(b, D, q))
        BY <1>2 DEF Fates
    <2>2. c.segs[q] = b.segs[q] /\ c.alive[q] = b.alive[q] /\ c.score[q] = b.score[q] /\ c.dir[q] = b.dir[q]
        BY <2>1 DEF OthersStay
    <2>3. Ahead(c, q) = Ahead(b, q)
        BY <2>2 DEF Ahead
    <2>4. CASE Lives(b, q, fs)
        BY <2>1, <2>2, <2>3, <2>4 DEF Lives
    <2>5. CASE Falls(b, D, q)
        BY <2>1, <2>2, <2>3, <2>5 DEF Falls
    <2> QED
        BY <2>1, <2>2, <2>4, <2>5
<1> QED
    BY <1>1, <1>2

\* The three outcomes of an iteration, then the iteration.
LEMMA DeadStays ==
    ASSUME RoomInv, NEW fs, NEW b, NEW D \in SUBSET Players, NEW p \in Players \ D,
           Underway(b, D, fs), ~alive[p]
    PROVE  Underway(MovePlayer(b, p), D \cup {p}, fs)
<1>1. Unmoved(b, p) /\ ~b.alive[p]
    BY DEF Underway, Fates, Unmoved
<1>2. MovePlayer(b, p) = b
    BY <1>1 DEF MovePlayer
<1>3. Heads(b, D \cup {p}) = Heads(b, D)
    BY <1>1 DEF Heads
<1>4. Fates(b, D \cup {p}, fs)
    BY <1>3 DEF Underway, Fates, Falls
<1>5. MapKept(b, D \cup {p}, fs)
    BY <1>3 DEF Underway, MapKept
<1>6. OneEats(b, D \cup {p})
    <2>1. ~(b.score[p] > score[p])
        <3>1. b.score[p] = score[p] /\ score[p] \in Nat
            BY <1>1 DEF Unmoved, RoomInv, RoomTypeOK
        <3> QED
            BY <3>1
    <2> QED
        BY <2>1 DEF Underway, OneEats
<1> QED
    BY <1>2, <1>4, <1>5, <1>6 DEF Underway

\* What a living player's iteration starts from.
LEMMA Turn ==
    ASSUME RoomInv, NEW fs, NEW b, NEW D \in SUBSET Players, NEW p \in Players \ D,
           Underway(b, D, fs), alive[p]
    PROVE  LET d == IF IsOpposite(b.dir[p], pending[p]) THEN b.dir[p] ELSE pending[p]
           IN  /\ Unmoved(b, p)
               /\ segs[p] \in Seq(Cells) /\ Len(segs[p]) >= 3 /\ Len(segs[p]) \in Nat
               /\ segs[p][1] \in Cells
               /\ Last(segs[p]) \in Vacated /\ Last(segs[p]) \in CoveredBy(segs)
               /\ d \in Direction /\ ~IsOpposite(dir[p], d)
<1>1. Unmoved(b, p)
    BY DEF Underway, Fates
<1>2. segs \in [Players -> Seq(Cells)] /\ dir[p] \in Direction /\ pending[p] \in Direction
    BY DEF RoomInv, RoomTypeOK
<1>3. segs[p] \in Seq(Cells) /\ Len(segs[p]) >= 3 /\ Len(segs[p]) \in Nat
    BY <1>2, LenProperties DEF RoomInv, Sound
<1>4. 1 \in 1..Len(segs[p]) /\ Len(segs[p]) \in 1..Len(segs[p])
    BY <1>3
<1>5. segs[p][1] \in Cells /\ Last(segs[p]) \in CoveredBy(segs)
    BY <1>2, <1>4, Covers DEF Last
<1>6. Last(segs[p]) \in Vacated
    BY DEF Vacated
<1>7. b.dir[p] = dir[p]
    BY <1>1 DEF Unmoved
<1> QED
    BY <1>1, <1>2, <1>3, <1>5, <1>6, <1>7, TurnSafe

LEMMA Crash ==
    ASSUME RoomInv, NEW fs, Meal(fs), NEW b, NEW D \in SUBSET Players, NEW p \in Players \ D,
           Underway(b, D, fs), alive[p],
           NEW d, ~IsOpposite(dir[p], d), Hits(Step(segs[p][1], d), b.map \ {Last(segs[p])}),
           NEW c, BoardType(c), OthersStay(b, c, p),
           c.segs[p] = <<>>, c.alive[p] = FALSE, c.score[p] = score[p], c.dir[p] = d,
           c.foods = b.foods, c.map = b.map \ {Last(segs[p])}
    PROVE  Underway(c, D \cup {p}, fs)
<1>1. Fates(b, D, fs) /\ MapKept(b, D, fs) /\ OneEats(b, D)
    BY DEF Underway
<1>2. Last(segs[p]) \in Vacated /\ Last(segs[p]) \in CoveredBy(segs)
    BY Turn
<1>3. Heads(c, D \cup {p}) = Heads(b, D)
    BY DEF Heads, OthersStay
<1>4. /\ \A q \in Players \ {p} : q \notin D \/ ~alive[q] => Unmoved(c, q)
      /\ \A q \in D : alive[q] => ~IsOpposite(dir[q], c.dir[q])
                                /\ (Lives(c, q, fs) \/ Falls(c, D \cup {p}, q))
    BY <1>1, <1>3, FatesKept
<1>5. Falls(c, D \cup {p}, p)
    <2>1. Ahead(c, p) \in Cells => Ahead(c, p) \in b.map
        BY DEF Ahead, Hits
    <2> QED
        BY <1>1, <1>3, <2>1 DEF Falls, MapKept
<1>6. Fates(c, D \cup {p}, fs)
    BY <1>4, <1>5 DEF Fates
<1>7. MapKept(c, D \cup {p}, fs)
    BY <1>1, <1>2, <1>3 DEF MapKept, Meal
<1>8. OneEats(c, D \cup {p})
    <2>1. ~(c.score[p] > score[p])
        <3>1. score[p] \in Nat
            BY DEF RoomInv, RoomTypeOK
        <3> QED
            BY <3>1
    <2> QED
        BY <1>1, <2>1 DEF OneEats, OthersStay
<1> QED
    BY <1>6, <1>7, <1>8 DEF Underway

LEMMA Advance ==
    ASSUME RoomInv, NEW fs, Meal(fs), NEW b, NEW D \in SUBSET Players, NEW p \in Players \ D,
           Underway(b, D, fs), alive[p],
           NEW d, ~IsOpposite(dir[p], d), NEW head, head = Step(segs[p][1], d),
           NEW ate \in BOOLEAN, ate <=> head \in b.foods,
           ~Hits(head, b.map \ {Last(segs[p])}),
           NEW c, BoardType(c), OthersStay(b, c, p),
           c.segs[p] = Crawl(segs[p], head, ate), c.alive[p] = TRUE, c.dir[p] = d,
           c.score[p] = IF ate THEN score[p] + 1 ELSE score[p],
           c.foods = b.foods \ {head}, c.map = (b.map \ {Last(segs[p])}) \cup {head}
    PROVE  Underway(c, D \cup {p}, fs)
<1>1. Fates(b, D, fs) /\ MapKept(b, D, fs) /\ OneEats(b, D)
    BY DEF Underway
<1>2. /\ Last(segs[p]) \in Vacated /\ Last(segs[p]) \in CoveredBy(segs)
      /\ segs[p] \in Seq(Cells) /\ Len(segs[p]) >= 3
    BY Turn
<1>3. head \in Cells /\ head \notin b.map \ {Last(segs[p])}
    BY DEF Hits
<1>4. c.segs[p][1] = head
    BY <1>2, <1>3, CrawlProperties
<1>5. Heads(c, D \cup {p}) = Heads(b, D) \cup {head}
    BY <1>4 DEF Heads, OthersStay
<1>6. /\ \A q \in Players \ {p} : q \notin D \/ ~alive[q] => Unmoved(c, q)
      /\ \A q \in D : alive[q] => ~IsOpposite(dir[q], c.dir[q])
                                /\ (Lives(c, q, fs) \/ Falls(c, D \cup {p}, q))
    BY <1>1, <1>5, FatesKept
<1>7. ate <=> head \in fs
    \* The food under a head is off the board, and no tail lies on food.
    <2>1. ASSUME head \in fs PROVE head \notin Heads(b, D)
        BY <1>1, <1>2, <1>3, <2>1 DEF MapKept, Meal
    <2> QED
        BY <1>1, <2>1 DEF MapKept
<1>8. Lives(c, p, fs)
    <2>1. Ahead(c, p) = head
        BY DEF Ahead
    <2>2. head \notin CoveredBy(segs) \ Vacated
        BY <1>1, <1>2, <1>3 DEF MapKept
    <2>3. c.segs[p] = Crawl(segs[p], head, head \in fs)
        BY <1>7 DEF Crawl
    <2>4. c.score[p] = IF head \in fs THEN score[p] + 1 ELSE score[p]
        BY <1>7
    <2> QED
        BY <1>3, <2>1, <2>2, <2>3, <2>4 DEF Lives
<1>9. Fates(c, D \cup {p}, fs)
    <2>1. ASSUME NEW q \in Players, q \notin D \cup {p} \/ ~alive[q] PROVE Unmoved(c, q)
        BY <1>6, <2>1
    <2>2. ASSUME NEW q \in D \cup {p}, alive[q]
          PROVE  ~IsOpposite(dir[q], c.dir[q]) /\ (Lives(c, q, fs) \/ Falls(c, D \cup {p}, q))
        BY <1>6, <1>8, <2>2
    <2> QED
        BY <2>1, <2>2 DEF Fates
<1>10. MapKept(c, D \cup {p}, fs)
    <2>1. CoveredBy(segs) \ Vacated \subseteq c.map
        BY <1>1, <1>2 DEF MapKept
    <2>2. c.map \subseteq CoveredBy(segs) \cup Heads(c, D \cup {p})
        BY <1>1, <1>5 DEF MapKept
    <2>3. c.foods = fs \ Heads(c, D \cup {p})
        BY <1>1, <1>5 DEF MapKept
    <2>4. fs \cap Heads(c, D \cup {p}) \subseteq c.map
        <3>1. fs \cap CoveredBy(segs) = {} /\ fs \cap Heads(b, D) \subseteq b.map
            BY <1>1 DEF MapKept, Meal
        <3>2. Last(segs[p]) \notin fs
            BY <1>2, <3>1
        <3> QED
            BY <1>5, <3>1, <3>2
    <2> QED
        BY <2>1, <2>2, <2>3, <2>4 DEF MapKept
<1>11. OneEats(c, D \cup {p})
    <2>1. ASSUME NEW q \in D, c.score[q] > score[q], c.score[p] > score[p] PROVE FALSE
        <3>1. ate
            <4>1. score[p] \in Nat
                BY DEF RoomInv, RoomTypeOK
            <4> QED
                BY <2>1, <4>1
        <3>2. q \in Players \ {p} /\ b.score[q] > score[q] /\ score[q] \in Nat
            BY <2>1 DEF RoomInv, RoomTypeOK, OthersStay
        <3>3. alive[q] /\ Lives(b, q, fs)
            BY <1>1, <2>1, <3>2 DEF Fates, Unmoved, Falls
        <3>4. Ahead(b, q) \in fs
            BY <3>2, <3>3 DEF Lives
        <3>6. b.segs[q][1] = Ahead(b, q)
            BY <3>2, <3>3, LivesHead
        <3>7. Ahead(b, q) \in Heads(b, D)
            BY <2>1, <3>3, <3>6 DEF Heads, Lives
        <3>8. head = Ahead(b, q)
            BY <1>7, <3>1, <3>4 DEF Meal
        <3> QED
            BY <1>1, <3>1, <3>7, <3>8 DEF MapKept
    <2>2. \A q \in D : c.score[q] = b.score[q]
        BY DEF OthersStay
    <2> QED
        BY <1>1, <2>1, <2>2 DEF OneEats
<1> QED
    BY <1>9, <1>10, <1>11 DEF Underway

LEMMA OneMove ==
    ASSUME RoomInv, NEW fs, Meal(fs), NEW b, NEW D \in SUBSET Players, NEW p \in Players \ D,
           Underway(b, D, fs)
    PROVE  Underway(MovePlayer(b, p), D \cup {p}, fs)
<1>1. CASE ~alive[p]
    BY <1>1, DeadStays
<1>2. CASE alive[p]
    <2> DEFINE d == IF IsOpposite(b.dir[p], pending[p]) THEN b.dir[p] ELSE pending[p]
               head == Step(segs[p][1], d)
               ate == head \in b.foods
               map == b.map \ {Last(segs[p])}
               c == MovePlayer(b, p)
    <2>1. /\ Unmoved(b, p) /\ BoardType(b)
          /\ segs[p] \in Seq(Cells) /\ Len(segs[p]) >= 3
          /\ d \in Direction /\ ~IsOpposite(dir[p], d)
        BY <1>2, Turn DEF Underway
    <2>2. b.segs[p] = segs[p] /\ b.alive[p] /\ b.score[p] = score[p] /\ score[p] \in Nat
        BY <1>2, <2>1 DEF Unmoved, RoomInv, RoomTypeOK
    <2>3. CASE Hits(head, map)
        <3>1. c = Board([b.segs EXCEPT ![p] = <<>>], [b.alive EXCEPT ![p] = FALSE], b.foods,
                        map, b.score, [b.dir EXCEPT ![p] = d])
            BY <2>2, <2>3 DEF MovePlayer
        <3> HIDE DEF d, c
        <3>2. /\ c.segs = [b.segs EXCEPT ![p] = <<>>] /\ c.alive = [b.alive EXCEPT ![p] = FALSE]
              /\ c.foods = b.foods /\ c.map = map /\ c.score = b.score /\ c.dir = [b.dir EXCEPT ![p] = d]
            BY <3>1 DEF Board
        <3>3. BoardType(c) /\ OthersStay(b, c, p)
            BY <2>1, <3>2 DEF BoardType, OthersStay
        <3>4. c.segs[p] = <<>> /\ c.alive[p] = FALSE /\ c.score[p] = score[p] /\ c.dir[p] = d
            BY <2>1, <2>2, <3>2 DEF BoardType
        <3>5. Underway(c, D \cup {p}, fs)
            BY <1>2, <2>1, <2>3, <3>2, <3>3, <3>4, Crash
        <3> QED
            BY <3>5 DEF c
    <2>4. CASE ~Hits(head, map)
        <3>1. c = Board([b.segs EXCEPT ![p] = Crawl(segs[p], head, ate)], b.alive, b.foods \ {head},
                        map \cup {head}, [b.score EXCEPT ![p] = IF ate THEN @ + 1 ELSE @],
                        [b.dir EXCEPT ![p] = d])
            BY <2>2, <2>4 DEF MovePlayer
        <3>2. ate \in BOOLEAN /\ (ate <=> head \in b.foods)
            OBVIOUS
        <3>3. head \in Cells
            BY <2>4 DEF Hits
        <3> DEFINE list == Crawl(segs[p], head, ate)
                   gain == IF ate THEN score[p] + 1 ELSE score[p]
        <3>4. list \in Seq(Cells)
            BY <2>1, <3>2, <3>3, CrawlProperties
        <3>5. [b.score EXCEPT ![p] = IF ate THEN @ + 1 ELSE @] = [b.score EXCEPT ![p] = gain]
            BY <2>2
        <3>6. gain \in Nat
            BY <2>2
        <3> HIDE DEF d, c, ate, list, gain
        <3>7. /\ c.segs = [b.segs EXCEPT ![p] = list] /\ c.alive = b.alive
              /\ c.foods = b.foods \ {head} /\ c.map = map \cup {head}
              /\ c.score = [b.score EXCEPT ![p] = gain] /\ c.dir = [b.dir EXCEPT ![p] = d]
            BY <3>1, <3>5 DEF Board, list
        <3>8. BoardType(c) /\ OthersStay(b, c, p)
            BY <2>1, <3>4, <3>6, <3>7 DEF BoardType, OthersStay
        <3>9. c.segs[p] = list /\ c.alive[p] = TRUE /\ c.score[p] = gain /\ c.dir[p] = d
            BY <2>1, <2>2, <3>7 DEF BoardType
        <3> HIDE DEF head
        <3>10. /\ c.segs[p] = Crawl(segs[p], head, ate)
               /\ c.score[p] = IF ate THEN score[p] + 1 ELSE score[p]
               /\ c.map = (b.map \ {Last(segs[p])}) \cup {head}
            BY <3>7, <3>9 DEF list, gain
        <3>11. head = Step(segs[p][1], d) /\ ~Hits(head, b.map \ {Last(segs[p])})
            BY <2>4 DEF head
        <3>12. Underway(c, D \cup {p}, fs)
            BY <1>2, <2>1, <3>2, <3>7, <3>8, <3>9, <3>10, <3>11, Advance
        <3> QED
            BY <3>12 DEF c
    <2> QED
        BY <2>3, <2>4
<1> QED
    BY <1>1, <1>2

-----------------------------------------------------------------------------
(* A tick: induction over the players                                      *)

\* The library's theorem on induction takes an operator as a parameter; that on
\* minimal elements does not.
LEMMA LeastNatural ==
    ASSUME NEW T \in SUBSET Nat, T # {}
    PROVE  \E n \in T : \A m \in T : n <= m
<1> DEFINE R == {ss \in Nat \X Nat : ss[1] < ss[2]}
<1>1. IsWellFoundedOn(R, Nat)
    BY NatLessThanWellFounded DEF OpToRel
<1>2. PICK n \in T : \A m \in T : ~(<<m, n>> \in R)
    <2> HIDE DEF R
    <2> QED BY <1>1, WFMin
<1>3. ASSUME NEW m \in T PROVE n <= m
    <2>1. m \in Nat /\ n \in Nat /\ ~(m < n)
        BY <1>2
    <2> QED
        BY <2>1
<1> QED
    BY <1>3

LEMMA Induction ==
    ASSUME NEW S, 0 \in S, \A n \in Nat : n \in S => n + 1 \in S
    PROVE  \A n \in Nat : n \in S
<1> SUFFICES ASSUME {n \in Nat : n \notin S} # {} PROVE FALSE
    OBVIOUS
<1>1. PICK n \in {n \in Nat : n \notin S} : \A m \in {k \in Nat : k \notin S} : n <= m
    BY LeastNatural
<1>2. n # 0 /\ n - 1 \in Nat /\ n - 1 < n
    BY <1>1
<1>3. n - 1 \in S
    BY <1>1, <1>2
<1>4. n \in S
    BY <1>2, <1>3
<1> QED
    BY <1>1, <1>4

Started(fs) == Board(segs, alive, fs, CoveredBy(segs), score, dir)

\* The recursive function Boards(fs) exists: one can count up to Len(order).
LEMMA BoardsRecurrence ==
    ASSUME order \in Seq(Players), NEW fs
    PROVE  /\ Boards(fs)[0] = Started(fs)
           /\ \A i \in 1..Len(order) : Boards(fs)[i] = MovePlayer(Boards(fs)[i - 1], order[i])
<1> DEFINE Recurs(g, n) ==
        g = [i \in 0..n |-> IF i = 0 THEN Started(fs) ELSE MovePlayer(g[i - 1], order[i])]
           S == {n \in Nat : \E g : Recurs(g, n)}
<1>1. 0 \in S
    <2> DEFINE g == [i \in 0..0 |-> Started(fs)]
    <2>1. Recurs(g, 0)
        OBVIOUS
    <2> QED
        BY <2>1
<1>2. ASSUME NEW n \in Nat, n \in S PROVE n + 1 \in S
    <2>1. PICK g : Recurs(g, n)
        BY <1>2
    <2> DEFINE h == [i \in 0..(n + 1) |-> IF i = n + 1 THEN MovePlayer(g[n], order[n + 1]) ELSE g[i]]
    <2>2. ASSUME NEW i \in 0..(n + 1)
          PROVE  h[i] = IF i = 0 THEN Started(fs) ELSE MovePlayer(h[i - 1], order[i])
        <3>1. CASE i = n + 1
            <4>1. h[i] = MovePlayer(g[n], order[n + 1]) /\ i - 1 = n /\ n \in 0..(n + 1) /\ n # n + 1
                BY <3>1
            <4> QED
                BY <3>1, <4>1
        <3>2. CASE i # n + 1
            <4>1. i \in 0..n /\ h[i] = g[i]
                BY <3>2
            <4>2. g[i] = IF i = 0 THEN Started(fs) ELSE MovePlayer(g[i - 1], order[i])
                BY <2>1, <4>1
            <4>3. i # 0 => i - 1 \in 0..(n + 1) /\ i - 1 # n + 1 /\ h[i - 1] = g[i - 1]
                BY <4>1
            <4> QED
                BY <4>1, <4>2, <4>3
        <3> QED
            BY <3>1, <3>2
    <2>3. Recurs(h, n + 1)
        <3> HIDE DEF h
        <3>1. h = [i \in 0..(n + 1) |-> h[i]]
            BY DEF h
        <3> QED
            BY <2>2, <3>1
    <2>4. (\E k : Recurs(k, n + 1)) /\ n + 1 \in Nat
        <3> HIDE DEF h, Recurs
        <3> QED
            BY <2>3
    <2> QED
        BY <2>4
<1>3. \A n \in Nat : n \in S
    <2> HIDE DEF S
    <2> QED
        BY <1>1, <1>2, Induction
<1>4. Len(order) \in Nat
    BY LenProperties
<1>5. PICK g : Recurs(g, Len(order))
    BY <1>3, <1>4
<1>6. Recurs(Boards(fs), Len(order))
    BY <1>5 DEF Boards, Started
<1>7. 0 \in 0..Len(order) /\ \A i \in 1..Len(order) : i \in 0..Len(order) /\ i # 0
    BY <1>4
<1> QED
    <2> DEFINE f == Boards(fs)
    <2> HIDE DEF f
    <2>1. Recurs(f, Len(order))
        BY <1>6 DEF f
    <2>2. f[0] = Started(fs) /\ \A i \in 1..Len(order) : f[i] = MovePlayer(f[i - 1], order[i])
        BY <1>7, <2>1
    <2> QED
        BY <2>2 DEF f

LEMMA Begun ==
    ASSUME RoomInv, NEW fs, Meal(fs)
    PROVE  Underway(Started(fs), {}, fs)
<1>1. /\ Started(fs).segs = segs /\ Started(fs).alive = alive /\ Started(fs).foods = fs
      /\ Started(fs).map = CoveredBy(segs) /\ Started(fs).score = score /\ Started(fs).dir = dir
    BY DEF Started, Board
<1>2. Heads(Started(fs), {}) = {}
    BY DEF Heads
<1> QED
    BY <1>1, <1>2 DEF Underway, BoardType, Fates, MapKept, OneEats, Unmoved, RoomInv, RoomTypeOK

LEMMA AllMoves ==
    ASSUME RoomInv, NEW fs, Meal(fs)
    PROVE  Underway(MovePlayers(fs), Players, fs)
<1> DEFINE Done(i) == {order[j] : j \in 1..i}
           S == {i \in Nat : i <= Len(order) => Underway(Boards(fs)[i], Done(i), fs)}
<1>1. /\ order \in Seq(Players) /\ Len(order) \in Nat /\ \A i \in 1..Len(order) : order[i] \in Players
      /\ \A i, j \in 1..Len(order) : order[i] = order[j] => i = j
      /\ \A p \in Players : \E i \in 1..Len(order) : order[i] = p
    BY LenProperties, ElementOfSeq DEF RoomInv, RoomTypeOK, Visits
<1>2. /\ Boards(fs)[0] = Started(fs)
      /\ \A i \in 1..Len(order) : Boards(fs)[i] = MovePlayer(Boards(fs)[i - 1], order[i])
    BY <1>1, BoardsRecurrence
<1>3. 0 \in S
    <2>1. Done(0) = {}
        OBVIOUS
    <2> HIDE DEF Done
    <2> QED
        BY <1>2, <2>1, Begun
<1>4. ASSUME NEW i \in Nat, i \in S PROVE i + 1 \in S
    <2> SUFFICES ASSUME i + 1 <= Len(order)
                 PROVE  Underway(Boards(fs)[i + 1], Done(i + 1), fs)
        OBVIOUS
    <2>1. i + 1 \in 1..Len(order) /\ i <= Len(order) /\ (i + 1) - 1 = i
        BY <1>1
    <2>2. Underway(Boards(fs)[i], Done(i), fs)
        BY <1>4, <2>1
    <2>3. /\ Done(i) \in SUBSET Players /\ order[i + 1] \in Players /\ order[i + 1] \notin Done(i)
          /\ Done(i + 1) = Done(i) \cup {order[i + 1]}
        <3>1. \A j \in 1..i : j \in 1..Len(order) /\ j # i + 1
            BY <1>1
        <3>2. 1..(i + 1) = 1..i \cup {i + 1}
            OBVIOUS
        <3>3. Done(i) \in SUBSET Players
            BY <1>1, <3>1
        <3>4. Done(i + 1) = Done(i) \cup {order[i + 1]}
            BY <3>2
        <3>5. order[i + 1] \in Players /\ order[i + 1] \notin Done(i)
            BY <1>1, <2>1, <3>1
        <3> QED
            BY <3>3, <3>4, <3>5
    <2>4. Boards(fs)[i + 1] = MovePlayer(Boards(fs)[i], order[i + 1])
        BY <1>2, <2>1
    <2> HIDE DEF Done
    <2> QED
        BY <2>2, <2>3, <2>4, OneMove
<1>5. Len(order) \in S
    <2> HIDE DEF S
    <2> QED
        BY <1>1, <1>3, <1>4, Induction
<1>6. Done(Len(order)) = Players
    BY <1>1
<1>7. Underway(Boards(fs)[Len(order)], Done(Len(order)), fs)
    BY <1>1, <1>5
<1> QED
    BY <1>6, <1>7 DEF MovePlayers

-----------------------------------------------------------------------------
(* A tick is a round of the rules                                          *)

LEMMA AtMostOne ==
    ASSUME NEW S, \A c, d \in S : c = d
    PROVE  IsFiniteSet(S) /\ Cardinality(S) <= 1 /\ (S # {} => Cardinality(S) = 1)
<1>1. CASE S = {}
    BY <1>1, FS_EmptySet
<1>2. CASE S # {}
    <2>1. PICK c \in S : S = {c}
        BY <1>2
    <2>2. IsFiniteSet({c}) /\ Cardinality({c}) = 1
        BY FS_Singleton
    <2> QED
        BY <2>1, <2>2
<1> QED
    BY <1>1, <1>2

\* Both modules count with the same Cardinality.
LEMMA SameCount ==
    ASSUME NEW S
    PROVE  Rules!Cardinality(S) = Cardinality(S)
BY DEF Cardinality, Rules!Cardinality

LEMMA SpreadMeal ==
    ASSUME RoomAssumption, NEW bodies, NEW old, old \subseteq Cells, \A c, d \in old : c = d,
           NEW fs \in EnsureFood(old, bodies)
    PROVE  /\ fs \subseteq Cells /\ \A c, d \in fs : c = d
           /\ fs = old \/ (old = {} /\ \E c \in Cells \ CoveredBy(bodies) : fs = {c})
<1> DEFINE free == FoodSites \ CoveredBy(bodies)
<1>1. fs = old \/ (old = {} /\ fs \in {{c} : c \in free})
    BY DEF EnsureFood
<1> QED
    BY <1>1 DEF RoomAssumption

\* A snake's head is ahead of its neck, so a turn that is no reversal does not
\* lead back into it.
LEMMA NotBack ==
    ASSUME NEW neck \in Cells, NEW d \in Direction, NEW e \in Direction, ~IsOpposite(d, e)
    PROVE  Step(Step(neck, d), e) # neck
BY DEF Cells, Direction, IsOpposite, Step, DX, DY

LEMMA StepBeside ==
    ASSUME NEW c \in Cells, NEW d \in Direction
    PROVE  /\ Rules!Beside(Step(c, d), c)
           /\ \E k \in {-1, 1} : Step(c, d) \in {[c EXCEPT !.x = @ + k], [c EXCEPT !.y = @ + k]}
<1>1. c.x \in Int /\ c.y \in Int /\ c = [x |-> c.x, y |-> c.y]
    BY DEF Cells
<1>2. d \in {"Up", "Down", "Left", "Right"} /\ Step(c, d) = [x |-> c.x + DX[d], y |-> c.y + DY[d]]
    BY DEF Direction, Step
<1>3. \A k : /\ [c EXCEPT !.x = @ + k] = [x |-> c.x + k, y |-> c.y]
              /\ [c EXCEPT !.y = @ + k] = [x |-> c.x, y |-> c.y + k]
    BY <1>1
<1> QED
    BY <1>1, <1>2, <1>3 DEF DX, DY, Rules!Beside

\* The rules' words for what is taken, before and after the round.
LEMMA RulesTaken ==
    /\ Rules!Taken = CoveredBy(segs)
    /\ Rules!TakenNext = CoveredBy(segs')
    /\ Rules!Board = Cells
BY DEF Rules!Taken, Rules!TakenNext, Rules!CellsOf, Rules!Board, CoveredBy, ToSet, Cells

LEMMA RulesLiving ==
    ASSUME RoomInv
    PROVE  /\ Rules!Living = {p \in Players : alive[p]}
           /\ Rules!Tails = Vacated
<1>1. Rules!Living = {p \in Players : alive[p]}
    BY DEF Rules!Living, RoomInv, Sound
<1> QED
    BY <1>1 DEF Rules!Tails, Vacated, Last

\* What the moves of all come to.
LEMMA Outcome ==
    ASSUME RoomInv, NEW fs, Meal(fs), NEW b, Underway(b, Players, fs)
    PROVE  /\ \A p \in Players : b.alive[p] <=> b.segs[p] # <<>>
           /\ \A p \in Players : b.alive[p] =>
                /\ Len(b.segs[p]) >= 3
                /\ b.segs[p][1] = Ahead(b, p) /\ b.segs[p][2] = segs[p][1]
           /\ CoveredBy(b.segs) \subseteq CoveredBy(segs) \cup Heads(b, Players)
           /\ Heads(b, Players) \subseteq CoveredBy(b.segs)
           /\ b.foods = fs \ CoveredBy(b.segs)
<1>1. BoardType(b) /\ Fates(b, Players, fs) /\ MapKept(b, Players, fs)
    BY DEF Underway
<1>2. ASSUME NEW p \in Players, alive[p], Lives(b, p, fs)
      PROVE  /\ b.alive[p] /\ b.segs[p] # <<>> /\ Len(b.segs[p]) >= 3
             /\ b.segs[p][1] = Ahead(b, p) /\ b.segs[p][2] = segs[p][1]
             /\ \A i \in 2..Len(b.segs[p]) : b.segs[p][i] \in CoveredBy(segs)
    <2> DEFINE ate == Ahead(b, p) \in fs
    <2>1. segs \in [Players -> Seq(Cells)] /\ segs[p] \in Seq(Cells) /\ Len(segs[p]) >= 3 /\ Len(segs[p]) \in Nat
        BY <1>2, LenProperties DEF RoomInv, RoomTypeOK, Sound
    <2>2. b.segs[p] = Crawl(segs[p], Ahead(b, p), ate) /\ Ahead(b, p) \in Cells /\ b.alive[p] /\ ate \in BOOLEAN
        BY <1>2 DEF Lives
    <2> HIDE DEF ate
    <2>3. /\ Len(b.segs[p]) = (IF ate THEN Len(segs[p]) + 1 ELSE Len(segs[p]))
          /\ b.segs[p][1] = Ahead(b, p)
          /\ \A i \in 2..Len(b.segs[p]) : b.segs[p][i] = segs[p][i - 1] /\ i - 1 \in 1..Len(segs[p])
        BY <2>1, <2>2, CrawlProperties
    <2>4. Len(b.segs[p]) >= 3 /\ Len(b.segs[p]) \in Nat
        BY <2>1, <2>3
    <2>5. 2 \in 2..Len(b.segs[p]) /\ b.segs[p] # <<>>
        BY <2>4
    <2>6. b.segs[p][2] = segs[p][1]
        BY <2>3, <2>5
    <2>7. \A i \in 2..Len(b.segs[p]) : b.segs[p][i] \in CoveredBy(segs)
        BY <2>1, <2>3, Covers
    <2> QED
        BY <2>2, <2>3, <2>4, <2>5, <2>6, <2>7
<1>3. ASSUME NEW p \in Players, ~alive[p] \/ ~Lives(b, p, fs)
      PROVE  ~b.alive[p] /\ b.segs[p] = <<>>
    <2>1. CASE ~alive[p]
        <3>1. Unmoved(b, p)
            BY <1>1, <2>1 DEF Fates
        <3>2. segs[p] = <<>>
            BY <2>1 DEF RoomInv, Sound
        <3> QED
            BY <2>1, <3>1, <3>2 DEF Unmoved
    <2>2. CASE alive[p]
        BY <1>1, <1>3, <2>2 DEF Fates, Falls
    <2> QED
        BY <2>1, <2>2
<1>4. ASSUME NEW c \in CoveredBy(b.segs) PROVE c \in CoveredBy(segs) \cup Heads(b, Players)
    <2>1. PICK p \in Players : \E i \in 1..Len(b.segs[p]) : c = b.segs[p][i]
        BY <1>1, CoveredHas DEF BoardType
    <2>2. PICK i \in 1..Len(b.segs[p]) : c = b.segs[p][i]
        BY <2>1
    <2>3. alive[p] /\ Lives(b, p, fs)
        BY <1>3, <2>2
    <2>4. CASE i = 1
        BY <1>2, <2>2, <2>3, <2>4 DEF Heads
    <2>5. CASE i # 1
        <3>1. i \in 2..Len(b.segs[p])
            BY <2>5
        <3> QED
            BY <1>2, <2>2, <2>3, <3>1
    <2> QED
        BY <2>4, <2>5
<1>5. ASSUME NEW c \in Heads(b, Players) PROVE c \in CoveredBy(b.segs)
    <2>1. PICK p \in Players : b.alive[p] /\ c = b.segs[p][1]
        BY DEF Heads
    <2>2. Len(b.segs[p]) >= 3
        BY <1>2, <1>3, <2>1
    <2>3. b.segs \in [Players -> Seq(Cells)] /\ Len(b.segs[p]) \in Nat
        BY <1>1, LenProperties DEF BoardType
    <2>4. 1 \in 1..Len(b.segs[p])
        BY <2>2, <2>3
    <2> QED
        BY <2>1, <2>3, <2>4, Covers
<1>6. b.foods = fs \ CoveredBy(b.segs)
    BY <1>1, <1>4, <1>5 DEF MapKept, Meal
<1>7. ASSUME NEW p \in Players PROVE b.alive[p] <=> b.segs[p] # <<>>
    BY <1>2, <1>3
<1>8. ASSUME NEW p \in Players, b.alive[p]
      PROVE  Len(b.segs[p]) >= 3 /\ b.segs[p][1] = Ahead(b, p) /\ b.segs[p][2] = segs[p][1]
    BY <1>2, <1>3, <1>8
<1> QED
    BY <1>4, <1>5, <1>6, <1>7, <1>8

\* How a living player's turn ends, in the words of the rules.
LEMMA TurnByTheRules ==
    ASSUME RoomInv, NEW fs, Meal(fs), NEW b, Underway(b, Players, fs),
           segs' = b.segs, score' = b.score, NEW p \in Players, alive[p]
    PROVE  Rules!Crawls(p, fs) \/ Rules!Dies(p)
<1> DEFINE head == Ahead(b, p)
<1>1. BoardType(b) /\ Fates(b, Players, fs)
    BY DEF Underway
<1>2. /\ segs \in [Players -> Seq(Cells)] /\ segs[p] \in Seq(Cells) /\ Len(segs[p]) \in Nat /\ Len(segs[p]) >= 3
      /\ segs[p][1] = Step(segs[p][2], dir[p]) /\ dir[p] \in Direction
    BY LenProperties DEF RoomInv, RoomTypeOK, Sound
<1>3. segs[p][1] \in Cells /\ segs[p][2] \in Cells
    <2>1. 1 \in 1..Len(segs[p]) /\ 2 \in 1..Len(segs[p])
        BY <1>2
    <2> QED
        BY <1>2, <2>1, Covers
<1>4. b.dir[p] \in Direction /\ ~IsOpposite(dir[p], b.dir[p]) /\ head = Step(segs[p][1], b.dir[p])
    BY <1>1 DEF BoardType, Fates, Ahead
<1>5. head # segs[p][2]
    BY <1>2, <1>3, <1>4, NotBack
<1>6. /\ Rules!Beside(head, segs[p][1])
      /\ \E k \in {-1, 1} : head \in {[segs[p][1] EXCEPT !.x = @ + k], [segs[p][1] EXCEPT !.y = @ + k]}
    BY <1>3, <1>4, StepBeside
<1>7. /\ \A q \in Players : b.alive[q] <=> b.segs[q] # <<>>
      /\ b.alive[p] => b.segs[p][1] = head
      /\ Heads(b, Players) \subseteq CoveredBy(b.segs)
    BY Outcome
<1> HIDE DEF head
<1>8. CASE Lives(b, p, fs)
    <2>1. /\ b.alive[p] /\ head \in Cells /\ head \notin CoveredBy(segs) \ Vacated
          /\ b.segs[p] = <<head>> \o (IF head \in fs THEN segs[p] ELSE Front(segs[p]))
          /\ b.score[p] = IF head \in fs THEN score[p] + 1 ELSE score[p]
        BY <1>8 DEF Lives, Crawl, head
    <2>2. b.segs[p] # <<>> /\ b.segs[p][1] = head
        BY <1>7, <2>1
    <2>3. Front(segs[p]) = SubSeq(segs[p], 1, Len(segs[p]) - 1)
        BY DEF Front
    <2>4. head \notin (Rules!Taken \ Rules!Tails) \cup {segs[p][2]} /\ head \in Rules!Board
        BY <1>5, <2>1, RulesTaken, RulesLiving
    <2>5. Rules!Crawls(p, fs)
        BY <1>6, <2>1, <2>2, <2>3, <2>4 DEF Rules!Crawls
    <2> QED
        BY <2>5
<1>9. CASE Falls(b, Players, p)
    <2>1. /\ b.segs[p] = <<>> /\ b.score[p] = score[p]
          /\ head \in Cells => head \in CoveredBy(segs) \cup Heads(b, Players)
        BY <1>9 DEF Falls, head
    <2>2. head \in Rules!Board => head \in Rules!Taken \cup Rules!TakenNext
        BY <1>7, <2>1, RulesTaken
    <2>3. Rules!Dies(p)
        BY <1>5, <1>6, <2>1, <2>2 DEF Rules!Dies
    <2> QED
        BY <2>3
<1> QED
    BY <1>1, <1>8, <1>9 DEF Fates

LEMMA TickRound ==
    ASSUME RoomAssumption, RoomInv, Tick
    PROVE  RoomInv' /\ Rules!Round
<1>1. PICK fs \in EnsureFood(foods, segs) :
        /\ foods' \in EnsureFood(MovePlayers(fs).foods, MovePlayers(fs).segs)
        /\ segs' = MovePlayers(fs).segs /\ alive' = MovePlayers(fs).alive
        /\ score' = MovePlayers(fs).score /\ dir' = MovePlayers(fs).dir
        /\ status' = IF Cardinality({p \in Players : MovePlayers(fs).alive[p]}) <= 1 THEN "Waiting" ELSE status
    BY DEF Tick
<1> DEFINE b == MovePlayers(fs)
<1>2. /\ status = "Playing" /\ ticks < MaxTicks /\ ticks' = ticks + 1
      /\ order' = order /\ pending' = pending
    BY DEF Tick
<1>3. RoomTypeOK /\ Visits /\ Meal(foods) /\ \A p \in Players : Sound(p)
    BY DEF RoomInv
<1>4. /\ Meal(fs)
      /\ fs = foods \/ (foods = {} /\ \E c \in Cells \ CoveredBy(segs) : fs = {c})
    BY <1>3, SpreadMeal DEF Meal
<1>5. Underway(b, Players, fs)
    BY <1>4, AllMoves
<1> HIDE DEF b
<1>6. /\ foods' \in EnsureFood(b.foods, b.segs)
      /\ segs' = b.segs /\ alive' = b.alive /\ score' = b.score /\ dir' = b.dir
      /\ status' = IF Cardinality({p \in Players : b.alive[p]}) <= 1 THEN "Waiting" ELSE status
    BY <1>1 DEF b
<1>7. BoardType(b) /\ Fates(b, Players, fs) /\ OneEats(b, Players)
    BY <1>5 DEF Underway
<1>8. /\ \A p \in Players : b.alive[p] <=> b.segs[p] # <<>>
      /\ \A p \in Players : b.alive[p] =>
           /\ Len(b.segs[p]) >= 3
           /\ b.segs[p][1] = Ahead(b, p) /\ b.segs[p][2] = segs[p][1]
      /\ b.foods = fs \ CoveredBy(b.segs)
    BY <1>4, <1>5, Outcome
<1>9. /\ foods' \subseteq Cells /\ foods' \cap CoveredBy(segs') = {}
      /\ \A c, d \in foods' : c = d
      /\ fs \cap foods' = fs \ CoveredBy(segs')
    <2>1. b.foods \subseteq Cells /\ \A c, d \in b.foods : c = d
        BY <1>4, <1>8 DEF Meal
    <2>2. /\ foods' \subseteq Cells /\ \A c, d \in foods' : c = d
          /\ foods' = b.foods \/ (b.foods = {} /\ \E c \in Cells \ CoveredBy(b.segs) : foods' = {c})
        BY <1>6, <2>1, SpreadMeal
    <2> QED
        BY <1>6, <1>8, <2>2
<1>10. RoomInv'
    <2>1. IsFiniteSet(foods') /\ Cardinality(foods') <= 1
        BY <1>9, AtMostOne
    <2>2. ticks' \in 0..MaxTicks
        BY <1>2, <1>3 DEF RoomTypeOK, RoomAssumption
    <2>3. RoomTypeOK'
        BY <1>2, <1>3, <1>6, <1>7, <1>9, <2>1, <2>2 DEF RoomTypeOK, BoardType
    <2>4. Visits'
        BY <1>2, <1>3 DEF Visits
    <2>5. Meal(foods)'
        BY <1>9 DEF Meal, CoveredBy
    <2>6. ASSUME NEW p \in Players PROVE Sound(p)'
        <3>1. b.alive[p] => b.segs[p][1] = Step(b.segs[p][2], b.dir[p])
            BY <1>8 DEF Ahead
        <3> QED
            BY <1>6, <1>8, <3>1 DEF Sound
    <2> QED
        BY <2>3, <2>4, <2>5, <2>6 DEF RoomInv
<1>11. ASSUME NEW p \in Rules!Living PROVE Rules!Crawls(p, fs) \/ Rules!Dies(p)
    BY <1>4, <1>5, <1>6, <1>11, RulesLiving, TurnByTheRules
<1>12. ASSUME NEW p \in Players \ Rules!Living PROVE segs'[p] = <<>> /\ score'[p] = score[p]
    <2>1. p \in Players /\ ~alive[p]
        BY <1>12, RulesLiving
    <2> QED
        BY <1>3, <1>6, <1>7, <2>1 DEF Fates, Unmoved, Sound
<1>13. fs \in {foods} \cup {{c} : c \in IF foods = {} THEN Rules!Board \ Rules!Taken ELSE {}}
    BY <1>4, RulesTaken
<1>14. Rules!Cardinality({p \in Players : score'[p] > score[p]}) <= Rules!Cardinality(fs)
    <2> DEFINE eaters == {p \in Players : score'[p] > score[p]}
    <2>1. \A p, q \in eaters : p = q
        BY <1>6, <1>7 DEF OneEats
    <2>2. ASSUME NEW p \in eaters PROVE fs # {}
        <3>1. p \in Players /\ b.score[p] > score[p] /\ score[p] \in Nat
            BY <1>3, <1>6 DEF RoomTypeOK
        <3> QED
            BY <1>7, <3>1 DEF Fates, Unmoved, Lives, Falls
    <2> HIDE DEF eaters
    <2>3. Cardinality(eaters) <= Cardinality(fs)
        <3>1. Cardinality(eaters) <= 1 /\ (fs # {} => Cardinality(fs) = 1)
            BY <1>4, <2>1, AtMostOne DEF Meal
        <3>2. CASE fs = {}
            <4>1. eaters = fs
                BY <2>2, <3>2
            <4>2. Cardinality(fs) = 0
                BY <3>2, FS_EmptySet
            <4> QED
                BY <4>1, <4>2
        <3> QED
            BY <3>1, <3>2
    <2> QED
        BY <2>3, SameCount DEF eaters
<1>15. fs \cap foods' = fs \ Rules!TakenNext
    BY <1>9, RulesTaken
<1>16. Rules!Scattered(Rules!TakenNext, foods')
    BY <1>9, AtMostOne, SameCount, RulesTaken DEF Rules!Scattered
<1>17. (status' = "Waiting") = (Rules!Cardinality({p \in Players : segs'[p] # <<>>}) <= 1)
    <2>1. {p \in Players : segs'[p] # <<>>} = {p \in Players : b.alive[p]}
        BY <1>6, <1>8
    <2>2. Rules!Cardinality({p \in Players : segs'[p] # <<>>}) = Cardinality({p \in Players : b.alive[p]})
        BY <2>1, SameCount
    <2>3. (status' = "Waiting") <=> (Cardinality({p \in Players : b.alive[p]}) <= 1)
        BY <1>2, <1>6
    <2> QED
        BY <2>2, <2>3
<1>18. status # "Waiting"
    BY <1>2
<1>19. Rules!Round
    BY <1>11, <1>12, <1>13, <1>14, <1>15, <1>16, <1>17, <1>18 DEF Rules!Round
<1> QED
    BY <1>10, <1>19

-----------------------------------------------------------------------------
(* The first state                                                         *)

LEMMA PermutationProperties ==
    ASSUME NEW S, IsFiniteSet(S), NEW f \in SetToSeqs(S)
    PROVE  /\ f \in Seq(S) /\ Len(f) = Cardinality(S) /\ DOMAIN f = 1..Cardinality(S)
           /\ \A i, j \in 1..Len(f) : f[i] = f[j] => i = j
           /\ \A x \in S : \E i \in 1..Len(f) : f[i] = x
<1> DEFINE n == Cardinality(S)
<1>1. n \in Nat
    BY FS_CardinalityType
<1>2. f \in [1..n -> S] /\ \A i, j \in 1..n : i # j => f[i] # f[j]
    BY DEF SetToSeqs
<1> HIDE DEF n
<1>3. f \in Seq(S) /\ Len(f) = n /\ DOMAIN f = 1..n
    BY <1>1, <1>2
<1>4. Cardinality(1..n) = n
    <2>1. Cardinality(1..n) = IF 1 > n THEN 0 ELSE n - 1 + 1
        BY <1>1, FS_Interval
    <2> QED
        BY <1>1, <2>1
<1>5. f \in Injection(1..n, S)
    BY <1>2 DEF Injection, IsInjective
<1>6. f \in Surjection(1..n, S)
    BY <1>4, <1>5, FS_Injection DEF n
<1>7. \A x \in S : \E i \in 1..n : f[i] = x
    BY <1>6 DEF Surjection
<1> QED
    BY <1>2, <1>3, <1>7 DEF n

LEMMA NewSnake ==
    ASSUME RoomAssumption, NEW pos \in SpawnSites
    PROVE  LET s == NewSegments(pos)
           IN  /\ s \in Seq(Cells) /\ Len(s) = 3
               /\ s[1] = Step(s[2], "Right")
               /\ Rules!Beside(s[1], s[2]) /\ Rules!Beside(s[2], s[3])
<1> DEFINE left == Step(pos, "Left")
           far == Step(left, "Left")
<1>1. /\ Width \in Nat /\ Height \in Nat
      /\ pos \in [x : 2..Width - 3, y : 2..Height - 3]
    BY DEF RoomAssumption
<1>2. /\ pos.x \in 2..Width - 3 /\ pos.y \in 2..Height - 3 /\ pos = [x |-> pos.x, y |-> pos.y]
    BY <1>1
<1>3. left = [x |-> pos.x - 1, y |-> pos.y] /\ far = [x |-> pos.x - 2, y |-> pos.y]
    BY <1>1, <1>2 DEF Step, DX, DY
<1>4. pos \in Cells /\ left \in Cells /\ far \in Cells
    BY <1>1, <1>2, <1>3 DEF Cells
<1>5. pos = Step(left, "Right")
    BY <1>2, <1>3 DEF Step, DX, DY
<1>6. Rules!Beside(pos, left) /\ Rules!Beside(left, far)
    BY <1>1, <1>2, <1>3 DEF Rules!Beside
<1> HIDE DEF left, far
<1>7. NewSegments(pos) = <<pos, left, far>>
    BY DEF NewSegments, left, far
<1> DEFINE s == NewSegments(pos)
<1>8. s = <<pos, left, far>>
    BY <1>7
<1> HIDE DEF s
<1>9. s \in Seq(Cells) /\ Len(s) = 3 /\ s[1] = pos /\ s[2] = left /\ s[3] = far
    BY <1>4, <1>8
<1>10. /\ s \in Seq(Cells) /\ Len(s) = 3 /\ s[1] = Step(s[2], "Right")
       /\ Rules!Beside(s[1], s[2]) /\ Rules!Beside(s[2], s[3])
    BY <1>5, <1>6, <1>9
<1> QED
    BY <1>10 DEF s

\* Where the players are put.
LEMMA Placed ==
    ASSUME RoomAssumption, RoomInit
    PROVE  \E heads \in [Players -> SpawnSites] :
              /\ segs = [p \in Players |-> NewSegments(heads[p])]
              /\ NeverCrowded => \A p, q \in Players : p # q => ~Collides(heads[p], heads[q])
<1>0. PICK list \in SetToSeqs(Players) : \E heads \in Spawns(list) :
          segs = [p \in Players |-> NewSegments(heads[CHOOSE i \in DOMAIN list : list[i] = p])]
    BY DEF RoomInit
<1>1. PICK heads \in Spawns(list) :
          segs = [p \in Players |-> NewSegments(heads[CHOOSE i \in DOMAIN list : list[i] = p])]
    BY <1>0
<1> DEFINE n == Cardinality(Players)
           index == [p \in Players |-> CHOOSE i \in DOMAIN list : list[i] = p]
           placed == [p \in Players |-> heads[index[p]]]
<1>2. /\ IsFiniteSet(Players) /\ Len(list) = n /\ DOMAIN list = 1..n /\ n \in Nat
      /\ \A p \in Players : \E i \in 1..n : list[i] = p
    BY PermutationProperties, FS_CardinalityType DEF RoomAssumption
<1>3. \A p \in Players : index[p] \in 1..n /\ list[index[p]] = p
    BY <1>2
<1>4. /\ heads \in [1..n -> SpawnSites]
      /\ \A i \in 1..n : heads[i] \in FindSpawnPosition({heads[j] : j \in 1..i - 1})
    BY <1>2 DEF Spawns
<1>5. placed \in [Players -> SpawnSites]
    BY <1>3, <1>4
<1>6. segs = [p \in Players |-> NewSegments(placed[p])]
    BY <1>1
<1> HIDE DEF n, index
<1>7. ASSUME NeverCrowded, NEW i \in 1..n, NEW j \in 1..n, j < i PROVE ~Collides(heads[i], heads[j])
    <2> DEFINE others == {heads[k] : k \in 1..i - 1}
    <2>1. i \in Nat /\ i - 1 \in Nat /\ 1..i - 1 \subseteq 1..n /\ j \in 1..i - 1
        BY <1>2, <1>7
    <2>2. others \in SUBSET SpawnSites /\ heads[j] \in others
        BY <1>4, <2>1
    <2>3. Cardinality(others) < n
        <3> DEFINE f == [k \in 1..i - 1 |-> heads[k]]
        <3>1. IsFiniteSet(1..i - 1) /\ Cardinality(1..i - 1) = i - 1
            BY <2>1, FS_Interval
        <3>2. f \in Surjection(1..i - 1, others)
            BY DEF Surjection
        <3> HIDE DEF others, f
        <3>3. IsFiniteSet(others) /\ Cardinality(others) <= i - 1
            BY <3>1, <3>2, FS_Surjection
        <3>4. Cardinality(others) \in Nat
            BY <3>3, FS_CardinalityType
        <3> QED
            BY <1>2, <2>1, <3>3, <3>4
    <2>4. \E pos \in SpawnSites : \A other \in others : ~Collides(pos, other)
        BY <1>7, <2>2, <2>3 DEF NeverCrowded, n
    <2>5. heads[i] \in FindSpawnPosition(others)
        BY <1>4
    <2> HIDE DEF others
    <2> QED
        BY <2>2, <2>4, <2>5 DEF FindSpawnPosition
<1>8. ASSUME NEW x \in SpawnSites, NEW y \in SpawnSites, ~Collides(x, y) PROVE ~Collides(y, x)
    BY <1>8 DEF Collides
<1>9. ASSUME NeverCrowded, NEW p \in Players, NEW q \in Players, p # q
      PROVE  ~Collides(placed[p], placed[q])
    <2>1. index[p] \in 1..n /\ index[q] \in 1..n /\ index[p] # index[q]
        BY <1>3, <1>9
    <2>2. index[p] < index[q] \/ index[q] < index[p]
        BY <1>2, <2>1
    <2>3. heads[index[p]] \in SpawnSites /\ heads[index[q]] \in SpawnSites
        BY <1>4, <2>1
    <2> QED
        BY <1>7, <1>8, <1>9, <2>1, <2>2, <2>3
<1> QED
    BY <1>5, <1>6, <1>9

LEMMA InitInv ==
    ASSUME RoomAssumption, RoomInit
    PROVE  RoomInv /\ (NeverCrowded => Rules!Init)
<1>1. PICK heads \in [Players -> SpawnSites] :
          /\ segs = [p \in Players |-> NewSegments(heads[p])]
          /\ NeverCrowded => \A p, q \in Players : p # q => ~Collides(heads[p], heads[q])
    BY Placed
<1>2. /\ status = "Playing" /\ order \in SetToSeqs(Players)
      /\ dir = [p \in Players |-> "Right"] /\ pending = dir
      /\ alive = [p \in Players |-> TRUE] /\ score = [p \in Players |-> 0]
      /\ foods \in EnsureFood({}, segs) /\ ticks = 0
    BY DEF RoomInit
<1>3. \A p \in Players :
        /\ segs[p] = NewSegments(heads[p])
        /\ segs[p] \in Seq(Cells) /\ Len(segs[p]) = 3
        /\ segs[p][1] = Step(segs[p][2], "Right")
        /\ Rules!Beside(segs[p][1], segs[p][2]) /\ Rules!Beside(segs[p][2], segs[p][3])
    BY <1>1, NewSnake
<1>4. segs \in [Players -> Seq(Cells)]
    BY <1>1, <1>3
<1>5. /\ foods \subseteq Cells /\ \A c, d \in foods : c = d
      /\ foods \cap CoveredBy(segs) = {}
    BY <1>2, SpreadMeal
<1>6. IsFiniteSet(foods) /\ Cardinality(foods) <= 1
    BY <1>5, AtMostOne
<1>7. RoomInv
    <2>1. order \in Seq(Players) /\ Visits
        BY <1>2, PermutationProperties DEF Visits, RoomAssumption
    <2>2. RoomTypeOK
        BY <1>2, <1>4, <1>5, <1>6, <2>1 DEF RoomTypeOK, RoomAssumption, Direction
    <2>3. ASSUME NEW p \in Players PROVE Sound(p)
        <3>1. alive[p] /\ dir[p] = "Right" /\ segs[p] # <<>>
            BY <1>2, <1>3
        <3> QED
            BY <1>3, <3>1 DEF Sound
    <2> QED
        BY <1>5, <2>1, <2>2, <2>3 DEF RoomInv, Meal
<1>8. ASSUME NeverCrowded PROVE Rules!Init
    <2>1. ASSUME NEW p \in Players, NEW i \in 1..2 PROVE Rules!Beside(segs[p][i], segs[p][i + 1])
        <3>1. i = 1 \/ i = 2
            OBVIOUS
        <3> QED
            BY <1>3, <3>1
    <2>2. ASSUME NEW p \in Players, NEW q \in Players, p # q
          PROVE  Rules!CellsOf(segs[p]) \cap Rules!CellsOf(segs[q]) = {}
        <3>1. ToSet(NewSegments(heads[p])) \cap ToSet(NewSegments(heads[q])) = {}
            BY <1>1, <1>8, <2>2 DEF Collides
        <3>2. segs[p] = NewSegments(heads[p]) /\ segs[q] = NewSegments(heads[q])
            BY <1>3
        <3>3. ToSet(segs[p]) \cap ToSet(segs[q]) = {}
            BY <3>1, <3>2
        <3> QED
            BY <3>3 DEF Rules!CellsOf, ToSet
    <2>3. Rules!Scattered(Rules!Taken, foods)
        BY <1>5, <1>6, SameCount, RulesTaken DEF Rules!Scattered
    <2>4. segs \in [Players -> Seq(Rules!Board)]
        BY <1>4, RulesTaken
    <2>5. status # "Waiting" /\ \A p \in Players : Len(segs[p]) = 3
        BY <1>2, <1>3
    <2> QED
        BY <1>2, <2>1, <2>2, <2>3, <2>4, <2>5 DEF Rules!Init
<1> QED
    BY <1>7, <1>8

-----------------------------------------------------------------------------
(* The theorems                                                            *)

LEMMA HandlePlayerMoveInv ==
    ASSUME RoomInv, NEW p \in Players, NEW d \in Direction, HandlePlayerMove(p, d)
    PROVE  RoomInv' /\ UNCHANGED Rules!vars
<1>1. /\ UNCHANGED <<status, order, dir, alive, score, segs, foods, ticks>>
      /\ pending' = [pending EXCEPT ![p] = d]
    BY DEF HandlePlayerMove
<1>2. RoomTypeOK /\ Visits /\ Meal(foods) /\ \A q \in Players : Sound(q)
    BY DEF RoomInv
<1>3. RoomTypeOK'
    BY <1>1, <1>2 DEF RoomTypeOK
<1>4. Visits' /\ Meal(foods)' /\ \A q \in Players : Sound(q)'
    BY <1>1, <1>2 DEF Visits, Meal, CoveredBy, Sound
<1>5. UNCHANGED Rules!vars
    BY <1>1 DEF Rules!vars
<1> QED
    BY <1>3, <1>4, <1>5 DEF RoomInv

LEMMA StutterInv ==
    ASSUME RoomInv, UNCHANGED roomVars
    PROVE  RoomInv' /\ UNCHANGED Rules!vars
<1>1. UNCHANGED <<status, order, dir, pending, alive, score, segs, foods, ticks>>
    BY DEF roomVars
<1>2. RoomTypeOK /\ Visits /\ Meal(foods) /\ \A q \in Players : Sound(q)
    BY DEF RoomInv
<1>3. RoomTypeOK'
    BY <1>1, <1>2 DEF RoomTypeOK
<1>4. Visits' /\ Meal(foods)' /\ \A q \in Players : Sound(q)'
    BY <1>1, <1>2 DEF Visits, Meal, CoveredBy, Sound
<1>5. UNCHANGED Rules!vars
    BY <1>1 DEF Rules!vars
<1> QED
    BY <1>3, <1>4, <1>5 DEF RoomInv

LEMMA StepInv ==
    ASSUME RoomAssumption, RoomInv, [RoomNext]_roomVars
    PROVE  RoomInv' /\ [Rules!Round]_(Rules!vars)
<1>1. CASE \E p \in Players, d \in Direction : HandlePlayerMove(p, d)
    BY <1>1, HandlePlayerMoveInv
<1>2. CASE Tick
    BY <1>2, TickRound
<1>3. CASE UNCHANGED roomVars
    BY <1>3, StutterInv
<1> QED
    BY <1>1, <1>2, <1>3 DEF RoomNext

\* The fields of the room of service/room keep their types.
THEOREM RoomTypeCorrect == RoomSpec => []RoomTypeOK
<1>1. RoomInit => RoomInv
    BY InitInv, RoomAssumption
<1>2. RoomInv /\ [RoomNext]_roomVars => RoomInv'
    BY StepInv, RoomAssumption
<1>3. RoomInv => RoomTypeOK
    BY DEF RoomInv
<1> QED
    BY <1>1, <1>2, <1>3, PTL DEF RoomSpec

\* Whatever the order of pairs(), the keys and the food: each tick of game_loop
\* is a round of the rules, and a player's key changes nothing that is shown.
\* This holds on a crowded board too.
THEOREM RoundsByTheRules == RoomSpec => [][Rules!Round]_(Rules!vars)
<1>1. RoomInit => RoomInv
    BY InitInv, RoomAssumption
<1>2. RoomInv /\ [RoomNext]_roomVars => RoomInv' /\ [Rules!Round]_(Rules!vars)
    BY StepInv, RoomAssumption
<1> QED
    BY <1>1, <1>2, PTL DEF RoomSpec

\* Where room_find_spawn_position never has to give up, the snakes are born
\* apart, and what the room broadcasts is a game of SnakeRules from the start.
THEOREM RoomImplementsRules == NeverCrowded => (RoomSpec => ImplementsRules)
<1> SUFFICES ASSUME NeverCrowded PROVE RoomSpec => ImplementsRules
    OBVIOUS
<1>1. RoomInit => RoomInv /\ Rules!Init
    BY InitInv, RoomAssumption
<1>2. RoomInv /\ [RoomNext]_roomVars => RoomInv' /\ [Rules!Round]_(Rules!vars)
    BY StepInv, RoomAssumption
<1> QED
    BY <1>1, <1>2, PTL DEF RoomSpec, ImplementsRules, Rules!Spec

(***************************************************************************)
(* The client                                                              *)
(***************************************************************************)

\* The two pieces of a package, and what the client has not used of a connection.
Two(pkg) == <<[pkg |-> pkg, part |-> "head"], [pkg |-> pkg, part |-> "body"]>>
Line(c) == buffer[c] \o stream[c]

\* A push of the state s is the k-th package of the line L.
PushAt(L, k, s) ==
    /\ L[2 * k - 1] = [pkg |-> Push(s), part |-> "head"]
    /\ L[2 * k] = [pkg |-> Push(s), part |-> "body"]

\* The line L carries the states of a game that lead from v, which the client
\* has seen last, to g: package by package, each a successor of the one before.
Carries(L, v, g) ==
    \E m \in Nat : \E h \in [0..m -> States] :
        /\ Len(L) = 2 * m /\ h[0] = v /\ h[m] = g
        /\ \A k \in 1..m : PushAt(L, k, h[k]) /\ h[k] \in NextStates(h[k - 1])

\* Where the main task is, and what it has done for the connection in use.
Phases ==
    /\ cur = made
    /\ at # "connect" => cur # NoConn
    /\ at \in {"reconnect", "regreet", "reawait"} => mode = "player"
    /\ at \in {"greet", "regreet"} => stage[cur] = "new"
    /\ at \in {"await", "reawait"} => stage[cur] # "acked"
    /\ at \in {"greet", "regreet", "await", "reawait"} => listen[cur] = "none"
    /\ at \in {"play", "stop"} => listen[cur] # "none"

\* A connection that has not been made.
Unmade(c) ==
    c > made => listen[c] = "none" /\ ~cancelled[c] /\ stage[c] = "new"

\* A task has ended, or has been told to.
Ending(c) ==
    \/ listen[c] = "ended" \/ input[c] = "ended"
    \/ cancelled[c]
    \/ listen[c] # "none" /\ ~running[c]

\* The tasks of a connection start together, and only its loss stops them.
StopsWhenLost(c) ==
    /\ listen[c] = "none" <=> input[c] = "none"
    /\ Ending(c) => MayFail(c)

\* OneConnection for c, also before the next connection is made.
Settled(c) ==
    c # cur \/ at \in {"connect", "reconnect"} =>
        /\ listen[c] \in {"read", "process"} \/ input[c] = "on" => socket[c] = "closed"
        /\ mode = "ai" /\ socket[c] = "open" => ~up[c]

\* The line of a connection whose server has waited for the acknowledgement.
Told(c) ==
    c \notin early =>
        /\ stage[c] = "acked" => Carries(Line(c), view[c], game[c])
        /\ stage[c] # "acked" => Line(c) \in {<<>>, Two(Response)} /\ view[c] = game[c]
        /\ stage[c] \in {"new", "asked"} => Line(c) = <<>>
        /\ started[c] <=> AliveCount(view[c]) > 1

\* The listener reads when it has used what there is.
ReadsWhenDone(c) == listen[c] = "read" => ~Decodes(buffer[c])

IInv ==
    /\ TypeOK /\ Phases
    /\ \A c \in Conns : Unmade(c) /\ StopsWhenLost(c) /\ Settled(c) /\ Told(c) /\ ReadsWhenDone(c)

-----------------------------------------------------------------------------
(* Lines                                                                   *)

\* n elements are taken from the front of a sequence.
LEMMA Cut ==
    ASSUME NEW S, NEW s \in Seq(S), NEW n \in 1..Len(s)
    PROVE  /\ SubSeq(s, 1, n) \in Seq(S) /\ Len(SubSeq(s, 1, n)) = n
           /\ SubSeq(s, n + 1, Len(s)) \in Seq(S) /\ Len(SubSeq(s, n + 1, Len(s))) = Len(s) - n
           /\ \A i \in 1..n : SubSeq(s, 1, n)[i] = s[i]
           /\ \A i \in 1..(Len(s) - n) : SubSeq(s, n + 1, Len(s))[i] = s[i + n]
           /\ SubSeq(s, 1, n) \o SubSeq(s, n + 1, Len(s)) = s
<1> DEFINE a == SubSeq(s, 1, n)
           l == Len(s)
           b == SubSeq(s, n + 1, l)
<1>1. l \in Nat /\ n \in Nat /\ 1 <= n /\ n <= l /\ \A i \in 1..l : s[i] \in S
    BY LenProperties, ElementOfSeq
<1>2. /\ (IF 1 <= n THEN n - 1 + 1 ELSE 0) = n
      /\ (IF n + 1 <= l THEN l - (n + 1) + 1 ELSE 0) = l - n
      /\ \A i \in 1..n : i \in 1..(n - 1 + 1) /\ 1 + i - 1 = i
      /\ \A i \in 1..(l - n) : i \in 1..(l - (n + 1) + 1) /\ (n + 1) + i - 1 = i + n
    <2> HIDE DEF l
    <2> QED
        BY <1>1
<1>3. /\ a \in Seq(S) /\ Len(a) = IF 1 <= n THEN n - 1 + 1 ELSE 0
      /\ \A i \in 1..(n - 1 + 1) : a[i] = s[1 + i - 1]
    BY <1>1, SubSeqProperties
<1>4. /\ b \in Seq(S) /\ Len(b) = IF n + 1 <= l THEN l - (n + 1) + 1 ELSE 0
      /\ \A i \in 1..(l - (n + 1) + 1) : b[i] = s[(n + 1) + i - 1]
    BY <1>1, SubSeqProperties
<1> HIDE DEF a, b
<1>5. Len(a) = n /\ \A i \in 1..n : a[i] = s[i]
    BY <1>2, <1>3
<1>6. Len(b) = l - n /\ \A i \in 1..(l - n) : b[i] = s[i + n]
    BY <1>2, <1>4
<1>7. a \o b = s
    <2>1. /\ a \o b \in Seq(S) /\ Len(a \o b) = Len(a) + Len(b)
          /\ \A i \in 1..(Len(a) + Len(b)) : (a \o b)[i] = IF i <= Len(a) THEN a[i] ELSE b[i - Len(a)]
        BY <1>3, <1>4, ConcatProperties
    <2> DEFINE u == a \o b
    <2> HIDE DEF u, l
    <2>2. Len(u) = l
        BY <1>1, <1>5, <1>6, <2>1 DEF u
    <2>3. ASSUME NEW i \in 1..l PROVE u[i] = s[i]
        <3>1. u[i] = IF i <= n THEN a[i] ELSE b[i - n]
            BY <1>1, <1>5, <1>6, <2>1 DEF u
        <3>2. CASE i <= n
            BY <1>1, <1>5, <3>1, <3>2
        <3>3. CASE ~(i <= n)
            <4>1. i - n \in 1..(l - n) /\ (i - n) + n = i
                BY <1>1, <3>3
            <4> QED
                BY <1>6, <3>1, <3>3, <4>1
        <3> QED
            BY <3>2, <3>3
    <2> QED
        BY <2>1, <2>2, <2>3, SeqEqual DEF u, l
<1> QED
    BY <1>3, <1>4, <1>5, <1>6, <1>7 DEF a, b

\* What moves from the stream to the buffer leaves the line as it is.
LEMMA Moved ==
    ASSUME NEW S, NEW b \in Seq(S), NEW s \in Seq(S), NEW n \in 1..Len(s)
    PROVE  /\ b \o SubSeq(s, 1, n) \in Seq(S) /\ SubSeq(s, n + 1, Len(s)) \in Seq(S)
           /\ (b \o SubSeq(s, 1, n)) \o SubSeq(s, n + 1, Len(s)) = b \o s
<1>1. ASSUME NEW x \in Seq(S), NEW y \in Seq(S), x \o y = s
      PROVE  b \o x \in Seq(S) /\ (b \o x) \o y = b \o s
    <2>1. (b \o x) \o y = b \o (x \o y)
        BY ConcatAssociative, SMTT(40)
    <2> QED
        BY <1>1, <2>1, ConcatProperties
<1> DEFINE u == SubSeq(s, 1, n)
           v == SubSeq(s, n + 1, Len(s))
<1>2. u \in Seq(S) /\ v \in Seq(S) /\ u \o v = s
    BY Cut
<1> HIDE DEF u, v
<1>3. b \o u \in Seq(S) /\ (b \o u) \o v = b \o s
    BY <1>1, <1>2, Zenon
<1> QED
    BY <1>2, <1>3 DEF u, v

\* A line begins with the buffer, if there is anything in it.
LEMMA BufferFirst ==
    ASSUME NEW S, NEW b \in Seq(S), NEW s \in Seq(S)
    PROVE  /\ b \o s \in Seq(S) /\ Len(b \o s) = Len(b) + Len(s) /\ Len(b) \in Nat /\ Len(s) \in Nat
           /\ \A i \in 1..Len(b) : (b \o s)[i] = b[i]
           /\ b = <<>> => b \o s = s
           /\ s = <<>> => b \o s = b
BY ConcatProperties, ConcatEmptySeq, LenProperties

\* Two pieces are taken from the front of the buffer.
LEMMA Dropped ==
    ASSUME NEW S, NEW b \in Seq(S), NEW s \in Seq(S), Len(b) >= 2
    PROVE  LET L == b \o s
               M == SubSeq(b, 3, Len(b)) \o s
           IN  /\ SubSeq(b, 3, Len(b)) \in Seq(S)
               /\ L \in Seq(S) /\ M \in Seq(S) /\ Len(L) >= 2 /\ Len(M) = Len(L) - 2
               /\ \A i \in 1..Len(M) : M[i] = L[i + 2]
<1> DEFINE d == SubSeq(b, 3, Len(b))
           L == b \o s
           M == d \o s
           lb == Len(b)
           ls == Len(s)
<1>1. lb \in Nat /\ ls \in Nat /\ 2 \in 1..lb
    BY LenProperties
<1>2. d \in Seq(S) /\ Len(d) = lb - 2 /\ \A i \in 1..(lb - 2) : d[i] = b[i + 2]
    <2>1. /\ SubSeq(b, 2 + 1, Len(b)) \in Seq(S) /\ Len(SubSeq(b, 2 + 1, Len(b))) = Len(b) - 2
          /\ \A i \in 1..(Len(b) - 2) : SubSeq(b, 2 + 1, Len(b))[i] = b[i + 2]
        BY <1>1, Cut, ZenonT(40)
    <2>2. 2 + 1 = 3
        OBVIOUS
    <2> QED
        BY <2>1, <2>2
<1>3. /\ L \in Seq(S) /\ Len(L) = lb + ls
      /\ \A i \in 1..(lb + ls) : L[i] = IF i <= lb THEN b[i] ELSE s[i - lb]
    BY ConcatProperties
<1> HIDE DEF d
<1>4. /\ M \in Seq(S) /\ Len(M) = Len(d) + ls
      /\ \A i \in 1..(Len(d) + ls) : M[i] = IF i <= Len(d) THEN d[i] ELSE s[i - Len(d)]
    BY <1>2, ConcatProperties
<1> HIDE DEF L, M, lb, ls
<1>5. Len(L) >= 2 /\ Len(M) = Len(L) - 2
    BY <1>1, <1>2, <1>3, <1>4
<1>6. ASSUME NEW i \in 1..Len(M) PROVE M[i] = L[i + 2]
    <2>1. i \in 1..(lb - 2 + ls) /\ i + 2 \in 1..(lb + ls) /\ (i + 2) - lb = i - (lb - 2)
        BY <1>1, <1>2, <1>3, <1>4
    <2>2. M[i] = IF i <= lb - 2 THEN d[i] ELSE s[i - (lb - 2)]
        BY <1>2, <1>4, <2>1
    <2>3. L[i + 2] = IF i + 2 <= lb THEN b[i + 2] ELSE s[(i + 2) - lb]
        BY <1>3, <2>1
    <2>4. i <= lb - 2 <=> i + 2 <= lb
        BY <1>1, <2>1
    <2>5. CASE i <= lb - 2
        BY <1>1, <1>2, <2>1, <2>2, <2>3, <2>4, <2>5
    <2>6. CASE ~(i <= lb - 2)
        BY <2>1, <2>2, <2>3, <2>4, <2>6
    <2> QED
        BY <2>5, <2>6
<1> QED
    BY <1>2, <1>3, <1>4, <1>5, <1>6 DEF L, M, d, lb

-----------------------------------------------------------------------------
(* The states a line carries                                               *)

LEMMA OthersBound == Others \in Nat /\ MaxConns \in Nat /\ MaxPushes \in Nat
BY ClientAssumption

LEMMA SuccessorStates == ASSUME NEW v \in States PROVE NextStates(v) \subseteq States
<1>1. [me |-> TRUE, others |-> Others] \in States
    BY OthersBound DEF States
<1>2. CASE AliveCount(v) <= 1
    BY <1>1, <1>2 DEF NextStates
<1>3. CASE ~(AliveCount(v) <= 1)
    BY <1>3 DEF NextStates
<1> QED
    BY <1>2, <1>3

LEMMA CarriesNothing ==
    ASSUME NEW v \in States PROVE Carries(<<>>, v, v)
<1> DEFINE h == [k \in 0..0 |-> v]
<1>1. h \in [0..0 -> States] /\ h[0] = v
    OBVIOUS
<1>2. Len(<<>>) = 2 * 0 /\ 0 \in Nat /\ 1..0 = {}
    OBVIOUS
<1> QED
    BY <1>1, <1>2 DEF Carries

LEMMA FirstPush ==
    ASSUME NEW L, NEW s, PushAt(L, 1, s)
    PROVE  L[1].part = "head" /\ L[1].pkg = Push(s)
<1>1. 2 * 1 - 1 = 1
    OBVIOUS
<1>2. L[1] = [pkg |-> Push(s), part |-> "head"]
    BY <1>1, Zenon DEF PushAt
<1> QED
    BY <1>2

LEMMA CarriesFew ==
    ASSUME NEW L, NEW v, NEW g, Carries(L, v, g)
    PROVE  /\ Len(L) \in Nat /\ (Len(L) < 2 => Len(L) = 0 /\ v = g)
           /\ Len(L) # 0 => L[1].part = "head"
<1>0. PICK m \in Nat : \E h \in [0..m -> States] :
        /\ Len(L) = 2 * m /\ h[0] = v /\ h[m] = g
        /\ \A k \in 1..m : PushAt(L, k, h[k]) /\ h[k] \in NextStates(h[k - 1])
    BY DEF Carries
<1>1. PICK h \in [0..m -> States] :
        /\ Len(L) = 2 * m /\ h[0] = v /\ h[m] = g
        /\ \A k \in 1..m : PushAt(L, k, h[k]) /\ h[k] \in NextStates(h[k - 1])
    BY <1>0
<1>2. Len(L) \in Nat /\ (Len(L) < 2 => m = 0)
    BY <1>1
<1>3. ASSUME m # 0 PROVE L[1].part = "head"
    <2>1. 1 \in 1..m
        BY <1>3
    <2>2. PushAt(L, 1, h[1])
        BY <1>1, <2>1
    <2> QED
        BY <2>2, FirstPush
<1> QED
    BY <1>1, <1>2, <1>3

\* A state is pushed.
LEMMA CarriesOneMore ==
    ASSUME NEW L \in Seq(Pieces), NEW v, NEW g, Carries(L, v, g), NEW s \in States, s \in NextStates(g)
    PROVE  Carries(L \o Two(Push(s)), v, s)
<1>0. PICK m \in Nat : \E h \in [0..m -> States] :
        /\ Len(L) = 2 * m /\ h[0] = v /\ h[m] = g
        /\ \A k \in 1..m : PushAt(L, k, h[k]) /\ h[k] \in NextStates(h[k - 1])
    BY DEF Carries
<1>1. PICK h \in [0..m -> States] :
        /\ Len(L) = 2 * m /\ h[0] = v /\ h[m] = g
        /\ \A k \in 1..m : PushAt(L, k, h[k]) /\ h[k] \in NextStates(h[k - 1])
    BY <1>0
<1> DEFINE t == Two(Push(s))
           M == L \o t
           i == [k \in 0..(m + 1) |-> IF k <= m THEN h[k] ELSE s]
<1>2. /\ t \in Seq(Pieces) /\ Len(t) = 2
      /\ t[1] = [pkg |-> Push(s), part |-> "head"] /\ t[2] = [pkg |-> Push(s), part |-> "body"]
    BY DEF Two, Pieces, Packages
<1> HIDE DEF t
<1>3. /\ Len(M) = Len(L) + Len(t)
      /\ \A k \in 1..(Len(L) + Len(t)) : M[k] = IF k <= Len(L) THEN L[k] ELSE t[k - Len(L)]
    BY <1>2, ConcatProperties
<1> HIDE DEF M
<1>4. Len(M) = 2 * (m + 1) /\ \A k \in 1..(2 * m + 2) : M[k] = IF k <= 2 * m THEN L[k] ELSE t[k - 2 * m]
    BY <1>1, <1>2, <1>3
<1>5. /\ i \in [0..(m + 1) -> States] /\ i[0] = v /\ i[m + 1] = s
      /\ \A k \in 0..m : i[k] = h[k]
    BY <1>1
<1> HIDE DEF i
<1>6. ASSUME NEW k \in 1..(m + 1) PROVE PushAt(M, k, i[k]) /\ i[k] \in NextStates(i[k - 1])
    <2>1. CASE k <= m
        <3>1. k \in 1..m /\ k - 1 \in 0..m /\ k \in 0..m /\ 2 * k \in 1..(2 * m) /\ 2 * k - 1 \in 1..(2 * m)
            BY <2>1
        <3>2. M[2 * k] = L[2 * k] /\ M[2 * k - 1] = L[2 * k - 1]
            BY <1>4, <3>1, SMTT(40)
        <3> QED
            BY <1>1, <1>5, <3>1, <3>2 DEF PushAt
    <2>2. CASE k = m + 1
        <3>1. /\ 2 * k = 2 * m + 2 /\ 2 * k - 1 = 2 * m + 1
              /\ (2 * m + 2) - 2 * m = 2 /\ (2 * m + 1) - 2 * m = 1 /\ k - 1 = m
              /\ 2 * m + 2 \in 1..(2 * m + 2) /\ 2 * m + 1 \in 1..(2 * m + 2)
              /\ ~(2 * m + 2 <= 2 * m) /\ ~(2 * m + 1 <= 2 * m) /\ m \in 0..m
            BY <2>2
        <3>2. M[2 * k] = t[2] /\ M[2 * k - 1] = t[1]
            BY <1>4, <3>1
        <3> QED
            BY <1>1, <1>2, <1>5, <2>2, <3>1, <3>2 DEF PushAt
    <2> QED
        BY <2>1, <2>2
<1>7. m + 1 \in Nat
    OBVIOUS
<1>8. Carries(M, v, s)
    BY <1>4, <1>5, <1>6, <1>7, Zenon DEF Carries
<1> QED
    BY <1>8 DEF M, t

\* A push is processed.
LEMMA CarriesOneLess ==
    ASSUME NEW L, NEW M, NEW v, NEW g, Carries(L, v, g),
           Len(L) >= 2, Len(M) = Len(L) - 2, \A k \in 1..Len(M) : M[k] = L[k + 2]
    PROVE  \E s \in States : s \in NextStates(v) /\ L[1].pkg = Push(s) /\ Carries(M, s, g)
<1>0. PICK m \in Nat : \E h \in [0..m -> States] :
        /\ Len(L) = 2 * m /\ h[0] = v /\ h[m] = g
        /\ \A k \in 1..m : PushAt(L, k, h[k]) /\ h[k] \in NextStates(h[k - 1])
    BY DEF Carries
<1>1. PICK h \in [0..m -> States] :
        /\ Len(L) = 2 * m /\ h[0] = v /\ h[m] = g
        /\ \A k \in 1..m : PushAt(L, k, h[k]) /\ h[k] \in NextStates(h[k - 1])
    BY <1>0
<1> DEFINE n == m - 1
           i == [k \in 0..n |-> h[k + 1]]
<1>2. /\ n \in Nat /\ n + 1 = m /\ Len(M) = 2 * n /\ 1 \in 1..m /\ 1 - 1 = 0 /\ 2 * 1 - 1 = 1
      /\ 1 \in 0..m
    BY <1>1
<1> HIDE DEF n
<1>3. i \in [0..n -> States] /\ i[0] = h[1] /\ i[n] = g /\ \A k \in 0..n : i[k] = h[k + 1]
    BY <1>1, <1>2
<1> HIDE DEF i
<1>4. ASSUME NEW k \in 1..n PROVE PushAt(M, k, i[k]) /\ i[k] \in NextStates(i[k - 1])
    <2>0. n \in Nat /\ m = n + 1
        BY <1>2
    <2>1. /\ k + 1 \in 1..m /\ k \in 0..n /\ k - 1 \in 0..n /\ (k - 1) + 1 = k /\ (k + 1) - 1 = k
          /\ 2 * (k + 1) = 2 * k + 2 /\ 2 * (k + 1) - 1 = (2 * k - 1) + 2
          /\ 2 * k \in 1..(2 * n) /\ 2 * k - 1 \in 1..(2 * n)
        BY <2>0
    <2>2. M[2 * k] = L[2 * (k + 1)] /\ M[2 * k - 1] = L[2 * (k + 1) - 1]
        BY <1>2, <2>1
    <2> QED
        BY <1>1, <1>3, <2>1, <2>2, ZenonT(40) DEF PushAt
<1>5. Carries(M, h[1], g)
    BY <1>2, <1>3, <1>4 DEF Carries
<1>6. h[1] \in States /\ h[1] \in NextStates(v) /\ L[1].pkg = Push(h[1])
    <2>1. PushAt(L, 1, h[1]) /\ h[1] \in NextStates(h[0]) /\ h[1] \in States
        <3>1. PushAt(L, 1, h[1]) /\ h[1] \in NextStates(h[1 - 1])
            BY <1>1, <1>2
        <3> QED
            BY <1>2, <3>1
    <2> QED
        BY <1>1, <2>1, FirstPush
<1> QED
    BY <1>5, <1>6

-----------------------------------------------------------------------------
(* What the steps do to lines                                              *)

\* Pieces are read from the stream of c.
LEMMA LineRead ==
    ASSUME TypeOK, NEW c \in Conns, NEW n \in 1..Len(stream[c]), Take(c, n)
    PROVE  LET b == buffer[c] \o SubSeq(stream[c], 1, n)
           IN  /\ stream' \in [Conns -> Seq(Pieces)] /\ b \in Seq(Pieces)
               /\ b \o stream'[c] = Line(c)
               /\ \A d \in Conns \ {c} : stream'[d] = stream[d]
<1>1. /\ buffer[c] \in Seq(Pieces) /\ stream[c] \in Seq(Pieces) /\ stream \in [Conns -> Seq(Pieces)]
    BY DEF TypeOK
<1>2. /\ buffer[c] \o SubSeq(stream[c], 1, n) \in Seq(Pieces)
      /\ SubSeq(stream[c], n + 1, Len(stream[c])) \in Seq(Pieces)
      /\ (buffer[c] \o SubSeq(stream[c], 1, n)) \o SubSeq(stream[c], n + 1, Len(stream[c])) = Line(c)
    BY <1>1, Moved, ZenonT(40) DEF Line
<1>3. stream' = [stream EXCEPT ![c] = SubSeq(stream[c], n + 1, Len(stream[c]))]
    BY DEF Take
<1>4. stream'[c] = SubSeq(stream[c], n + 1, Len(stream[c])) /\ \A d \in Conns \ {c} : stream'[d] = stream[d]
    BY <1>1, <1>3
<1>5. stream' \in [Conns -> Seq(Pieces)]
    BY <1>1, <1>2, <1>3
<1> QED
    BY <1>2, <1>4, <1>5

\* The server writes a package to the stream of c.
LEMMA LineWritten ==
    ASSUME TypeOK, NEW c \in Conns, NEW pkg \in Packages, Write(c, pkg), UNCHANGED buffer
    PROVE  /\ stream' \in [Conns -> Seq(Pieces)] /\ Line(c) \in Seq(Pieces)
           /\ Line(c)' = Line(c) \o Two(pkg)
           /\ \A d \in Conns \ {c} : Line(d)' = Line(d)
<1> DEFINE t == Two(pkg)
<1>1. /\ buffer[c] \in Seq(Pieces) /\ stream[c] \in Seq(Pieces) /\ stream \in [Conns -> Seq(Pieces)]
    BY DEF TypeOK
<1>2. t \in Seq(Pieces) /\ stream' = [stream EXCEPT ![c] = stream[c] \o t]
    BY DEF Two, Pieces, Write
<1> HIDE DEF t
<1>3. ASSUME NEW b \in Seq(Pieces), NEW x \in Seq(Pieces), NEW y \in Seq(Pieces)
      PROVE  b \o x \in Seq(Pieces) /\ b \o (x \o y) = (b \o x) \o y
    BY ConcatProperties, ConcatAssociative
<1>4. stream'[c] = stream[c] \o t /\ \A d \in Conns \ {c} : stream'[d] = stream[d]
    BY <1>1, <1>2
<1>5. stream[c] \o t \in Seq(Pieces)
    BY <1>1, <1>2, <1>3
<1>6. stream' \in [Conns -> Seq(Pieces)]
    BY <1>1, <1>2, <1>5
<1>7. Line(c) \in Seq(Pieces) /\ Line(c)' = Line(c) \o t
    BY <1>1, <1>2, <1>3, <1>4, Zenon DEF Line
<1> QED
    BY <1>4, <1>6, <1>7 DEF Line, t

\* The listener takes a package from its buffer.
LEMMA LineProcessed ==
    ASSUME TypeOK, NEW c \in Conns, ProcessPackage(c)
    PROVE  /\ buffer' \in [Conns -> Seq(Pieces)]
           /\ Len(Line(c)) >= 2 /\ Line(c)[1] = buffer[c][1] /\ buffer[c][1] \in Pieces
           /\ Line(c)' \in Seq(Pieces) /\ Len(Line(c)') = Len(Line(c)) - 2
           /\ \A i \in 1..Len(Line(c)') : (Line(c)')[i] = Line(c)[i + 2]
           /\ \A d \in Conns \ {c} : Line(d)' = Line(d)
<1>1. /\ buffer[c] \in Seq(Pieces) /\ stream[c] \in Seq(Pieces) /\ buffer \in [Conns -> Seq(Pieces)]
    BY DEF TypeOK
<1>2. Len(buffer[c]) >= 2 /\ UNCHANGED stream
      /\ buffer' = [buffer EXCEPT ![c] = SubSeq(buffer[c], 3, Len(buffer[c]))]
    BY DEF ProcessPackage, Decodes
<1>3. /\ buffer'[c] = SubSeq(buffer[c], 3, Len(buffer[c]))
      /\ \A d \in Conns \ {c} : buffer'[d] = buffer[d]
    BY <1>1, <1>2
<1> DEFINE M == SubSeq(buffer[c], 3, Len(buffer[c])) \o stream[c]
<1>4. /\ SubSeq(buffer[c], 3, Len(buffer[c])) \in Seq(Pieces)
      /\ M \in Seq(Pieces) /\ Len(Line(c)) >= 2 /\ Len(M) = Len(Line(c)) - 2
      /\ \A i \in 1..Len(M) : M[i] = Line(c)[i + 2]
    <2>1. ASSUME NEW b \in Seq(Pieces), NEW s \in Seq(Pieces), Len(b) >= 2
          PROVE  /\ SubSeq(b, 3, Len(b)) \in Seq(Pieces)
                 /\ SubSeq(b, 3, Len(b)) \o s \in Seq(Pieces) /\ Len(b \o s) >= 2
                 /\ Len(SubSeq(b, 3, Len(b)) \o s) = Len(b \o s) - 2
                 /\ \A i \in 1..Len(SubSeq(b, 3, Len(b)) \o s) :
                        (SubSeq(b, 3, Len(b)) \o s)[i] = (b \o s)[i + 2]
        BY <2>1, Dropped
    <2> QED
        BY <1>1, <1>2, <2>1, Zenon DEF Line
<1>5. Line(c)' = M
    BY <1>2, <1>3 DEF Line
<1>6. buffer' \in [Conns -> Seq(Pieces)]
    BY <1>1, <1>2, <1>4
<1>7. Line(c)[1] = buffer[c][1] /\ buffer[c][1] \in Pieces
    <2>1. 1 \in 1..Len(buffer[c])
        BY <1>1, <1>2, LenProperties
    <2> QED
        BY <1>1, <2>1, BufferFirst, ElementOfSeq DEF Line
<1>8. \A d \in Conns \ {c} : Line(d)' = Line(d)
    BY <1>2, <1>3 DEF Line
<1> HIDE DEF M
<1> QED
    BY <1>4, <1>5, <1>6, <1>7, <1>8

\* What is left of a buffer that shows no package.
LEMMA Left ==
    ASSUME NEW b \in Seq(Pieces), ~Decodes(b)
    PROVE  LET x == IF b = <<>> THEN b ELSE SubSeq(b, 1, 1)
           IN  /\ x \in Seq(Pieces) /\ ~Decodes(x)
               /\ (b # <<>> => b[1].part = "head") => x = b
<1>1. CASE b = <<>>
    BY <1>1 DEF Decodes
<1>2. CASE b # <<>>
    <2> DEFINE x == SubSeq(b, 1, 1)
    <2>1. 1 \in 1..Len(b) /\ Len(b) \in Nat /\ Len(b) >= 1
        BY <1>2, EmptySeq, LenProperties
    <2>2. x \in Seq(Pieces) /\ Len(x) = 1 /\ \A i \in 1..1 : x[i] = b[i]
        BY <2>1, Cut
    <2> HIDE DEF x
    <2>3. ~Decodes(x)
        BY <2>2 DEF Decodes
    <2>4. ASSUME b[1].part = "head" PROVE x = b
        <3>1. ~(Len(b) >= 2)
            BY <2>4 DEF Decodes
        <3>2. Len(b) = 1
            BY <2>1, <3>1
        <3> QED
            BY <2>2, <3>2, SeqEqual
    <2> QED
        BY <1>2, <2>2, <2>3, <2>4 DEF x
<1> QED
    BY <1>1, <1>2

-----------------------------------------------------------------------------
(* Types                                                                   *)

LEMMA InUse == ASSUME TypeOK, Phases, at # "connect" PROVE cur \in Conns
BY OthersBound DEF TypeOK, Phases, Conns, NoConn

LEMMA PackageTypes ==
    /\ Response \in Packages
    /\ \A s \in States : Push(s) \in Packages /\ Push(s).type = "push" /\ Push(s).state = s
    /\ \A p \in Packages : p.type = "push" => p.state \in States
    /\ Response.type # "push" /\ \A s \in States : Push(s) # Response
<1>1. /\ Response \in Packages
      /\ \A s \in States : Push(s) \in Packages /\ Push(s).type = "push" /\ Push(s).state = s
    BY DEF Packages, Push
<1>2. Response.type # "push"
    BY DEF Response
<1>3. \A s \in States : Push(s) # Response
    BY <1>1, <1>2
<1>4. \A p \in Packages : p = Response \/ \E s \in States : p = Push(s)
    BY DEF Packages
<1> QED
    BY <1>1, <1>2, <1>3, <1>4

LEMMA MainTypes == ASSUME TypeOK, Phases, MainNext \/ DrawFails PROVE TypeOK'
<1> USE OthersBound DEF Conns, Main
<1>1. CASE ConnectAsync
    BY <1>1 DEF ConnectAsync, Open, TypeOK, tasks, tracker
<1>2. CASE ReconnectAsync
    BY <1>2 DEF ReconnectAsync, Open, TypeOK, tasks, tracker
<1>3. CASE SendHandshake
    BY <1>3 DEF SendHandshake, Throw, TypeOK, tasks, tracker
<1>4. CASE AwaitMore
    <2>1. PICK n \in 1..Len(stream[cur]) :
             /\ buffer' = [buffer EXCEPT ![cur] = buffer[cur] \o SubSeq(stream[cur], 1, n)]
             /\ Take(cur, n)
        BY <1>4 DEF AwaitMore
    <2>2. cur \in Conns
        BY <1>4, InUse DEF AwaitMore, Awaiting
    <2>3. stream' \in [Conns -> Seq(Pieces)] /\ buffer[cur] \o SubSeq(stream[cur], 1, n) \in Seq(Pieces)
        BY <2>1, <2>2, LineRead
    <2>4. buffer' \in [Conns -> Seq(Pieces)]
        BY <2>1, <2>2, <2>3 DEF TypeOK
    <2> QED
        BY <1>4, <2>3, <2>4 DEF AwaitMore, TypeOK, main, tasks, tracker, server
<1>5. CASE HandshakeDone
    <2>1. cur \in Conns
        BY <1>5, InUse DEF HandshakeDone, Awaiting
    <2>2. PICK n \in 1..Len(stream[cur]) : Take(cur, n)
        BY <1>5 DEF HandshakeDone
    <2>0. <<>> \in Seq(Pieces)
        OBVIOUS
    <2>3. stream' \in [Conns -> Seq(Pieces)]
        BY <2>1, <2>2, LineRead
    <2>4. /\ listen' \in [Conns -> Task] /\ input' \in [Conns -> Task] /\ at' \in Main
          /\ running' \in [Conns -> BOOLEAN] /\ cancelled' \in [Conns -> BOOLEAN]
        BY <1>5 DEF HandshakeDone, Welcome, StartTasks, Throw, TypeOK, Task, tasks
    <2>5. buffer' \in [Conns -> Seq(Pieces)] /\ stage' \in [Conns -> {"new", "asked", "answered", "acked"}]
        BY <1>5, <2>0, ZenonT(40) DEF HandshakeDone, TypeOK
    <2> QED
        BY <1>5, <2>3, <2>4, <2>5 DEF HandshakeDone, TypeOK, tracker
<1>6. CASE HandshakeEnds
    <2>1. at' \in Main /\ socket' \in [Conns -> {"none", "open", "closed"}]
        <3>1. CASE GiveUp
            <4>1. \E v : socket' = [socket EXCEPT ![cur] = v] /\ (v = "closed" \/ v = socket[cur])
                BY <3>1 DEF GiveUp
            <4> QED
                BY <3>1, <4>1 DEF GiveUp, TypeOK
        <3>2. CASE Throw(cur) /\ UNCHANGED socket
            BY <3>2 DEF Throw, TypeOK
        <3> QED
            BY <1>6, <3>1, <3>2 DEF HandshakeEnds
    <2> QED
        BY <1>6, <2>1 DEF HandshakeEnds, TypeOK, tasks, tracker, server
<1>7. CASE StopPlaying
    BY <1>7 DEF StopPlaying, TypeOK, tracker, server
<1>8. CASE Stopped
    BY <1>8 DEF Stopped, TypeOK, tasks, tracker, server
<1>9. CASE DrawFails
    BY <1>9 DEF DrawFails, TypeOK, tasks, tracker, server
<1> QED
    BY <1>1, <1>2, <1>3, <1>4, <1>5, <1>6, <1>7, <1>8, <1>9 DEF MainNext

LEMMA TaskTypes == ASSUME TypeOK, NEW c \in Conns, ListenNext(c) \/ InputNext(c) PROVE TypeOK'
<1> USE DEF Task, main, tasks, tracker, server
<1>1. CASE ListenRead(c)
    <2>1. PICK n \in 1..Len(stream[c]) :
             /\ buffer' = [buffer EXCEPT ![c] = buffer[c] \o SubSeq(stream[c], 1, n)]
             /\ Take(c, n)
        BY <1>1 DEF ListenRead
    <2>2. stream' \in [Conns -> Seq(Pieces)] /\ buffer[c] \o SubSeq(stream[c], 1, n) \in Seq(Pieces)
        BY <2>1, LineRead
    <2>3. buffer' \in [Conns -> Seq(Pieces)]
        BY <2>1, <2>2 DEF TypeOK
    <2> QED
        BY <1>1, <2>2, <2>3 DEF ListenRead, TypeOK
<1>2. CASE ProcessPackage(c)
    <2>1. buffer' \in [Conns -> Seq(Pieces)] /\ buffer[c][1].pkg \in Packages
        BY <1>2, LineProcessed DEF Pieces
    <2>2. /\ view' \in [Conns -> States] /\ started' \in [Conns -> BOOLEAN]
          /\ wasAlive' \in [Conns -> BOOLEAN]
        <3>1. CASE UNCHANGED tracker
            BY <3>1 DEF TypeOK
        <3>2. ASSUME NEW s \in States, view' = [view EXCEPT ![c] = s], ProcessGameState(c, s)
              PROVE  /\ view' \in [Conns -> States] /\ started' \in [Conns -> BOOLEAN]
                     /\ wasAlive' \in [Conns -> BOOLEAN]
            <4>1. s.me \in BOOLEAN /\ ((started[c] \/ Starts(c, s)) /\ AliveCount(s) > 1) \in BOOLEAN
                BY DEF States
            <4> QED
                BY <3>2, <4>1 DEF ProcessGameState, TypeOK
        <3> QED
            BY <1>2, <2>1, <3>1, <3>2, PackageTypes DEF ProcessPackage
    <2> QED
        BY <1>2, <2>1, <2>2 DEF ProcessPackage, TypeOK
<1>3. CASE Processed(c)
    <2>1. buffer[c] \in Seq(Pieces) /\ buffer \in [Conns -> Seq(Pieces)]
        BY DEF TypeOK
    <2>2. (IF buffer[c] = <<>> THEN buffer[c] ELSE SubSeq(buffer[c], 1, 1)) \in Seq(Pieces)
        BY <1>3, <2>1, Left DEF Processed
    <2>3. buffer' \in [Conns -> Seq(Pieces)]
        BY <1>3, <2>1, <2>2 DEF Processed
    <2> QED
        BY <1>3, <2>3 DEF Processed, TypeOK
<1>4. CASE ListenFails(c)
    BY <1>4 DEF ListenFails, TypeOK
<1>5. CASE ListenCancelled(c)
    BY <1>5 DEF ListenCancelled, TypeOK
<1>6. CASE SendDirectionFails(c)
    BY <1>6 DEF SendDirectionFails, TypeOK
<1>7. CASE InputEnds(c)
    BY <1>7 DEF InputEnds, TypeOK
<1> QED
    BY <1>1, <1>2, <1>3, <1>4, <1>5, <1>6, <1>7 DEF ListenNext, InputNext

LEMMA ServerTypes ==
    ASSUME TypeOK, NEW c \in Conns, ServerAnswers(c) \/ ServerPushes(c) \/ ServerCloses(c)
    PROVE  TypeOK'
<1> USE DEF main, tasks, tracker
<1>1. CASE ServerAnswers(c)
    <2>1. stream' \in [Conns -> Seq(Pieces)]
        BY <1>1, LineWritten, PackageTypes DEF ServerAnswers
    <2> QED
        BY <1>1, <2>1 DEF ServerAnswers, TypeOK
<1>2. CASE ServerPushes(c)
    <2>1. PICK s \in NextStates(game[c]) : game' = [game EXCEPT ![c] = s] /\ Write(c, Push(s))
        BY <1>2 DEF ServerPushes
    <2>2. s \in States
        BY SuccessorStates DEF TypeOK
    <2>3. stream' \in [Conns -> Seq(Pieces)] /\ UNCHANGED buffer
        BY <1>2, <2>1, <2>2, LineWritten, PackageTypes DEF ServerPushes
    <2>4. game' \in [Conns -> States]
        BY <2>1, <2>2 DEF TypeOK
    <2>5. pushes' \in 0..MaxPushes /\ early' \subseteq Conns
        BY <1>2, OthersBound DEF ServerPushes, TypeOK
    <2> QED
        BY <1>2, <2>3, <2>4, <2>5 DEF ServerPushes, TypeOK
<1>3. CASE ServerCloses(c)
    BY <1>3 DEF ServerCloses, TypeOK
<1> QED
    BY <1>1, <1>2, <1>3

LEMMA NextTypes == ASSUME TypeOK, Phases, [Next]_vars PROVE TypeOK'
<1>1. CASE UNCHANGED vars
    BY <1>1 DEF vars, main, tasks, tracker, server, TypeOK
<1>2. CASE Next
    BY <1>2, MainTypes, TaskTypes, ServerTypes DEF Next
<1> QED
    BY <1>1, <1>2

-----------------------------------------------------------------------------
(* The main task and the tasks of a connection                             *)

Control == Phases /\ \A c \in Conns : Unmade(c) /\ StopsWhenLost(c) /\ Settled(c)

LEMMA OpenControl ==
    ASSUME TypeOK, Control, ConnectAsync \/ ReconnectAsync
    PROVE  Control'
<1>0. PICK n : n = made + 1
    OBVIOUS
<1>1. /\ at \in {"connect", "reconnect"} /\ made' = n /\ cur' = n /\ n \in Conns /\ n > made /\ made = cur
      /\ socket' = [socket EXCEPT ![n] = "open"] /\ up' = [up EXCEPT ![n] = TRUE]
      /\ UNCHANGED <<mode, listen, input, running, cancelled, stage>>
      /\ \/ at = "connect" /\ at' = "greet"
         \/ at = "reconnect" /\ at' = "regreet"
    BY <1>0, OthersBound DEF ConnectAsync, ReconnectAsync, Open, tasks, Control, Phases, TypeOK, Conns
<1>2. \A c \in Conns \ {n} : socket'[c] = socket[c] /\ up'[c] = up[c]
    BY <1>1 DEF TypeOK
<1>3. listen[n] = "none" /\ input[n] = "none" /\ ~cancelled[n] /\ stage[n] = "new"
    BY <1>1 DEF Control, Unmade, StopsWhenLost
<1>4. Phases'
    BY <1>1, <1>3 DEF Control, Phases, NoConn, Conns
<1>5. ASSUME NEW c \in Conns PROVE Unmade(c)' /\ StopsWhenLost(c)' /\ Settled(c)'
    <2>1. Unmade(c)'
        BY <1>1 DEF Control, Unmade, TypeOK, Conns
    <2>2. StopsWhenLost(c)'
        <3>1. CASE c = n
            BY <1>1, <1>3, <3>1 DEF StopsWhenLost, Ending
        <3>2. CASE c # n
            BY <1>1, <1>2, <3>2 DEF Control, StopsWhenLost, Ending, MayFail
        <3> QED
            BY <3>1, <3>2
    <2>3. Settled(c)'
        BY <1>1, <1>2 DEF Control, Settled
    <2> QED
        BY <2>1, <2>2, <2>3
<1> QED
    BY <1>4, <1>5 DEF Control

\* The main task goes on, and leaves the tasks alone.
LEMMA MainControl ==
    ASSUME TypeOK, Control, SendHandshake \/ AwaitMore \/ HandshakeEnds \/ Stopped \/ DrawFails
    PROVE  Control'
<1>1. cur \in Conns /\ UNCHANGED <<mode, cur, made, listen, input, running, cancelled, up>>
    BY InUse DEF SendHandshake, AwaitMore, HandshakeEnds, Stopped, DrawFails, Awaiting, tasks, main,
       server, Control
<1>2. \A c \in Conns : socket'[c] = socket[c] \/ (c = cur /\ socket'[c] = "closed")
    BY <1>1 DEF SendHandshake, AwaitMore, HandshakeEnds, GiveUp, Stopped, DrawFails, TypeOK
<1>3. \A c \in Conns : stage'[c] = stage[c] \/ (c = cur /\ stage'[c] = "asked" /\ at \in {"greet", "regreet"})
    BY <1>1 DEF SendHandshake, AwaitMore, HandshakeEnds, Stopped, DrawFails, server, TypeOK
<1>4. \/ SendHandshake /\ \/ at = "greet" /\ at' = "await"
                          \/ at = "regreet" /\ at' = "reawait"
                          \/ at' = "crashed"
      \/ AwaitMore /\ at' = at
      \/ HandshakeEnds /\ at' \in {"connect", "crashed"}
      \/ Stopped /\ at' = "connect"
      \/ DrawFails /\ at' = "reconnect" /\ mode = "player"
    BY DEF SendHandshake, AwaitMore, HandshakeEnds, GiveUp, Throw, Stopped, DrawFails, main
<1>5. Phases'
    <2>1. stage'[cur] = stage[cur] \/ stage'[cur] = "asked"
        BY <1>1, <1>3
    <2>2. Phases /\ cur # NoConn /\ UNCHANGED <<mode, cur, made, listen>>
        BY <1>1 DEF Control, NoConn, Conns
    <2>3. CASE at' \in {"crashed", "connect"}
        BY <2>2, <2>3 DEF Phases
    <2>4. CASE SendHandshake /\ \/ at = "greet" /\ at' = "await"
                                \/ at = "regreet" /\ at' = "reawait"
        BY <2>1, <2>2, <2>4 DEF Phases
    <2>5. CASE AwaitMore /\ at' = at
        BY <2>2, <2>5 DEF Phases, AwaitMore, server
    <2>6. CASE at' = "reconnect" /\ mode = "player"
        BY <2>2, <2>6 DEF Phases
    <2> QED
        BY <1>4, <2>3, <2>4, <2>5, <2>6
<1>6. ASSUME NEW c \in Conns PROVE Unmade(c)' /\ StopsWhenLost(c)' /\ Settled(c)'
    <2>1. Unmade(c)'
        BY <1>1, <1>3 DEF Control, Unmade, Phases, TypeOK, Conns
    <2>2. StopsWhenLost(c)'
        BY <1>1, <1>2 DEF Control, StopsWhenLost, Ending, MayFail
    <2>3. Settled(c)'
        <3>1. CASE c # cur
            BY <1>1, <1>2, <3>1 DEF Control, Settled
        <3>2. CASE c = cur
            <4>1. StopsWhenLost(c) /\ Phases
                BY DEF Control
            <4>2. CASE at' \notin {"connect", "reconnect"}
                BY <1>1, <3>2, <4>2 DEF Settled
            <4>3. CASE HandshakeEnds /\ at' = "connect"
                <5>1. ~up[c] /\ listen[c] = "none" /\ input[c] = "none"
                    BY <3>2, <4>1, <4>3 DEF HandshakeEnds, Awaiting, Phases, StopsWhenLost
                <5> QED
                    BY <1>1, <5>1 DEF Settled
            <4>4. CASE Stopped
                <5>1. listen[c] = "ended" /\ input[c] = "ended"
                    BY <3>2, <4>4 DEF Stopped
                <5> QED
                    BY <1>1, <1>2, <4>1, <5>1 DEF Settled, StopsWhenLost, Ending, MayFail
            <4>5. CASE DrawFails
                <5>1. socket'[c] = "closed" /\ mode = "player"
                    BY <1>1, <3>2, <4>5 DEF DrawFails, TypeOK
                <5> QED
                    BY <1>1, <5>1 DEF Settled
            <4>6. CASE AwaitMore
                BY <4>2, <4>6 DEF AwaitMore, Awaiting, main
            <4> QED
                BY <1>4, <4>2, <4>3, <4>4, <4>5, <4>6
        <3> QED
            BY <3>1, <3>2
    <2> QED
        BY <2>1, <2>2, <2>3
<1> QED
    BY <1>5, <1>6 DEF Control

LEMMA HandshakeControl ==
    ASSUME TypeOK, Control, HandshakeDone
    PROVE  Control'
<1>1. cur \in Conns /\ UNCHANGED <<mode, cur, made, socket, cancelled, up>> /\ at \in {"await", "reawait"}
    BY InUse DEF HandshakeDone, Welcome, StartTasks, Awaiting, tasks, Control
<1>2. \A c \in Conns : stage'[c] = stage[c] \/ c = cur
    BY <1>1 DEF HandshakeDone, TypeOK
<1>3. \/ /\ at = "await" /\ at' = "play" /\ listen' = [listen EXCEPT ![cur] = "read"]
         /\ input' = [input EXCEPT ![cur] = "on"] /\ running' = [running EXCEPT ![cur] = TRUE]
      \/ at = "reawait" /\ at' = "connect" /\ UNCHANGED <<listen, input, running>>
      \/ at' = "crashed" /\ UNCHANGED <<listen, input, running>>
    BY DEF HandshakeDone, Welcome, StartTasks, Throw, tasks
<1>4. /\ \A c \in Conns \ {cur} : listen'[c] = listen[c] /\ input'[c] = input[c] /\ running'[c] = running[c]
      /\ at' = "play" => listen'[cur] = "read" /\ input'[cur] = "on" /\ running'[cur]
    BY <1>1, <1>3 DEF TypeOK
<1>5. Phases'
    BY <1>1, <1>3, <1>4 DEF Control, Phases
<1>6. ASSUME NEW c \in Conns PROVE Unmade(c)' /\ StopsWhenLost(c)' /\ Settled(c)'
    <2>1. Unmade(c)'
        BY <1>1, <1>2, <1>4 DEF Control, Unmade, Phases, TypeOK, Conns
    <2>2. StopsWhenLost(c)'
        BY <1>1, <1>3, <1>4 DEF Control, StopsWhenLost, Ending, MayFail
    <2>3. Settled(c)'
        <3>1. CASE c # cur
            BY <1>1, <1>4, <3>1 DEF Control, Settled
        <3>2. CASE c = cur
            BY <1>1, <1>3, <3>2 DEF Control, Settled, Phases, StopsWhenLost
        <3> QED
            BY <3>1, <3>2
    <2> QED
        BY <2>1, <2>2, <2>3
<1> QED
    BY <1>5, <1>6 DEF Control

LEMMA StopControl ==
    ASSUME TypeOK, Control, StopPlaying
    PROVE  Control'
<1>1. /\ cur \in Conns /\ at = "play" /\ at' = "stop" /\ listen[cur] # "none"
      /\ UNCHANGED <<mode, cur, made, socket, up, listen, input, stage>>
      /\ cancelled' = [cancelled EXCEPT ![cur] = TRUE] /\ running' = [running EXCEPT ![cur] = FALSE]
    BY InUse DEF StopPlaying, server, Control, Phases
<1>2. Ending(cur)
    BY <1>1 DEF StopPlaying, Leaves, Ending
<1>3. MayFail(cur)
    BY <1>1, <1>2 DEF Control, StopsWhenLost
<1>4. \A c \in Conns \ {cur} : cancelled'[c] = cancelled[c] /\ running'[c] = running[c]
    BY <1>1 DEF TypeOK
<1>5. Phases'
    BY <1>1 DEF Control, Phases
<1>6. ASSUME NEW c \in Conns PROVE Unmade(c)' /\ StopsWhenLost(c)' /\ Settled(c)'
    <2>1. Unmade(c)'
        BY <1>1, <1>4 DEF Control, Unmade, Phases, TypeOK, Conns
    <2>2. StopsWhenLost(c)'
        BY <1>1, <1>3, <1>4 DEF Control, StopsWhenLost, Ending, MayFail
    <2>3. Settled(c)'
        BY <1>1 DEF Control, Settled
    <2> QED
        BY <2>1, <2>2, <2>3
<1> QED
    BY <1>5, <1>6 DEF Control

LEMMA TaskControl ==
    ASSUME TypeOK, Control, NEW c \in Conns, ListenNext(c) \/ InputNext(c)
    PROVE  Control'
<1>1. UNCHANGED <<main, socket, up, stage>>
    BY DEF ListenNext, ListenRead, ProcessPackage, Processed, ListenFails, ListenCancelled,
       InputNext, SendDirectionFails, InputEnds, server
<1>2. \A d \in Conns \ {c} : /\ listen'[d] = listen[d] /\ input'[d] = input[d]
                             /\ running'[d] = running[d] /\ cancelled'[d] = cancelled[d]
    BY DEF ListenNext, ListenRead, ProcessPackage, Processed, ListenFails, ListenCancelled,
       InputNext, SendDirectionFails, InputEnds, tasks, TypeOK
<1>3. /\ listen[c] # "none" /\ input[c] # "none" /\ listen'[c] # "none" /\ input'[c] # "none"
      /\ listen'[c] \in {"read", "process"} => listen[c] \in {"read", "process"}
      /\ input'[c] = "on" => input[c] = "on"
    BY DEF ListenNext, ListenRead, ProcessPackage, Processed, ListenFails, ListenCancelled,
       InputNext, SendDirectionFails, InputEnds, tasks, TypeOK, Control, StopsWhenLost
<1>4. Ending(c)' => MayFail(c)
    <2>1. Ending(c) => MayFail(c)
        BY DEF Control, StopsWhenLost
    <2>2. CASE ListenRead(c) \/ ProcessPackage(c) \/ Processed(c)
        BY <2>1, <2>2 DEF ListenRead, ProcessPackage, Processed, tasks, TypeOK, Ending
    <2>3. CASE ListenFails(c)
        BY <2>3 DEF ListenFails, MayFail
    <2>4. CASE ListenCancelled(c)
        BY <2>1, <2>4 DEF ListenCancelled, Ending
    <2>5. CASE SendDirectionFails(c)
        BY <2>5 DEF SendDirectionFails
    <2>6. CASE InputEnds(c)
        BY <1>3, <2>1, <2>6 DEF InputEnds, Ending
    <2> QED
        BY <2>2, <2>3, <2>4, <2>5, <2>6 DEF ListenNext, InputNext
<1>5. Phases'
    <2>1. at # "connect" => cur \in Conns
        BY InUse DEF Control
    <2>2. at # "connect" => (listen'[cur] = "none" <=> listen[cur] = "none")
        BY <1>2, <1>3, <2>1
    <2> QED
        BY <1>1, <2>2 DEF Control, Phases, main
<1>6. ASSUME NEW d \in Conns PROVE Unmade(d)' /\ StopsWhenLost(d)' /\ Settled(d)'
    <2>0. Unmade(d) /\ StopsWhenLost(d) /\ Settled(d)
        BY DEF Control
    <2>1. CASE d = c
        <3>1. Unmade(d)'
            BY <1>1, <1>3, <2>0, <2>1 DEF Unmade, main
        <3>2. StopsWhenLost(d)'
            BY <1>1, <1>3, <1>4, <2>1 DEF StopsWhenLost, MayFail
        <3>3. Settled(d)'
            BY <1>1, <1>3, <2>0, <2>1 DEF Settled, main
        <3> QED
            BY <3>1, <3>2, <3>3
    <2>2. CASE d # c
        BY <1>1, <1>2, <2>0, <2>2 DEF Unmade, StopsWhenLost, Settled, Ending, MayFail, main
    <2> QED
        BY <2>1, <2>2
<1> QED
    BY <1>5, <1>6 DEF Control

LEMMA ServerControl ==
    ASSUME TypeOK, Control, NEW c \in Conns, ServerAnswers(c) \/ ServerPushes(c) \/ ServerCloses(c)
    PROVE  Control'
<1>1. UNCHANGED <<main, socket, tasks>>
    BY DEF ServerAnswers, ServerPushes, ServerCloses
<1>2. \A d \in Conns : /\ up'[d] => up[d]
                       /\ stage'[d] = stage[d] \/ (stage[d] = "asked" /\ stage'[d] = "answered")
    BY DEF ServerAnswers, ServerPushes, ServerCloses, TypeOK
<1>3. Phases'
    <2>1. at # "connect" => cur \in Conns
        BY InUse DEF Control
    <2> QED
        BY <1>1, <1>2, <2>1 DEF Control, Phases, main, tasks
<1>4. ASSUME NEW d \in Conns PROVE Unmade(d)' /\ StopsWhenLost(d)' /\ Settled(d)'
    <2>0. Unmade(d) /\ StopsWhenLost(d) /\ Settled(d)
        BY DEF Control
    <2> QED
        BY <1>1, <1>2, <2>0 DEF Unmade, StopsWhenLost, Settled, Ending, MayFail, main, tasks
<1> QED
    BY <1>3, <1>4 DEF Control

LEMMA NextControl == ASSUME TypeOK, Control, [Next]_vars PROVE Control'
<1>1. CASE UNCHANGED vars
    BY <1>1 DEF vars, main, tasks, server, Control, Phases, Unmade, StopsWhenLost, Settled, Ending, MayFail
<1>2. CASE Next
    BY <1>2, OpenControl, MainControl, HandshakeControl, StopControl, TaskControl, ServerControl
    DEF Next, MainNext
<1> QED
    BY <1>1, <1>2

-----------------------------------------------------------------------------
(* The listener and its buffer                                             *)

\* The buffer is the front of the line.
LEMMA LineFirst ==
    ASSUME TypeOK, NEW c \in Conns
    PROVE  /\ Line(c) \in Seq(Pieces) /\ buffer[c] \in Seq(Pieces) /\ stream[c] \in Seq(Pieces)
           /\ Len(buffer[c]) \in Nat /\ Len(stream[c]) \in Nat
           /\ Len(Line(c)) = Len(buffer[c]) + Len(stream[c])
           /\ buffer[c] # <<>> => Len(buffer[c]) >= 1 /\ Line(c)[1] = buffer[c][1]
           /\ stream[c] = <<>> => Line(c) = buffer[c]
<1>1. buffer[c] \in Seq(Pieces) /\ stream[c] \in Seq(Pieces)
    BY DEF TypeOK
<1>2. ASSUME NEW b \in Seq(Pieces), NEW s \in Seq(Pieces)
      PROVE  /\ b \o s \in Seq(Pieces) /\ Len(b \o s) = Len(b) + Len(s) /\ Len(b) \in Nat /\ Len(s) \in Nat
             /\ b # <<>> => Len(b) >= 1 /\ (b \o s)[1] = b[1]
             /\ s = <<>> => b \o s = b
    <2>1. b # <<>> => 1 \in 1..Len(b)
        BY EmptySeq, LenProperties
    <2> QED
        BY <2>1, BufferFirst
<1> QED
    BY <1>1, <1>2, Zenon DEF Line

LEMMA ResponseFirst == Len(Two(Response)) = 2 /\ Two(Response)[1].part = "head" /\ Two(Response)[1].pkg = Response
BY DEF Two

\* A line that has not lost step begins with a head.
LEMMA HeadFirst ==
    ASSUME TypeOK, NEW c \in Conns, Told(c), c \notin early
    PROVE  buffer[c] # <<>> => buffer[c][1].part = "head"
<1> SUFFICES ASSUME buffer[c] # <<>> PROVE Line(c)[1].part = "head"
    BY LineFirst
<1>1. Len(Line(c)) # 0
    <2>1. Len(buffer[c]) \in Nat /\ Len(stream[c]) \in Nat /\ Len(buffer[c]) >= 1
        BY LineFirst
    <2>2. Len(Line(c)) = Len(buffer[c]) + Len(stream[c])
        BY LineFirst
    <2>3. ASSUME NEW k \in Nat, NEW l \in Nat, k >= 1 PROVE k + l # 0
        BY <2>3
    <2> QED
        BY <2>1, <2>2, <2>3, Zenon
<1>2. CASE stage[c] = "acked"
    BY <1>1, <1>2, CarriesFew DEF Told
<1>3. CASE stage[c] # "acked"
    BY <1>1, <1>3, ResponseFirst DEF Told
<1> QED
    BY <1>2, <1>3

LEMMA NextReads ==
    ASSUME TypeOK, Phases, [Next]_vars, NEW c \in Conns, ReadsWhenDone(c)
    PROVE  ReadsWhenDone(c)'
<1>1. CASE UNCHANGED <<listen, buffer>>
    BY <1>1 DEF ReadsWhenDone, Decodes
<1>2. CASE AwaitMore
    <2>1. listen[cur] = "none" /\ cur \in Conns /\ UNCHANGED listen
        BY <1>2, InUse DEF AwaitMore, Awaiting, Phases, tasks
    <2>2. c # cur => buffer'[c] = buffer[c]
        BY <1>2, <2>1 DEF AwaitMore, TypeOK
    <2> QED
        BY <2>1, <2>2 DEF ReadsWhenDone, Decodes
<1>3. CASE HandshakeDone
    <2>1. cur \in Conns /\ buffer' = [buffer EXCEPT ![cur] = <<>>]
        BY <1>3, InUse DEF HandshakeDone, Awaiting
    <2>2. CASE c = cur
        <3>1. buffer'[c] = <<>>
            BY <2>1, <2>2 DEF TypeOK
        <3> QED
            BY <3>1 DEF ReadsWhenDone, Decodes
    <2>3. CASE c # cur
        <3>1. buffer'[c] = buffer[c] /\ listen'[c] = listen[c]
            BY <1>3, <2>1, <2>3 DEF HandshakeDone, Welcome, StartTasks, tasks, TypeOK
        <3> QED
            BY <3>1 DEF ReadsWhenDone, Decodes
    <2> QED
        BY <2>2, <2>3
<1>4. ASSUME NEW d \in Conns, ListenNext(d) PROVE ReadsWhenDone(c)'
    <2>1. CASE c # d
        <3>1. buffer'[c] = buffer[c] /\ listen'[c] = listen[c]
            BY <1>4, <2>1 DEF ListenNext, ListenRead, ProcessPackage, Processed, ListenFails,
               ListenCancelled, tasks, TypeOK
        <3> QED
            BY <3>1 DEF ReadsWhenDone, Decodes
    <2>2. CASE c = d /\ Processed(d)
        <3>1. buffer[c] \in Seq(Pieces) /\ ~Decodes(buffer[c])
            BY <2>2 DEF Processed, TypeOK
        <3>2. buffer'[c] = IF buffer[c] = <<>> THEN buffer[c] ELSE SubSeq(buffer[c], 1, 1)
            BY <2>2 DEF Processed, TypeOK
        <3>3. ~Decodes(buffer'[c])
            BY <3>1, <3>2, Left
        <3> QED
            BY <3>3 DEF ReadsWhenDone, Decodes
    <2>3. CASE c = d /\ ~Processed(d)
        <3>1. listen'[c] # "read"
            BY <1>4, <2>3 DEF ListenNext, ListenRead, ProcessPackage, ListenFails, ListenCancelled,
               tasks, TypeOK
        <3> QED
            BY <3>1 DEF ReadsWhenDone
    <2> QED
        BY <2>1, <2>2, <2>3
<1>5. CASE \/ ConnectAsync \/ ReconnectAsync \/ SendHandshake \/ HandshakeEnds \/ StopPlaying
           \/ Stopped \/ DrawFails \/ UNCHANGED vars
    BY <1>1, <1>5 DEF ConnectAsync, ReconnectAsync, Open, SendHandshake, HandshakeEnds, StopPlaying,
       Stopped, DrawFails, tasks, vars
<1>6. ASSUME NEW d \in Conns, InputNext(d) \/ ServerAnswers(d) \/ ServerPushes(d) \/ ServerCloses(d)
      PROVE  UNCHANGED <<listen, buffer>>
    BY <1>6 DEF InputNext, SendDirectionFails, InputEnds, ServerAnswers, ServerPushes, ServerCloses, tasks
<1> QED
    BY <1>1, <1>2, <1>3, <1>4, <1>5, <1>6 DEF Next, MainNext

-----------------------------------------------------------------------------
(* What the client has been told                                           *)

LEMMA ToldStays ==
    ASSUME NEW c \in Conns, Told(c), Line(c)' = Line(c), c \notin early' => c \notin early,
           view'[c] = view[c], game'[c] = game[c], started'[c] = started[c], stage'[c] = stage[c]
    PROVE  Told(c)'
BY DEF Told

\* The steps that read, or write a stage, but leave every line as it is.
LEMMA MainTold ==
    ASSUME TypeOK, Phases, NEW c \in Conns, Told(c), SendHandshake \/ AwaitMore
    PROVE  Told(c)'
<1>1. cur \in Conns /\ UNCHANGED <<view, game, started, early>>
    BY InUse DEF SendHandshake, AwaitMore, Awaiting, tracker, server
<1>2. CASE SendHandshake
    <2>1. Line(c)' = Line(c)
        BY <1>2 DEF SendHandshake, Line
    <2>2. CASE stage'[c] = stage[c]
        BY <1>1, <2>1, <2>2, ToldStays
    <2>3. CASE stage'[c] # stage[c]
        <3>1. stage[c] = "new" /\ stage'[c] = "asked"
            BY <1>1, <1>2, <2>3 DEF SendHandshake, Phases, TypeOK
        <3> QED
            BY <1>1, <2>1, <3>1 DEF Told
    <2> QED
        BY <2>2, <2>3
<1>3. CASE AwaitMore
    <2>1. PICK n \in 1..Len(stream[cur]) :
            /\ buffer' = [buffer EXCEPT ![cur] = buffer[cur] \o SubSeq(stream[cur], 1, n)]
            /\ Take(cur, n)
        BY <1>3 DEF AwaitMore
    <2>2. Line(c)' = Line(c)
        <3>1. CASE c = cur
            <4>1. buffer'[c] = buffer[cur] \o SubSeq(stream[cur], 1, n)
                BY <1>1, <2>1, <3>1 DEF TypeOK
            <4> QED
                BY <1>1, <2>1, <3>1, <4>1, LineRead DEF Line
        <3>2. CASE c # cur
            BY <1>1, <2>1, <3>2, LineRead DEF Line, TypeOK
        <3> QED
            BY <3>1, <3>2
    <2> QED
        BY <1>1, <1>3, <2>2, ToldStays DEF AwaitMore, server
<1> QED
    BY <1>2, <1>3

\* The response is the whole line: nothing is lost with the buffer.
LEMMA HandshakeTold ==
    ASSUME TypeOK, Phases, NEW c \in Conns, Told(c), HandshakeDone
    PROVE  Told(c)'
<1>1. /\ cur \in Conns /\ UNCHANGED <<view, game, started, early>> /\ stage[cur] # "acked"
      /\ stage'[cur] \in {stage[cur], "acked"} /\ \A d \in Conns \ {cur} : stage'[d] = stage[d]
      /\ buffer' = [buffer EXCEPT ![cur] = <<>>]
    BY InUse DEF HandshakeDone, Awaiting, tracker, Phases, TypeOK
<1>2. PICK n \in 1..Len(stream[cur]) :
        /\ Decodes(buffer[cur] \o SubSeq(stream[cur], 1, n))
        /\ Take(cur, n)
    BY DEF HandshakeDone
<1>3. CASE c # cur
    <2>1. Line(c)' = Line(c)
        BY <1>1, <1>2, <1>3, LineRead DEF Line, TypeOK
    <2> QED
        BY <1>1, <1>3, <2>1, ToldStays
<1>4. CASE c = cur /\ c \notin early
    <2> DEFINE b == buffer[c] \o SubSeq(stream[c], 1, n)
    <2>1. b \in Seq(Pieces) /\ stream'[c] \in Seq(Pieces) /\ b \o stream'[c] = Line(c) /\ Len(b) >= 2
        BY <1>2, <1>4, LineRead DEF Decodes
    <2>2. /\ Line(c) \in {<<>>, Two(Response)} /\ view[c] = game[c]
          /\ started[c] <=> AliveCount(view[c]) > 1
        BY <1>1, <1>4 DEF Told
    <2> HIDE DEF b
    <2>3. Len(Line(c)) = Len(b) + Len(stream'[c]) /\ Len(b) \in Nat /\ Len(stream'[c]) \in Nat
        BY <2>1, ConcatProperties, LenProperties
    <2>4. Len(Line(c)) \in {0, 2}
        BY <2>2, ResponseFirst
    <2>5. stream'[c] = <<>> /\ Line(c) # <<>>
        BY <2>1, <2>3, <2>4, EmptySeq
    <2>6. Line(c)' = <<>>
        BY <1>1, <1>4, <2>5, ConcatEmptySeq DEF Line, TypeOK
    <2>7. stage'[c] \notin {"new", "asked"}
        BY <1>1, <1>4, <2>5 DEF Told
    <2>8. Carries(Line(c)', view'[c], game'[c])
        BY <1>1, <2>2, <2>6, CarriesNothing DEF TypeOK
    <2> QED
        BY <1>1, <2>2, <2>6, <2>7, <2>8 DEF Told
<1>5. CASE c \in early
    BY <1>1, <1>5 DEF Told
<1> QED
    BY <1>3, <1>4, <1>5

\* The tracker after a successor of the state it has seen last.
LEMMA TrackerKnows ==
    ASSUME TypeOK, NEW c \in Conns, started[c] <=> AliveCount(view[c]) > 1,
           NEW s \in NextStates(view[c]), ProcessGameState(c, s)
    PROVE  started'[c] <=> AliveCount(s) > 1
<1>1. started'[c] = ((started[c] \/ Starts(c, s)) /\ AliveCount(s) > 1)
    BY DEF ProcessGameState, TypeOK
<1>2. started[c] \in BOOLEAN
    BY DEF TypeOK
<1>3. CASE AliveCount(view[c]) <= 1
    <2>1. s.me
        BY <1>3 DEF NextStates
    <2>2. AliveCount(view[c]) \in Int
        BY OthersBound DEF TypeOK, States, AliveCount
    <2>3. ~started[c]
        BY <1>3, <2>2
    <2>4. Starts(c, s)
        BY <2>1, <2>3 DEF Starts
    <2> QED
        BY <1>1, <2>4
<1>4. CASE ~(AliveCount(view[c]) <= 1)
    <2>1. AliveCount(view[c]) \in Int
        BY OthersBound DEF TypeOK, States, AliveCount
    <2>2. started[c]
        BY <1>4, <2>1
    <2> QED
        BY <1>1, <2>2
<1> QED
    BY <1>3, <1>4

LEMMA ProcessTold ==
    ASSUME TypeOK, NEW c \in Conns, Told(c), ProcessPackage(c), c \notin early
    PROVE  Told(c)'
<1>1. /\ UNCHANGED <<game, stage, early>>
      /\ \/ buffer[c][1].pkg.type = "push" /\ view' = [view EXCEPT ![c] = buffer[c][1].pkg.state]
            /\ ProcessGameState(c, buffer[c][1].pkg.state)
         \/ buffer[c][1].pkg.type # "push" /\ UNCHANGED <<view, started>>
    BY DEF ProcessPackage, server, tracker
<1>2. Len(Line(c)) >= 2 /\ Line(c)[1] = buffer[c][1]
    BY LineProcessed
<1>3. CASE stage[c] = "acked"
    <2>1. PICK s \in States : s \in NextStates(view[c]) /\ Line(c)[1].pkg = Push(s) /\ Carries(Line(c)', s, game[c])
        <3>1. ASSUME NEW L, NEW M, NEW v, NEW g, Carries(L, v, g),
                     Len(L) >= 2, Len(M) = Len(L) - 2, \A k \in 1..Len(M) : M[k] = L[k + 2]
              PROVE  \E s \in States : s \in NextStates(v) /\ L[1].pkg = Push(s) /\ Carries(M, s, g)
            BY <3>1, CarriesOneLess
        <3>2. /\ Carries(Line(c), view[c], game[c])
              /\ Len(Line(c)') = Len(Line(c)) - 2
              /\ \A i \in 1..Len(Line(c)') : (Line(c)')[i] = Line(c)[i + 2]
            BY <1>3, LineProcessed DEF Told
        <3> QED
            BY <1>2, <3>1, <3>2, Zenon
    <2>2. view' = [view EXCEPT ![c] = s] /\ ProcessGameState(c, s)
        BY <1>1, <1>2, <2>1 DEF Push
    <2>3. view'[c] = s
        BY <2>2 DEF TypeOK
    <2>4. started'[c] <=> AliveCount(s) > 1
        BY <2>1, <2>2, TrackerKnows DEF Told
    <2>5. Carries(Line(c)', view'[c], game'[c])
        BY <1>1, <2>1, <2>3
    <2> QED
        BY <1>1, <1>3, <2>3, <2>4, <2>5 DEF Told
<1>4. CASE stage[c] # "acked"
    <2>1. Line(c) = Two(Response) /\ view[c] = game[c] /\ stage[c] \notin {"new", "asked"}
        BY <1>2, <1>4 DEF Told
    <2>2. UNCHANGED <<view, started>>
        BY <1>1, <1>2, <2>1, ResponseFirst DEF Response
    <2>3. Line(c)' = <<>>
        BY <2>1, LineProcessed, ResponseFirst, EmptySeq
    <2> QED
        BY <1>1, <1>4, <2>1, <2>2, <2>3 DEF Told
<1> QED
    BY <1>3, <1>4

LEMMA TaskTold ==
    ASSUME TypeOK, NEW c \in Conns, Told(c), NEW d \in Conns, ListenNext(d) \/ InputNext(d)
    PROVE  Told(c)'
<1>1. UNCHANGED <<early, stage, game>>
    BY DEF ListenNext, ListenRead, ProcessPackage, Processed, ListenFails, ListenCancelled,
       InputNext, SendDirectionFails, InputEnds, server
<1>2. CASE c \in early
    BY <1>1, <1>2 DEF Told
<1>3. CASE ListenFails(d) \/ ListenCancelled(d) \/ InputNext(d)
    <2>1. UNCHANGED <<buffer, stream, view, started>>
        BY <1>3 DEF ListenFails, ListenCancelled, InputNext, SendDirectionFails, InputEnds, tracker
    <2> QED
        BY <1>1, <2>1, ToldStays DEF Line
<1>4. CASE ListenRead(d)
    <2>1. PICK n \in 1..Len(stream[d]) :
            /\ buffer' = [buffer EXCEPT ![d] = buffer[d] \o SubSeq(stream[d], 1, n)]
            /\ Take(d, n)
        BY <1>4 DEF ListenRead
    <2>2. Line(c)' = Line(c)
        <3>1. CASE c = d
            <4>1. buffer'[c] = buffer[d] \o SubSeq(stream[d], 1, n)
                BY <2>1, <3>1 DEF TypeOK
            <4> QED
                BY <2>1, <3>1, <4>1, LineRead DEF Line
        <3>2. CASE c # d
            BY <2>1, <3>2, LineRead DEF Line, TypeOK
        <3> QED
            BY <3>1, <3>2
    <2> QED
        BY <1>1, <1>4, <2>2, ToldStays DEF ListenRead, tracker
<1>5. CASE Processed(d) /\ c \notin early
    <2>1. UNCHANGED <<stream, view, started>>
        BY <1>5 DEF Processed, tracker
    <2>2. buffer'[c] = buffer[c]
        <3>1. CASE c = d
            <4>1. buffer'[c] = IF buffer[c] = <<>> THEN buffer[c] ELSE SubSeq(buffer[c], 1, 1)
                BY <1>5, <3>1 DEF Processed, TypeOK
            <4>2. buffer[c] \in Seq(Pieces) /\ ~Decodes(buffer[c]) /\ (buffer[c] # <<>> => buffer[c][1].part = "head")
                BY <1>5, <3>1, HeadFirst DEF Processed, TypeOK
            <4> QED
                BY <4>1, <4>2, Left
        <3>2. CASE c # d
            BY <1>5, <3>2 DEF Processed, TypeOK
        <3> QED
            BY <3>1, <3>2
    <2> QED
        BY <1>1, <2>1, <2>2, ToldStays DEF Line
<1>6. CASE ProcessPackage(d) /\ c \notin early
    <2>1. CASE c = d
        BY <1>6, <2>1, ProcessTold
    <2>2. CASE c # d
        <3>1. Line(c)' = Line(c)
            BY <1>6, <2>2, LineProcessed
        <3>2. view'[c] = view[c] /\ started'[c] = started[c]
            BY <1>6, <2>2 DEF ProcessPackage, ProcessGameState, tracker, TypeOK
        <3> QED
            BY <1>1, <3>1, <3>2, ToldStays
    <2> QED
        BY <2>1, <2>2
<1> QED
    BY <1>2, <1>3, <1>4, <1>5, <1>6 DEF ListenNext

LEMMA ServerTold ==
    ASSUME TypeOK, NEW c \in Conns, Told(c), NEW d \in Conns, ServerAnswers(d) \/ ServerPushes(d)
    PROVE  Told(c)'
<1>1. UNCHANGED <<buffer, view, started>>
    BY DEF ServerAnswers, ServerPushes, tracker
<1>2. CASE c \in early
    BY <1>2 DEF Told, ServerAnswers, ServerPushes
<1>3. CASE ServerAnswers(d) /\ c \notin early
    <2>1. /\ Line(d)' = Line(d) \o Two(Response) /\ Line(d) \in Seq(Pieces)
          /\ \A e \in Conns \ {d} : Line(e)' = Line(e)
        BY <1>1, <1>3, LineWritten, PackageTypes DEF ServerAnswers
    <2>2. CASE c # d
        BY <1>1, <1>3, <2>1, <2>2, ToldStays DEF ServerAnswers, TypeOK
    <2>3. CASE c = d
        <3>1. stage[c] = "asked" /\ stage'[c] = "answered" /\ UNCHANGED <<game, early>>
            BY <1>3, <2>3 DEF ServerAnswers, TypeOK
        <3>2. Line(c) = <<>> /\ view[c] = game[c] /\ (started[c] <=> AliveCount(view[c]) > 1)
            BY <1>3, <3>1 DEF Told
        <3>3. Two(Response) \in Seq(Pieces)
            BY PackageTypes DEF Two, Pieces
        <3>4. Line(c)' = Two(Response)
            BY <2>1, <2>3, <3>2, <3>3, ConcatEmptySeq
        <3> QED
            BY <1>1, <3>1, <3>2, <3>4 DEF Told
    <2> QED
        BY <2>2, <2>3
<1>4. CASE ServerPushes(d) /\ c \notin early
    <2>1. PICK s \in NextStates(game[d]) : game' = [game EXCEPT ![d] = s] /\ Write(d, Push(s))
        BY <1>4 DEF ServerPushes
    <2>2. s \in States
        BY SuccessorStates DEF TypeOK
    <2>3. /\ Line(d)' = Line(d) \o Two(Push(s)) /\ Line(d) \in Seq(Pieces)
          /\ \A e \in Conns \ {d} : Line(e)' = Line(e)
        BY <1>1, <2>1, <2>2, LineWritten, PackageTypes
    <2>4. UNCHANGED stage /\ early' = (IF stage[d] = "answered" THEN early \cup {d} ELSE early)
        BY <1>4 DEF ServerPushes
    <2>5. CASE c # d
        BY <1>1, <2>1, <2>3, <2>4, <2>5, ToldStays DEF TypeOK
    <2>6. CASE c = d /\ stage[d] = "answered"
        BY <2>4, <2>6 DEF Told
    <2>7. CASE c = d /\ stage[d] = "acked"
        <3>1. Carries(Line(c), view[c], game[c]) /\ (started[c] <=> AliveCount(view[c]) > 1)
            BY <1>4, <2>7 DEF Told
        <3>2. game'[c] = s
            BY <2>1, <2>7 DEF TypeOK
        <3>3. Carries(Line(c)', view'[c], game'[c])
            <4>1. ASSUME NEW L \in Seq(Pieces), NEW v, NEW g, Carries(L, v, g), NEW t \in States, t \in NextStates(g)
                  PROVE  Carries(L \o Two(Push(t)), v, t)
                BY <4>1, CarriesOneMore
            <4>2. Carries(Line(c) \o Two(Push(s)), view[c], s)
                BY <2>1, <2>2, <2>3, <2>7, <3>1, <4>1, Zenon
            <4> QED
                BY <1>1, <2>3, <2>7, <3>2, <4>2, Zenon
        <3> QED
            BY <1>1, <2>4, <2>7, <3>1, <3>3 DEF Told
    <2> QED
        BY <1>4, <2>5, <2>6, <2>7 DEF ServerPushes
<1> QED
    BY <1>2, <1>3, <1>4

LEMMA NextTold ==
    ASSUME TypeOK, Phases, [Next]_vars, NEW c \in Conns, Told(c)
    PROVE  Told(c)'
<1>1. CASE \/ ConnectAsync \/ ReconnectAsync \/ HandshakeEnds \/ StopPlaying \/ Stopped \/ DrawFails
           \/ UNCHANGED vars
    <2>1. UNCHANGED <<buffer, stream, view, started, stage, game, early>>
        BY <1>1 DEF ConnectAsync, ReconnectAsync, Open, HandshakeEnds, StopPlaying, Stopped, DrawFails,
           tracker, server, vars
    <2> QED
        BY <2>1, ToldStays DEF Line
<1>2. ASSUME NEW d \in Conns, ServerCloses(d) PROVE Told(c)'
    <2>1. UNCHANGED <<buffer, stream, view, started, stage, game, early>>
        BY <1>2 DEF ServerCloses, tracker
    <2> QED
        BY <2>1, ToldStays DEF Line
<1> QED
    BY <1>1, <1>2, MainTold, HandshakeTold, TaskTold, ServerTold DEF Next, MainNext

-----------------------------------------------------------------------------
(* The theorems                                                            *)

LEMMA InitIInv == Init => IInv
<1> SUFFICES ASSUME Init PROVE IInv
    OBVIOUS
<1>1. NoGame \in States /\ <<>> \in Seq(Pieces) /\ ~(AliveCount(NoGame) > 1)
    BY OthersBound DEF NoGame, States, AliveCount
<1>2. TypeOK
    BY <1>1, OthersBound DEF Init, TypeOK, Main, Task, NoConn
<1>3. Phases
    BY DEF Init, Phases, NoConn
<1>4. ASSUME NEW c \in Conns
      PROVE  Unmade(c) /\ StopsWhenLost(c) /\ Settled(c) /\ Told(c) /\ ReadsWhenDone(c)
    <2>1. Unmade(c) /\ StopsWhenLost(c) /\ Settled(c) /\ ReadsWhenDone(c)
        BY DEF Init, Unmade, StopsWhenLost, Ending, Settled, ReadsWhenDone
    <2>2. Line(c) = <<>>
        BY <1>1, ConcatEmptySeq DEF Init, Line
    <2>3. Told(c)
        BY <1>1, <2>2 DEF Init, Told
    <2> QED
        BY <2>1, <2>3
<1> QED
    BY <1>2, <1>3, <1>4 DEF IInv

LEMMA NextIInv == IInv /\ [Next]_vars => IInv'
<1> SUFFICES ASSUME IInv, [Next]_vars PROVE IInv'
    OBVIOUS
<1>1. TypeOK /\ Phases /\ Control
    BY DEF IInv, Control
<1>2. TypeOK' /\ Control'
    BY <1>1, NextTypes, NextControl
<1>3. ASSUME NEW c \in Conns PROVE Told(c)' /\ ReadsWhenDone(c)'
    BY <1>1, NextTold, NextReads DEF IInv
<1> QED
    BY <1>2, <1>3 DEF IInv, Control

\* The inductive invariant: where the main task is, that only its loss ends a
\* session, and what every connection still has to tell the client.
THEOREM Invariance == Spec => []IInv
BY InitIInv, NextIInv, PTL DEF Spec

\* Every variable keeps to the values the code can give it.
THEOREM TypeCorrect == Spec => []TypeOK
<1>1. IInv => TypeOK
    BY DEF IInv
<1> QED
    BY <1>1, Invariance, PTL

\* The loop of Program.cs leaves no connection in use behind it, and the AI no
\* player in a game.
THEOREM OneConnectionInUse == Spec => []OneConnection
<1>1. IInv => OneConnection
    BY DEF IInv, OneConnection, Settled
<1> QED
    BY <1>1, Invariance, PTL

\* NetworkClient._buffer begins with a package unless the server has pushed a
\* state before it had the acknowledgement.
THEOREM KeepsInStep == Spec => []InStep
<1>1. ASSUME IInv, NEW c \in Conns, buffer[c] # <<>>, buffer[c][1].part = "body" PROVE c \in early
    BY <1>1, HeadFirst DEF IInv
<1>2. IInv => InStep
    BY <1>1 DEF InStep
<1> QED
    BY <1>2, Invariance, PTL

\* Once the listener has used all that the server pushed, _gameStarted of the
\* tracker says whether the server's game is on.
THEOREM TrackerFollowsGames == Spec => []TrackerFollows
<1>1. ASSUME IInv, NEW c \in Conns, c \notin early, listen[c] = "read", stream[c] = <<>>
      PROVE  started[c] <=> AliveCount(game[c]) > 1
    <2>1. TypeOK /\ Told(c) /\ ~Decodes(buffer[c])
        BY <1>1 DEF IInv, ReadsWhenDone
    <2>2. view[c] = game[c]
        <3>1. CASE stage[c] = "acked"
            <4>1. Line(c) = buffer[c] /\ Len(buffer[c]) \in Nat
                BY <1>1, <2>1, LineFirst
            <4>2. Len(buffer[c]) >= 2 => buffer[c][1].part = "head"
                BY <1>1, <2>1, HeadFirst DEF Decodes
            <4>3. Len(Line(c)) < 2
                BY <2>1, <4>1, <4>2 DEF Decodes
            <4>4. Carries(Line(c), view[c], game[c])
                BY <1>1, <2>1, <3>1 DEF Told
            <4> QED
                BY <4>3, <4>4, CarriesFew
        <3>2. CASE stage[c] # "acked"
            BY <1>1, <2>1, <3>2 DEF Told
        <3> QED
            BY <3>1, <3>2
    <2> QED
        BY <1>1, <2>1, <2>2 DEF Told
<1>2. IInv => TrackerFollows
    BY <1>1 DEF TrackerFollows
<1> QED
    BY <1>2, Invariance, PTL
=============================================================================
