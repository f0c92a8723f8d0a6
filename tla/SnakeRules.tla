----------------------------- MODULE SnakeRules -----------------------------
(***************************************************************************)
(* The game a client sees, from one broadcast state to the next: what      *)
(* snake_game/README.md calls the rules, without players' keys, maps of    *)
(* occupied cells or an order of moves.                                    *)
(***************************************************************************)
EXTENDS Integers, Sequences, FiniteSets

CONSTANTS
    Players,
    Width,
    Height

VARIABLES
    body,    \* cells of a snake, head first; a dead one has none
    score,
    foods,   \* at most one cell
    over     \* the game has ended

vars == <<body, score, foods, over>>

Board == [x : 0 .. Width - 1, y : 0 .. Height - 1]

Beside(a, b) ==
    \/ a.x = b.x /\ a.y - b.y \in {-1, 1}
    \/ a.y = b.y /\ a.x - b.x \in {-1, 1}

CellsOf(s) == {s[i] : i \in DOMAIN s}
Living == {p \in Players : body[p] # <<>>}
Taken == UNION {CellsOf(body[p]) : p \in Players}
TakenNext == UNION {CellsOf(body'[p]) : p \in Players}
Tails == {body[p][Len(body[p])] : p \in Living}

\* Food is found on free cells only, and one at a time.
Scattered(taken, fs) == Cardinality(fs) <= 1 /\ fs \subseteq Board \ taken

Init ==
    /\ body \in [Players -> Seq(Board)]
    /\ \A p \in Players : Len(body[p]) = 3 /\ \A i \in 1 .. 2 : Beside(body[p][i], body[p][i + 1])
    /\ \A p, q \in Players : p # q => CellsOf(body[p]) \cap CellsOf(body[q]) = {}
    /\ score = [p \in Players |-> 0]
    /\ Scattered(Taken, foods)
    /\ over = FALSE

\* A snake that lives on moves by one cell, never back onto its neck and never
\* into a cell that was taken, except that a tail may have left it.  It grows,
\* and scores, exactly when there was food.
Crawls(p, spread) ==
    LET head == body'[p][1]
        ate == head \in spread
    IN  /\ body'[p] # <<>>
        /\ body'[p] = <<head>> \o
                (IF ate THEN body[p] ELSE SubSeq(body[p], 1, Len(body[p]) - 1))
        /\ head \in Board /\ Beside(head, body[p][1])
        /\ head \notin (Taken \ Tails) \cup {body[p][2]}
        /\ score'[p] = IF ate THEN score[p] + 1 ELSE score[p]

\* Nobody dies without a cause: a wall, or a cell that was or gets taken.
Dies(p) ==
    /\ body'[p] = <<>>
    /\ \E d \in {-1, 1} : \E c \in {[body[p][1] EXCEPT !.x = @ + d], [body[p][1] EXCEPT !.y = @ + d]} :
          c # body[p][2] /\ (c \in Board => c \in Taken \cup TakenNext)
    /\ score'[p] = score[p]

Round ==
    /\ ~over
    /\ \E spread \in {foods} \cup {{c} : c \in IF foods = {} THEN Board \ Taken ELSE {}} :
          /\ \A p \in Living : Crawls(p, spread) \/ Dies(p)
          /\ Cardinality({p \in Players : score'[p] > score[p]}) <= Cardinality(spread)
          /\ spread \cap foods' = spread \ TakenNext
    /\ \A p \in Players \ Living : body'[p] = <<>> /\ score'[p] = score[p]
    /\ Scattered(TakenNext, foods')
    /\ over' = (Cardinality({p \in Players : body'[p] # <<>>}) <= 1)

Spec == Init /\ [][Round]_vars
=============================================================================
