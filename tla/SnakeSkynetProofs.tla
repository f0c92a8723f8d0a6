-------------------------- MODULE SnakeSkynetProofs --------------------------
(***************************************************************************)
(* The safety properties of SnakeSkynet, for any number of players, of     *)
(* rooms and of messages under way.                                        *)
(***************************************************************************)
EXTENDS SnakeSkynet, SequenceTheorems, FiniteSetTheorems, TLAPS

\* The calls and the messages that hold a seat for their player.
JoinCalls == {"join", "rejoin"}
SeatTypes == {"join", "rejoin", "on_leave_room"}

\* The positions of the seats of p, place by place.
InCalls(p, i) == i \in DOMAIN calls[p] /\ calls[p][i] \in JoinCalls
InGate(p, i) == i \in DOMAIN gate[p] /\ gate[p][i].type \in SeatTypes
InMatch(p, i) == i \in DOMAIN matchBox /\ matchBox[i] = [type |-> "add", player |-> p]
InQueue(p, i) == i \in DOMAIN queue /\ queue[i] = p
InBatch(p, i) == i \in DOMAIN batch /\ batch[i] = p
InRoom(p, r) == r \in Rooms /\ Active(r) /\ p \in members[r]

\* p has a seat at position (or in room) i of the place n.
Sits(p, n, i) ==
    \/ n = "calls" /\ InCalls(p, i)
    \/ n = "gate" /\ InGate(p, i)
    \/ n = "match" /\ InMatch(p, i)
    \/ n = "queue" /\ InQueue(p, i)
    \/ n = "batch" /\ InBatch(p, i)
    \/ n = "room" /\ InRoom(p, i)

Seated(p) == \E n, i : Sits(p, n, i)
Single(p) == \A n, m, i, j : Sits(p, n, i) /\ Sits(p, m, j) => n = m /\ i = j

\* A client that acknowledges once has one seat, and none before its
\* acknowledgement has been read.
OneSeat(p) ==
    /\ acks[p] <= 1 => Single(p)
    /\ inbox[p] = "ack" => acks[p] > 0
    /\ acks[p] = 0 \/ (acks[p] = 1 /\ inbox[p] = "ack") => ~Seated(p)

\* NobodyIsLost for one player, who may be known to nobody yet.
NotLost(p) ==
    /\ p \in mapped /\ acks[p] > 0 /\ inbox[p] # "ack" => Seated(p)
    /\ reader[p] = "new" =>
           p \notin mapped /\ roomOf[p] = NoRoom /\ (acks[p] > 0 => inbox[p] = "ack")

\* The rooms that have not been made have no status, and a batch is only held
\* for a room that is being made.
RoomsToCome ==
    /\ matching = "create" => nextRoom > 1
    /\ matching = "sleep" => batch = <<>>
    /\ \A r \in Rooms : r >= nextRoom \/ (matching = "create" /\ r = nextRoom - 1) => status[r] = "none"

\* The message m is at position i of the gateway's mailbox.
Mail(p, i, m) == i \in DOMAIN gate[p] /\ gate[p][i] = m

\* p plays in the room r.
Plays(p, r) == status[r] = "PLAYING" /\ p \in members[r]

\* Who is told of a room is a member of it while it plays, or is told later
\* to leave it.
JoinedThenLeaves(p) ==
    /\ \A i : ~Mail(p, i, Msg("on_join_room", NoRoom))
    /\ \A r \in Rooms : \A i : Mail(p, i, Msg("on_join_room", r)) =>
           Plays(p, r) \/ \E j : j > i /\ Mail(p, j, Msg("on_leave_room", r))

\* SessionKnowsRoom for one player.
Knows(p) ==
    acks[p] <= 1 /\ p \in mapped => \A r \in Rooms :
        /\ Plays(p, r) => roomOf[p] = r \/ \E i : Mail(p, i, Msg("on_join_room", r))
        /\ roomOf[p] = r => Plays(p, r) \/ \E i : Mail(p, i, Msg("on_leave_room", r))

IInv ==
    /\ TypeOK /\ RoomsToCome
    /\ \A p \in Players : OneSeat(p) /\ NotLost(p) /\ JoinedThenLeaves(p) /\ Knows(p)

-----------------------------------------------------------------------------
(* Sequences                                                               *)

LEMMA Appended ==
    ASSUME NEW S, NEW s \in Seq(S), NEW e \in S
    PROVE  /\ Append(s, e) \in Seq(S)
           /\ Len(s) \in Nat /\ DOMAIN s = 1..Len(s)
           /\ DOMAIN Append(s, e) = 1..(Len(s) + 1)
           /\ \A i \in 1..Len(s) : Append(s, e)[i] = s[i]
           /\ Append(s, e)[Len(s) + 1] = e
<1>1. Append(s, e) \in Seq(S) /\ Len(Append(s, e)) = Len(s) + 1
    BY AppendProperties
<1> QED
    BY <1>1, AppendProperties, LenProperties

LEMMA Tailed ==
    ASSUME NEW S, NEW s \in Seq(S), s # <<>>
    PROVE  /\ Tail(s) \in Seq(S) /\ Len(s) \in Nat /\ Len(s) > 0 /\ DOMAIN s = 1..Len(s)
           /\ DOMAIN Tail(s) = 1..(Len(s) - 1)
           /\ \A i \in 1..(Len(s) - 1) : Tail(s)[i] = s[i + 1]
           /\ Head(s) = s[1] /\ s[1] \in S
<1>1. Tail(s) \in Seq(S) /\ Len(Tail(s)) = Len(s) - 1
    BY HeadTailProperties
<1>2. \A i \in 1..Len(Tail(s)) : Tail(s)[i] = s[i + 1]
    BY HeadTailProperties
<1>3. Head(s) = s[1] /\ s[1] \in S
    BY HeadTailProperties
<1>4. Len(s) \in Nat /\ Len(s) > 0 /\ DOMAIN s = 1..Len(s)
    BY EmptySeq, LenProperties
<1> QED
    BY <1>1, <1>2, <1>3, <1>4, LenProperties

LEMMA Concatenated ==
    ASSUME NEW S, NEW s \in Seq(S), NEW t \in Seq(S)
    PROVE  /\ s \o t \in Seq(S)
           /\ Len(s) \in Nat /\ DOMAIN s = 1..Len(s) /\ Len(t) \in Nat /\ DOMAIN t = 1..Len(t)
           /\ DOMAIN (s \o t) = 1..(Len(s) + Len(t))
           /\ \A i \in 1..(Len(s) + Len(t)) : (s \o t)[i] = IF i <= Len(s) THEN s[i] ELSE t[i - Len(s)]
BY ConcatProperties, LenProperties

-----------------------------------------------------------------------------
(* The mailboxes and calls of a player                                     *)

CallTypes == {"join", "rejoin", "gone", "close"}
MatchMsgs == [type : {"add", "remove"}, player : Players]

LEMMA CallsGrow ==
    ASSUME TypeOK, NEW p \in Players, NEW e \in CallTypes, Call(p, e)
    PROVE  /\ calls' \in [Players -> Seq(CallTypes)]
           /\ ~InCalls(p, Len(calls[p]) + 1)
           /\ \A q \in Players : \A i :
                InCalls(q, i)' <=> InCalls(q, i) \/ (q = p /\ i = Len(calls[p]) + 1 /\ e \in JoinCalls)
<1> DEFINE s == calls[p]
<1>1. calls \in [Players -> Seq(CallTypes)] /\ s \in Seq(CallTypes)
    BY DEF TypeOK, CallTypes
<1>2. calls' = [calls EXCEPT ![p] = Append(s, e)]
    BY DEF Call
<1>3. /\ Append(s, e) \in Seq(CallTypes) /\ Len(s) \in Nat /\ DOMAIN s = 1..Len(s)
      /\ DOMAIN Append(s, e) = 1..(Len(s) + 1)
      /\ \A i \in 1..Len(s) : Append(s, e)[i] = s[i]
      /\ Append(s, e)[Len(s) + 1] = e
    BY <1>1, Appended
<1>4. \A q \in Players : calls'[q] = IF q = p THEN Append(s, e) ELSE calls[q]
    BY <1>1, <1>2
<1>5. calls' \in [Players -> Seq(CallTypes)]
    BY <1>1, <1>2, <1>3
<1>6. ~InCalls(p, Len(s) + 1)
    BY <1>3 DEF InCalls
<1>7. ASSUME NEW q \in Players, NEW i
      PROVE  InCalls(q, i)' <=> InCalls(q, i) \/ (q = p /\ i = Len(s) + 1 /\ e \in JoinCalls)
    <2>1. CASE q # p
        BY <1>4, <2>1 DEF InCalls
    <2>2. CASE q = p
        <3> DEFINE t == Append(s, e)
        <3>1. calls'[q] = t /\ calls[q] = s
            BY <1>4, <2>2
        <3>2. InCalls(q, i)' <=> i \in DOMAIN t /\ t[i] \in JoinCalls
            BY <3>1 DEF InCalls
        <3>3. InCalls(q, i) <=> i \in DOMAIN s /\ s[i] \in JoinCalls
            BY <3>1 DEF InCalls
        <3> HIDE DEF t, s
        <3> QED
            BY <1>3, <2>2, <3>2, <3>3 DEF t
    <2> QED
        BY <2>1, <2>2
<1> QED
    BY <1>5, <1>6, <1>7

LEMMA CallsShrink ==
    ASSUME TypeOK, NEW p \in Players, calls[p] # <<>>, calls' = [calls EXCEPT ![p] = Tail(@)]
    PROVE  /\ calls' \in [Players -> Seq(CallTypes)] /\ Head(calls[p]) \in CallTypes
           /\ InCalls(p, 1) <=> Head(calls[p]) \in JoinCalls
           /\ \A i : InCalls(p, i)' <=> i \in Nat \ {0} /\ InCalls(p, i + 1)
           /\ \A q \in Players \ {p} : \A i : InCalls(q, i)' <=> InCalls(q, i)
<1> DEFINE s == calls[p]
<1>1. calls \in [Players -> Seq(CallTypes)] /\ s \in Seq(CallTypes)
    BY DEF TypeOK, CallTypes
<1>2. /\ Tail(s) \in Seq(CallTypes) /\ Len(s) \in Nat /\ Len(s) > 0 /\ DOMAIN s = 1..Len(s)
      /\ DOMAIN Tail(s) = 1..(Len(s) - 1)
      /\ \A i \in 1..(Len(s) - 1) : Tail(s)[i] = s[i + 1]
      /\ Head(s) = s[1] /\ s[1] \in CallTypes
    BY <1>1, Tailed
<1>3. \A q \in Players : calls'[q] = IF q = p THEN Tail(s) ELSE calls[q]
    BY <1>1
<1>4. calls' \in [Players -> Seq(CallTypes)]
    BY <1>1, <1>2
<1>5. InCalls(p, 1) <=> Head(s) \in JoinCalls
    BY <1>2 DEF InCalls
<1>6. ASSUME NEW i PROVE InCalls(p, i)' <=> i \in Nat \ {0} /\ InCalls(p, i + 1)
    <2> DEFINE t == Tail(s)
    <2>1. InCalls(p, i)' <=> i \in DOMAIN t /\ t[i] \in JoinCalls
        BY <1>3 DEF InCalls
    <2>2. InCalls(p, i + 1) <=> i + 1 \in DOMAIN s /\ s[i + 1] \in JoinCalls
        BY DEF InCalls
    <2> HIDE DEF t, s
    <2> QED
        BY <1>2, <2>1, <2>2 DEF t
<1>7. \A q \in Players \ {p} : \A i : InCalls(q, i)' <=> InCalls(q, i)
    BY <1>3 DEF InCalls
<1> QED
    BY <1>2, <1>4, <1>5, <1>6, <1>7

LEMMA TwoInARow ==
    ASSUME NEW S, NEW a \in S, NEW b \in S
    PROVE  <<a>> \o <<b>> = <<a, b>>
<1> DEFINE u == <<a>> \o <<b>>
           v == <<a, b>>
<1>1. <<a>> \in Seq(S) /\ <<b>> \in Seq(S) /\ Len(<<a>>) = 1 /\ Len(<<b>>) = 1 /\ <<a>>[1] = a /\ <<b>>[1] = b
    OBVIOUS
<1>2. u \in Seq(S) /\ Len(u) = 2 /\ u[1] = a /\ u[2] = b
    BY <1>1, ConcatProperties
<1>3. v \in Seq(S) /\ Len(v) = 2 /\ v[1] = a /\ v[2] = b
    OBVIOUS
<1> HIDE DEF u, v
<1>4. \A i \in 1..Len(u) : u[i] = v[i]
    BY <1>2, <1>3
<1> QED
    BY <1>2, <1>3, <1>4, SeqEqual DEF u, v

\* The gateway's mailbox of every player, extended at its end.
LEMMA GateExtended ==
    ASSUME TypeOK, NEW ext \in [Players -> Seq(GateMsgs)],
           gate' = [q \in Players |-> gate[q] \o ext[q]]
    PROVE  /\ gate' \in [Players -> Seq(GateMsgs)]
           /\ \A q \in Players : \A i, m :
                Mail(q, i, m)' <=> \/ Mail(q, i, m)
                                   \/ \E k \in DOMAIN ext[q] : i = Len(gate[q]) + k /\ ext[q][k] = m
<1>1. gate \in [Players -> Seq(GateMsgs)]
    BY DEF TypeOK
<1>2. ASSUME NEW q \in Players PROVE
         /\ gate'[q] \in Seq(GateMsgs)
         /\ \A i, m : Mail(q, i, m)' <=> \/ Mail(q, i, m)
                                         \/ \E k \in DOMAIN ext[q] : i = Len(gate[q]) + k /\ ext[q][k] = m
    <2> DEFINE s == gate[q]
               t == ext[q]
               u == s \o t
    <2>1. s \in Seq(GateMsgs) /\ t \in Seq(GateMsgs) /\ gate'[q] = u
        BY <1>1
    <2>2. /\ u \in Seq(GateMsgs)
          /\ Len(s) \in Nat /\ DOMAIN s = 1..Len(s) /\ Len(t) \in Nat /\ DOMAIN t = 1..Len(t)
          /\ DOMAIN u = 1..(Len(s) + Len(t))
          /\ \A i \in 1..(Len(s) + Len(t)) : u[i] = IF i <= Len(s) THEN s[i] ELSE t[i - Len(s)]
        BY <2>1, Concatenated
    <2> HIDE DEF u
    <2>3. ASSUME NEW i, NEW m
          PROVE  (i \in DOMAIN u /\ u[i] = m) <=> \/ i \in DOMAIN s /\ s[i] = m
                                                  \/ \E k \in DOMAIN t : i = Len(s) + k /\ t[k] = m
        <3> HIDE DEF s, t
        <3>1. ASSUME i \in DOMAIN u, i \notin DOMAIN s PROVE i - Len(s) \in DOMAIN t /\ i = Len(s) + (i - Len(s)) /\ u[i] = t[i - Len(s)]
            BY <2>2, <3>1
        <3>2. ASSUME i \in DOMAIN s PROVE i \in DOMAIN u /\ u[i] = s[i] /\ \A k \in DOMAIN t : i # Len(s) + k
            BY <2>2, <3>2
        <3>3. ASSUME NEW k \in DOMAIN t, i = Len(s) + k PROVE i \in DOMAIN u /\ u[i] = t[k]
            <4>1. i \in 1..(Len(s) + Len(t)) /\ ~(i <= Len(s)) /\ i - Len(s) = k
                BY <2>2, <3>3
            <4> QED
                BY <2>2, <4>1
        <3> QED
            BY <3>1, <3>2, <3>3
    <2> QED
        BY <2>1, <2>2, <2>3 DEF Mail
<1> QED
    BY <1>2

LEMMA GateGrows ==
    ASSUME TypeOK, NEW p \in Players, NEW e \in GateMsgs, gate' = [gate EXCEPT ![p] = Append(@, e)]
    PROVE  /\ gate' \in [Players -> Seq(GateMsgs)] /\ Len(gate[p]) \in Nat
           /\ \A q \in Players : \A i, m :
                Mail(q, i, m)' <=> Mail(q, i, m) \/ (q = p /\ i = Len(gate[p]) + 1 /\ m = e)
<1> DEFINE ext == [q \in Players |-> IF q = p THEN <<e>> ELSE <<>>]
<1>1. gate \in [Players -> Seq(GateMsgs)]
    BY DEF TypeOK
<1>2. ext \in [Players -> Seq(GateMsgs)]
    OBVIOUS
<1>3. gate' = [q \in Players |-> gate[q] \o ext[q]]
    <2>1. Append(gate[p], e) = gate[p] \o <<e>>
        BY <1>1, AppendIsConcat
    <2>2. \A q \in Players : gate[q] \o <<>> = gate[q]
        BY <1>1, ConcatEmptySeq
    <2> QED
        BY <1>1, <2>1, <2>2
<1>4. DOMAIN ext[p] = {1} /\ ext[p][1] = e /\ \A q \in Players \ {p} : DOMAIN ext[q] = {}
    OBVIOUS
<1> HIDE DEF ext
<1>5. /\ gate' \in [Players -> Seq(GateMsgs)]
      /\ \A q \in Players : \A i, m :
           Mail(q, i, m)' <=> \/ Mail(q, i, m)
                              \/ \E k \in DOMAIN ext[q] : i = Len(gate[q]) + k /\ ext[q][k] = m
    BY <1>2, <1>3, GateExtended
<1>6. Len(gate[p]) \in Nat
    BY <1>1, LenProperties
<1>7. ASSUME NEW q \in Players, NEW i, NEW m
      PROVE  Mail(q, i, m)' <=> Mail(q, i, m) \/ (q = p /\ i = Len(gate[p]) + 1 /\ m = e)
    BY <1>4, <1>5
<1> QED
    BY <1>5, <1>6, <1>7

LEMMA GateShrinks ==
    ASSUME TypeOK, NEW p \in Players, NEW type, Takes(p, type)
    PROVE  /\ gate' \in [Players -> Seq(GateMsgs)]
           /\ Head(gate[p]) \in GateMsgs /\ Head(gate[p]).type = type
           /\ Mail(p, 1, Head(gate[p])) /\ \A m : Mail(p, 1, m) => m = Head(gate[p])
           /\ \A i, m : Mail(p, i, m)' <=> i \in Nat \ {0} /\ Mail(p, i + 1, m)
           /\ \A q \in Players \ {p} : \A i, m : Mail(q, i, m)' <=> Mail(q, i, m)
<1> DEFINE s == gate[p]
<1>1. gate \in [Players -> Seq(GateMsgs)] /\ s \in Seq(GateMsgs) /\ s # <<>> /\ Head(s).type = type
      /\ gate' = [gate EXCEPT ![p] = Tail(s)]
    BY DEF TypeOK, Takes
<1>2. /\ Tail(s) \in Seq(GateMsgs) /\ Len(s) \in Nat /\ Len(s) > 0 /\ DOMAIN s = 1..Len(s)
      /\ DOMAIN Tail(s) = 1..(Len(s) - 1)
      /\ \A i \in 1..(Len(s) - 1) : Tail(s)[i] = s[i + 1]
      /\ Head(s) = s[1] /\ s[1] \in GateMsgs
    BY <1>1, Tailed
<1>3. \A q \in Players : gate'[q] = IF q = p THEN Tail(s) ELSE gate[q]
    BY <1>1
<1>4. gate' \in [Players -> Seq(GateMsgs)]
    BY <1>1, <1>2
<1>5. Mail(p, 1, Head(s)) /\ \A m : Mail(p, 1, m) => m = Head(s)
    BY <1>2 DEF Mail
<1>6. ASSUME NEW i, NEW m PROVE Mail(p, i, m)' <=> i \in Nat \ {0} /\ Mail(p, i + 1, m)
    <2> DEFINE t == Tail(s)
    <2>1. Mail(p, i, m)' <=> i \in DOMAIN t /\ t[i] = m
        BY <1>3 DEF Mail
    <2>2. Mail(p, i + 1, m) <=> i + 1 \in DOMAIN s /\ s[i + 1] = m
        BY DEF Mail
    <2> HIDE DEF t, s
    <2> QED
        BY <1>2, <2>1, <2>2 DEF t
<1>7. \A q \in Players \ {p} : \A i, m : Mail(q, i, m)' <=> Mail(q, i, m)
    BY <1>3 DEF Mail
<1> QED
    BY <1>1, <1>2, <1>4, <1>5, <1>6, <1>7

LEMMA GateSeat ==
    ASSUME NEW p, NEW i
    PROVE  InGate(p, i) <=> \E m : Mail(p, i, m) /\ m.type \in SeatTypes
BY DEF InGate, Mail

-----------------------------------------------------------------------------
(* The mailbox of match_loop, its queue and its batch                      *)

AddMsg(p) == [type |-> "add", player |-> p]

LEMMA MatchGrows ==
    ASSUME TypeOK, NEW p \in Players, NEW type \in {"add", "remove"}, SendMatch(type, p)
    PROVE  /\ matchBox' \in Seq(MatchMsgs) /\ ~InMatch(p, Len(matchBox) + 1)
           /\ \A q \in Players : \A i :
                InMatch(q, i)' <=> \/ InMatch(q, i)
                                   \/ q = p /\ i = Len(matchBox) + 1 /\ type = "add"
<1> DEFINE e == [type |-> type, player |-> p]
           t == Append(matchBox, e)
<1>1. matchBox \in Seq(MatchMsgs) /\ e \in MatchMsgs /\ matchBox' = t
    BY DEF TypeOK, MatchMsgs, SendMatch
<1>2. \A q : e = AddMsg(q) <=> q = p /\ type = "add"
    BY DEF AddMsg
<1> HIDE DEF e
<1>3. /\ t \in Seq(MatchMsgs) /\ Len(matchBox) \in Nat /\ DOMAIN matchBox = 1..Len(matchBox)
      /\ DOMAIN t = 1..(Len(matchBox) + 1)
      /\ \A i \in 1..Len(matchBox) : t[i] = matchBox[i]
      /\ t[Len(matchBox) + 1] = e
    BY <1>1, Appended
<1> HIDE DEF t
<1>4. ASSUME NEW q \in Players, NEW i
      PROVE  InMatch(q, i)' <=> InMatch(q, i) \/ (q = p /\ i = Len(matchBox) + 1 /\ type = "add")
    <2>1. InMatch(q, i)' <=> i \in DOMAIN t /\ t[i] = AddMsg(q)
        BY <1>1 DEF InMatch, AddMsg
    <2>2. InMatch(q, i) <=> i \in DOMAIN matchBox /\ matchBox[i] = AddMsg(q)
        BY DEF InMatch, AddMsg
    <2> QED
        BY <1>2, <1>3, <2>1, <2>2
<1>5. ~InMatch(p, Len(matchBox) + 1)
    BY <1>3 DEF InMatch
<1> QED
    BY <1>1, <1>3, <1>4, <1>5

LEMMA MatchShrinks ==
    ASSUME TypeOK, matchBox # <<>>, matchBox' = Tail(matchBox)
    PROVE  /\ matchBox' \in Seq(MatchMsgs) /\ Head(matchBox) \in MatchMsgs
           /\ \A q : InMatch(q, 1) <=> Head(matchBox) = AddMsg(q)
           /\ \A q, i : InMatch(q, i)' <=> i \in Nat \ {0} /\ InMatch(q, i + 1)
<1> DEFINE t == Tail(matchBox)
<1>1. matchBox \in Seq(MatchMsgs)
    BY DEF TypeOK, MatchMsgs
<1>2. /\ t \in Seq(MatchMsgs) /\ Len(matchBox) \in Nat /\ Len(matchBox) > 0 /\ DOMAIN matchBox = 1..Len(matchBox)
      /\ DOMAIN t = 1..(Len(matchBox) - 1)
      /\ \A i \in 1..(Len(matchBox) - 1) : t[i] = matchBox[i + 1]
      /\ Head(matchBox) = matchBox[1] /\ matchBox[1] \in MatchMsgs
    BY <1>1, Tailed
<1> HIDE DEF t
<1>3. ASSUME NEW q, NEW i PROVE InMatch(q, i)' <=> i \in Nat \ {0} /\ InMatch(q, i + 1)
    <2>1. InMatch(q, i)' <=> i \in DOMAIN t /\ t[i] = AddMsg(q)
        BY DEF InMatch, AddMsg, t
    <2>2. InMatch(q, i + 1) <=> i + 1 \in DOMAIN matchBox /\ matchBox[i + 1] = AddMsg(q)
        BY DEF InMatch, AddMsg
    <2> QED
        BY <1>2, <2>1, <2>2
<1>4. \A q : InMatch(q, 1) <=> Head(matchBox) = AddMsg(q)
    BY <1>2 DEF InMatch, AddMsg
<1> QED
    BY <1>2, <1>3, <1>4 DEF t

LEMMA QueueGrows ==
    ASSUME TypeOK, NEW p \in Players, queue' = Enqueue(queue, p)
    PROVE  /\ queue' \in Seq(Players)
           /\ \E i : InQueue(p, i)'
           /\ \A q \in Players : \A i :
                /\ InQueue(q, i) => InQueue(q, i)'
                /\ InQueue(q, i)' => InQueue(q, i) \/ (q = p /\ i = Len(queue) + 1)
<1>1. queue \in Seq(Players)
    BY DEF TypeOK
<1>2. CASE p \in ToSet(queue)
    BY <1>1, <1>2 DEF Enqueue, ToSet, InQueue
<1>3. CASE p \notin ToSet(queue)
    <2> DEFINE t == Append(queue, p)
    <2>1. /\ t \in Seq(Players) /\ Len(queue) \in Nat /\ DOMAIN queue = 1..Len(queue)
          /\ DOMAIN t = 1..(Len(queue) + 1)
          /\ \A i \in 1..Len(queue) : t[i] = queue[i]
          /\ t[Len(queue) + 1] = p
        BY <1>1, Appended
    <2>2. queue' = t
        BY <1>3 DEF Enqueue
    <2> HIDE DEF t
    <2> QED
        BY <2>1, <2>2 DEF InQueue
<1> QED
    BY <1>2, <1>3

\* The first MatchSize players of the queue become the batch.
LEMMA QueueParts ==
    ASSUME TypeOK, MatchTake
    PROVE  /\ queue' \in Seq(Players) /\ batch' \in Seq(Players)
           /\ \A q \in Players : \A i :
                /\ InQueue(q, i)' => i \in Nat \ {0} /\ InQueue(q, i + MatchSize)
                /\ InBatch(q, i)' => i \in 1..MatchSize /\ InQueue(q, i)
                /\ InQueue(q, i) => InBatch(q, i)' \/ InQueue(q, i - MatchSize)'
<1>1. queue \in Seq(Players) /\ MatchSize \in Nat \ {0}
    BY SkynetAssumption DEF TypeOK
<1>2. /\ batch' = SubSeq(queue, 1, MatchSize) /\ queue' = SubSeq(queue, MatchSize + 1, Len(queue))
      /\ Len(queue) >= MatchSize
    BY DEF MatchTake, MatchReady, Rest
<1>3. Len(queue) \in Nat /\ DOMAIN queue = 1..Len(queue)
    BY <1>1, LenProperties
<1>4. /\ batch' \in Seq(Players) /\ DOMAIN batch' = 1..MatchSize
      /\ \A i \in 1..MatchSize : batch'[i] = queue[i]
    <2>1. /\ SubSeq(queue, 1, MatchSize) \in Seq(Players)
          /\ Len(SubSeq(queue, 1, MatchSize)) = MatchSize
          /\ \A i \in 1..MatchSize : SubSeq(queue, 1, MatchSize)[i] = queue[i]
        BY <1>1, <1>2, <1>3
    <2> QED
        BY <1>2, <2>1, LenProperties
<1>5. /\ queue' \in Seq(Players) /\ DOMAIN queue' = 1..(Len(queue) - MatchSize)
      /\ \A i \in 1..(Len(queue) - MatchSize) : queue'[i] = queue[i + MatchSize]
    <2>1. /\ SubSeq(queue, MatchSize + 1, Len(queue)) \in Seq(Players)
          /\ Len(SubSeq(queue, MatchSize + 1, Len(queue))) = Len(queue) - MatchSize
          /\ \A i \in 1..(Len(queue) - MatchSize) :
               SubSeq(queue, MatchSize + 1, Len(queue))[i] = queue[i + MatchSize]
        <3> DEFINE n == Len(queue)
                   t == SubSeq(queue, MatchSize + 1, n)
        <3>1. \A i \in (MatchSize + 1)..n : queue[i] \in Players
            BY <1>1, <1>2, <1>3, ElementOfSeq
        <3>2. (IF MatchSize + 1 <= n THEN n - (MatchSize + 1) + 1 ELSE 0) = n - MatchSize
            <4>1. n \in Nat /\ MatchSize \in Nat /\ n >= MatchSize
                BY <1>1, <1>2, <1>3
            <4> HIDE DEF n
            <4> QED
                BY <4>1
        <3>3. /\ t \in Seq(Players)
              /\ Len(t) = IF MatchSize + 1 <= n THEN n - (MatchSize + 1) + 1 ELSE 0
              /\ \A i \in 1..(n - (MatchSize + 1) + 1) : t[i] = queue[(MatchSize + 1) + i - 1]
            BY <1>1, <1>3, <3>1, SubSeqProperties
        <3>4. \A i \in 1..(n - MatchSize) : i \in 1..(n - (MatchSize + 1) + 1) /\ (MatchSize + 1) + i - 1 = i + MatchSize
            BY <1>1, <1>3
        <3> HIDE DEF t
        <3>5. Len(t) = n - MatchSize
            BY <3>2, <3>3
        <3>6. \A i \in 1..(n - MatchSize) : t[i] = queue[i + MatchSize]
            BY <3>3, <3>4
        <3> QED
            BY <3>3, <3>5, <3>6 DEF t
    <2> QED
        BY <1>2, <2>1, LenProperties
<1>6. ASSUME NEW q \in Players, NEW i
      PROVE  /\ InQueue(q, i)' => i \in Nat \ {0} /\ InQueue(q, i + MatchSize)
             /\ InBatch(q, i)' => i \in 1..MatchSize /\ InQueue(q, i)
             /\ InQueue(q, i) => InBatch(q, i)' \/ InQueue(q, i - MatchSize)'
    <2>1. ASSUME InQueue(q, i)' PROVE i \in Nat \ {0} /\ InQueue(q, i + MatchSize)
        BY <1>1, <1>3, <1>5, <2>1 DEF InQueue
    <2>2. ASSUME InBatch(q, i)' PROVE i \in 1..MatchSize /\ InQueue(q, i)
        BY <1>1, <1>2, <1>3, <1>4, <2>2 DEF InQueue, InBatch
    <2>3. ASSUME InQueue(q, i), i <= MatchSize PROVE InBatch(q, i)'
        BY <1>1, <1>3, <1>4, <2>3 DEF InQueue, InBatch
    <2>4. ASSUME InQueue(q, i), i > MatchSize PROVE InQueue(q, i - MatchSize)'
        <3>1. i \in 1..Len(queue)
            BY <1>3, <2>4 DEF InQueue
        <3>2. i - MatchSize \in 1..(Len(queue) - MatchSize) /\ (i - MatchSize) + MatchSize = i
            BY <1>1, <1>3, <2>4, <3>1
        <3> QED
            BY <1>5, <2>4, <3>2 DEF InQueue
    <2>5. InQueue(q, i) => i <= MatchSize \/ i > MatchSize
        BY <1>1, <1>3 DEF InQueue
    <2> QED
        BY <2>1, <2>2, <2>3, <2>4, <2>5
<1> QED
    BY <1>4, <1>5, <1>6

-----------------------------------------------------------------------------
(* What the rooms tell their members                                       *)

LEMMA FirstMail ==
    ASSUME TypeOK, NEW r \in Rooms, RoomInit(r)
    PROVE  /\ gate' \in [Players -> Seq(GateMsgs)]
           /\ \A q \in Players : Len(gate[q]) \in Nat
           /\ \A q \in Players : \A i, m :
                Mail(q, i, m)' <=> \/ Mail(q, i, m)
                                   \/ /\ q \in members[r]
                                      /\ \/ i = Len(gate[q]) + 1 /\ m = Msg("on_join_room", r)
                                         \/ i = Len(gate[q]) + 2 /\ m = Msg("push_to_client", r)
<1> DEFINE first == <<Msg("on_join_room", r), Msg("push_to_client", r)>>
           ext == [q \in Players |-> IF q \in members[r] THEN first ELSE <<>>]
<1>1. gate \in [Players -> Seq(GateMsgs)] /\ \A q \in Players : Len(gate[q]) \in Nat
    BY LenProperties DEF TypeOK
<1>2. Msg("on_join_room", r) \in GateMsgs /\ Msg("push_to_client", r) \in GateMsgs
    BY DEF Msg, GateMsgs
<1>3. first \in Seq(GateMsgs) /\ DOMAIN first = {1, 2}
      /\ first[1] = Msg("on_join_room", r) /\ first[2] = Msg("push_to_client", r)
    BY <1>2
<1> HIDE DEF first
<1>4. ext \in [Players -> Seq(GateMsgs)]
    BY <1>3
<1>5. gate' = [q \in Players |-> gate[q] \o ext[q]]
    <2>1. gate' = [q \in Players |-> IF q \in members[r] THEN gate[q] \o first ELSE gate[q]]
        BY DEF RoomInit, first
    <2>2. \A q \in Players : gate[q] \o <<>> = gate[q]
        BY <1>1, ConcatEmptySeq
    <2> QED
        BY <2>1, <2>2
<1>6. \A q \in Players : ext[q] = IF q \in members[r] THEN first ELSE <<>>
    OBVIOUS
<1> HIDE DEF ext
<1>7. /\ gate' \in [Players -> Seq(GateMsgs)]
      /\ \A q \in Players : \A i, m :
           Mail(q, i, m)' <=> \/ Mail(q, i, m)
                              \/ \E k \in DOMAIN ext[q] : i = Len(gate[q]) + k /\ ext[q][k] = m
    BY <1>4, <1>5, GateExtended
<1>8. ASSUME NEW q \in Players, NEW i, NEW m
      PROVE  Mail(q, i, m)' <=> \/ Mail(q, i, m)
                                \/ /\ q \in members[r]
                                   /\ \/ i = Len(gate[q]) + 1 /\ m = Msg("on_join_room", r)
                                      \/ i = Len(gate[q]) + 2 /\ m = Msg("push_to_client", r)
    <2>1. (\E k \in DOMAIN ext[q] : i = Len(gate[q]) + k /\ ext[q][k] = m)
          <=> /\ q \in members[r]
              /\ \/ i = Len(gate[q]) + 1 /\ m = Msg("on_join_room", r)
                 \/ i = Len(gate[q]) + 2 /\ m = Msg("push_to_client", r)
        BY <1>3, <1>6
    <2> QED
        BY <1>7, <2>1
<1> QED
    BY <1>1, <1>7, <1>8, Zenon

LEMMA LastMail ==
    ASSUME TypeOK, NEW r \in Rooms, GameLoop(r)
    PROVE  /\ gate' \in [Players -> Seq(GateMsgs)]
           /\ \A q \in Players : Len(gate[q]) \in Nat
           /\ alive' \in [Rooms -> SUBSET Players] /\ turned' \in [Rooms -> SUBSET Players]
           /\ roomBox' \in [Rooms -> Seq(Players)]
           /\ \E over \in BOOLEAN :
                /\ status' = [status EXCEPT ![r] = IF over THEN "exited" ELSE @]
                /\ \A q \in Players : \A i, m :
                     Mail(q, i, m)' <=> \/ Mail(q, i, m)
                                        \/ /\ q \in members[r]
                                           /\ \/ i = Len(gate[q]) + 1 /\ m = Msg("push_to_client", r)
                                              \/ over /\ i = Len(gate[q]) + 2 /\ m = Msg("on_leave_room", r)
<1>1. PICK dead \in SUBSET alive[r] :
        LET left == alive[r] \ dead
            over == Cardinality(left) <= 1
            leaving == IF over THEN Leaving(r, left) ELSE {}
            state == <<Msg("push_to_client", r)>>
        IN  /\ gate' = [p \in Players |-> gate[p]
                          \o (IF p \in members[r] THEN state ELSE <<>>)
                          \o (IF p \in leaving THEN <<Msg("on_leave_room", r)>> ELSE <<>>)]
            /\ alive' = [alive EXCEPT ![r] = left]
            /\ status' = [status EXCEPT ![r] = IF over THEN "exited" ELSE @]
            /\ roomBox' = [roomBox EXCEPT ![r] = IF over THEN <<>> ELSE @]
            /\ turned' = [turned EXCEPT ![r] = {}]
    BY DEF GameLoop
<1> DEFINE left == alive[r] \ dead
           over == Cardinality(left) <= 1
           push == Msg("push_to_client", r)
           leave == Msg("on_leave_room", r)
           more == IF over THEN <<push, leave>> ELSE <<push>>
           ext == [q \in Players |-> IF q \in members[r] THEN more ELSE <<>>]
<1>2. gate \in [Players -> Seq(GateMsgs)] /\ \A q \in Players : Len(gate[q]) \in Nat
    BY LenProperties DEF TypeOK
<1>3. push \in GateMsgs /\ leave \in GateMsgs
    BY DEF Msg, GateMsgs
<1>4. /\ gate' = [p \in Players |-> gate[p]
                    \o (IF p \in members[r] THEN <<push>> ELSE <<>>)
                    \o (IF p \in (IF over THEN members[r] ELSE {}) THEN <<leave>> ELSE <<>>)]
      /\ alive' = [alive EXCEPT ![r] = left]
      /\ status' = [status EXCEPT ![r] = IF over THEN "exited" ELSE @]
      /\ roomBox' = [roomBox EXCEPT ![r] = IF over THEN <<>> ELSE @]
      /\ turned' = [turned EXCEPT ![r] = {}]
    BY <1>1 DEF Leaving
<1> HIDE DEF over, push, leave
<1>5. /\ more \in Seq(GateMsgs)
      /\ DOMAIN more = IF over THEN {1, 2} ELSE {1}
      /\ more[1] = push /\ (over => more[2] = leave)
    BY <1>3
<1>6. gate' = [q \in Players |-> gate[q] \o ext[q]]
    <2>1. ASSUME NEW s \in Seq(GateMsgs)
          PROVE  /\ (s \o <<push>>) \o <<leave>> = s \o <<push, leave>>
                 /\ s \o <<>> = s /\ (s \o <<push>>) \o <<>> = s \o <<push>>
        <3>1. (s \o <<push>>) \o <<leave>> = s \o (<<push>> \o <<leave>>)
            BY <1>3, ConcatAssociative
        <3>2. <<push>> \o <<leave>> = <<push, leave>>
            BY <1>3, TwoInARow
        <3>3. s \o <<push>> \in Seq(GateMsgs)
            BY <1>3, ConcatProperties
        <3> QED
            BY <3>1, <3>2, <3>3, ConcatEmptySeq
    <2>2. ASSUME NEW q \in Players
          PROVE  gate[q] \o (IF q \in members[r] THEN <<push>> ELSE <<>>)
                    \o (IF q \in (IF over THEN members[r] ELSE {}) THEN <<leave>> ELSE <<>>)
                 = gate[q] \o ext[q]
        <3>0. gate[q] \in Seq(GateMsgs)
            BY <1>2
        <3>1. CASE q \in members[r] /\ over
            BY <3>0, <3>1, <2>1
        <3>2. CASE q \in members[r] /\ ~over
            BY <3>0, <3>2, <2>1
        <3>3. CASE q \notin members[r]
            BY <3>0, <3>3, <2>1
        <3> QED
            BY <3>1, <3>2, <3>3
    <2> QED
        BY <1>4, <2>2
<1> HIDE DEF more
<1>7. ext \in [Players -> Seq(GateMsgs)] /\ \A q \in Players : ext[q] = IF q \in members[r] THEN more ELSE <<>>
    BY <1>5
<1> HIDE DEF ext
<1>8. /\ gate' \in [Players -> Seq(GateMsgs)]
      /\ \A q \in Players : \A i, m :
           Mail(q, i, m)' <=> \/ Mail(q, i, m)
                              \/ \E k \in DOMAIN ext[q] : i = Len(gate[q]) + k /\ ext[q][k] = m
    BY <1>6, <1>7, GateExtended
<1>9. ASSUME NEW q \in Players, NEW i, NEW m
      PROVE  Mail(q, i, m)' <=> \/ Mail(q, i, m)
                                \/ /\ q \in members[r]
                                   /\ \/ i = Len(gate[q]) + 1 /\ m = push
                                      \/ over /\ i = Len(gate[q]) + 2 /\ m = leave
    <2>1. (\E k \in DOMAIN ext[q] : i = Len(gate[q]) + k /\ ext[q][k] = m)
          <=> /\ q \in members[r]
              /\ \/ i = Len(gate[q]) + 1 /\ m = push
                 \/ over /\ i = Len(gate[q]) + 2 /\ m = leave
        BY <1>5, <1>7
    <2> QED
        BY <1>8, <2>1
<1>10. /\ alive' \in [Rooms -> SUBSET Players] /\ turned' \in [Rooms -> SUBSET Players]
       /\ roomBox' \in [Rooms -> Seq(Players)]
    BY <1>4 DEF TypeOK
<1>11. over \in BOOLEAN
    BY DEF over
<1> QED
    BY <1>2, <1>4, <1>8, <1>9, <1>10, <1>11, Zenon DEF push, leave

-----------------------------------------------------------------------------
(* Types                                                                   *)

Bounds == MatchSize \in Nat \ {0} /\ MaxRooms \in Nat /\ MaxAcks \in Nat /\ MaxSent \in Nat

LEMMA ConstantsBound == Bounds
BY SkynetAssumption DEF Bounds

LEMMA ClientTypes == ASSUME TypeOK, NEW p \in Players, Client(p) PROVE TypeOK'
<1> USE ConstantsBound DEF Bounds
<1>1. CASE Connect(p)
    BY <1>1 DEF Connect, TypeOK, gateway, matcher, room
<1>2. CASE ClientAck(p)
    BY <1>2 DEF ClientAck, TypeOK, gateway, matcher, room
<1>3. CASE ClientSend(p)
    BY <1>3 DEF ClientSend, TypeOK, gateway, matcher, room
<1>4. CASE ClientLeave(p)
    BY <1>4 DEF ClientLeave, TypeOK, gateway, matcher, room
<1> QED
    BY <1>1, <1>2, <1>3, <1>4 DEF Client

LEMMA ReaderTypes == ASSUME TypeOK, NEW p \in Players, Reader(p) PROVE TypeOK'
<1>1. CASE Start(p)
    BY <1>1 DEF Start, TypeOK, client, matcher, room
<1>2. CASE HandshakeAck(p)
    <2>1. calls' \in [Players -> Seq(CallTypes)]
        BY <1>2, CallsGrow DEF HandshakeAck, CallTypes
    <2> QED
        BY <1>2, <2>1 DEF HandshakeAck, Reads, TypeOK, matcher, room, CallTypes
<1>3. CASE Kick(p)
    <2>1. calls' \in [Players -> Seq(CallTypes)]
        BY <1>3, CallsGrow DEF Kick, CallTypes
    <2> QED
        BY <1>3, <2>1 DEF Kick, Reads, TypeOK, matcher, room, CallTypes
<1>4. CASE MoveHandler(p)
    <2>1. roomBox' \in [Rooms -> Seq(Players)]
        <3> DEFINE r == roomOf[p]
        <3>1. r \in Rooms \union {NoRoom} /\ roomBox \in [Rooms -> Seq(Players)]
            BY DEF TypeOK
        <3>2. \/ UNCHANGED roomBox
              \/ r # NoRoom /\ roomBox' = [roomBox EXCEPT ![r] = Append(@, p)]
            BY <1>4 DEF MoveHandler
        <3>3. ASSUME r # NoRoom PROVE Append(roomBox[r], p) \in Seq(Players)
            BY <3>1, <3>3, Appended
        <3> HIDE DEF r
        <3> QED
            BY <3>1, <3>2, <3>3
    <2>2. inbox' \in [Players -> {"none", "ack", "object", "text", "kick"}] /\ UNCHANGED <<socket, acks, sent>>
        BY <1>4 DEF MoveHandler, Reads, TypeOK
    <2> QED
        BY <1>4, <2>1, <2>2 DEF MoveHandler, TypeOK, gateway, matcher
<1>5. CASE ReadFails(p)
    <2>1. calls' \in [Players -> Seq(CallTypes)]
        BY <1>5, CallsGrow DEF ReadFails, CallTypes
    <2> QED
        BY <1>5, <2>1 DEF ReadFails, TypeOK, client, matcher, room, CallTypes
<1> QED
    BY <1>1, <1>2, <1>3, <1>4, <1>5 DEF Reader

LEMMA ReplyTypes == ASSUME TypeOK, NEW p \in Players, ServiceReplies(p) PROVE TypeOK'
<1>1. calls' \in [Players -> Seq(CallTypes)] /\ Head(calls[p]) \in CallTypes
    BY CallsShrink DEF ServiceReplies
<1>2. Msg(Head(calls[p]), NoRoom) \in GateMsgs
    BY <1>1 DEF CallTypes, Msg, GateMsgs
<1>3. gate' \in [Players -> Seq(GateMsgs)]
    BY <1>2, GateGrows DEF ServiceReplies
<1> QED
    BY <1>1, <1>3 DEF ServiceReplies, TypeOK, client, matcher, room, CallTypes

LEMMA GatewayTypes == ASSUME TypeOK, NEW p \in Players, Gateway(p) PROVE TypeOK'
<1>1. gate' \in [Players -> Seq(GateMsgs)] /\ Head(gate[p]) \in GateMsgs
    BY GateShrinks DEF Gateway, Joins, Gone, CloseCallback, OnJoinRoom, OnLeaveRoom, PushToClient
<1>2. matchBox' \in Seq(MatchMsgs)
    <2>1. matchBox \in Seq(MatchMsgs)
        BY DEF TypeOK, MatchMsgs
    <2> QED
        BY <2>1, MatchGrows
        DEF Gateway, Joins, Gone, CloseCallback, OnJoinRoom, OnLeaveRoom, PushToClient, matcher
<1>3. calls' \in [Players -> Seq(CallTypes)]
    <2>1. calls \in [Players -> Seq(CallTypes)]
        BY DEF TypeOK, CallTypes
    <2>2. \A e \in {"close", "rejoin"} : Call(p, e) => calls' \in [Players -> Seq(CallTypes)]
        BY CallsGrow DEF CallTypes
    <2> QED
        BY <2>1, <2>2 DEF Gateway, Joins, Gone, CloseCallback, OnJoinRoom, OnLeaveRoom, PushToClient
<1> USE <1>1, <1>2, <1>3 DEF TypeOK, CallTypes, MatchMsgs, client, matcher, room
<1>4. CASE Joins(p)
    BY <1>4 DEF Joins
<1>5. CASE Gone(p)
    BY <1>5 DEF Gone
<1>6. CASE CloseCallback(p)
    BY <1>6 DEF CloseCallback
<1>7. CASE OnJoinRoom(p)
    <2>1. Head(gate[p]).room \in Rooms \union {NoRoom}
        BY <1>1 DEF GateMsgs
    <2> QED
        BY <1>7, <2>1 DEF OnJoinRoom
<1>8. CASE OnLeaveRoom(p)
    BY <1>8 DEF OnLeaveRoom, NoRoom
<1>9. CASE PushToClient(p)
    BY <1>9 DEF PushToClient
<1> QED
    BY <1>4, <1>5, <1>6, <1>7, <1>8, <1>9 DEF Gateway

LEMMA MatcherTypes == ASSUME TypeOK, RoomsToCome, AddPlayerToQueue \/ RemovePlayer \/ MatchLoop PROVE TypeOK'
<1> USE DEF client, gateway, room
<1>1. CASE AddPlayerToQueue
    <2>1. matchBox' \in Seq(MatchMsgs) /\ Head(matchBox).player \in Players
        BY <1>1, MatchShrinks DEF AddPlayerToQueue, MatchMsgs
    <2>2. queue' \in Seq(Players)
        BY <1>1, <2>1, QueueGrows DEF AddPlayerToQueue
    <2> QED
        BY <1>1, <2>1, <2>2 DEF AddPlayerToQueue, TypeOK, MatchMsgs
<1>2. CASE RemovePlayer
    BY <1>2, MatchShrinks DEF RemovePlayer, TypeOK, MatchMsgs
<1>3. CASE MatchTake
    <2>1. queue' \in Seq(Players) /\ batch' \in Seq(Players)
        BY <1>3, QueueParts
    <2>2. known' \subseteq Players
        <3>1. known' = known \union ToSet(batch')
            BY <1>3 DEF MatchTake
        <3>2. ToSet(batch') \subseteq Players
            BY <2>1 DEF ToSet
        <3> QED
            BY <3>1, <3>2 DEF TypeOK
    <2>3. nextRoom' \in 1..(MaxRooms + 1)
        BY <1>3, ConstantsBound DEF MatchTake, TypeOK, Bounds
    <2> QED
        BY <1>3, <2>1, <2>2, <2>3 DEF MatchTake, TypeOK
<1>4. CASE MatchCreate
    <2>1. ToSet(batch) \subseteq Players
        BY DEF TypeOK, ToSet
    <2>2. nextRoom - 1 \in Rooms
        BY <1>4, ConstantsBound DEF MatchCreate, RoomsToCome, TypeOK, Rooms, Bounds
    <2>3. <<>> \in Seq(Players)
        OBVIOUS
    <2> QED
        BY <1>4, <2>1, <2>2, <2>3 DEF MatchCreate, TypeOK
<1> QED
    BY <1>1, <1>2, <1>3, <1>4 DEF MatchLoop

LEMMA RoomTypes == ASSUME TypeOK, NEW r \in Rooms, Room(r) PROVE TypeOK'
<1> USE DEF client, gateway, matcher
<1>1. CASE RoomInit(r)
    BY <1>1, FirstMail DEF RoomInit, TypeOK
<1>2. CASE GameLoop(r)
    <2>1. status' \in [Rooms -> {"none", "init", "PLAYING", "exited"}]
        BY <1>2, LastMail DEF TypeOK
    <2> QED
        BY <1>2, <2>1, LastMail DEF GameLoop, TypeOK
<1>3. CASE HandlePlayerMove(r)
    <2> DEFINE s == roomBox[r]
    <2>1. s \in Seq(Players) /\ s # <<>>
        BY <1>3 DEF HandlePlayerMove, TypeOK
    <2>2. Tail(s) \in Seq(Players) /\ Head(s) \in Players
        BY <2>1, HeadTailProperties
    <2>3. roomBox' = [roomBox EXCEPT ![r] = Tail(s)]
          /\ turned' = IF Head(s) \in members[r] THEN [turned EXCEPT ![r] = @ \union {Head(s)}] ELSE turned
        BY <1>3 DEF HandlePlayerMove
    <2> HIDE DEF s
    <2>4. roomBox' \in [Rooms -> Seq(Players)] /\ turned' \in [Rooms -> SUBSET Players]
        BY <2>2, <2>3 DEF TypeOK
    <2> QED
        BY <1>3, <2>4 DEF HandlePlayerMove, TypeOK
<1> QED
    BY <1>1, <1>2, <1>3 DEF Room

LEMMA NextTypes == ASSUME TypeOK, RoomsToCome, [Next]_vars PROVE TypeOK'
<1>1. CASE UNCHANGED vars
    BY <1>1 DEF vars, client, gateway, matcher, room, TypeOK
<1>2. CASE Next
    BY <1>2, ClientTypes, ReaderTypes, ReplyTypes, GatewayTypes, MatcherTypes, RoomTypes DEF Next
<1> QED
    BY <1>1, <1>2

LEMMA RoomsAreMadeInOrder == ASSUME TypeOK, RoomsToCome, [Next]_vars PROVE RoomsToCome'
<1>1. CASE UNCHANGED <<matching, batch, nextRoom, status>>
    BY <1>1 DEF RoomsToCome
<1>2. CASE MatchTake
    BY <1>2 DEF MatchTake, RoomsToCome, TypeOK, room, Rooms
<1>3. CASE MatchCreate
    <2>1. matching = "create" /\ matching' = "sleep" /\ batch' = <<>> /\ nextRoom' = nextRoom
          /\ status' = [status EXCEPT ![nextRoom - 1] = "init"]
        BY <1>3 DEF MatchCreate
    <2>2. nextRoom \in Nat
        BY DEF TypeOK
    <2>3. ASSUME NEW r \in Rooms, r >= nextRoom PROVE status'[r] = "none"
        <3>1. r # nextRoom - 1
            BY <2>2, <2>3 DEF Rooms
        <3> QED
            BY <2>1, <2>3, <3>1 DEF RoomsToCome, TypeOK
    <2> QED
        BY <2>1, <2>3 DEF RoomsToCome
<1>4. ASSUME NEW r \in Rooms, RoomInit(r) \/ GameLoop(r) PROVE RoomsToCome'
    <2>1. status[r] # "none" /\ UNCHANGED matcher
        BY <1>4 DEF RoomInit, GameLoop
    <2>2. \A s \in Rooms \ {r} : status'[s] = status[s]
        <3>1. CASE RoomInit(r)
            BY <3>1 DEF RoomInit, TypeOK
        <3>2. CASE GameLoop(r)
            BY <3>2, LastMail DEF TypeOK
        <3> QED
            BY <1>4, <3>1, <3>2
    <2> QED
        BY <2>1, <2>2 DEF RoomsToCome, matcher
<1>5. ASSUME NEW r \in Rooms, HandlePlayerMove(r) PROVE RoomsToCome'
    BY <1>1, <1>5 DEF HandlePlayerMove, matcher
<1>6. CASE AddPlayerToQueue \/ RemovePlayer
    BY <1>1, <1>6 DEF AddPlayerToQueue, RemovePlayer, room
<1>7. ASSUME NEW p \in Players, Client(p) \/ Reader(p) \/ ServiceReplies(p) \/ Gateway(p) PROVE RoomsToCome'
    BY <1>1, <1>7 DEF Client, Connect, ClientAck, ClientSend, ClientLeave,
       Reader, Start, HandshakeAck, Kick, MoveHandler, ReadFails, ServiceReplies,
       Gateway, Joins, Gone, CloseCallback, OnJoinRoom, OnLeaveRoom, PushToClient, matcher, room
<1> QED
    BY <1>1, <1>2, <1>3, <1>4, <1>5, <1>6, <1>7 DEF Next, MatchLoop, Room, vars, matcher, room

-----------------------------------------------------------------------------
(* Seats: every step but the one that reads an acknowledgement keeps the   *)
(* seat of a player, or moves it.                                          *)

Keeps(q) ==
    /\ Single(q) => Single(q)'
    /\ Seated(q)' => Seated(q)
    /\ q \in mapped' /\ Seated(q) => Seated(q)'

\* Seats and their places, written out.
LEMMA SeatPlaces ==
    ASSUME NEW q \in Players
    PROVE  /\ \A i : Sits(q, "calls", i) <=> InCalls(q, i)
           /\ \A i : Sits(q, "gate", i) <=> InGate(q, i)
           /\ \A i : Sits(q, "match", i) <=> InMatch(q, i)
           /\ \A i : Sits(q, "queue", i) <=> InQueue(q, i)
           /\ \A i : Sits(q, "batch", i) <=> InBatch(q, i)
           /\ \A i : Sits(q, "room", i) <=> InRoom(q, i)
           /\ \A n, i : Sits(q, n, i) => n \in {"calls", "gate", "match", "queue", "batch", "room"}
BY DEF Sits

LEMMA SeatPlacesNext ==
    ASSUME NEW q \in Players
    PROVE  /\ \A i : Sits(q, "calls", i)' <=> InCalls(q, i)'
           /\ \A i : Sits(q, "gate", i)' <=> InGate(q, i)'
           /\ \A i : Sits(q, "match", i)' <=> InMatch(q, i)'
           /\ \A i : Sits(q, "queue", i)' <=> InQueue(q, i)'
           /\ \A i : Sits(q, "batch", i)' <=> InBatch(q, i)'
           /\ \A i : Sits(q, "room", i)' <=> InRoom(q, i)'
           /\ \A n, i : Sits(q, n, i)' => n \in {"calls", "gate", "match", "queue", "batch", "room"}
BY DEF Sits

LEMMA Positions ==
    ASSUME TypeOK, NEW q \in Players
    PROVE  /\ \A i : InCalls(q, i) => i \in Nat \ {0} /\ i <= Len(calls[q])
           /\ \A i, m : Mail(q, i, m) => i \in Nat \ {0} /\ i <= Len(gate[q]) /\ m \in GateMsgs
           /\ \A i : InGate(q, i) => i \in Nat \ {0} /\ i <= Len(gate[q])
           /\ \A i : InMatch(q, i) => i \in Nat \ {0} /\ i <= Len(matchBox)
           /\ \A i : InQueue(q, i) => i \in Nat \ {0} /\ i <= Len(queue)
           /\ \A i : InBatch(q, i) => i \in Nat \ {0} /\ i <= Len(batch)
           /\ Len(calls[q]) \in Nat /\ Len(gate[q]) \in Nat /\ Len(matchBox) \in Nat
           /\ Len(queue) \in Nat /\ Len(batch) \in Nat
<1>1. /\ calls[q] \in Seq(CallTypes) /\ gate[q] \in Seq(GateMsgs) /\ matchBox \in Seq(MatchMsgs)
      /\ queue \in Seq(Players) /\ batch \in Seq(Players)
    BY DEF TypeOK, CallTypes, MatchMsgs
<1>2. /\ DOMAIN calls[q] = 1..Len(calls[q]) /\ DOMAIN gate[q] = 1..Len(gate[q])
      /\ DOMAIN matchBox = 1..Len(matchBox) /\ DOMAIN queue = 1..Len(queue) /\ DOMAIN batch = 1..Len(batch)
      /\ Len(calls[q]) \in Nat /\ Len(gate[q]) \in Nat /\ Len(matchBox) \in Nat
      /\ Len(queue) \in Nat /\ Len(batch) \in Nat
    BY <1>1, LenProperties
<1>3. \A i \in DOMAIN gate[q] : gate[q][i] \in GateMsgs
    BY <1>1, <1>2, ElementOfSeq
<1> QED
    BY <1>2, <1>3 DEF InCalls, Mail, InGate, InMatch, InQueue, InBatch

LEMMA SameSeats ==
    ASSUME NEW q \in Players, \A n, i : Sits(q, n, i)' <=> Sits(q, n, i)
    PROVE  Keeps(q)
BY DEF Keeps, Single, Seated

LEMMA SamePlaces ==
    ASSUME NEW q \in Players,
           \A i : /\ InCalls(q, i)' <=> InCalls(q, i)
                  /\ InGate(q, i)' <=> InGate(q, i)
                  /\ InMatch(q, i)' <=> InMatch(q, i)
                  /\ InQueue(q, i)' <=> InQueue(q, i)
                  /\ InBatch(q, i)' <=> InBatch(q, i)
                  /\ InRoom(q, i)' <=> InRoom(q, i)
    PROVE  Keeps(q)
<1>1. \A n, i : Sits(q, n, i)' <=> Sits(q, n, i)
    BY DEF Sits
<1> QED
    BY <1>1, SameSeats

LEMMA RoomSeatsStay ==
    ASSUME UNCHANGED <<status, members>>
    PROVE  \A q, i : InRoom(q, i)' <=> InRoom(q, i)
BY DEF InRoom, Active

LEMMA MatcherSeatsStay ==
    ASSUME UNCHANGED <<queue, batch>>
    PROVE  \A q, i : (InQueue(q, i)' <=> InQueue(q, i)) /\ (InBatch(q, i)' <=> InBatch(q, i))
BY DEF InQueue, InBatch

LEMMA CallsStay == ASSUME UNCHANGED calls PROVE \A q, i : InCalls(q, i)' <=> InCalls(q, i)
BY DEF InCalls

LEMMA GateStays == ASSUME UNCHANGED gate PROVE \A q, i : InGate(q, i)' <=> InGate(q, i)
BY DEF InGate

LEMMA MatchStays == ASSUME UNCHANGED matchBox PROVE \A q, i : InMatch(q, i)' <=> InMatch(q, i)
BY DEF InMatch

\* The first message of a gateway's mailbox is taken.
LEMMA GateSeatTaken ==
    ASSUME TypeOK, NEW p \in Players, NEW type, Takes(p, type)
    PROVE  /\ InGate(p, 1) <=> type \in SeatTypes
           /\ \A i : InGate(p, i)' <=> i \in Nat \ {0} /\ InGate(p, i + 1)
           /\ \A q \in Players \ {p} : \A i : InGate(q, i)' <=> InGate(q, i)
<1>1. \A q, i : InGate(q, i) <=> \E m : Mail(q, i, m) /\ m.type \in SeatTypes
    BY GateSeat
<1>2. \A q, i : InGate(q, i)' <=> \E m : Mail(q, i, m)' /\ m.type \in SeatTypes
    BY DEF InGate, Mail
<1>3. /\ Head(gate[p]).type = type
      /\ Mail(p, 1, Head(gate[p])) /\ \A m : Mail(p, 1, m) => m = Head(gate[p])
      /\ \A i, m : Mail(p, i, m)' <=> i \in Nat \ {0} /\ Mail(p, i + 1, m)
      /\ \A q \in Players \ {p} : \A i, m : Mail(q, i, m)' <=> Mail(q, i, m)
    BY GateShrinks
<1> QED
    BY <1>1, <1>2, <1>3

LEMMA UnseatedMail ==
    ASSUME TypeOK, NEW p \in Players, NEW type, Takes(p, type), type \notin SeatTypes
    PROVE  /\ ~InGate(p, 1)
           /\ \A i : InGate(p, i)' <=> i \in Nat \ {0} /\ InGate(p, i + 1)
           /\ \A q \in Players \ {p} : \A i : InGate(q, i)' <=> InGate(q, i)
BY GateSeatTaken

\* A message that holds no seat is taken, and nothing else that does changes.
LEMMA PassingMail ==
    ASSUME TypeOK, NEW p \in Players, NEW type, Takes(p, type), type \notin SeatTypes, NEW q \in Players,
           \A i : /\ InCalls(q, i)' <=> InCalls(q, i)
                  /\ InMatch(q, i)' <=> InMatch(q, i)
                  /\ InQueue(q, i)' <=> InQueue(q, i)
                  /\ InBatch(q, i)' <=> InBatch(q, i)
                  /\ InRoom(q, i)' <=> InRoom(q, i)
    PROVE  Keeps(q)
<1>1. CASE q # p
    BY <1>1, UnseatedMail, SamePlaces
<1>2. CASE q = p
    <2>1. ~InGate(p, 1) /\ \A i : InGate(p, i)' <=> i \in Nat \ {0} /\ InGate(p, i + 1)
        BY UnseatedMail
    <2>2. \A i : InGate(p, i) => i \in Nat \ {0} /\ i - 1 + 1 = i
        BY Positions
    <2>3. \A i : InGate(p, i) => InGate(p, i - 1)'
        BY <2>1, <2>2
    <2>4. \A n, i : n # "gate" => (Sits(q, n, i)' <=> Sits(q, n, i))
        BY DEF Sits
    <2>5. \A i, j : InGate(p, i)' /\ InGate(p, j)' => InGate(p, i + 1) /\ InGate(p, j + 1) /\ (i + 1 = j + 1 => i = j)
        BY <2>1
    <2>6. ASSUME Single(q) PROVE Single(q)'
        BY <1>2, <2>1, <2>4, <2>5, <2>6, SeatPlaces, SeatPlacesNext DEF Single
    <2>7. Seated(q)' <=> Seated(q)
        BY <1>2, <2>1, <2>3, <2>4, SeatPlaces, SeatPlacesNext DEF Seated
    <2> QED
        BY <2>6, <2>7 DEF Keeps
<1> QED
    BY <1>1, <1>2

LEMMA ClientKeeps == ASSUME NEW p \in Players, Client(p), NEW q \in Players PROVE Keeps(q)
<1>1. UNCHANGED <<calls, gate, matchBox, queue, batch, status, members>>
    BY DEF Client, Connect, ClientAck, ClientSend, ClientLeave, gateway, matcher, room
<1> QED
    BY <1>1, SamePlaces, RoomSeatsStay, MatcherSeatsStay, CallsStay, GateStays, MatchStays

\* A call that asks for no seat.
LEMMA UnseatedCall ==
    ASSUME TypeOK, NEW p \in Players, NEW e \in {"gone", "close"}, Call(p, e)
    PROVE  \A q \in Players : \A i : InCalls(q, i)' <=> InCalls(q, i)
BY CallsGrow DEF CallTypes, JoinCalls

LEMMA ReaderKeeps ==
    ASSUME TypeOK, NEW p \in Players, Reader(p), ~HandshakeAck(p), NEW q \in Players
    PROVE  Keeps(q)
<1>1. UNCHANGED <<gate, matchBox, queue, batch, status, members>>
    BY DEF Reader, Start, HandshakeAck, Kick, MoveHandler, ReadFails, gateway, matcher, room
<1>2. UNCHANGED calls \/ Call(p, "close") \/ Call(p, "gone")
    BY DEF Reader, Start, Kick, MoveHandler, ReadFails, gateway
<1>3. \A i : InCalls(q, i)' <=> InCalls(q, i)
    BY <1>2, UnseatedCall, CallsStay
<1> QED
    BY <1>1, <1>3, SamePlaces, RoomSeatsStay, MatcherSeatsStay, GateStays, MatchStays

LEMMA ReplyKeeps == ASSUME TypeOK, NEW p \in Players, ServiceReplies(p), NEW q \in Players PROVE Keeps(q)
<1> DEFINE e == Msg(Head(calls[p]), NoRoom)
           k == Len(gate[p]) + 1
<1>1. /\ calls[p] # <<>> /\ calls' = [calls EXCEPT ![p] = Tail(@)]
      /\ gate' = [gate EXCEPT ![p] = Append(@, e)]
      /\ UNCHANGED <<matchBox, queue, batch, status, members>>
    BY DEF ServiceReplies, matcher, room
<1>2. /\ Head(calls[p]) \in CallTypes
      /\ InCalls(p, 1) <=> Head(calls[p]) \in JoinCalls
      /\ \A i : InCalls(p, i)' <=> i \in Nat \ {0} /\ InCalls(p, i + 1)
      /\ \A r \in Players \ {p} : \A i : InCalls(r, i)' <=> InCalls(r, i)
    BY <1>1, CallsShrink
<1>3. e \in GateMsgs /\ (e.type \in SeatTypes <=> Head(calls[p]) \in JoinCalls)
    BY <1>2 DEF CallTypes, Msg, GateMsgs, SeatTypes, JoinCalls
<1>4. /\ k \in Nat
      /\ \A r \in Players : \A i, m : Mail(r, i, m)' <=> Mail(r, i, m) \/ (r = p /\ i = k /\ m = e)
    <2> HIDE DEF e
    <2>1. /\ Len(gate[p]) \in Nat
          /\ \A r \in Players : \A i, m :
               Mail(r, i, m)' <=> Mail(r, i, m) \/ (r = p /\ i = Len(gate[p]) + 1 /\ m = e)
        BY <1>1, <1>3, GateGrows
    <2> QED
        BY <2>1
<1>5. \A r \in Players : \A i : InGate(r, i)' <=> InGate(r, i) \/ (r = p /\ i = k /\ InCalls(p, 1))
    <2>1. \A r, i : InGate(r, i) <=> \E m : Mail(r, i, m) /\ m.type \in SeatTypes
        BY GateSeat
    <2>2. \A r, i : InGate(r, i)' <=> \E m : Mail(r, i, m)' /\ m.type \in SeatTypes
        BY DEF InGate, Mail
    <2> HIDE DEF e, k
    <2> QED
        BY <1>2, <1>3, <1>4, <2>1, <2>2
<1> HIDE DEF e, k
<1>6. CASE q # p
    BY <1>1, <1>2, <1>5, <1>6, SamePlaces, RoomSeatsStay, MatcherSeatsStay, MatchStays
<1>7. CASE q = p
    <2>1. \A n, i : n \notin {"calls", "gate"} => (Sits(p, n, i)' <=> Sits(p, n, i))
        BY <1>1, RoomSeatsStay, MatcherSeatsStay, MatchStays DEF Sits
    <2>2. \A i : Sits(p, "calls", i)' <=> i \in Nat \ {0} /\ Sits(p, "calls", i + 1)
        BY <1>2, SeatPlaces, SeatPlacesNext
    <2>3. \A i : Sits(p, "gate", i)' <=> Sits(p, "gate", i) \/ (i = k /\ Sits(p, "calls", 1))
        BY <1>5, SeatPlaces, SeatPlacesNext
    <2>4. \A i : Sits(p, "calls", i) => i = 1 \/ (i \in Nat \ {0} /\ i - 1 \in Nat \ {0} /\ i - 1 + 1 = i)
        BY Positions, SeatPlaces
    <2>5. ASSUME Single(p) PROVE Single(p)'
        <3> SUFFICES ASSUME NEW n, NEW m, NEW i, NEW j, Sits(p, n, i)', Sits(p, m, j)' PROVE n = m /\ i = j
            BY DEF Single
        <3>1. n = "calls" => i \in Nat \ {0} /\ Sits(p, "calls", i + 1)
            BY <2>2
        <3>2. m = "calls" => j \in Nat \ {0} /\ Sits(p, "calls", j + 1)
            BY <2>2
        <3>3. n # "calls" => Sits(p, n, i) \/ (n = "gate" /\ i = k /\ Sits(p, "calls", 1))
            BY <2>1, <2>3
        <3>4. m # "calls" => Sits(p, m, j) \/ (m = "gate" /\ j = k /\ Sits(p, "calls", 1))
            BY <2>1, <2>3
        <3>5. (n = "calls" => i + 1 # 1) /\ (m = "calls" => j + 1 # 1) /\ (n = "calls" /\ m = "calls" /\ i + 1 = j + 1 => i = j)
            BY <3>1, <3>2
        <3> QED
            BY <2>5, <3>1, <3>2, <3>3, <3>4, <3>5 DEF Single
    <2>6. ASSUME Seated(p)' PROVE Seated(p)
        BY <2>1, <2>2, <2>3, <2>6 DEF Seated
    <2>7. ASSUME Seated(p) PROVE Seated(p)'
        <3>1. PICK n, i : Sits(p, n, i)
            BY <2>7 DEF Seated
        <3>2. CASE n = "calls"
            <4>1. CASE i = 1
                BY <2>3, <3>1, <3>2, <4>1 DEF Seated
            <4>2. CASE i # 1
                BY <2>2, <2>4, <3>1, <3>2, <4>2 DEF Seated
            <4> QED
                BY <4>1, <4>2
        <3>3. CASE n # "calls"
            BY <2>1, <2>3, <3>1, <3>3 DEF Seated
        <3> QED
            BY <3>2, <3>3
    <2> QED
        BY <1>7, <2>5, <2>6, <2>7 DEF Keeps
<1> QED
    BY <1>6, <1>7

\* A request for a seat leaves the gateway's mailbox, and becomes a request to
\* match_loop or a call.
LEMMA JoinsKeeps == ASSUME TypeOK, NEW p \in Players, Joins(p), NEW q \in Players PROVE Keeps(q)
<1> DEFINE k == Len(matchBox) + 1
<1>1. PICK type \in {"join", "rejoin"} : Takes(p, type)
    BY DEF Joins
<1>2. /\ InGate(p, 1)
      /\ \A i : InGate(p, i)' <=> i \in Nat \ {0} /\ InGate(p, i + 1)
      /\ \A r \in Players \ {p} : \A i : InGate(r, i)' <=> InGate(r, i)
    BY <1>1, GateSeatTaken DEF SeatTypes
<1>3. \A r \in Players : \A i : InMatch(r, i)' <=> InMatch(r, i) \/ (r = p /\ i = k)
    BY MatchGrows DEF Joins
<1>4. UNCHANGED <<calls, queue, batch, status, members>>
    BY DEF Joins, room
<1> HIDE DEF k
<1>5. CASE q # p
    BY <1>2, <1>3, <1>4, <1>5, SamePlaces, RoomSeatsStay, MatcherSeatsStay, CallsStay
<1>6. CASE q = p
    <2>1. \A n, i : n \notin {"gate", "match"} => (Sits(p, n, i)' <=> Sits(p, n, i))
        BY <1>4, RoomSeatsStay, MatcherSeatsStay, CallsStay DEF Sits
    <2>2. Sits(p, "gate", 1) /\ \A i : Sits(p, "gate", i)' <=> i \in Nat \ {0} /\ Sits(p, "gate", i + 1)
        BY <1>2, SeatPlaces, SeatPlacesNext
    <2>3. \A i : Sits(p, "match", i)' <=> Sits(p, "match", i) \/ i = k
        BY <1>3, SeatPlaces, SeatPlacesNext
    <2>4. ASSUME Single(p), NEW n, NEW i, Sits(p, n, i)' PROVE n = "match" /\ i = k
        <3>1. n = "gate" => i \in Nat \ {0} /\ Sits(p, "gate", i + 1) /\ i + 1 # 1
            BY <2>2, <2>4
        <3> QED
            BY <2>1, <2>2, <2>3, <2>4, <3>1 DEF Single
    <2>5. Single(p) => Single(p)'
        BY <2>4 DEF Single
    <2>6. Seated(p) /\ Seated(p)'
        BY <2>2, <2>3 DEF Seated
    <2> QED
        BY <1>6, <2>5, <2>6 DEF Keeps
<1> QED
    BY <1>5, <1>6

LEMMA OnLeaveRoomKeeps == ASSUME TypeOK, NEW p \in Players, OnLeaveRoom(p), NEW q \in Players PROVE Keeps(q)
<1> DEFINE k == Len(calls[p]) + 1
<1>1. Takes(p, "on_leave_room") /\ "on_leave_room" \in SeatTypes
    BY DEF OnLeaveRoom, SeatTypes
<1>2. /\ InGate(p, 1)
      /\ \A i : InGate(p, i)' <=> i \in Nat \ {0} /\ InGate(p, i + 1)
      /\ \A r \in Players \ {p} : \A i : InGate(r, i)' <=> InGate(r, i)
    BY <1>1, GateSeatTaken
<1>3. \A r \in Players : \A i : InCalls(r, i)' <=> InCalls(r, i) \/ (r = p /\ p \in mapped /\ i = k)
    <2>1. CASE p \in mapped
        <3>1. Call(p, "rejoin") /\ "rejoin" \in CallTypes /\ "rejoin" \in JoinCalls
            BY <2>1 DEF OnLeaveRoom, CallTypes, JoinCalls
        <3> QED
            BY <2>1, <3>1, CallsGrow
    <2>2. CASE p \notin mapped
        BY <2>2, CallsStay DEF OnLeaveRoom
    <2> QED
        BY <2>1, <2>2
<1>4. UNCHANGED <<matchBox, queue, batch, status, members, mapped>>
    BY DEF OnLeaveRoom, matcher, room
<1> HIDE DEF k
<1>5. CASE q # p
    BY <1>2, <1>3, <1>4, <1>5, SamePlaces, RoomSeatsStay, MatcherSeatsStay, MatchStays
<1>6. CASE q = p
    <2>1. \A n, i : n \notin {"gate", "calls"} => (Sits(p, n, i)' <=> Sits(p, n, i))
        BY <1>4, RoomSeatsStay, MatcherSeatsStay, MatchStays DEF Sits
    <2>2. Sits(p, "gate", 1) /\ \A i : Sits(p, "gate", i)' <=> i \in Nat \ {0} /\ Sits(p, "gate", i + 1)
        BY <1>2, SeatPlaces, SeatPlacesNext
    <2>3. \A i : Sits(p, "calls", i)' <=> Sits(p, "calls", i) \/ (p \in mapped /\ i = k)
        BY <1>3, SeatPlaces, SeatPlacesNext
    <2>4. ASSUME Single(p), NEW n, NEW i, Sits(p, n, i)' PROVE n = "calls" /\ i = k
        <3>1. n = "gate" => i \in Nat \ {0} /\ Sits(p, "gate", i + 1) /\ i + 1 # 1
            BY <2>2, <2>4
        <3> QED
            BY <2>1, <2>2, <2>3, <2>4, <3>1 DEF Single
    <2>5. Single(p) => Single(p)'
        BY <2>4 DEF Single
    <2>6. Seated(p) /\ (p \in mapped => Seated(p)')
        BY <2>2, <2>3 DEF Seated
    <2> QED
        BY <1>4, <1>6, <2>5, <2>6 DEF Keeps
<1> QED
    BY <1>5, <1>6

LEMMA GatewayKeeps == ASSUME TypeOK, NEW p \in Players, Gateway(p), NEW q \in Players PROVE Keeps(q)
<1>1. CASE Joins(p)
    BY <1>1, JoinsKeeps
<1>2. CASE OnLeaveRoom(p)
    BY <1>2, OnLeaveRoomKeeps
<1>3. CASE Gone(p) \/ CloseCallback(p) \/ OnJoinRoom(p) \/ PushToClient(p)
    <2>1. PICK type \in {"gone", "close", "on_join_room", "push_to_client"} : Takes(p, type)
        BY <1>3 DEF Gone, CloseCallback, OnJoinRoom, PushToClient
    <2>2. type \notin SeatTypes
        BY DEF SeatTypes
    <2>3. UNCHANGED calls \/ Call(p, "close")
        BY <1>3 DEF Gone, CloseCallback, OnJoinRoom, PushToClient
    <2>4. \A i : InCalls(q, i)' <=> InCalls(q, i)
        BY <2>3, UnseatedCall, CallsStay
    <2>5. UNCHANGED matchBox \/ SendMatch("remove", p)
        BY <1>3 DEF Gone, CloseCallback, OnJoinRoom, PushToClient, matcher
    <2>6. \A i : InMatch(q, i)' <=> InMatch(q, i)
        BY <2>5, MatchGrows, MatchStays
    <2>7. UNCHANGED <<queue, batch, status, members>>
        BY <1>3 DEF Gone, CloseCallback, OnJoinRoom, PushToClient, matcher, room
    <2> QED
        BY <2>1, <2>2, <2>4, <2>6, <2>7, PassingMail, RoomSeatsStay, MatcherSeatsStay
<1> QED
    BY <1>1, <1>2, <1>3 DEF Gateway

LEMMA AddKeeps == ASSUME TypeOK, AddPlayerToQueue, NEW q \in Players PROVE Keeps(q)
<1> DEFINE k == Len(queue) + 1
<1>0. PICK p : p = Head(matchBox).player
    OBVIOUS
<1>1. /\ matchBox # <<>> /\ matchBox' = Tail(matchBox) /\ Head(matchBox).type = "add"
      /\ queue' = Enqueue(queue, p)
      /\ UNCHANGED <<calls, gate, batch, status, members>>
    BY <1>0 DEF AddPlayerToQueue, gateway, room
<1>2. /\ Head(matchBox) \in MatchMsgs
      /\ InMatch(q, 1) <=> Head(matchBox) = AddMsg(q)
      /\ \A i : InMatch(q, i)' <=> i \in Nat \ {0} /\ InMatch(q, i + 1)
    BY <1>1, MatchShrinks
<1>3. p \in Players /\ (Head(matchBox) = AddMsg(q) <=> q = p)
    BY <1>0, <1>1, <1>2 DEF MatchMsgs, AddMsg
<1>4. /\ \E i : InQueue(p, i)'
      /\ \A i : InQueue(q, i) => InQueue(q, i)'
      /\ \A i : InQueue(q, i)' => InQueue(q, i) \/ (q = p /\ i = k)
    <2>1. p \in Players /\ queue' = Enqueue(queue, p)
        BY <1>1, <1>3
    <2>2. /\ \E i : InQueue(p, i)'
          /\ \A u \in Players : \A i :
                /\ InQueue(u, i) => InQueue(u, i)'
                /\ InQueue(u, i)' => InQueue(u, i) \/ (u = p /\ i = Len(queue) + 1)
        BY <2>1, QueueGrows
    <2> QED
        BY <2>2
<1>5. \A n, i : n \notin {"match", "queue"} => (Sits(q, n, i)' <=> Sits(q, n, i))
    BY <1>1, RoomSeatsStay, CallsStay, GateStays DEF Sits, InBatch
<1> HIDE DEF k
<1>6. /\ Sits(q, "match", 1) <=> q = p
      /\ \A i : Sits(q, "match", i)' <=> i \in Nat \ {0} /\ Sits(q, "match", i + 1)
    BY <1>2, <1>3, SeatPlaces, SeatPlacesNext
<1>7. \A i : Sits(q, "queue", i)' => Sits(q, "queue", i) \/ (q = p /\ i = k)
    BY <1>4, SeatPlaces, SeatPlacesNext
<1>8. \A i : Sits(q, "queue", i) => Sits(q, "queue", i)'
    BY <1>4, SeatPlaces, SeatPlacesNext
<1>9. ASSUME q = p PROVE \E i : Sits(q, "queue", i)'
    <2>1. PICK i : InQueue(p, i)'
        BY <1>4
    <2>2. InQueue(q, i)'
        BY <1>9, <2>1 DEF InQueue
    <2> QED
        BY <2>2, SeatPlacesNext
<1>10. \A i : Sits(q, "match", i) => i = 1 \/ (i \in Nat \ {0} /\ i - 1 \in Nat \ {0} /\ i - 1 + 1 = i)
    BY Positions, SeatPlaces
<1>11. ASSUME Single(q) PROVE Single(q)'
    <2> SUFFICES ASSUME NEW n, NEW m, NEW i, NEW j, Sits(q, n, i)', Sits(q, m, j)' PROVE n = m /\ i = j
        BY DEF Single
    <2>1. n = "match" => i \in Nat \ {0} /\ Sits(q, "match", i + 1) /\ i + 1 # 1
        BY <1>6
    <2>2. m = "match" => j \in Nat \ {0} /\ Sits(q, "match", j + 1) /\ j + 1 # 1
        BY <1>6
    <2>3. n # "match" => Sits(q, n, i) \/ (n = "queue" /\ i = k /\ Sits(q, "match", 1))
        BY <1>5, <1>6, <1>7
    <2>4. m # "match" => Sits(q, m, j) \/ (m = "queue" /\ j = k /\ Sits(q, "match", 1))
        BY <1>5, <1>6, <1>7
    <2>5. n = "match" /\ m = "match" /\ i + 1 = j + 1 => i = j
        BY <2>1, <2>2
    <2> QED
        BY <1>11, <2>1, <2>2, <2>3, <2>4, <2>5 DEF Single
<1>12. ASSUME Seated(q)' PROVE Seated(q)
    BY <1>5, <1>6, <1>7, <1>12 DEF Seated
<1>13. ASSUME Seated(q) PROVE Seated(q)'
    <2>1. PICK n, i : Sits(q, n, i)
        BY <1>13 DEF Seated
    <2>2. CASE n = "match" /\ i = 1
        BY <1>6, <1>9, <2>1, <2>2 DEF Seated
    <2>3. CASE n = "match" /\ i # 1
        BY <1>6, <1>10, <2>1, <2>3 DEF Seated
    <2>4. CASE n # "match"
        BY <1>5, <1>8, <2>1, <2>4 DEF Seated
    <2> QED
        BY <2>2, <2>3, <2>4
<1> QED
    BY <1>11, <1>12, <1>13 DEF Keeps

LEMMA RemoveKeeps == ASSUME TypeOK, RemovePlayer, NEW q \in Players PROVE Keeps(q)
<1>1. /\ matchBox # <<>> /\ matchBox' = Tail(matchBox) /\ Head(matchBox).type = "remove"
      /\ UNCHANGED <<calls, gate, queue, batch, status, members>>
    BY DEF RemovePlayer, gateway, room
<1>2. /\ InMatch(q, 1) <=> Head(matchBox) = AddMsg(q)
      /\ \A i : InMatch(q, i)' <=> i \in Nat \ {0} /\ InMatch(q, i + 1)
    BY <1>1, MatchShrinks
<1>3. ~InMatch(q, 1)
    BY <1>1, <1>2 DEF AddMsg
<1>4. \A n, i : n # "match" => (Sits(q, n, i)' <=> Sits(q, n, i))
    BY <1>1, RoomSeatsStay, MatcherSeatsStay, CallsStay, GateStays DEF Sits
<1>5. ~Sits(q, "match", 1) /\ \A i : Sits(q, "match", i)' <=> i \in Nat \ {0} /\ Sits(q, "match", i + 1)
    BY <1>2, <1>3, SeatPlaces, SeatPlacesNext
<1>6. \A i : Sits(q, "match", i) => i \in Nat \ {0} /\ (i # 1 => i - 1 \in Nat \ {0} /\ i - 1 + 1 = i)
    BY Positions, SeatPlaces
<1>7. \A i, j : Sits(q, "match", i)' /\ Sits(q, "match", j)' /\ i + 1 = j + 1 => i = j
    BY <1>5
<1>8. Single(q) => Single(q)'
    BY <1>4, <1>5, <1>7 DEF Single
<1>9. \A i : Sits(q, "match", i) => Sits(q, "match", i - 1)'
    BY <1>5, <1>6
<1>10. Seated(q)' <=> Seated(q)
    BY <1>4, <1>5, <1>9 DEF Seated
<1> QED
    BY <1>8, <1>10 DEF Keeps

LEMMA TakeKeeps == ASSUME TypeOK, RoomsToCome, MatchTake, NEW q \in Players PROVE Keeps(q)
<1>1. UNCHANGED <<calls, gate, matchBox, status, members>>
    BY DEF MatchTake, gateway, room
<1>2. \A i : /\ InQueue(q, i)' => i \in Nat \ {0} /\ InQueue(q, i + MatchSize)
             /\ InBatch(q, i)' => i \in 1..MatchSize /\ InQueue(q, i)
             /\ InQueue(q, i) => InBatch(q, i)' \/ InQueue(q, i - MatchSize)'
    BY QueueParts
<1>3. \A i : ~InBatch(q, i)
    BY DEF MatchTake, RoomsToCome, InBatch
<1>4. \A n, i : n \notin {"queue", "batch"} => (Sits(q, n, i)' <=> Sits(q, n, i))
    BY <1>1, RoomSeatsStay, CallsStay, GateStays, MatchStays DEF Sits
<1>5. /\ \A i : Sits(q, "queue", i)' => i \in Nat \ {0} /\ Sits(q, "queue", i + MatchSize)
      /\ \A i : Sits(q, "batch", i)' => i \in 1..MatchSize /\ Sits(q, "queue", i)
      /\ \A i : Sits(q, "queue", i) => Sits(q, "batch", i)' \/ Sits(q, "queue", i - MatchSize)'
      /\ \A i : ~Sits(q, "batch", i)
    BY <1>2, <1>3, SeatPlaces, SeatPlacesNext
<1>6. ASSUME Single(q) PROVE Single(q)'
    <2> SUFFICES ASSUME NEW n, NEW m, NEW i, NEW j, Sits(q, n, i)', Sits(q, m, j)' PROVE n = m /\ i = j
        BY DEF Single
    <2>1. MatchSize \in Nat \ {0}
        BY ConstantsBound DEF Bounds
    <2>2. n = "queue" => i \in Nat \ {0} /\ Sits(q, "queue", i + MatchSize) /\ i + MatchSize \notin 1..MatchSize
        BY <1>5, <2>1
    <2>3. m = "queue" => j \in Nat \ {0} /\ Sits(q, "queue", j + MatchSize) /\ j + MatchSize \notin 1..MatchSize
        BY <1>5, <2>1
    <2>4. /\ n = "batch" => i \in 1..MatchSize /\ Sits(q, "queue", i)
          /\ m = "batch" => j \in 1..MatchSize /\ Sits(q, "queue", j)
        BY <1>5
    <2>5. n = "queue" /\ m = "queue" /\ i + MatchSize = j + MatchSize => i = j
        BY <2>1, <2>2, <2>3
    <2>6. /\ n \notin {"queue", "batch"} => Sits(q, n, i)
          /\ m \notin {"queue", "batch"} => Sits(q, m, j)
        BY <1>4
    <2> QED
        BY <1>6, <2>2, <2>3, <2>4, <2>5, <2>6 DEF Single
<1>7. Seated(q)' => Seated(q)
    BY <1>4, <1>5 DEF Seated
<1>8. Seated(q) => Seated(q)'
    BY <1>4, <1>5 DEF Seated
<1> QED
    BY <1>6, <1>7, <1>8 DEF Keeps

LEMMA CreateKeeps == ASSUME TypeOK, RoomsToCome, MatchCreate, NEW q \in Players PROVE Keeps(q)
<1>0. PICK r : r = nextRoom - 1
    OBVIOUS
<1>1. /\ matching = "create" /\ batch' = <<>> /\ UNCHANGED <<calls, gate, matchBox, queue>>
      /\ status' = [status EXCEPT ![r] = "init"] /\ members' = [members EXCEPT ![r] = ToSet(batch)]
    BY <1>0 DEF MatchCreate, gateway
<1>2. r \in Rooms
    BY <1>0, <1>1, ConstantsBound DEF RoomsToCome, TypeOK, Rooms, Bounds
<1>3. status[r] = "none"
    BY <1>0, <1>1, <1>2 DEF RoomsToCome
<1>4. ~InRoom(q, r) /\ (InRoom(q, r)' <=> \E i : InBatch(q, i))
    <2>1. status'[r] = "init" /\ members'[r] = ToSet(batch)
        BY <1>1, <1>2 DEF TypeOK
    <2>2. q \in ToSet(batch) <=> \E i : InBatch(q, i)
        BY DEF ToSet, InBatch
    <2>3. ~InRoom(q, r)
        BY <1>3 DEF InRoom, Active
    <2>4. InRoom(q, r)' <=> status'[r] \in {"init", "PLAYING"} /\ q \in members'[r]
        BY <1>2 DEF InRoom, Active
    <2> QED
        BY <2>1, <2>2, <2>3, <2>4
<1>5. \A s : s # r => (InRoom(q, s)' <=> InRoom(q, s))
    BY <1>1, <1>2 DEF InRoom, Active, TypeOK
<1>6. \A i : ~InBatch(q, i)'
    BY <1>1 DEF InBatch
<1>7. \A n, i : n \notin {"batch", "room"} => (Sits(q, n, i)' <=> Sits(q, n, i))
    BY <1>1, CallsStay, GateStays, MatchStays DEF Sits, InQueue
<1>8. /\ ~Sits(q, "room", r) /\ (Sits(q, "room", r)' <=> \E i : Sits(q, "batch", i))
      /\ \A s : s # r => (Sits(q, "room", s)' <=> Sits(q, "room", s))
      /\ \A i : ~Sits(q, "batch", i)'
    BY <1>4, <1>5, <1>6, SeatPlaces, SeatPlacesNext
<1>9. ASSUME Single(q) PROVE Single(q)'
    <2>1. ASSUME NEW n, NEW i, Sits(q, n, i)'
          PROVE  Sits(q, n, i) \/ (n = "room" /\ i = r /\ \E j : Sits(q, "batch", j))
        <3>1. CASE n = "room" /\ i = r
            BY <1>8, <2>1, <3>1
        <3>2. CASE n = "room" /\ i # r
            BY <1>8, <2>1, <3>2
        <3>3. CASE n = "batch"
            BY <1>8, <2>1, <3>3
        <3>4. CASE n \notin {"batch", "room"}
            BY <1>7, <2>1, <3>4
        <3> QED
            BY <3>1, <3>2, <3>3, <3>4
    <2>2. ASSUME NEW n, NEW i, NEW j, Sits(q, n, i)', Sits(q, n, i), Sits(q, "batch", j) PROVE FALSE
        BY <1>8, <1>9, <2>2 DEF Single
    <2> QED
        BY <1>9, <2>1, <2>2 DEF Single
<1>10. ASSUME Seated(q)' PROVE Seated(q)
    <2>1. PICK n, i : Sits(q, n, i)'
        BY <1>10 DEF Seated
    <2>2. CASE n = "room" /\ i = r
        BY <1>8, <2>1, <2>2 DEF Seated
    <2>3. CASE n = "room" /\ i # r
        BY <1>8, <2>1, <2>3 DEF Seated
    <2>4. CASE n # "room"
        BY <1>7, <1>8, <2>1, <2>4 DEF Seated
    <2> QED
        BY <2>2, <2>3, <2>4
<1>11. ASSUME Seated(q) PROVE Seated(q)'
    <2>1. PICK n, i : Sits(q, n, i)
        BY <1>11 DEF Seated
    <2>2. CASE n = "batch"
        BY <1>8, <2>1, <2>2 DEF Seated
    <2>3. CASE n = "room"
        BY <1>8, <2>1, <2>3 DEF Seated
    <2>4. CASE n \notin {"batch", "room"}
        BY <1>7, <2>1, <2>4 DEF Seated
    <2> QED
        BY <2>2, <2>3, <2>4
<1> QED
    BY <1>9, <1>10, <1>11 DEF Keeps

LEMMA RoomInitKeeps == ASSUME TypeOK, NEW r \in Rooms, RoomInit(r), NEW q \in Players PROVE Keeps(q)
<1>1. \A i, m : m.type \in SeatTypes => (Mail(q, i, m)' <=> Mail(q, i, m))
    BY FirstMail DEF Msg, SeatTypes
<1>2. \A i : InGate(q, i)' <=> InGate(q, i)
    BY <1>1 DEF InGate, Mail
<1>3. \A i : InRoom(q, i)' <=> InRoom(q, i)
    BY DEF RoomInit, InRoom, Active, TypeOK
<1>4. UNCHANGED <<calls, matchBox, queue, batch>>
    BY DEF RoomInit, matcher
<1> QED
    BY <1>2, <1>3, <1>4, SamePlaces, MatcherSeatsStay, CallsStay, MatchStays

LEMMA GameLoopKeeps == ASSUME TypeOK, NEW r \in Rooms, GameLoop(r), NEW q \in Players PROVE Keeps(q)
<1> DEFINE k == Len(gate[q]) + 2
<1>1. status[r] = "PLAYING" /\ UNCHANGED <<calls, matchBox, queue, batch, members>>
    BY DEF GameLoop, matcher
<1>2. PICK over \in BOOLEAN :
         /\ status' = [status EXCEPT ![r] = IF over THEN "exited" ELSE @]
         /\ \A i, m :
              Mail(q, i, m)' <=> \/ Mail(q, i, m)
                                 \/ /\ q \in members[r]
                                    /\ \/ i = Len(gate[q]) + 1 /\ m = Msg("push_to_client", r)
                                       \/ over /\ i = Len(gate[q]) + 2 /\ m = Msg("on_leave_room", r)
    BY LastMail
<1> DEFINE told == over /\ q \in members[r]
<1>3. \A i : InGate(q, i)' <=> InGate(q, i) \/ (told /\ i = k)
    <2>1. \A i : InGate(q, i) <=> \E m : Mail(q, i, m) /\ m.type \in SeatTypes
        BY GateSeat
    <2>2. \A i : InGate(q, i)' <=> \E m : Mail(q, i, m)' /\ m.type \in SeatTypes
        BY DEF InGate, Mail
    <2>3. Msg("push_to_client", r).type \notin SeatTypes /\ Msg("on_leave_room", r).type \in SeatTypes
        BY DEF Msg, SeatTypes
    <2> QED
        BY <1>2, <2>1, <2>2, <2>3
<1>4. \A s : InRoom(q, s)' <=> InRoom(q, s) /\ ~(told /\ s = r)
    BY <1>1, <1>2 DEF InRoom, Active, TypeOK
<1>5. told => InRoom(q, r)
    BY <1>1 DEF InRoom, Active
<1> HIDE DEF told, k
<1>6. \A n, i : n \notin {"gate", "room"} => (Sits(q, n, i)' <=> Sits(q, n, i))
    BY <1>1, MatcherSeatsStay, CallsStay, MatchStays DEF Sits
<1>7. /\ \A i : Sits(q, "gate", i)' <=> Sits(q, "gate", i) \/ (told /\ i = k)
      /\ \A s : Sits(q, "room", s)' <=> Sits(q, "room", s) /\ ~(told /\ s = r)
      /\ told => Sits(q, "room", r)
    BY <1>3, <1>4, <1>5, SeatPlaces, SeatPlacesNext
<1>8. ASSUME Single(q) PROVE Single(q)'
    <2>1. ASSUME NEW n, NEW i, Sits(q, n, i)' PROVE Sits(q, n, i) \/ (told /\ n = "gate" /\ i = k)
        BY <1>6, <1>7, <2>1
    <2>2. ASSUME told, NEW n, NEW i, Sits(q, n, i)', Sits(q, n, i) PROVE FALSE
        BY <1>7, <1>8, <2>2 DEF Single
    <2> QED
        BY <1>8, <2>1, <2>2 DEF Single
<1>9. Seated(q)' => Seated(q)
    BY <1>6, <1>7 DEF Seated
<1>10. Seated(q) => Seated(q)'
    BY <1>6, <1>7 DEF Seated
<1> QED
    BY <1>8, <1>9, <1>10 DEF Keeps

\* A step that reads the acknowledgement of p gives it a seat.
LEMMA AcknowledgedSeat ==
    ASSUME TypeOK, NEW p \in Players, HandshakeAck(p), NEW q \in Players
    PROVE  \A n, i : Sits(q, n, i)' <=>
                Sits(q, n, i) \/ (q = p /\ n = "calls" /\ i = Len(calls[p]) + 1)
<1>0. PICK k : k = Len(calls[p]) + 1
    OBVIOUS
<1>1. /\ Call(p, "join") /\ "join" \in CallTypes /\ "join" \in JoinCalls
      /\ UNCHANGED <<gate, matchBox, queue, batch, status, members>>
    BY DEF HandshakeAck, CallTypes, JoinCalls, matcher, room
<1>2. \A i : InCalls(q, i)' <=> InCalls(q, i) \/ (q = p /\ i = k)
    BY <1>0, <1>1, CallsGrow
<1>3. \A n, i : n # "calls" => (Sits(q, n, i)' <=> Sits(q, n, i))
    BY <1>1, RoomSeatsStay, MatcherSeatsStay, GateStays, MatchStays DEF Sits
<1>4. \A i : Sits(q, "calls", i)' <=> Sits(q, "calls", i) \/ (q = p /\ i = k)
    BY <1>2, SeatPlaces, SeatPlacesNext
<1> QED
    BY <1>0, <1>3, <1>4

LEMMA MoveKeeps == ASSUME NEW r \in Rooms, HandlePlayerMove(r), NEW q \in Players PROVE Keeps(q)
<1>1. UNCHANGED <<calls, gate, matchBox, queue, batch, status, members>>
    BY DEF HandlePlayerMove, gateway, matcher
<1> QED
    BY <1>1, SamePlaces, RoomSeatsStay, MatcherSeatsStay, CallsStay, GateStays, MatchStays

LEMMA NextKeeps ==
    ASSUME TypeOK, RoomsToCome, [Next]_vars, NEW q \in Players, ~HandshakeAck(q)
    PROVE  Keeps(q)
<1>1. CASE UNCHANGED vars
    <2>1. UNCHANGED <<calls, gate, matchBox, queue, batch, status, members>>
        BY <1>1 DEF vars, gateway, matcher, room
    <2> QED
        BY <2>1, SamePlaces, RoomSeatsStay, MatcherSeatsStay, CallsStay, GateStays, MatchStays
<1>2. ASSUME NEW p \in Players, HandshakeAck(p) PROVE Keeps(q)
    BY <1>2, AcknowledgedSeat, SameSeats
<1>3. ASSUME NEW p \in Players, Client(p) \/ Reader(p) \/ ServiceReplies(p) \/ Gateway(p) PROVE Keeps(q)
    BY <1>2, <1>3, ClientKeeps, ReaderKeeps, ReplyKeeps, GatewayKeeps
<1>4. CASE AddPlayerToQueue \/ RemovePlayer \/ MatchLoop
    BY <1>4, AddKeeps, RemoveKeeps, TakeKeeps, CreateKeeps DEF MatchLoop
<1>5. ASSUME NEW r \in Rooms, Room(r) PROVE Keeps(q)
    BY <1>5, RoomInitKeeps, GameLoopKeeps, MoveKeeps DEF Room
<1> QED
    BY <1>1, <1>3, <1>4, <1>5 DEF Next

-----------------------------------------------------------------------------
(* Acknowledgements and sessions                                           *)

\* Only the client adds an acknowledgement, only its reader takes one.
LEMMA AckSteps ==
    ASSUME TypeOK, [Next]_vars, NEW q \in Players
    PROVE  /\ acks[q] \in Nat /\ acks'[q] \in Nat
           /\ \/ ClientAck(q) /\ acks'[q] = acks[q] + 1 /\ inbox[q] = "none" /\ inbox'[q] = "ack"
              \/ HandshakeAck(q) /\ acks'[q] = acks[q] /\ inbox[q] = "ack" /\ inbox'[q] = "none"
              \/ acks'[q] = acks[q] /\ (inbox'[q] = "ack" <=> inbox[q] = "ack")
<1> USE DEF TypeOK
<1>0. acks[q] \in Nat
    BY ConstantsBound DEF Bounds
<1>1. CASE UNCHANGED <<acks, inbox>>
    BY <1>0, <1>1
<1>2. ASSUME NEW p \in Players, Client(p) PROVE
          \/ ClientAck(q) /\ acks'[q] = acks[q] + 1 /\ inbox[q] = "none" /\ inbox'[q] = "ack"
          \/ acks'[q] = acks[q] /\ (inbox'[q] = "ack" <=> inbox[q] = "ack")
    <2>1. CASE Connect(p) \/ ClientLeave(p)
        BY <2>1 DEF Connect, ClientLeave
    <2>2. CASE ClientAck(p)
        BY <2>2 DEF ClientAck
    <2>3. CASE ClientSend(p)
        BY <2>3 DEF ClientSend
    <2> QED
        BY <1>2, <2>1, <2>2, <2>3 DEF Client
<1>3. ASSUME NEW p \in Players, Reader(p) PROVE
          \/ HandshakeAck(q) /\ acks'[q] = acks[q] /\ inbox[q] = "ack" /\ inbox'[q] = "none"
          \/ acks'[q] = acks[q] /\ (inbox'[q] = "ack" <=> inbox[q] = "ack")
    <2>1. CASE Start(p) \/ ReadFails(p)
        BY <2>1 DEF Start, ReadFails, client
    <2>2. CASE HandshakeAck(p)
        BY <2>2 DEF HandshakeAck, Reads
    <2>3. CASE Kick(p) \/ MoveHandler(p)
        BY <2>3 DEF Kick, MoveHandler, Reads
    <2> QED
        BY <1>3, <2>1, <2>2, <2>3 DEF Reader
<1>4. ASSUME NEW p \in Players, ServiceReplies(p) \/ Gateway(p) PROVE UNCHANGED <<acks, inbox>>
    BY <1>4 DEF ServiceReplies, Gateway, Joins, Gone, CloseCallback, OnJoinRoom, OnLeaveRoom,
       PushToClient, client
<1>5. CASE AddPlayerToQueue \/ RemovePlayer \/ MatchLoop
    BY <1>1, <1>5 DEF AddPlayerToQueue, RemovePlayer, MatchLoop, MatchTake, MatchCreate, client
<1>6. ASSUME NEW r \in Rooms, Room(r) PROVE UNCHANGED <<acks, inbox>>
    BY <1>6 DEF Room, RoomInit, GameLoop, HandlePlayerMove, client
<1>7. CASE UNCHANGED vars
    BY <1>1, <1>7 DEF vars, client
<1> QED
    BY <1>0, <1>1, <1>2, <1>3, <1>4, <1>5, <1>6, <1>7 DEF Next

\* A session is mapped by the start of its reader, and told its room by the
\* gateway's mailbox.
LEMMA Sessions ==
    ASSUME TypeOK, [Next]_vars, NEW q \in Players
    PROVE  /\ q \in mapped' => q \in mapped \/ Start(q)
           /\ reader'[q] = "new" => reader[q] = "new" /\ (q \in mapped' => q \in mapped)
           /\ roomOf'[q] = roomOf[q] \/ (q \in mapped /\ (OnJoinRoom(q) \/ OnLeaveRoom(q)))
<1> USE DEF TypeOK
<1>1. CASE UNCHANGED <<mapped, reader, roomOf>>
    BY <1>1
<1>2. ASSUME NEW p \in Players, Client(p) \/ ServiceReplies(p) PROVE UNCHANGED <<mapped, reader, roomOf>>
    BY <1>2 DEF Client, Connect, ClientAck, ClientSend, ClientLeave, ServiceReplies, gateway
<1>3. ASSUME NEW p \in Players, Reader(p) PROVE
          /\ q \in mapped' => q \in mapped \/ Start(q)
          /\ reader'[q] = "new" => reader[q] = "new" /\ (q \in mapped' => q \in mapped)
          /\ roomOf'[q] = roomOf[q]
    <2>1. CASE Start(p)
        BY <2>1 DEF Start
    <2>2. CASE HandshakeAck(p) \/ Kick(p) \/ ReadFails(p)
        BY <2>2 DEF HandshakeAck, Kick, ReadFails
    <2>3. CASE MoveHandler(p)
        BY <2>3 DEF MoveHandler, gateway
    <2> QED
        BY <1>3, <2>1, <2>2, <2>3 DEF Reader
<1>4. ASSUME NEW p \in Players, Gateway(p) PROVE
          /\ q \in mapped' => q \in mapped
          /\ reader'[q] = "new" => reader[q] = "new"
          /\ roomOf'[q] = roomOf[q] \/ (q \in mapped /\ (OnJoinRoom(q) \/ OnLeaveRoom(q)))
    <2>1. CASE Joins(p) \/ Gone(p) \/ CloseCallback(p) \/ PushToClient(p)
        BY <2>1 DEF Joins, Gone, CloseCallback, PushToClient
    <2>2. CASE OnJoinRoom(p)
        BY <2>2 DEF OnJoinRoom
    <2>3. CASE OnLeaveRoom(p)
        BY <2>3 DEF OnLeaveRoom
    <2> QED
        BY <1>4, <2>1, <2>2, <2>3 DEF Gateway
<1>5. CASE AddPlayerToQueue \/ RemovePlayer \/ MatchLoop
    BY <1>1, <1>5 DEF AddPlayerToQueue, RemovePlayer, MatchLoop, MatchTake, MatchCreate, gateway
<1>6. ASSUME NEW r \in Rooms, Room(r) PROVE UNCHANGED <<mapped, reader, roomOf>>
    BY <1>6 DEF Room, RoomInit, GameLoop, HandlePlayerMove, gateway
<1>7. CASE UNCHANGED vars
    BY <1>1, <1>7 DEF vars, gateway
<1> QED
    BY <1>1, <1>2, <1>3, <1>4, <1>5, <1>6, <1>7 DEF Next

LEMMA NextOneSeat ==
    ASSUME TypeOK, RoomsToCome, [Next]_vars, NEW q \in Players, OneSeat(q)
    PROVE  OneSeat(q)'
<1>1. CASE HandshakeAck(q)
    <2>1. acks[q] \in Nat /\ acks'[q] = acks[q] /\ inbox[q] = "ack" /\ inbox'[q] # "ack"
        BY <1>1 DEF HandshakeAck, Reads, TypeOK
    <2>2. \A n, i : Sits(q, n, i)' <=>
                Sits(q, n, i) \/ (n = "calls" /\ i = Len(calls[q]) + 1)
        BY <1>1, AcknowledgedSeat
    <2>3. acks[q] > 0 /\ (acks[q] <= 1 => ~Seated(q))
        BY <2>1 DEF OneSeat
    <2>4. ~Seated(q) => Single(q)'
        BY <2>2 DEF Seated, Single
    <2> QED
        BY <2>1, <2>3, <2>4 DEF OneSeat
<1>2. CASE ~HandshakeAck(q)
    <2>1. Keeps(q)
        BY <1>2, NextKeeps
    <2>2. Seated(q)' \/ Single(q)'
        BY DEF Seated, Single
    <2> QED
        BY <1>2, <2>1, <2>2, AckSteps DEF OneSeat, Keeps
<1> QED
    BY <1>1, <1>2

LEMMA NextNotLost ==
    ASSUME TypeOK, RoomsToCome, [Next]_vars, NEW q \in Players, NotLost(q)
    PROVE  NotLost(q)'
<1>1. ASSUME q \in mapped', acks'[q] > 0, inbox'[q] # "ack" PROVE Seated(q)'
    <2>1. CASE HandshakeAck(q)
        BY <2>1, AcknowledgedSeat DEF Seated
    <2>2. CASE Start(q)
        BY <1>1, <2>2 DEF Start, client, NotLost
    <2>3. CASE ~HandshakeAck(q) /\ ~Start(q)
        <3>1. Keeps(q)
            BY <2>3, NextKeeps
        <3>2. q \in mapped /\ acks[q] > 0 /\ inbox[q] # "ack"
            BY <1>1, <2>3, Sessions, AckSteps
        <3> QED
            BY <1>1, <3>1, <3>2 DEF NotLost, Keeps
    <2> QED
        BY <2>1, <2>2, <2>3
<1>2. ASSUME reader'[q] = "new"
      PROVE  q \notin mapped' /\ roomOf'[q] = NoRoom /\ (acks'[q] > 0 => inbox'[q] = "ack")
    <2>1. reader[q] = "new" /\ ~HandshakeAck(q)
        BY <1>2, Sessions DEF HandshakeAck, Reads
    <2>2. q \notin mapped' /\ roomOf'[q] = NoRoom
        BY <1>2, <2>1, Sessions DEF NotLost
    <2>3. acks'[q] > 0 => inbox'[q] = "ack"
        BY <2>1, AckSteps DEF NotLost
    <2> QED
        BY <2>2, <2>3
<1> QED
    BY <1>1, <1>2 DEF NotLost

-----------------------------------------------------------------------------
(* What a session knows of its room                                        *)

\* A step that disturbs nothing the session of q knows of its rooms.
Steady(q) ==
    /\ roomOf'[q] = roomOf[q]
    /\ \A r \in Rooms : Plays(q, r)' <=> Plays(q, r)
    /\ \A i, m : Mail(q, i, m) => Mail(q, i, m)'
    /\ \A i, m : m.type = "on_join_room" /\ Mail(q, i, m)' => Mail(q, i, m)

LEMMA NothingTold ==
    ASSUME NEW q \in Players, roomOf'[q] = roomOf[q], UNCHANGED <<status, members, gate>>
    PROVE  Steady(q)
BY DEF Steady, Plays, Mail

LEMMA ReplySteady == ASSUME TypeOK, NEW p \in Players, ServiceReplies(p), NEW q \in Players PROVE Steady(q)
<1>1. calls[p] # <<>> /\ Head(calls[p]) \in CallTypes
    BY CallsShrink DEF ServiceReplies
<1>0. PICK e : e = Msg(Head(calls[p]), NoRoom)
    OBVIOUS
<1>2. e \in GateMsgs /\ e.type # "on_join_room"
    BY <1>0, <1>1 DEF CallTypes, Msg, GateMsgs
<1>3. gate' = [gate EXCEPT ![p] = Append(@, e)] /\ UNCHANGED <<roomOf, status, members>>
    BY <1>0 DEF ServiceReplies, room
<1>4. \A i, m : Mail(q, i, m)' <=> Mail(q, i, m) \/ (q = p /\ i = Len(gate[p]) + 1 /\ m = e)
    BY <1>2, <1>3, GateGrows
<1> QED
    BY <1>2, <1>3, <1>4 DEF Steady, Plays

LEMMA CreateSteady == ASSUME TypeOK, RoomsToCome, MatchCreate, NEW q \in Players PROVE Steady(q)
<1>0. PICK s : s = nextRoom - 1
    OBVIOUS
<1>1. /\ UNCHANGED <<roomOf, gate>> /\ matching = "create"
      /\ status' = [status EXCEPT ![s] = "init"] /\ members' = [members EXCEPT ![s] = ToSet(batch)]
    BY <1>0 DEF MatchCreate, gateway
<1>2. s \in Rooms
    BY <1>0, <1>1, ConstantsBound DEF RoomsToCome, TypeOK, Rooms, Bounds
<1>3. status[s] = "none" /\ status'[s] = "init"
    BY <1>0, <1>1, <1>2 DEF RoomsToCome, TypeOK
<1>4. \A r \in Rooms \ {s} : status'[r] = status[r] /\ members'[r] = members[r]
    BY <1>1 DEF TypeOK
<1>5. \A r \in Rooms : Plays(q, r)' <=> Plays(q, r)
    BY <1>3, <1>4 DEF Plays
<1> QED
    BY <1>1, <1>5 DEF Steady, Mail

\* The gateway's step for another player.
LEMMA OthersSteady ==
    ASSUME TypeOK, NEW p \in Players, Gateway(p), NEW q \in Players \ {p}
    PROVE  Steady(q)
<1>1. PICK type : Takes(p, type)
    BY DEF Gateway, Joins, Gone, CloseCallback, OnJoinRoom, OnLeaveRoom, PushToClient
<1>2. UNCHANGED <<status, members>> /\ roomOf'[q] = roomOf[q]
    BY DEF Gateway, Joins, Gone, CloseCallback, OnJoinRoom, OnLeaveRoom, PushToClient, room, TypeOK
<1>3. \A i, m : Mail(q, i, m)' <=> Mail(q, i, m)
    BY <1>1, GateShrinks
<1> QED
    BY <1>2, <1>3 DEF Steady, Plays

\* The steps that are not: the gateway handles a message for q, or a room
\* begins, or plays on.
LEMMA UnsteadySteps ==
    ASSUME TypeOK, RoomsToCome, [Next]_vars, NEW q \in Players
    PROVE  Steady(q) \/ Gateway(q) \/ \E r \in Rooms : RoomInit(r) \/ GameLoop(r)
<1>1. CASE UNCHANGED vars
    BY <1>1, NothingTold DEF vars, gateway, room
<1>2. ASSUME NEW p \in Players, Client(p) PROVE Steady(q)
    BY <1>2, NothingTold DEF Client, Connect, ClientAck, ClientSend, ClientLeave, gateway, room
<1>3. ASSUME NEW p \in Players, Reader(p) PROVE Steady(q)
    BY <1>3, NothingTold DEF Reader, Start, HandshakeAck, Kick, MoveHandler, ReadFails, gateway, room
<1>4. ASSUME NEW p \in Players, ServiceReplies(p) PROVE Steady(q)
    BY <1>4, ReplySteady
<1>5. ASSUME NEW p \in Players, Gateway(p) PROVE Steady(q) \/ Gateway(q)
    BY <1>5, OthersSteady
<1>6. CASE AddPlayerToQueue \/ RemovePlayer \/ MatchTake
    BY <1>6, NothingTold DEF AddPlayerToQueue, RemovePlayer, MatchTake, gateway, room
<1>7. CASE MatchCreate
    BY <1>7, CreateSteady
<1>8. ASSUME NEW r \in Rooms, HandlePlayerMove(r) PROVE Steady(q)
    BY <1>8, NothingTold DEF HandlePlayerMove, gateway
<1> QED
    BY <1>1, <1>2, <1>3, <1>4, <1>5, <1>6, <1>7, <1>8 DEF Next, MatchLoop, Room

\* The gateway handles the first message of q.
LEMMA FirstHandled ==
    ASSUME TypeOK, NEW q \in Players, Gateway(q)
    PROVE  /\ \A r \in Rooms : Plays(q, r)' <=> Plays(q, r)
           /\ \A i, m : Mail(q, i, m)' <=> i \in Nat \ {0} /\ Mail(q, i + 1, m)
           /\ \/ \E type \in {"join", "rejoin", "gone", "close", "push_to_client"} :
                     Takes(q, type) /\ roomOf'[q] = roomOf[q]
              \/ OnJoinRoom(q) \/ OnLeaveRoom(q)
<1>1. PICK type : Takes(q, type)
    BY DEF Gateway, Joins, Gone, CloseCallback, OnJoinRoom, OnLeaveRoom, PushToClient
<1>2. \A i, m : Mail(q, i, m)' <=> i \in Nat \ {0} /\ Mail(q, i + 1, m)
    BY <1>1, GateShrinks
<1>3. UNCHANGED <<status, members>>
    BY DEF Gateway, Joins, Gone, CloseCallback, OnJoinRoom, OnLeaveRoom, PushToClient, room
<1>4. \/ \E t \in {"join", "rejoin", "gone", "close", "push_to_client"} :
            Takes(q, t) /\ roomOf'[q] = roomOf[q]
      \/ OnJoinRoom(q) \/ OnLeaveRoom(q)
    BY DEF Gateway, Joins, Gone, CloseCallback, PushToClient
<1> QED
    BY <1>2, <1>3, <1>4 DEF Plays

LEMMA NextJoinedThenLeaves ==
    ASSUME TypeOK, RoomsToCome, [Next]_vars, NEW q \in Players, JoinedThenLeaves(q)
    PROVE  JoinedThenLeaves(q)'
<1>0. \A s : Msg("on_join_room", s).type = "on_join_room"
    BY DEF Msg
<1>1. CASE Steady(q)
    BY <1>0, <1>1 DEF Steady, JoinedThenLeaves
<1>2. CASE Gateway(q)
    <2>1. /\ \A r \in Rooms : Plays(q, r)' <=> Plays(q, r)
          /\ \A i, m : Mail(q, i, m)' <=> i \in Nat \ {0} /\ Mail(q, i + 1, m)
        BY <1>2, FirstHandled
    <2>2. \A i : ~Mail(q, i, Msg("on_join_room", NoRoom))'
        BY <2>1 DEF JoinedThenLeaves
    <2>3. ASSUME NEW r \in Rooms, NEW i, Mail(q, i, Msg("on_join_room", r))', ~Plays(q, r)'
          PROVE  \E j : j > i /\ Mail(q, j, Msg("on_leave_room", r))'
        <3>1. i \in Nat \ {0} /\ Mail(q, i + 1, Msg("on_join_room", r)) /\ ~Plays(q, r)
            BY <2>1, <2>3
        <3>2. PICK j : j > i + 1 /\ Mail(q, j, Msg("on_leave_room", r))
            BY <3>1 DEF JoinedThenLeaves
        <3>3. j \in Nat \ {0}
            BY <3>2, Positions
        <3>4. j - 1 > i /\ j - 1 \in Nat \ {0} /\ j - 1 + 1 = j
            BY <3>1, <3>2, <3>3
        <3> QED
            BY <2>1, <3>2, <3>4
    <2> QED
        BY <2>2, <2>3 DEF JoinedThenLeaves
<1>3. ASSUME NEW s \in Rooms, RoomInit(s) PROVE JoinedThenLeaves(q)'
    <2>1. /\ status[s] = "init" /\ status' = [status EXCEPT ![s] = "PLAYING"] /\ members' = members
        BY <1>3 DEF RoomInit
    <2>2. \A r \in Rooms : Plays(q, r)' <=> Plays(q, r) \/ (r = s /\ q \in members[r])
        BY <2>1 DEF Plays, TypeOK
    <2>3. \A i, m : Mail(q, i, m) => Mail(q, i, m)'
        BY <1>3, FirstMail
    <2>4. \A i, r : Mail(q, i, Msg("on_join_room", r))' =>
             Mail(q, i, Msg("on_join_room", r)) \/ (r = s /\ q \in members[r])
        BY <1>3, FirstMail DEF Msg
    <2>5. s # NoRoom
        BY DEF Rooms, NoRoom
    <2> QED
        BY <2>2, <2>3, <2>4, <2>5 DEF JoinedThenLeaves
<1>4. ASSUME NEW s \in Rooms, GameLoop(s) PROVE JoinedThenLeaves(q)'
    <2>1. members' = members
        BY <1>4 DEF GameLoop
    <2>2. PICK over \in BOOLEAN :
            /\ status' = [status EXCEPT ![s] = IF over THEN "exited" ELSE @]
            /\ \A i, m :
                 Mail(q, i, m)' <=> \/ Mail(q, i, m)
                                    \/ /\ q \in members[s]
                                       /\ \/ i = Len(gate[q]) + 1 /\ m = Msg("push_to_client", s)
                                          \/ over /\ i = Len(gate[q]) + 2 /\ m = Msg("on_leave_room", s)
        BY <1>4, LastMail
    <2>3. \A r \in Rooms : Plays(q, r) => Plays(q, r)' \/ (r = s /\ over /\ q \in members[s])
        BY <2>1, <2>2 DEF Plays, TypeOK
    <2>4. \A i, r : Mail(q, i, Msg("on_join_room", r))' <=> Mail(q, i, Msg("on_join_room", r))
        BY <2>2 DEF Msg
    <2>5. PICK k : k = Len(gate[q]) + 2
        OBVIOUS
    <2>6. \A i, m : Mail(q, i, m) => Mail(q, i, m)' /\ k > i
        <3>1. \A i, m : Mail(q, i, m) => i \in Nat \ {0} /\ i <= Len(gate[q]) /\ Len(gate[q]) \in Nat
            BY Positions
        <3> QED
            BY <2>2, <2>5, <3>1
    <2>7. over /\ q \in members[s] => Mail(q, k, Msg("on_leave_room", s))'
        BY <2>2, <2>5
    <2>8. \A i : ~Mail(q, i, Msg("on_join_room", NoRoom))'
        BY <2>4 DEF JoinedThenLeaves
    <2>9. ASSUME NEW r \in Rooms, NEW i, Mail(q, i, Msg("on_join_room", r))', ~Plays(q, r)'
          PROVE  \E j : j > i /\ Mail(q, j, Msg("on_leave_room", r))'
        <3>1. Mail(q, i, Msg("on_join_room", r))
            BY <2>4, <2>9
        <3>2. CASE Plays(q, r)
            BY <2>3, <2>6, <2>7, <2>9, <3>1, <3>2
        <3>3. CASE ~Plays(q, r)
            BY <2>6, <3>1, <3>3 DEF JoinedThenLeaves
        <3> QED
            BY <3>2, <3>3
    <2> QED
        BY <2>8, <2>9 DEF JoinedThenLeaves
<1> QED
    BY <1>1, <1>2, <1>3, <1>4, UnsteadySteps

\* A player has no two seats while it plays in a room.
LEMMA PlaysAlone ==
    ASSUME NEW q \in Players, OneSeat(q), acks[q] <= 1, NEW r \in Rooms, Plays(q, r)
    PROVE  /\ acks[q] # 0 /\ ~(acks[q] = 1 /\ inbox[q] = "ack")
           /\ \A s \in Rooms : Plays(q, s) => s = r
           /\ \A i, m : Mail(q, i, m) => m.type \notin SeatTypes
<1>1. \A s \in Rooms : Plays(q, s) => Sits(q, "room", s)
    BY DEF Plays, InRoom, Active, Sits
<1>2. \A i, m : Mail(q, i, m) /\ m.type \in SeatTypes => Sits(q, "gate", i)
    BY GateSeat DEF Sits
<1> QED
    BY <1>1, <1>2 DEF OneSeat, Single, Seated

LEMMA NextKnows ==
    ASSUME TypeOK, RoomsToCome, [Next]_vars, NEW q \in Players,
           OneSeat(q), NotLost(q), JoinedThenLeaves(q), Knows(q)
    PROVE  Knows(q)'
<1> SUFFICES ASSUME acks'[q] <= 1, q \in mapped', NEW r \in Rooms
    PROVE  /\ Plays(q, r)' => roomOf'[q] = r \/ \E i : Mail(q, i, Msg("on_join_room", r))'
           /\ roomOf'[q] = r => Plays(q, r)' \/ \E i : Mail(q, i, Msg("on_leave_room", r))'
    BY DEF Knows
<1>0. acks[q] \in Nat /\ acks[q] <= 1 /\ r # NoRoom
    BY AckSteps DEF Rooms, NoRoom
<1>1. CASE Start(q)
    <2>1. /\ reader[q] = "new" /\ UNCHANGED <<acks, inbox, roomOf, status, members>>
        BY <1>1 DEF Start, client, room
    <2>2. roomOf'[q] = NoRoom /\ (acks[q] > 0 => inbox[q] = "ack")
        BY <2>1 DEF NotLost
    <2>3. ~Plays(q, r)
        BY <1>0, <2>2, PlaysAlone
    <2> QED
        BY <1>0, <2>1, <2>2, <2>3 DEF Plays
<1>2. CASE ~Start(q)
    <2>1. /\ Plays(q, r) => roomOf[q] = r \/ \E i : Mail(q, i, Msg("on_join_room", r))
          /\ roomOf[q] = r => Plays(q, r) \/ \E i : Mail(q, i, Msg("on_leave_room", r))
        BY <1>0, <1>2, Sessions DEF Knows
    <2>2. CASE Steady(q)
        BY <2>1, <2>2 DEF Steady
    <2>3. ASSUME Gateway(q), NEW type \in {"join", "rejoin", "gone", "close", "push_to_client"},
                 Takes(q, type), roomOf'[q] = roomOf[q]
          PROVE  /\ Plays(q, r)' => roomOf'[q] = r \/ \E i : Mail(q, i, Msg("on_join_room", r))'
                 /\ roomOf'[q] = r => Plays(q, r)' \/ \E i : Mail(q, i, Msg("on_leave_room", r))'
        <3>1. Plays(q, r)' <=> Plays(q, r)
            BY <2>3, FirstHandled
        <3>2. \A i, m : Mail(q, i, m)' <=> i \in Nat \ {0} /\ Mail(q, i + 1, m)
            BY <2>3, FirstHandled
        <3>3. \A m : Mail(q, 1, m) => m.type = type
            BY <2>3, GateShrinks
        <3>4. \A i, m : Mail(q, i, m) => i \in Nat \ {0} /\ (i # 1 => i - 1 \in Nat \ {0} /\ i - 1 + 1 = i)
            BY Positions
        <3>5. \A i, m : Mail(q, i, m) /\ m.type # type => Mail(q, i - 1, m)'
            BY <3>2, <3>3, <3>4
        <3>6. Msg("on_join_room", r).type # type /\ Msg("on_leave_room", r).type # type
            BY DEF Msg
        <3> QED
            BY <2>1, <2>3, <3>1, <3>5, <3>6
    <2>4. CASE OnJoinRoom(q)
        <3>1. PICK m : m = Head(gate[q])
            OBVIOUS
        <3>2. m \in GateMsgs /\ m.type = "on_join_room" /\ Mail(q, 1, m)
            BY <2>4, <3>1, GateShrinks DEF OnJoinRoom
        <3>3. PICK s : s = m.room
            OBVIOUS
        <3>4. m = Msg("on_join_room", s) /\ s \in Rooms \union {NoRoom}
            BY <3>2, <3>3 DEF GateMsgs, Msg
        <3>5. s \in Rooms /\ roomOf'[q] = s
            <4>1. s # NoRoom
                BY <3>2, <3>4 DEF JoinedThenLeaves
            <4>2. mapped' = mapped /\ roomOf' = [roomOf EXCEPT ![q] = s]
                BY <2>4, <3>1, <3>3 DEF OnJoinRoom
            <4> QED
                BY <3>4, <4>1, <4>2 DEF TypeOK
        <3>6. Plays(q, r)' <=> Plays(q, r)
            BY <2>4, FirstHandled DEF Gateway
        <3>7. \A i, n : Mail(q, i, n)' <=> i \in Nat \ {0} /\ Mail(q, i + 1, n)
            BY <2>4, FirstHandled DEF Gateway
        <3>8. Plays(q, s) \/ \E j : j > 1 /\ Mail(q, j, Msg("on_leave_room", s))
            BY <3>2, <3>4, <3>5 DEF JoinedThenLeaves
        <3>9. Plays(q, r) => r = s
            <4>1. Msg("on_leave_room", s).type \in SeatTypes
                BY DEF Msg, SeatTypes
            <4> QED
                BY <1>0, <3>5, <3>8, <4>1, PlaysAlone
        <3>10. ASSUME NEW j, j > 1, Mail(q, j, Msg("on_leave_room", s))
               PROVE  Mail(q, j - 1, Msg("on_leave_room", s))'
            <4>1. j \in Nat \ {0}
                BY <3>10, Positions
            <4>2. j - 1 \in Nat \ {0} /\ j - 1 + 1 = j
                BY <3>10, <4>1
            <4> QED
                BY <3>7, <3>10, <4>2
        <3> QED
            BY <3>5, <3>6, <3>8, <3>9, <3>10
    <2>5. CASE OnLeaveRoom(q)
        <3>1. \E m : Mail(q, 1, m) /\ m.type = "on_leave_room"
            BY <2>5, GateShrinks DEF OnLeaveRoom
        <3>2. ~Plays(q, r)
            BY <1>0, <3>1, PlaysAlone DEF SeatTypes
        <3>3. Plays(q, r)' <=> Plays(q, r)
            BY <2>5, FirstHandled DEF Gateway
        <3>4. roomOf'[q] = NoRoom
            BY <2>5 DEF OnLeaveRoom, TypeOK
        <3> QED
            BY <1>0, <3>2, <3>3, <3>4
    <2>6. ASSUME NEW s \in Rooms, RoomInit(s)
          PROVE  /\ Plays(q, r)' => roomOf'[q] = r \/ \E i : Mail(q, i, Msg("on_join_room", r))'
                 /\ roomOf'[q] = r => Plays(q, r)' \/ \E i : Mail(q, i, Msg("on_leave_room", r))'
        <3>1. /\ status[s] = "init" /\ status' = [status EXCEPT ![s] = "PLAYING"]
              /\ UNCHANGED <<members, roomOf>>
            BY <2>6 DEF RoomInit
        <3>2. Plays(q, r)' <=> Plays(q, r) \/ (r = s /\ q \in members[r])
            BY <3>1 DEF Plays, TypeOK
        <3>3. \A i, m : Mail(q, i, m) => Mail(q, i, m)'
            BY <2>6, FirstMail
        <3>4. q \in members[s] => \E i : Mail(q, i, Msg("on_join_room", s))'
            <4>1. PICK k : k = Len(gate[q]) + 1
                OBVIOUS
            <4>2. q \in members[s] => Mail(q, k, Msg("on_join_room", s))'
                BY <2>6, <4>1, FirstMail
            <4> QED
                BY <4>2
        <3> QED
            BY <2>1, <3>1, <3>2, <3>3, <3>4
    <2>7. ASSUME NEW s \in Rooms, GameLoop(s)
          PROVE  /\ Plays(q, r)' => roomOf'[q] = r \/ \E i : Mail(q, i, Msg("on_join_room", r))'
                 /\ roomOf'[q] = r => Plays(q, r)' \/ \E i : Mail(q, i, Msg("on_leave_room", r))'
        <3>1. UNCHANGED <<members, roomOf>>
            BY <2>7 DEF GameLoop
        <3>2. PICK over \in BOOLEAN :
                /\ status' = [status EXCEPT ![s] = IF over THEN "exited" ELSE @]
                /\ \A i, m :
                     Mail(q, i, m)' <=> \/ Mail(q, i, m)
                                        \/ /\ q \in members[s]
                                           /\ \/ i = Len(gate[q]) + 1 /\ m = Msg("push_to_client", s)
                                              \/ over /\ i = Len(gate[q]) + 2 /\ m = Msg("on_leave_room", s)
            BY <2>7, LastMail
        <3>3. Plays(q, r) => Plays(q, r)' \/ (r = s /\ over /\ q \in members[s])
            BY <3>1, <3>2 DEF Plays, TypeOK
        <3>4. Plays(q, r)' => Plays(q, r)
            BY <3>1, <3>2 DEF Plays, TypeOK
        <3>5. \A i, m : Mail(q, i, m) => Mail(q, i, m)'
            BY <3>2
        <3>6. over /\ q \in members[s] => \E i : Mail(q, i, Msg("on_leave_room", s))'
            <4>1. PICK k : k = Len(gate[q]) + 2
                OBVIOUS
            <4>2. over /\ q \in members[s] => Mail(q, k, Msg("on_leave_room", s))'
                BY <3>2, <4>1
            <4> QED
                BY <4>2
        <3> QED
            BY <2>1, <3>1, <3>3, <3>4, <3>5, <3>6
    <2>8. Gateway(q) => \/ OnJoinRoom(q) \/ OnLeaveRoom(q)
                        \/ \E type \in {"join", "rejoin", "gone", "close", "push_to_client"} :
                               Takes(q, type) /\ roomOf'[q] = roomOf[q]
        BY FirstHandled
    <2> QED
        BY <2>2, <2>3, <2>4, <2>5, <2>6, <2>7, <2>8, UnsteadySteps
<1> QED
    BY <1>1, <1>2

-----------------------------------------------------------------------------
(* The invariant, and what it says                                         *)

LEMMA InitInvariant == ASSUME Init PROVE IInv
<1>1. TypeOK
    <2>1. /\ MaxRooms \in Nat /\ MaxAcks \in Nat /\ MaxSent \in Nat
        BY ConstantsBound DEF Bounds
    <2>2. \A S : <<>> \in Seq(S)
        OBVIOUS
    <2> QED
        BY <2>1, <2>2 DEF Init, TypeOK
<1>2. RoomsToCome
    BY DEF Init, RoomsToCome
<1>3. ASSUME NEW p \in Players PROVE ~Seated(p)
    <2>1. /\ calls[p] = <<>> /\ gate[p] = <<>> /\ matchBox = <<>> /\ queue = <<>> /\ batch = <<>>
          /\ \A r \in Rooms : status[r] = "none"
        BY DEF Init
    <2>2. DOMAIN <<>> = {}
        OBVIOUS
    <2> QED
        BY <2>1, <2>2 DEF Seated, Sits, InCalls, InGate, InMatch, InQueue, InBatch, InRoom, Active
<1>4. ASSUME NEW p \in Players PROVE OneSeat(p) /\ NotLost(p) /\ JoinedThenLeaves(p) /\ Knows(p)
    <2>1. /\ acks[p] = 0 /\ inbox[p] = "none" /\ mapped = {} /\ roomOf[p] = NoRoom /\ gate[p] = <<>>
        BY DEF Init
    <2>2. \A i, m : ~Mail(p, i, m)
        BY <2>1 DEF Mail
    <2>3. OneSeat(p)
        BY <1>3, <2>1 DEF OneSeat, Single, Seated
    <2>4. NotLost(p) /\ Knows(p)
        BY <2>1 DEF NotLost, Knows
    <2>5. JoinedThenLeaves(p)
        BY <2>2 DEF JoinedThenLeaves
    <2> QED
        BY <2>3, <2>4, <2>5
<1> QED
    BY <1>1, <1>2, <1>4 DEF IInv

LEMMA NextInvariant == ASSUME IInv, [Next]_vars PROVE IInv'
<1>1. TypeOK /\ RoomsToCome
    BY DEF IInv
<1>2. TypeOK' /\ RoomsToCome'
    BY <1>1, NextTypes, RoomsAreMadeInOrder
<1>3. ASSUME NEW p \in Players PROVE OneSeat(p)' /\ NotLost(p)' /\ JoinedThenLeaves(p)' /\ Knows(p)'
    <2>1. OneSeat(p) /\ NotLost(p) /\ JoinedThenLeaves(p) /\ Knows(p)
        BY DEF IInv
    <2> QED
        BY <1>1, <2>1, NextOneSeat, NextNotLost, NextJoinedThenLeaves, NextKnows
<1> QED
    BY <1>2, <1>3 DEF IInv

(* The inductive invariant: one seat for every player, nobody lost, and the *)
(* rooms and the sessions agree.                                           *)
THEOREM Invariance == Spec => []IInv
<1>1. Init => IInv
    BY InitInvariant
<1>2. IInv /\ [Next]_vars => IInv'
    BY NextInvariant
<1> QED
    BY <1>1, <1>2, PTL DEF Spec

LEMMA SeatsAreSits ==
    ASSUME NEW p \in Players
    PROVE  \A x : x \in Seats(p) <=> \E n, i : x = <<n, i>> /\ Sits(p, n, i)
<1>1. /\ At("calls", calls[p], LAMBDA c : c \in {"join", "rejoin"}) = {<<"calls", i>> : i \in {j \in DOMAIN calls[p] : InCalls(p, j)}}
      /\ At("gate", gate[p], LAMBDA m : m.type \in {"join", "rejoin", "on_leave_room"})
             = {<<"gate", i>> : i \in {j \in DOMAIN gate[p] : InGate(p, j)}}
      /\ At("match", matchBox, LAMBDA m : m = [type |-> "add", player |-> p])
             = {<<"match", i>> : i \in {j \in DOMAIN matchBox : InMatch(p, j)}}
      /\ At("queue", queue, LAMBDA q : q = p) = {<<"queue", i>> : i \in {j \in DOMAIN queue : InQueue(p, j)}}
      /\ At("batch", batch, LAMBDA q : q = p) = {<<"batch", i>> : i \in {j \in DOMAIN batch : InBatch(p, j)}}
    BY DEF At, InCalls, InGate, InMatch, InQueue, InBatch, JoinCalls, SeatTypes
<1>2. {<<"room", r>> : r \in {s \in Rooms : Active(s) /\ p \in members[s]}}
          = {<<"room", r>> : r \in {s \in Rooms : InRoom(p, s)}}
    BY DEF InRoom
<1> QED
    BY <1>1, <1>2 DEF Seats, Sits, InCalls, InGate, InMatch, InQueue, InBatch, InRoom

\* Every variable holds values of its type, for any number of players, rooms
\* and messages under way; gateways and rooms exchange known messages only.
THEOREM TypeCorrect == Spec => []TypeOK
<1>1. IInv => TypeOK
    BY DEF IInv
<1> QED
    BY <1>1, Invariance, PTL

\* gateway.lua and match_loop.lua: a player whose client acknowledges its
\* handshake once is at one place of matchmaking at most.
THEOREM OneSeatEach == Spec => []OnePlace
<1>1. ASSUME IInv, NEW p \in Players, acks[p] <= 1 PROVE Cardinality(Seats(p)) <= 1
    <2>1. Single(p)
        BY <1>1 DEF IInv, OneSeat
    <2>2. \A x, y \in Seats(p) : x = y
        BY <2>1, SeatsAreSits DEF Single
    <2>3. CASE Seats(p) = {}
        BY <2>3, FS_EmptySet
    <2>4. CASE Seats(p) # {}
        <3>1. PICK x : x \in Seats(p)
            BY <2>4
        <3>2. Seats(p) = {x}
            BY <2>2, <3>1
        <3> QED
            BY <3>2, FS_Singleton
    <2> QED
        BY <2>3, <2>4
<1>2. IInv => OnePlace
    BY <1>1 DEF OnePlace
<1> QED
    BY <1>2, Invariance, PTL

\* Matchmaking loses nobody: a player who has acknowledged and whose session
\* lives holds a seat somewhere, whatever is lost, closed or under way.
THEOREM NobodyGetsLost == Spec => []NobodyIsLost
<1>1. ASSUME IInv, NEW p \in mapped, acks[p] > 0, inbox[p] # "ack" PROVE Seats(p) # {}
    <2>1. p \in Players
        BY <1>1 DEF IInv, TypeOK
    <2>2. Seated(p)
        BY <1>1, <2>1 DEF IInv, NotLost
    <2> QED
        BY <2>1, <2>2, SeatsAreSits DEF Seated
<1>2. IInv => NobodyIsLost
    BY <1>1 DEF NobodyIsLost
<1> QED
    BY <1>2, Invariance, PTL

\* on_join_room and on_leave_room of gateway.lua: the room a session sends its
\* moves to is the room its player plays in, but for the messages that say so
\* and have not been handled.
THEOREM SessionsKnowTheirRoom == Spec => []SessionKnowsRoom
<1>1. \A p : \A m : m \in ToSet(gate[p]) <=> \E i : Mail(p, i, m)
    BY DEF ToSet, Mail
<1>2. IInv => SessionKnowsRoom
    BY <1>1 DEF IInv, Knows, SessionKnowsRoom, Plays
<1> QED
    BY <1>2, Invariance, PTL

=============================================================================
