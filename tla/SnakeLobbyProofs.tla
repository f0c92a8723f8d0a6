-------------------------- MODULE SnakeLobbyProofs --------------------------
(***************************************************************************)
(* Proofs about SnakeLobby, for any number of connections, any match size  *)
(* and any number of rooms.                                                *)
(***************************************************************************)
EXTENDS SnakeLobby, FiniteSetTheorems, TLAPS

Finally == {"left", "leave room", "leave queue", "gone"}

\* A player whose handler has passed Unregister is in nobody's hands: it is
\* out of the dictionary that the loops consult before they touch RoomId.
Detached ==
    \A p \in Players : conn[p] \in Finally => p \notin allPlayers /\ socket[p] # "open"

\* MatchLoop fills and starts a real room; the cleanup loop collects one.
LoopsHaveRooms ==
    /\ matching \in {"fill", "announce"} => newRoom \in Rooms
    /\ cleaning \in {"ids", "collect"} => closing \in Rooms

IInv ==
    /\ TypeOK
    /\ Detached
    /\ LoopsHaveRooms
    /\ LeavingRoomIdStable
    /\ SeatKept

-----------------------------------------------------------------------------
(* The queue *)

\* Enqueue adds its player, and adds it once.
LEMMA EnqueueSafe ==
    ASSUME NEW q \in Seq(Players), NEW p \in Players
    PROVE  /\ Enqueue(q, p) \in Seq(Players)
           /\ ToSet(Enqueue(q, p)) = ToSet(q) \cup {p}
           /\ IsInjective(q) => IsInjective(Enqueue(q, p))
  <1>1. CASE p \in ToSet(q)
    BY <1>1 DEF Enqueue
  <1>2. CASE p \notin ToSet(q)
    <2>1. PICK r : r = Append(q, p)
      OBVIOUS
    <2>2. Enqueue(q, p) = r
      BY <1>2, <2>1 DEF Enqueue
    <2>3. \A i \in DOMAIN q : q[i] # p
      BY <1>2 DEF ToSet
    <2>4. /\ r \in Seq(Players) /\ DOMAIN r = 1 .. Len(q) + 1 /\ DOMAIN q = 1 .. Len(q)
          /\ Len(q) \in Nat
          /\ \A i \in 1 .. Len(q) + 1 : r[i] = IF i = Len(q) + 1 THEN p ELSE q[i]
      BY <2>1
    <2>5. ToSet(r) = ToSet(q) \cup {p}
      BY <2>4 DEF ToSet
    <2>6. IsInjective(q) => IsInjective(r)
      BY <2>3, <2>4 DEF IsInjective
    <2>7. QED
      BY <2>2, <2>4, <2>5, <2>6
  <1>3. QED
    BY <1>1, <1>2

\* The head of a list without duplicates is not in its tail.
LEMMA TailSafe ==
    ASSUME NEW s \in Seq(Players), s # <<>>
    PROVE  /\ Head(s) \in Players /\ Tail(s) \in Seq(Players)
           /\ ToSet(s) = {Head(s)} \cup ToSet(Tail(s))
           /\ IsInjective(s) => IsInjective(Tail(s)) /\ Head(s) \notin ToSet(Tail(s))
  <1>1. PICK t : t = Tail(s)
    OBVIOUS
  <1>2. /\ Len(s) \in Nat \ {0} /\ DOMAIN s = 1 .. Len(s) /\ Head(s) = s[1] /\ s[1] \in Players
        /\ t \in Seq(Players) /\ DOMAIN t = 1 .. Len(s) - 1
        /\ \A i \in 1 .. Len(s) - 1 : t[i] = s[i + 1]
    BY <1>1
  <1>3. ToSet(s) = {s[1]} \cup ToSet(t)
    <2>1. ASSUME NEW i \in 1 .. Len(s), i # 1
          PROVE  i - 1 \in 1 .. Len(s) - 1 /\ t[i - 1] = s[i]
      BY <1>2, <2>1
    <2>2. ASSUME NEW i \in 1 .. Len(s) - 1
          PROVE  i + 1 \in 1 .. Len(s) /\ t[i] = s[i + 1]
      BY <1>2
    <2>3. \A x \in ToSet(s) : x \in {s[1]} \cup ToSet(t)
      <3>1. ASSUME NEW i \in 1 .. Len(s)
            PROVE  s[i] \in {s[1]} \cup ToSet(t)
        BY <1>2, <2>1 DEF ToSet
      <3>2. QED
        BY <1>2, <3>1 DEF ToSet
    <2>4. \A x \in ToSet(t) : x \in ToSet(s)
      BY <1>2, <2>2 DEF ToSet
    <2>5. s[1] \in ToSet(s)
      <3>1. 1 \in DOMAIN s
        BY <1>2
      <3>2. QED
        BY <3>1 DEF ToSet
    <2>6. QED
      BY <2>3, <2>4, <2>5
  <1>4. ASSUME IsInjective(s)
        PROVE  IsInjective(t) /\ s[1] \notin ToSet(t)
    <2>1. \A i, j \in 1 .. Len(s) : s[i] = s[j] => i = j
      BY <1>2, <1>4 DEF IsInjective
    <2>2. \A i \in 1 .. Len(s) - 1 : i + 1 \in 1 .. Len(s) /\ i + 1 # 1 /\ t[i] = s[i + 1]
      BY <1>2
    <2>3. IsInjective(t)
      <3>1. ASSUME NEW i \in 1 .. Len(s) - 1, NEW j \in 1 .. Len(s) - 1, t[i] = t[j]
            PROVE  i = j
        BY <1>2, <2>1, <2>2, <3>1
      <3>2. QED
        BY <1>2, <3>1 DEF IsInjective
    <2>4. s[1] \notin ToSet(t)
      BY <1>2, <2>1, <2>2 DEF ToSet
    <2>5. QED
      BY <2>3, <2>4
  <1>5. QED
    BY <1>1, <1>2, <1>3, <1>4

\* One list appended to another that shares nothing with it.
LEMMA ConcatSafe ==
    ASSUME NEW s \in Seq(Players), NEW t \in Seq(Players)
    PROVE  /\ s \o t \in Seq(Players)
           /\ ToSet(s \o t) = ToSet(s) \cup ToSet(t)
           /\ IsInjective(s) /\ IsInjective(t) /\ ToSet(s) \cap ToSet(t) = {}
                  => IsInjective(s \o t)
  <1>1. PICK u : u = s \o t
    OBVIOUS
  <1>2. /\ u \in Seq(Players) /\ DOMAIN u = 1 .. Len(s) + Len(t)
        /\ Len(s) \in Nat /\ Len(t) \in Nat
        /\ DOMAIN s = 1 .. Len(s) /\ DOMAIN t = 1 .. Len(t)
    BY <1>1
  <1>3. \A i \in 1 .. Len(s) : u[i] = s[i]
    BY <1>1
  <1>4. \A i \in 1 .. Len(s) + Len(t) :
            i > Len(s) => i - Len(s) \in 1 .. Len(t) /\ u[i] = t[i - Len(s)]
    BY <1>1, <1>2
  <1>5. \A j \in 1 .. Len(t) : Len(s) + j \in 1 .. Len(s) + Len(t) /\ u[Len(s) + j] = t[j]
    <2>1. ASSUME NEW j \in 1 .. Len(t)
          PROVE  Len(s) + j \in 1 .. Len(s) + Len(t) /\ u[Len(s) + j] = t[j]
      <3>1. Len(s) + j \in 1 .. Len(s) + Len(t) /\ Len(s) + j > Len(s)
            /\ (Len(s) + j) - Len(s) = j
        BY <1>2
      <3>2. QED
        BY <1>4, <3>1
    <2>2. QED
      BY <2>1
  <1>6. ToSet(u) = ToSet(s) \cup ToSet(t)
    <2>1. \A x \in ToSet(u) : x \in ToSet(s) \cup ToSet(t)
      <3>1. ASSUME NEW i \in 1 .. Len(s) + Len(t)
            PROVE  u[i] \in ToSet(s) \cup ToSet(t)
        <4>1. CASE i <= Len(s)
          BY <1>2, <1>3, <4>1 DEF ToSet
        <4>2. CASE i > Len(s)
          BY <1>2, <1>4, <4>2 DEF ToSet
        <4>3. QED
          BY <1>2, <4>1, <4>2
      <3>2. QED
        BY <1>2, <3>1 DEF ToSet
    <2>2. \A x \in ToSet(s) : x \in ToSet(u)
      <3>1. \A i \in 1 .. Len(s) : i \in 1 .. Len(s) + Len(t)
        BY <1>2
      <3>2. QED
        BY <1>2, <1>3, <3>1 DEF ToSet
    <2>3. \A x \in ToSet(t) : x \in ToSet(u)
      BY <1>2, <1>5 DEF ToSet
    <2>4. QED
      BY <2>1, <2>2, <2>3
  <1>7. ASSUME IsInjective(s), IsInjective(t), ToSet(s) \cap ToSet(t) = {}
        PROVE  IsInjective(u)
    <2>1. \A i \in 1 .. Len(s), j \in 1 .. Len(t) : s[i] # t[j]
      BY <1>2, <1>7 DEF ToSet
    <2>2. ASSUME NEW i \in 1 .. Len(s) + Len(t), NEW j \in 1 .. Len(s) + Len(t), u[i] = u[j]
          PROVE  i = j
      <3>1. CASE i <= Len(s) /\ j <= Len(s)
        <4>1. i \in 1 .. Len(s) /\ j \in 1 .. Len(s)
          BY <1>2, <3>1
        <4>2. QED
          BY <1>2, <1>3, <1>7, <2>2, <4>1 DEF IsInjective
      <3>2. CASE i > Len(s) /\ j > Len(s)
        <4>1. i - Len(s) \in 1 .. Len(t) /\ j - Len(s) \in 1 .. Len(t)
              /\ t[i - Len(s)] = t[j - Len(s)]
          BY <1>4, <2>2, <3>2
        <4>2. i - Len(s) = j - Len(s)
          BY <1>2, <1>7, <4>1 DEF IsInjective
        <4>3. QED
          BY <1>2, <4>2
      <3>3. CASE i <= Len(s) /\ j > Len(s)
        BY <1>2, <1>3, <1>4, <2>1, <2>2, <3>3
      <3>4. CASE i > Len(s) /\ j <= Len(s)
        BY <1>2, <1>3, <1>4, <2>1, <2>2, <3>4
      <3>5. QED
        BY <1>2, <3>1, <3>2, <3>3, <3>4
    <2>3. QED
      BY <1>2, <2>2 DEF IsInjective
  <1>8. QED
    BY <1>1, <1>2, <1>6, <1>7

\* A sequence without its k-th element: what comes before k stays in place,
\* what comes after moves up.
LEMMA SkipOne ==
    ASSUME NEW q \in Seq(Players), NEW k \in 1 .. Len(q)
    PROVE  /\ RemoveAt(q, k) \in Seq(Players)
           /\ Len(RemoveAt(q, k)) = Len(q) - 1
           /\ \A i \in 1 .. Len(q) - 1 : RemoveAt(q, k)[i] = IF i < k THEN q[i] ELSE q[i + 1]
  <1>1. PICK f : f = SubSeq(q, 1, k - 1)
    OBVIOUS
  <1>2. PICK g : g = SubSeq(q, k + 1, Len(q))
    OBVIOUS
  <1>3. f \in Seq(Players) /\ Len(f) = k - 1 /\ \A i \in 1 .. k - 1 : f[i] = q[i]
    BY <1>1
  <1>4. g \in Seq(Players) /\ Len(g) = Len(q) - k
    BY <1>2
  <1>5. ASSUME NEW i \in 1 .. Len(q) - k
        PROVE  g[i] = q[k + i]
    <2>1. g[i] = q[(k + 1) + i - 1]
      BY <1>2
    <2>2. (k + 1) + i - 1 = k + i
      OBVIOUS
    <2>3. QED
      BY <2>1, <2>2
  <1>6. RemoveAt(q, k) = f \o g
    BY <1>1, <1>2 DEF RemoveAt
  <1>7. f \o g \in Seq(Players) /\ Len(f \o g) = Len(f) + Len(g)
    BY <1>3, <1>4
  <1>8. ASSUME NEW i \in 1 .. Len(q) - 1
        PROVE  (f \o g)[i] = IF i < k THEN q[i] ELSE q[i + 1]
    <2>1. CASE i < k
      <3>1. (f \o g)[i] = f[i]
        BY <1>3, <1>4, <2>1
      <3>2. QED
        BY <1>3, <2>1, <3>1
    <2>2. CASE i >= k
      <3>1. i - (k - 1) \in 1 .. Len(q) - k
        BY <2>2
      <3>2. (f \o g)[i] = g[i - (k - 1)]
        BY <1>3, <1>4, <2>2
      <3>3. g[i - (k - 1)] = q[k + (i - (k - 1))]
        BY <1>5, <3>1
      <3>4. k + (i - (k - 1)) = i + 1
        OBVIOUS
      <3>5. QED
        BY <2>2, <3>2, <3>3, <3>4
    <2>3. i \in Int /\ k \in Int
      OBVIOUS
    <2>4. i < k \/ i >= k
      BY <2>3
    <2>5. QED
      BY <2>1, <2>2, <2>4
  <1>9. Len(f) + Len(g) = Len(q) - 1
    BY <1>3, <1>4
  <1>10. QED
    BY <1>6, <1>7, <1>8, <1>9

\* Taking a player out of the queue adds nothing,
LEMMA WithoutSafe ==
    ASSUME NEW q \in Seq(Players), NEW p \in Players
    PROVE  /\ Without(q, p) \in Seq(Players)
           /\ ToSet(Without(q, p)) \subseteq ToSet(q)
           /\ IsInjective(q) => IsInjective(Without(q, p))
  <1>1. CASE p \notin ToSet(q)
    BY <1>1 DEF Without
  <1>2. CASE p \in ToSet(q)
    <2>1. PICK k \in DOMAIN q : Without(q, p) = RemoveAt(q, k)
      BY <1>2 DEF Without, ToSet
    <2>2. PICK r : r = RemoveAt(q, k)
      OBVIOUS
    <2>3. /\ r \in Seq(Players) /\ DOMAIN r = 1 .. Len(q) - 1
          /\ \A i \in 1 .. Len(q) - 1 : r[i] = IF i < k THEN q[i] ELSE q[i + 1]
      <3>1. k \in 1 .. Len(q)
        OBVIOUS
      <3>2. /\ r \in Seq(Players) /\ Len(r) = Len(q) - 1
            /\ \A i \in 1 .. Len(q) - 1 : r[i] = IF i < k THEN q[i] ELSE q[i + 1]
        BY <2>2, <3>1, SkipOne, Zenon
      <3>3. DOMAIN r = 1 .. Len(r)
        BY <3>2
      <3>4. QED
        BY <3>2, <3>3
    <2>4. \A i \in 1 .. Len(q) - 1 : i \in DOMAIN q /\ i + 1 \in DOMAIN q
      OBVIOUS
    <2>5. ToSet(r) \subseteq ToSet(q)
      BY <2>3, <2>4 DEF ToSet
    <2>6. ASSUME IsInjective(q), NEW i \in 1 .. Len(q) - 1, NEW j \in 1 .. Len(q) - 1, r[i] = r[j]
          PROVE  i = j
      BY <2>3, <2>4, <2>6 DEF IsInjective
    <2>7. IsInjective(q) => IsInjective(r)
      BY <2>3, <2>6 DEF IsInjective
    <2>8. QED
      BY <2>1, <2>2, <2>3, <2>5, <2>7
  <1>3. QED
    BY <1>1, <1>2

\* and dequeuing a full match splits it.
LEMMA DequeueSafe ==
    ASSUME NEW q \in Seq(Players), Len(q) >= MatchSize
    PROVE  LET front == SubSeq(q, 1, MatchSize)
               rest == SubSeq(q, MatchSize + 1, Len(q))
           IN  /\ front \in Seq(Players) /\ rest \in Seq(Players)
               /\ ToSet(front) \subseteq ToSet(q) /\ ToSet(rest) \subseteq ToSet(q)
               /\ IsInjective(q) => /\ IsInjective(front) /\ IsInjective(rest)
                                    /\ ToSet(front) \cap ToSet(rest) = {}
  <1>1. PICK front : front = SubSeq(q, 1, MatchSize)
    OBVIOUS
  <1>2. PICK rest : rest = SubSeq(q, MatchSize + 1, Len(q))
    OBVIOUS
  <1>3. MatchSize \in Nat \ {0} /\ Len(q) \in Nat /\ DOMAIN q = 1 .. Len(q)
    BY LobbyAssumption
  <1>4. /\ front \in Seq(Players) /\ DOMAIN front = 1 .. MatchSize
        /\ \A i \in 1 .. MatchSize : front[i] = q[i]
    BY <1>1, <1>3
  <1>5. /\ rest \in Seq(Players) /\ DOMAIN rest = 1 .. Len(q) - MatchSize
        /\ \A i \in 1 .. Len(q) - MatchSize : rest[i] = q[MatchSize + i]
    BY <1>2, <1>3
  <1>6. /\ \A i \in 1 .. MatchSize : i \in 1 .. Len(q)
        /\ \A i \in 1 .. Len(q) - MatchSize : MatchSize + i \in 1 .. Len(q)
    BY <1>3
  <1>7. ToSet(front) \subseteq ToSet(q) /\ ToSet(rest) \subseteq ToSet(q)
    BY <1>3, <1>4, <1>5, <1>6 DEF ToSet
  <1>8. ASSUME IsInjective(q)
        PROVE  IsInjective(front) /\ IsInjective(rest) /\ ToSet(front) \cap ToSet(rest) = {}
    <2>1. \A i, j \in 1 .. Len(q) : q[i] = q[j] => i = j
      BY <1>3, <1>8 DEF IsInjective
    <2>2. IsInjective(front)
      BY <1>4, <1>6, <2>1 DEF IsInjective
    <2>3. IsInjective(rest)
      <3>1. ASSUME NEW i \in 1 .. Len(q) - MatchSize, NEW j \in 1 .. Len(q) - MatchSize,
                   rest[i] = rest[j]
            PROVE  i = j
        <4>1. MatchSize + i = MatchSize + j
          BY <1>5, <1>6, <2>1, <3>1
        <4>2. QED
          BY <1>3, <4>1
      <3>2. QED
        BY <1>5, <3>1 DEF IsInjective
    <2>4. \A i \in 1 .. MatchSize, j \in 1 .. Len(q) - MatchSize : front[i] # rest[j]
      <3>1. ASSUME NEW i \in 1 .. MatchSize, NEW j \in 1 .. Len(q) - MatchSize
            PROVE  front[i] # rest[j]
        <4>1. i # MatchSize + j
          BY <1>3
        <4>2. QED
          BY <1>4, <1>5, <1>6, <2>1, <4>1
      <3>2. QED
        BY <3>1
    <2>5. ToSet(front) \cap ToSet(rest) = {}
      BY <1>4, <1>5, <2>4 DEF ToSet
    <2>6. QED
      BY <2>2, <2>3, <2>5
  <1>9. QED
    BY <1>1, <1>2, <1>4, <1>5, <1>7, <1>8

-----------------------------------------------------------------------------
(* The invariant is inductive *)

\* The initial state.
LEMMA InitIInv == Init => IInv
  <1> SUFFICES ASSUME Init PROVE IInv
    OBVIOUS
  <1>1. MaxRooms \in Nat
    BY LobbyAssumption
  <1>2. TypeOK
    <2>1. queue \in Seq(Players) /\ matched \in Seq(Players) /\ toRematch \in Seq(Players)
      BY DEF Init
    <2>2. nextRoomId \in 1 .. MaxRooms + 1 /\ newRoom \in Rooms \cup {NoRoom}
          /\ closing \in Rooms \cup {NoRoom}
      BY <1>1 DEF Init
    <2>3. members \in [Rooms -> SUBSET Players] /\ roomOf \in [Players -> Rooms \cup {NoRoom}]
      BY DEF Init
    <2>4. status \in [Rooms -> {"Waiting", "Playing"}] /\ loop \in [Rooms -> {"none", "delay", "send"}]
          /\ started \in [Rooms -> BOOLEAN] /\ alive \in [Players -> BOOLEAN]
      BY DEF Init
    <2>5. QED
      BY <2>1, <2>2, <2>3, <2>4 DEF Init, TypeOK
  <1>3. Detached /\ LoopsHaveRooms /\ LeavingRoomIdStable
    BY DEF Init, Detached, LoopsHaveRooms, LeavingRoomIdStable, Finally
  <1>4. SeatKept
    BY DEF Init, SeatKept
  <1>5. QED
    BY <1>2, <1>3, <1>4 DEF IInv

\* Steps of a handler that leave the queue, the rooms and the loops alone.
LEMMA HandlerIInv ==
    ASSUME IInv, NEW p \in Players,
           \/ Connect(p) \/ ResponseFails(p) \/ UnexpectedPackage(p) \/ ReceiveAck(p)
           \/ ClientGone(p) \/ ReceiveMove(p) \/ HeartbeatReplyFails(p) \/ ForwardMove(p)
           \/ Unregister(p) \/ ReadRoomId(p)
    PROVE  IInv'
  <1> USE DEF Connect, ResponseFails, UnexpectedPackage, ReceiveAck, ClientGone, ReceiveMove,
              HeartbeatReplyFails, ForwardMove, Unregister, ReadRoomId, Abandon
  <1>1. TypeOK'
    <2>1. conn' \in [Players -> {"new", "joined", "ack", "main", "move", "leaving", "left",
                                 "leave room", "leave queue", "gone"}]
      BY DEF IInv, TypeOK
    <2>2. socket' \in [Players -> {"open", "shut", "shut with heartbeat"}]
      BY DEF IInv, TypeOK
    <2>3. allPlayers' \subseteq Players
      BY ZenonT(40) DEF IInv, TypeOK
    <2>4. UNCHANGED <<roomOf, alive, queue, rooms, nextRoomId, room, matcher, cleaner>>
      OBVIOUS
    <2>5. QED
      BY <2>1, <2>2, <2>3, <2>4 DEF IInv, TypeOK, room, matcher, cleaner
  <1>2. Detached'
    <2> SUFFICES ASSUME NEW q \in Players, conn'[q] \in Finally
                 PROVE  q \notin allPlayers' /\ socket'[q] # "open"
      BY DEF Detached
    <2>1. CASE q # p
      <3>1. conn'[q] = conn[q] /\ socket'[q] = socket[q]
        BY <2>1 DEF IInv, TypeOK
      <3>2. q \in allPlayers' => q \in allPlayers
        BY <2>1
      <3>3. QED
        BY <3>1, <3>2 DEF IInv, Detached
    <2>2. CASE q = p /\ (Unregister(p) \/ ReadRoomId(p))
      BY <2>2 DEF IInv, TypeOK, Detached, Finally
    <2>3. CASE q = p /\ (ForwardMove(p) \/ Connect(p) \/ ReceiveAck(p) \/ ReceiveMove(p))
      BY <2>3 DEF IInv, TypeOK, Finally
    <2>4. CASE q = p /\ (ResponseFails(p) \/ UnexpectedPackage(p) \/ HeartbeatReplyFails(p))
      BY <2>4 DEF IInv, TypeOK, Finally
    <2>5. CASE q = p /\ ClientGone(p)
      BY <2>5 DEF IInv, TypeOK, Detached, Finally
    <2>6. QED
      BY <2>1, <2>2, <2>3, <2>4, <2>5
  <1>3. LeavingRoomIdStable'
    BY DEF IInv, TypeOK, LeavingRoomIdStable
  <1>4. SeatKept'
    BY DEF IInv, TypeOK, SeatKept, room
  <1>5. LoopsHaveRooms'
    BY DEF IInv, LoopsHaveRooms, matcher, cleaner
  <1>6. QED
    BY <1>1, <1>2, <1>3, <1>4, <1>5 DEF IInv

\* Steps that touch the queue.
LEMMA JoinQueueIInv ==
    ASSUME IInv, NEW p \in Players, JoinQueue(p)
    PROVE  IInv'
  <1>1. queue' \in Seq(Players)
    BY EnqueueSafe DEF IInv, TypeOK, JoinQueue
  <1>2. TypeOK'
    BY <1>1 DEF IInv, TypeOK, JoinQueue, room, matcher, cleaner
  <1>3. Detached' /\ LeavingRoomIdStable' /\ SeatKept' /\ LoopsHaveRooms'
    BY DEF IInv, TypeOK, JoinQueue, Detached, Finally, LeavingRoomIdStable, SeatKept,
           LoopsHaveRooms, room, matcher, cleaner
  <1>4. QED
    BY <1>1, <1>2, <1>3 DEF IInv

\* A leaving player takes itself out of the queue.
LEMMA LeaveQueueIInv ==
    ASSUME IInv, NEW p \in Players, LeaveQueue(p)
    PROVE  IInv'
  <1>1. queue' \in Seq(Players)
    BY WithoutSafe DEF IInv, TypeOK, LeaveQueue
  <1>2. TypeOK'
    BY <1>1 DEF IInv, TypeOK, LeaveQueue, room, matcher, cleaner
  <1>3. Detached' /\ LeavingRoomIdStable' /\ SeatKept' /\ LoopsHaveRooms'
    BY DEF IInv, TypeOK, LeaveQueue, Detached, Finally, LeavingRoomIdStable, SeatKept,
           LoopsHaveRooms, room, matcher, cleaner
  <1>4. QED
    BY <1>1, <1>2, <1>3 DEF IInv

\* A leaving player is not connected, so its seat is not missed.
LEMMA LeaveRoomIInv ==
    ASSUME IInv, NEW p \in Players, LeaveRoom(p)
    PROVE  IInv'
  <1>1. members' \in [Rooms -> SUBSET Players]
    BY DEF IInv, TypeOK, LeaveRoom
  <1>2. TypeOK'
    BY <1>1 DEF IInv, TypeOK, LeaveRoom, matcher, cleaner
  <1>3. Detached' /\ LeavingRoomIdStable' /\ LoopsHaveRooms'
    BY DEF IInv, TypeOK, LeaveRoom, Detached, Finally, LeavingRoomIdStable, LoopsHaveRooms,
           matcher, cleaner
  <1>4. socket[p] # "open"
    BY DEF IInv, LeaveRoom, Detached, Finally
  <1>5. SeatKept'
    <2> SUFFICES ASSUME NEW q \in Players, roomOf[q] # NoRoom, socket[q] = "open"
                 PROVE  q \in members'[roomOf[q]]
      BY DEF SeatKept, LeaveRoom
    <2>1. q # p /\ roomOf[q] \in Rooms /\ q \in members[roomOf[q]]
      BY <1>4 DEF IInv, SeatKept, TypeOK
    <2>2. QED
      BY <2>1 DEF LeaveRoom
  <1>6. QED
    BY <1>2, <1>3, <1>5 DEF IInv

\* MatchLoop takes players out of the queue and opens a room.
LEMMA TryMatchIInv ==
    ASSUME IInv, TryMatch
    PROVE  IInv'
  <1>1. queue' \in Seq(Players) /\ matched' \in Seq(Players)
    BY DequeueSafe DEF IInv, TypeOK, TryMatch
  <1>2. TypeOK'
    BY <1>1 DEF IInv, TypeOK, TryMatch, player, room, cleaner
  <1>3. Detached' /\ LeavingRoomIdStable' /\ SeatKept' /\ LoopsHaveRooms'
    BY DEF IInv, TryMatch, Detached, LeavingRoomIdStable, SeatKept, LoopsHaveRooms,
           player, room, cleaner
  <1>4. QED
    BY <1>1, <1>2, <1>3 DEF IInv

\* The new room has an id of its own.
LEMMA CreateRoomIInv ==
    ASSUME IInv, CreateRoom
    PROVE  IInv'
  <1>0. nextRoomId \in Rooms /\ nextRoomId + 1 \in 1 .. MaxRooms + 1
    <2>1. MaxRooms \in Nat /\ nextRoomId \in 1 .. MaxRooms + 1 /\ nextRoomId <= MaxRooms
      BY LobbyAssumption DEF IInv, TypeOK, CreateRoom
    <2>2. QED
      BY <2>1 DEF Rooms
  <1>1. newRoom' \in Rooms /\ nextRoomId' \in 1 .. MaxRooms + 1 /\ rooms' \subseteq Rooms
    BY <1>0 DEF IInv, TypeOK, CreateRoom
  <1>2. TypeOK'
    BY <1>1 DEF IInv, TypeOK, CreateRoom, player, room, cleaner
  <1>3. Detached' /\ LeavingRoomIdStable' /\ SeatKept' /\ LoopsHaveRooms'
    BY <1>1 DEF IInv, CreateRoom, Detached, LeavingRoomIdStable, SeatKept, LoopsHaveRooms,
           player, room, cleaner
  <1>4. QED
    BY <1>2, <1>3 DEF IInv

\* A player that enters a room is connected, so its RoomId is not one that a
\* finally block relies on, and it gets RoomId and seat in one step.
LEMMA FillRoomIInv ==
    ASSUME IInv, FillRoom
    PROVE  IInv'
  <1> DEFINE p == Head(matched)
  <1>1. newRoom \in Rooms /\ newRoom # NoRoom
    BY LobbyAssumption DEF IInv, FillRoom, LoopsHaveRooms, Rooms, NoRoom
  <1>2. p \in Players /\ matched' \in Seq(Players)
    <2>1. matched \in Seq(Players) /\ matched # <<>> /\ matched' = Tail(matched)
      BY DEF IInv, TypeOK, FillRoom
    <2>2. QED
      BY <2>1
  <1>3. CASE p \in allPlayers /\ status[newRoom] = "Waiting"
    <2>1. /\ members' = [members EXCEPT ![newRoom] = @ \cup {p}]
          /\ roomOf' = [roomOf EXCEPT ![p] = newRoom]
          /\ alive' = [alive EXCEPT ![p] = TRUE]
      BY <1>3 DEF FillRoom, AddPlayer
    <2>2. members' \in [Rooms -> SUBSET Players]
      BY <1>1, <1>2, <2>1 DEF IInv, TypeOK
    <2>3. roomOf' \in [Players -> Rooms \cup {NoRoom}]
      BY <1>1, <1>2, <2>1 DEF IInv, TypeOK
    <2>4. alive' \in [Players -> BOOLEAN]
      BY <1>2, <2>1 DEF IInv, TypeOK
    <2> HIDE DEF p
    <2>5. TypeOK'
      BY <1>2, <2>2, <2>3, <2>4 DEF IInv, TypeOK, FillRoom, cleaner
    <2>6. Detached' /\ LoopsHaveRooms'
      BY DEF IInv, FillRoom, Detached, LoopsHaveRooms, cleaner
    <2>7. LeavingRoomIdStable'
      BY <1>1, <1>2, <2>1 DEF IInv, TypeOK, FillRoom, LeavingRoomIdStable
    <2>8. SeatKept'
      <3> SUFFICES ASSUME NEW q \in Players, roomOf'[q] # NoRoom, socket[q] = "open"
                   PROVE  q \in members'[roomOf'[q]]
        BY DEF SeatKept, FillRoom
      <3>1. CASE q = p
        BY <1>1, <1>2, <2>1, <3>1 DEF IInv, TypeOK
      <3>2. CASE q # p
        <4>1. roomOf'[q] = roomOf[q] /\ roomOf[q] \in Rooms /\ q \in members[roomOf[q]]
          BY <2>1, <3>2 DEF IInv, TypeOK, SeatKept
        <4>2. QED
          BY <1>1, <2>1, <4>1 DEF IInv, TypeOK
      <3>3. QED
        BY <3>1, <3>2
    <2>9. QED
      BY <2>5, <2>6, <2>7, <2>8 DEF IInv
  <1>4. CASE ~(p \in allPlayers /\ status[newRoom] = "Waiting")
    <2>1. UNCHANGED <<members, roomOf, alive>>
      BY <1>4 DEF FillRoom, AddPlayer
    <2>2. TypeOK'
      BY <1>2, <2>1 DEF IInv, TypeOK, FillRoom, cleaner
    <2>3. Detached' /\ LoopsHaveRooms' /\ LeavingRoomIdStable' /\ SeatKept'
      BY <2>1 DEF IInv, FillRoom, Detached, LoopsHaveRooms, LeavingRoomIdStable, SeatKept, cleaner
    <2>4. QED
      BY <2>2, <2>3 DEF IInv
  <1>5. QED
    BY <1>3, <1>4

\* The game starts; nobody moves.
LEMMA StartGameIInv ==
    ASSUME IInv, StartGame
    PROVE  IInv'
  <1>1. newRoom \in Rooms
    BY DEF IInv, StartGame, LoopsHaveRooms
  <1>2. /\ status' \in [Rooms -> {"Waiting", "Playing"}]
        /\ started' \in [Rooms -> BOOLEAN]
        /\ loop' \in [Rooms -> {"none", "delay", "send"}]
    BY <1>1 DEF IInv, TypeOK, StartGame
  <1>3. newRoom' \in Rooms \cup {NoRoom} /\ matching' \in {"idle", "announce"}
    BY <1>1 DEF StartGame
  <1>4. TypeOK'
    BY <1>2, <1>3 DEF IInv, TypeOK, StartGame, player, cleaner
  <1>5. Detached' /\ LoopsHaveRooms' /\ LeavingRoomIdStable' /\ SeatKept'
    BY <1>1 DEF IInv, StartGame, Detached, LoopsHaveRooms, LeavingRoomIdStable, SeatKept, player, cleaner
  <1>6. QED
    BY <1>4, <1>5 DEF IInv

\* A broadcast drops no player whose connection is up.
LEMMA BroadcastKeepsSeats ==
    ASSUME TypeOK, SeatKept, NEW r \in Rooms, Broadcast(r), UNCHANGED <<socket, roomOf>>
    PROVE  members' \in [Rooms -> SUBSET Players] /\ SeatKept'
  <1>1. PICK failed \in SUBSET Unreachable(r) : members' = [members EXCEPT ![r] = @ \ failed]
    BY DEF Broadcast
  <1>2. members' \in [Rooms -> SUBSET Players]
    BY <1>1 DEF TypeOK
  <1>3. ASSUME NEW q \in Players, roomOf[q] # NoRoom, socket[q] = "open"
        PROVE  q \in members'[roomOf[q]]
    <2>1. q \in members[roomOf[q]] /\ roomOf[q] \in Rooms /\ q \notin failed
      BY <1>1, <1>3 DEF TypeOK, SeatKept, Unreachable
    <2>2. QED
      BY <1>1, <2>1 DEF TypeOK
  <1>4. QED
    BY <1>2, <1>3 DEF SeatKept

\* The first broadcast, from MatchLoop,
LEMMA AnnounceIInv ==
    ASSUME IInv, Announce
    PROVE  IInv'
  <1>1. newRoom \in Rooms
    BY DEF IInv, Announce, LoopsHaveRooms
  <1>2. members' \in [Rooms -> SUBSET Players] /\ SeatKept'
    BY <1>1, BroadcastKeepsSeats DEF IInv, Announce, player
  <1>3. TypeOK'
    BY <1>1, <1>2 DEF IInv, TypeOK, Announce, player, cleaner
  <1>4. Detached' /\ LoopsHaveRooms' /\ LeavingRoomIdStable'
    BY DEF IInv, Announce, Detached, LoopsHaveRooms, LeavingRoomIdStable, player, cleaner
  <1>5. QED
    BY <1>2, <1>3, <1>4 DEF IInv

\* The game loop of a room.
LEMMA GameTickIInv ==
    ASSUME IInv, NEW r \in Rooms, GameTick(r)
    PROVE  IInv'
  <1>1. alive' \in [Players -> BOOLEAN]
    BY DEF IInv, TypeOK, GameTick
  <1>2. status' \in [Rooms -> {"Waiting", "Playing"}]
    <2>1. PICK s \in {"Waiting", "Playing"} : status' = [status EXCEPT ![r] = s]
      BY DEF GameTick
    <2>2. status \in [Rooms -> {"Waiting", "Playing"}]
      BY DEF IInv, TypeOK
    <2>3. QED
      BY <2>1, <2>2
  <1>3. loop' \in [Rooms -> {"none", "delay", "send"}]
    BY DEF IInv, TypeOK, GameTick
  <1>4. TypeOK'
    BY <1>1, <1>2, <1>3 DEF IInv, TypeOK, GameTick, matcher, cleaner
  <1>5. Detached' /\ LoopsHaveRooms' /\ LeavingRoomIdStable' /\ SeatKept'
    BY DEF IInv, GameTick, Detached, LoopsHaveRooms, LeavingRoomIdStable, SeatKept, matcher, cleaner
  <1>6. QED
    BY <1>4, <1>5 DEF IInv

\* and the later ones, from the game loop.
LEMMA SendStateIInv ==
    ASSUME IInv, NEW r \in Rooms, SendState(r)
    PROVE  IInv'
  <1>1. members' \in [Rooms -> SUBSET Players] /\ SeatKept'
    BY BroadcastKeepsSeats DEF IInv, SendState, player
  <1>2. TypeOK'
    BY <1>1 DEF IInv, TypeOK, SendState, player, matcher, cleaner
  <1>3. Detached' /\ LoopsHaveRooms' /\ LeavingRoomIdStable'
    BY DEF IInv, SendState, Detached, LoopsHaveRooms, LeavingRoomIdStable, player, matcher, cleaner
  <1>4. QED
    BY <1>1, <1>2, <1>3 DEF IInv

\* RoomCleanupLoop looks at rooms and gathers ids: no player is touched.
LEMMA ScanIInv ==
    ASSUME IInv,
           \/ BeginScan \/ (\E r \in Rooms : CheckRoom(r)) \/ GetPlayerIds \/ EndScan
           \/ (\E r \in Rooms : CloseRoom(r)) \/ EndCleanup
    PROVE  IInv'
  <1> USE DEF BeginScan, CheckRoom, GetPlayerIds, EndScan, CloseRoom, EndCleanup
  <1>1. UNCHANGED <<player, allPlayers, queue, nextRoomId, room, matcher, toRematch>>
    OBVIOUS
  <1>2. cleaning' \in {"idle", "scan", "ids", "collect", "close"}
    BY DEF IInv, TypeOK
  <1>3. rooms' \subseteq Rooms /\ toScan' \subseteq Rooms /\ toClose' \subseteq Rooms
        /\ early' \subseteq Rooms
    <2>1. rooms' \subseteq rooms /\ toClose' \subseteq toClose
      OBVIOUS
    <2>2. toScan' \subseteq toScan \cup rooms
      OBVIOUS
    <2>3. early' \subseteq early \cup Rooms
      OBVIOUS
    <2>4. QED
      BY <2>1, <2>2, <2>3 DEF IInv, TypeOK
  <1>4. closing' \in Rooms \cup {NoRoom}
    BY DEF IInv, TypeOK
  <1>5. ids' \subseteq Players
    <2>1. cleaning = "ids" => closing \in Rooms
      BY DEF IInv, LoopsHaveRooms
    <2>2. ids \subseteq Players /\ members \in [Rooms -> SUBSET Players]
      BY DEF IInv, TypeOK
    <2>3. CASE GetPlayerIds
      BY <2>1, <2>2, <2>3
    <2>4. CASE ~GetPlayerIds
      <3>1. ids' = ids
        BY <2>4
      <3>2. QED
        BY <2>2, <3>1
    <2>5. QED
      BY <2>3, <2>4
  <1>6. cleaning' \in {"ids", "collect"} => closing' \in Rooms
    BY DEF IInv, TypeOK, LoopsHaveRooms
  <1> USE DEF player, room, matcher
  <1>7. TypeOK'
    BY <1>1, <1>2, <1>3, <1>4, <1>5 DEF IInv, TypeOK
  <1>8. Detached' /\ LoopsHaveRooms' /\ LeavingRoomIdStable' /\ SeatKept'
    BY <1>1, <1>6 DEF IInv, Detached, LoopsHaveRooms, LeavingRoomIdStable,
                      SeatKept
  <1>9. QED
    BY <1>7, <1>8 DEF IInv

\* The players of a closable room go on the list of those to be matched again.
\* Only connected ones lose their RoomId, and none of them is leaving.
LEMMA CollectPlayersIInv ==
    ASSUME IInv, CollectPlayers
    PROVE  IInv'
  <1>1. PICK s \in SetToSeqs(ids \cap allPlayers) : toRematch' = toRematch \o s
    BY DEF CollectPlayers
  <1>2. s \in Seq(Players)
    <2>1. s \in [1 .. Cardinality(ids \cap allPlayers) -> ids \cap allPlayers]
      BY DEF SetToSeqs
    <2>2. IsFiniteSet(ids \cap allPlayers)
      BY LobbyAssumption, FS_Subset DEF IInv, TypeOK
    <2>3. Cardinality(ids \cap allPlayers) \in Nat
      BY <2>2, FS_CardinalityType
    <2>4. ids \cap allPlayers \subseteq Players
      BY DEF IInv, TypeOK
    <2>5. PICK n : n = Cardinality(ids \cap allPlayers)
      OBVIOUS
    <2>6. n \in Nat /\ s \in [1 .. n -> Players]
      BY <2>1, <2>3, <2>4, <2>5
    <2>7. QED
      BY <2>6
  <1>3. toRematch' \in Seq(Players)
    <2>1. toRematch \in Seq(Players)
      BY DEF IInv, TypeOK
    <2>2. PICK t : t = toRematch \o s
      OBVIOUS
    <2>3. t \in Seq(Players)
      BY <1>2, <2>1, <2>2
    <2>4. QED
      BY <1>1, <2>2, <2>3
  <1>4. closing \in Rooms
    BY DEF IInv, LoopsHaveRooms, CollectPlayers
  <1>5. roomOf' \in [Players -> Rooms \cup {NoRoom}]
    BY DEF IInv, TypeOK, CollectPlayers
  <1>6. alive' \in [Players -> BOOLEAN]
    BY DEF IInv, TypeOK, CollectPlayers
  <1>7. TypeOK'
    BY <1>3, <1>4, <1>5, <1>6 DEF IInv, TypeOK, CollectPlayers, room, matcher
  <1>8. Detached' /\ LoopsHaveRooms'
    BY DEF IInv, CollectPlayers, Detached, LoopsHaveRooms, matcher
  <1>9. LeavingRoomIdStable'
    <2> SUFFICES ASSUME NEW p \in Players, conn[p] = "leave room" PROVE roomOf'[p] # NoRoom
      BY DEF LeavingRoomIdStable, CollectPlayers
    <2>1. p \notin allPlayers /\ roomOf[p] # NoRoom
      BY DEF IInv, Detached, Finally, LeavingRoomIdStable
    <2>2. QED
      BY <2>1 DEF CollectPlayers
  <1>10. SeatKept'
    BY DEF IInv, SeatKept, CollectPlayers, room
  <1>11. QED
    BY <1>7, <1>8, <1>9, <1>10 DEF IInv

\* Back to the queue.
LEMMA RematchIInv ==
    ASSUME IInv, Rematch
    PROVE  IInv'
  <1>1. Head(toRematch) \in Players /\ toRematch' \in Seq(Players)
    <2>1. toRematch \in Seq(Players) /\ toRematch # <<>> /\ toRematch' = Tail(toRematch)
      BY DEF IInv, TypeOK, Rematch
    <2>2. QED
      BY <2>1
  <1>2. queue' \in Seq(Players)
    BY <1>1, EnqueueSafe DEF IInv, TypeOK, Rematch
  <1>3. TypeOK'
    BY <1>1, <1>2 DEF IInv, TypeOK, Rematch, player, room, matcher
  <1>4. Detached' /\ LeavingRoomIdStable' /\ SeatKept' /\ LoopsHaveRooms'
    BY DEF IInv, Rematch, Detached, LeavingRoomIdStable, SeatKept, LoopsHaveRooms,
           player, room, matcher
  <1>5. QED
    BY <1>2, <1>3, <1>4 DEF IInv

\* The invariant holds in every reachable state.
THEOREM Inductive == Spec => []IInv
  <1>1. ASSUME IInv, [Next]_vars
        PROVE  IInv'
    <2>1. CASE \E p \in Players : HandlerStep(p) \/ ClientStep(p)
      BY <1>1, <2>1, HandlerIInv, JoinQueueIInv, LeaveRoomIInv, LeaveQueueIInv
      DEF HandlerStep, ClientStep
    <2>2. CASE MatchStep
      BY <1>1, <2>2, TryMatchIInv, CreateRoomIInv, FillRoomIInv, StartGameIInv, AnnounceIInv
      DEF MatchStep
    <2>3. CASE \E r \in Rooms : GameStep(r)
      BY <1>1, <2>3, GameTickIInv, SendStateIInv DEF GameStep
    <2>4. CASE CleanupStep
      BY <1>1, <2>4, ScanIInv, CollectPlayersIInv, RematchIInv DEF CleanupStep
    <2>5. CASE UNCHANGED vars
      <3>1. TypeOK'
        BY <1>1, <2>5 DEF IInv, TypeOK, vars, player, room, matcher, cleaner
      <3>2. Detached' /\ LoopsHaveRooms' /\ LeavingRoomIdStable' /\ SeatKept'
        BY <1>1, <2>5 DEF IInv, Detached, LoopsHaveRooms, SeatKept,
                          LeavingRoomIdStable, vars, player, room, matcher, cleaner
      <3>3. QED
        BY <3>1, <3>2 DEF IInv
    <2>6. QED
      BY <1>1, <2>1, <2>2, <2>3, <2>4, <2>5 DEF Next
  <1>2. QED
    BY <1>1, InitIInv, PTL DEF Spec

\* The variables keep their types.
THEOREM TypeCorrect == Spec => []TypeOK
  <1>1. IInv => TypeOK
    BY DEF IInv
  <1>2. QED
    BY <1>1, Inductive, PTL

\* A finally block that has seen a RoomId still finds it when it holds
\* roomsLock: the cleanup loop resets the RoomId of registered players only.
THEOREM LeavingRoomIdIsStable == Spec => []LeavingRoomIdStable
  <1>1. IInv => LeavingRoomIdStable
    BY DEF IInv
  <1>2. QED
    BY <1>1, Inductive, PTL

\* A player with a RoomId and a working connection is never dropped from that
\* room, whatever the broadcasts, the cleanup and the other players do.
THEOREM SeatIsKept == Spec => []SeatKept
  <1>1. IInv => SeatKept
    BY DEF IInv
  <1>2. QED
    BY <1>1, Inductive, PTL

-----------------------------------------------------------------------------
(* Where the players are: OnePlace *)

\* Nobody gets anywhere before its handler has enqueued it.
Fresh ==
    \A p \in Players : conn[p] \in {"new", "joined"} =>
        p \notin Waiting /\ p \notin ids /\ \A r \in Rooms : p \notin members[r]

UnusedRooms == newRoom < nextRoomId /\ \A r \in Rooms : r >= nextRoomId => members[r] = {}

\* MatchLoop has used up one match when it looks for the next.
NothingInHand == matching \in {"idle", "announce"} => matched = <<>>

\* The cleanup loop looks at each open room once,
ScanOpen ==
    /\ cleaning \in {"scan", "ids", "collect"} => toScan \subseteq OpenRooms
    /\ cleaning \in {"ids", "collect"} => closing \in OpenRooms \ toScan
    /\ cleaning = "idle" => toClose = {}

\* and the ids it has read are still nowhere else when it collects the players.
Collected ==
    cleaning = "collect" =>
        ids \cap Waiting = {} /\ \A r \in OpenRooms \ {closing} : ids \cap members[r] = {}

PInv ==
    /\ OnePlace
    /\ Fresh
    /\ UnusedRooms
    /\ NothingInHand
    /\ ScanOpen
    /\ Collected

\* Everybody is outside at first.
LEMMA InitPInv == Init => PInv
  <1> SUFFICES ASSUME Init PROVE PInv
    OBVIOUS
  <1>1. ToSet(<<>>) = {} /\ IsInjective(<<>>)
    BY DEF ToSet, IsInjective
  <1>2. OnePlace /\ Fresh
    BY <1>1 DEF Init, OnePlace, Fresh, Waiting, OpenRooms
  <1>3. UnusedRooms /\ NothingInHand /\ ScanOpen /\ Collected
    BY DEF Init, UnusedRooms, NothingInHand, ScanOpen, Collected, NoRoom
  <1>4. QED
    BY <1>2, <1>3 DEF PInv

\* A step that moves no player, opens and closes no room and lets nobody
\* return to an early stage.
LEMMA FramePInv ==
    ASSUME IInv, PInv,
           UNCHANGED <<queue, matched, toRematch, ids, rooms, toClose, nextRoomId, newRoom,
                       matching, cleaning, toScan, closing>>,
           members' \in [Rooms -> SUBSET Players],
           \A r \in Rooms : members'[r] \subseteq members[r],
           \A p \in Players : conn'[p] \in {"new", "joined"} => conn[p] \in {"new", "joined"}
    PROVE  PInv'
  <1>1. Waiting' = Waiting /\ OpenRooms' = OpenRooms /\ OpenRooms \subseteq Rooms
    BY DEF Waiting, OpenRooms, IInv, TypeOK
  <1>2. OnePlace'
    BY <1>1 DEF PInv, OnePlace
  <1>3. Fresh'
    BY <1>1 DEF PInv, Fresh
  <1>4. UnusedRooms'
    BY DEF PInv, UnusedRooms
  <1>5. NothingInHand' /\ ScanOpen'
    BY <1>1 DEF PInv, NothingInHand, ScanOpen
  <1>6. Collected'
    BY <1>1 DEF PInv, Collected
  <1>7. QED
    BY <1>2, <1>3, <1>4, <1>5, <1>6 DEF PInv

\* The handlers, but for the steps that touch the queue,
LEMMA HandlerPInv ==
    ASSUME IInv, PInv, NEW p \in Players,
           \/ Connect(p) \/ ResponseFails(p) \/ UnexpectedPackage(p) \/ ReceiveAck(p)
           \/ ClientGone(p) \/ ReceiveMove(p) \/ HeartbeatReplyFails(p) \/ ForwardMove(p)
           \/ Unregister(p) \/ ReadRoomId(p) \/ LeaveRoom(p)
    PROVE  PInv'
  <1> USE DEF Connect, ResponseFails, UnexpectedPackage, ReceiveAck, ClientGone, ReceiveMove,
              HeartbeatReplyFails, ForwardMove, Unregister, ReadRoomId, LeaveRoom, Abandon
  <1>1. UNCHANGED <<queue, matched, toRematch, ids, rooms, toClose, nextRoomId, newRoom,
                    matching, cleaning, toScan, closing>>
    BY DEF matcher, cleaner
  <1>2. members' \in [Rooms -> SUBSET Players] /\ \A r \in Rooms : members'[r] \subseteq members[r]
    <2>1. CASE LeaveRoom(p)
      BY <2>1 DEF IInv, TypeOK
    <2>2. CASE ~LeaveRoom(p)
      <3>1. members' = members
        BY <2>2 DEF room
      <3>2. QED
        BY <3>1 DEF IInv, TypeOK
    <2>3. QED
      BY <2>1, <2>2
  <1>3. \A q \in Players : conn'[q] \in {"new", "joined"} => conn[q] \in {"new", "joined"}
    BY DEF IInv, TypeOK
  <1> HIDE DEF Connect, ResponseFails, UnexpectedPackage, ReceiveAck, ClientGone, ReceiveMove,
               HeartbeatReplyFails, ForwardMove, Unregister, ReadRoomId, LeaveRoom, Abandon
  <1>4. QED
    BY <1>1, <1>2, <1>3, FramePInv

\* and the game loops move nobody.
LEMMA GamePInv ==
    ASSUME IInv, PInv, NEW r \in Rooms, GameTick(r) \/ SendState(r)
    PROVE  PInv'
  <1>1. UNCHANGED <<queue, matched, toRematch, ids, rooms, toClose, nextRoomId, newRoom,
                    matching, cleaning, toScan, closing, conn>>
    BY DEF GameTick, SendState, player, matcher, cleaner
  <1>2. members' \in [Rooms -> SUBSET Players] /\ \A s \in Rooms : members'[s] \subseteq members[s]
    <2>1. CASE GameTick(r)
      BY <2>1 DEF GameTick, IInv, TypeOK
    <2>2. CASE SendState(r)
      BY <2>2 DEF SendState, Broadcast, IInv, TypeOK
    <2>3. QED
      BY <2>1, <2>2
  <1>3. QED
    BY <1>1, <1>2, FramePInv

\* A handler's Enqueue comes before anybody else's.
LEMMA JoinQueuePInv ==
    ASSUME IInv, PInv, NEW p \in Players, JoinQueue(p)
    PROVE  PInv'
  <1>1. /\ queue' = Enqueue(queue, p) /\ queue \in Seq(Players)
        /\ UNCHANGED <<matched, toRematch, ids, rooms, toClose, nextRoomId, newRoom,
                       matching, cleaning, toScan, closing, members>>
        /\ conn[p] = "joined" /\ conn' = [conn EXCEPT ![p] = "ack"]
    BY DEF JoinQueue, IInv, TypeOK, room, matcher, cleaner
  <1>2. ToSet(queue') = ToSet(queue) \cup {p} /\ (IsInjective(queue) => IsInjective(queue'))
    BY <1>1, EnqueueSafe
  <1>3. Waiting' = Waiting \cup {p} /\ OpenRooms' = OpenRooms /\ OpenRooms \subseteq Rooms
    BY <1>1, <1>2 DEF Waiting, OpenRooms, IInv, TypeOK
  <1>4. p \notin Waiting /\ p \notin ids /\ \A r \in Rooms : p \notin members[r]
    BY <1>1 DEF PInv, Fresh
  <1>5. OnePlace'
    BY <1>1, <1>2, <1>3, <1>4 DEF PInv, OnePlace, Waiting
  <1>6. Fresh'
    BY <1>1, <1>3, <1>4 DEF PInv, Fresh, IInv, TypeOK
  <1>7. UnusedRooms' /\ NothingInHand' /\ ScanOpen'
    BY <1>1, <1>3 DEF PInv, UnusedRooms, NothingInHand, ScanOpen
  <1>8. Collected'
    BY <1>1, <1>3, <1>4 DEF PInv, Collected
  <1>9. QED
    BY <1>5, <1>6, <1>7, <1>8 DEF PInv

\* What is taken from the waiting players is in nobody else's way.
LEMMA LeaveQueuePInv ==
    ASSUME IInv, PInv, NEW p \in Players, LeaveQueue(p)
    PROVE  PInv'
  <1>1. /\ queue' = Without(queue, p) /\ queue \in Seq(Players)
        /\ UNCHANGED <<matched, toRematch, ids, rooms, toClose, nextRoomId, newRoom,
                       matching, cleaning, toScan, closing, members>>
        /\ conn' = [conn EXCEPT ![p] = "gone"]
    BY DEF LeaveQueue, IInv, TypeOK, room, matcher, cleaner
  <1>2. ToSet(queue') \subseteq ToSet(queue) /\ (IsInjective(queue) => IsInjective(queue'))
    BY <1>1, WithoutSafe
  <1>3. Waiting' \subseteq Waiting /\ OpenRooms' = OpenRooms
    BY <1>1, <1>2 DEF Waiting, OpenRooms
  <1>4. OnePlace'
    BY <1>1, <1>2, <1>3 DEF PInv, OnePlace
  <1>5. Fresh'
    BY <1>1, <1>3 DEF PInv, Fresh, IInv, TypeOK
  <1>6. UnusedRooms' /\ NothingInHand' /\ ScanOpen'
    BY <1>1, <1>3 DEF PInv, UnusedRooms, NothingInHand, ScanOpen
  <1>7. Collected'
    BY <1>1, <1>3 DEF PInv, Collected
  <1>8. QED
    BY <1>4, <1>5, <1>6, <1>7 DEF PInv

\* A match is cut off the queue.
LEMMA TryMatchPInv ==
    ASSUME IInv, PInv, TryMatch
    PROVE  PInv'
  <1>1. /\ queue \in Seq(Players) /\ Len(queue) >= MatchSize
        /\ matched' = SubSeq(queue, 1, MatchSize)
        /\ queue' = SubSeq(queue, MatchSize + 1, Len(queue))
        /\ matching = "idle" /\ matching' = "create"
        /\ UNCHANGED <<toRematch, ids, rooms, toClose, nextRoomId, newRoom,
                       cleaning, toScan, closing, members, conn>>
    BY DEF TryMatch, IInv, TypeOK, player, room, cleaner
  <1>2. /\ ToSet(matched') \subseteq ToSet(queue) /\ ToSet(queue') \subseteq ToSet(queue)
        /\ IsInjective(queue) => /\ IsInjective(matched') /\ IsInjective(queue')
                                 /\ ToSet(matched') \cap ToSet(queue') = {}
    BY <1>1, DequeueSafe
  <1>3. Waiting' \subseteq Waiting /\ OpenRooms' = OpenRooms
    BY <1>1, <1>2 DEF Waiting, OpenRooms
  <1>4. OnePlace'
    BY <1>1, <1>2, <1>3 DEF PInv, OnePlace
  <1>5. Fresh'
    BY <1>1, <1>3 DEF PInv, Fresh
  <1>6. UnusedRooms' /\ NothingInHand' /\ ScanOpen'
    BY <1>1, <1>3 DEF PInv, UnusedRooms, NothingInHand, ScanOpen
  <1>7. Collected'
    BY <1>1, <1>3 DEF PInv, Collected
  <1>8. QED
    BY <1>4, <1>5, <1>6, <1>7 DEF PInv

\* A new room is empty, and no scan is under way that could miss it.
LEMMA CreateRoomPInv ==
    ASSUME IInv, PInv, CreateRoom
    PROVE  PInv'
  <1>1. /\ newRoom' = nextRoomId /\ nextRoomId' = nextRoomId + 1
        /\ rooms' = rooms \cup {nextRoomId} /\ matching' = "fill"
        /\ cleaning \in {"idle", "close"}
        /\ UNCHANGED <<queue, matched, toRematch, ids, toClose, cleaning, toScan, closing,
                       members, conn>>
    BY DEF CreateRoom, RoomsLockFree, player, room, cleaner
  <1>2. nextRoomId \in Rooms /\ nextRoomId \in Nat
    <2>1. MaxRooms \in Nat /\ nextRoomId \in 1 .. MaxRooms + 1 /\ nextRoomId <= MaxRooms
      BY LobbyAssumption DEF IInv, TypeOK, CreateRoom
    <2>2. QED
      BY <2>1 DEF Rooms
  <1>3. members[nextRoomId] = {}
    BY <1>2 DEF PInv, UnusedRooms
  <1>4. Waiting' = Waiting /\ OpenRooms' \subseteq OpenRooms \cup {nextRoomId}
    BY <1>1 DEF Waiting, OpenRooms
  <1>5. OnePlace'
    BY <1>1, <1>3, <1>4 DEF PInv, OnePlace
  <1>6. Fresh'
    BY <1>1, <1>4 DEF PInv, Fresh
  <1>7. UnusedRooms'
    <2>1. \A r \in Rooms : r \in Int
      BY DEF Rooms
    <2>2. QED
      BY <1>1, <1>2, <2>1 DEF PInv, UnusedRooms
  <1>8. NothingInHand' /\ ScanOpen' /\ Collected'
    BY <1>1 DEF PInv, NothingInHand, ScanOpen, Collected
  <1>9. QED
    BY <1>5, <1>6, <1>7, <1>8 DEF PInv

\* A matched player moves from MatchLoop's hands to the room, or is dropped.
LEMMA FillRoomPInv ==
    ASSUME IInv, PInv, FillRoom
    PROVE  PInv'
  <1>1. PICK p : p = Head(matched)
    OBVIOUS
  <1>2. /\ matched \in Seq(Players) /\ matched # <<>> /\ matched' = Tail(matched)
        /\ newRoom \in Rooms /\ matching = "fill"
        /\ UNCHANGED <<queue, toRematch, ids, rooms, toClose, nextRoomId, newRoom, matching,
                       cleaning, toScan, closing, conn>>
    BY DEF FillRoom, IInv, TypeOK, LoopsHaveRooms, cleaner
  <1>3. /\ p \in Players /\ ToSet(matched) = {p} \cup ToSet(matched')
        /\ IsInjective(matched) => IsInjective(matched') /\ p \notin ToSet(matched')
    BY <1>1, <1>2, TailSafe
  <1>4. members' = members \/ members' = [members EXCEPT ![newRoom] = @ \cup {p}]
    BY <1>1 DEF FillRoom, AddPlayer
  <1>5. \A r \in Rooms : members'[r] \subseteq members[r] \cup {p}
        /\ (r # newRoom => members'[r] = members[r])
    BY <1>2, <1>4 DEF IInv, TypeOK
  <1>6. /\ p \in Waiting /\ Waiting' = Waiting \ {p}
        /\ OpenRooms' = OpenRooms /\ OpenRooms \subseteq Rooms
    BY <1>2, <1>3 DEF Waiting, OpenRooms, PInv, OnePlace, IInv, TypeOK
  <1>7. OnePlace'
    <2>1. /\ IsInjective(queue') /\ IsInjective(matched') /\ IsInjective(toRematch')
          /\ ToSet(queue') \cap ToSet(matched') = {}
          /\ ToSet(queue') \cap ToSet(toRematch') = {}
          /\ ToSet(matched') \cap ToSet(toRematch') = {}
      BY <1>2, <1>3 DEF PInv, OnePlace
    <2>2. \A r \in OpenRooms : members'[r] \cap Waiting' = {}
      BY <1>5, <1>6 DEF PInv, OnePlace
    <2>3. \A r \in OpenRooms : p \notin members[r]
      BY <1>6 DEF PInv, OnePlace
    <2>4. ASSUME NEW r \in OpenRooms, NEW s \in OpenRooms, r # s
          PROVE  members'[r] \cap members'[s] = {}
      <3>1. members[r] \cap members[s] = {}
        BY <2>4 DEF PInv, OnePlace
      <3>2. members'[r] = members[r] \/ members'[s] = members[s]
        BY <1>5, <1>6, <2>4
      <3>3. QED
        BY <1>5, <1>6, <2>3, <3>1, <3>2
    <2>5. QED
      BY <1>6, <2>1, <2>2, <2>4 DEF OnePlace
  <1>8. Fresh'
    BY <1>2, <1>5, <1>6 DEF PInv, Fresh
  <1>9. UnusedRooms'
    <2>1. MaxRooms \in Nat /\ nextRoomId \in 1 .. MaxRooms + 1
      BY LobbyAssumption DEF IInv, TypeOK
    <2>2. newRoom \in Int /\ nextRoomId \in Int /\ \A r \in Rooms : r \in Int
      BY <1>2, <2>1 DEF Rooms
    <2>3. newRoom < nextRoomId
      BY DEF PInv, UnusedRooms
    <2>4. ASSUME NEW r \in Rooms, r >= nextRoomId
          PROVE  members'[r] = {}
      <3>1. r # newRoom
        BY <2>2, <2>3, <2>4
      <3>2. QED
        BY <1>5, <2>4, <3>1 DEF PInv, UnusedRooms
    <2>5. QED
      BY <1>2, <2>3, <2>4 DEF UnusedRooms
  <1>10. NothingInHand' /\ ScanOpen'
    BY <1>2, <1>6 DEF PInv, NothingInHand, ScanOpen
  <1>11. Collected'
    BY <1>2, <1>5, <1>6 DEF PInv, Collected
  <1>12. QED
    BY <1>7, <1>8, <1>9, <1>10, <1>11 DEF PInv

\* MatchLoop is done with its match.
LEMMA StartPInv ==
    ASSUME IInv, PInv, StartGame \/ Announce
    PROVE  PInv'
  <1>1. /\ UNCHANGED <<queue, matched, toRematch, ids, rooms, toClose, nextRoomId,
                       cleaning, toScan, closing, conn>>
        /\ newRoom' \in {newRoom, NoRoom}
        /\ newRoom \in Rooms
    BY DEF StartGame, Announce, IInv, TypeOK, LoopsHaveRooms, player, cleaner
  <1>2. \A r \in Rooms : members'[r] \subseteq members[r]
    <2>1. CASE StartGame
      BY <2>1 DEF StartGame
    <2>2. CASE Announce
      <3>1. PICK failed \in SUBSET Players : members' = [members EXCEPT ![newRoom] = @ \ failed]
        BY <2>2 DEF Announce, Broadcast, Unreachable, IInv, TypeOK, LoopsHaveRooms
      <3>2. QED
        BY <3>1 DEF IInv, TypeOK
    <2>3. QED
      BY <2>1, <2>2
  <1>3. matched = <<>>
    BY DEF StartGame, Announce, PInv, NothingInHand
  <1>4. Waiting' = Waiting /\ OpenRooms' = OpenRooms /\ OpenRooms \subseteq Rooms
    BY <1>1 DEF Waiting, OpenRooms, IInv, TypeOK
  <1>5. OnePlace'
    BY <1>1, <1>2, <1>4 DEF PInv, OnePlace
  <1>6. Fresh'
    BY <1>1, <1>2, <1>4 DEF PInv, Fresh
  <1>7. UnusedRooms'
    <2>1. MaxRooms \in Nat /\ nextRoomId \in 1 .. MaxRooms + 1
      BY LobbyAssumption DEF IInv, TypeOK
    <2>2. NoRoom < nextRoomId
      BY <2>1 DEF NoRoom
    <2>3. QED
      BY <1>1, <1>2, <2>2 DEF PInv, UnusedRooms
  <1>8. NothingInHand' /\ ScanOpen'
    BY <1>1, <1>3, <1>4 DEF PInv, NothingInHand, ScanOpen
  <1>9. Collected'
    BY <1>1, <1>2, <1>4 DEF PInv, Collected
  <1>10. QED
    BY <1>5, <1>6, <1>7, <1>8, <1>9 DEF PInv

\* The scan, as long as it only looks.
LEMMA LookPInv ==
    ASSUME IInv, PInv,
           BeginScan \/ (\E r \in Rooms : CheckRoom(r)) \/ EndScan \/ EndCleanup
    PROVE  PInv'
  <1> USE DEF BeginScan, CheckRoom, EndScan, EndCleanup
  <1>1. UNCHANGED <<queue, matched, toRematch, ids, rooms, toClose, nextRoomId, newRoom,
                    matching, conn, members>>
    BY DEF player, room, matcher
  <1>2. cleaning' # "collect"
    OBVIOUS
  <1>3. Waiting' = Waiting /\ OpenRooms' = OpenRooms
    BY <1>1 DEF Waiting, OpenRooms
  <1>4. ScanOpen'
    <2>1. CASE BeginScan
      BY <1>3, <2>1 DEF PInv, ScanOpen, OpenRooms
    <2>2. CASE \E r \in Rooms : CheckRoom(r)
      BY <1>1, <1>3, <2>2 DEF PInv, ScanOpen
    <2>3. CASE EndScan \/ EndCleanup
      BY <1>1, <1>3, <2>3 DEF PInv, ScanOpen
    <2>4. QED
      BY <2>1, <2>2, <2>3
  <1> HIDE DEF BeginScan, CheckRoom, EndScan, EndCleanup
  <1>5. OnePlace' /\ Fresh' /\ UnusedRooms' /\ NothingInHand'
    BY <1>1, <1>3 DEF PInv, OnePlace, Fresh, UnusedRooms, NothingInHand
  <1>6. Collected'
    BY <1>2 DEF Collected
  <1>7. QED
    BY <1>4, <1>5, <1>6 DEF PInv

\* The ids of an open room are those of players that are nowhere else.
LEMMA GetPlayerIdsPInv ==
    ASSUME IInv, PInv, GetPlayerIds
    PROVE  PInv'
  <1>1. /\ cleaning = "ids" /\ cleaning' = "collect" /\ ids' = members[closing]
        /\ UNCHANGED <<queue, matched, toRematch, rooms, toClose, nextRoomId, newRoom,
                       matching, conn, members, toScan, closing>>
    BY DEF GetPlayerIds, player, room, matcher
  <1>2. Waiting' = Waiting /\ OpenRooms' = OpenRooms /\ closing \in OpenRooms \ toScan
        /\ OpenRooms \subseteq Rooms
    BY <1>1 DEF Waiting, OpenRooms, PInv, ScanOpen, IInv, TypeOK
  <1>3. Collected'
    BY <1>1, <1>2 DEF PInv, OnePlace, Collected
  <1>4. Fresh'
    BY <1>1, <1>2 DEF PInv, Fresh
  <1>5. OnePlace' /\ UnusedRooms' /\ NothingInHand' /\ ScanOpen'
    BY <1>1, <1>2 DEF PInv, OnePlace, UnusedRooms, NothingInHand, ScanOpen
  <1>6. QED
    BY <1>3, <1>4, <1>5 DEF PInv

\* The collected players move from a room that is open no longer to the list
\* of those on their way back.
LEMMA CollectPlayersPInv ==
    ASSUME IInv, PInv, CollectPlayers
    PROVE  PInv'
  <1>1. PICK s \in SetToSeqs(ids \cap allPlayers) : toRematch' = toRematch \o s
    BY DEF CollectPlayers
  <1>2. s \in Seq(Players) /\ ToSet(s) \subseteq ids /\ IsInjective(s)
    <2>1. /\ s \in [1 .. Cardinality(ids \cap allPlayers) -> ids \cap allPlayers]
          /\ \A i, j \in 1 .. Cardinality(ids \cap allPlayers) : i # j => s[i] # s[j]
      BY DEF SetToSeqs
    <2>2. IsFiniteSet(ids \cap allPlayers)
      BY LobbyAssumption, FS_Subset DEF IInv, TypeOK
    <2>3. Cardinality(ids \cap allPlayers) \in Nat
      BY <2>2, FS_CardinalityType
    <2>4. ids \cap allPlayers \subseteq Players
      BY DEF IInv, TypeOK
    <2>5. PICK n : n = Cardinality(ids \cap allPlayers)
      OBVIOUS
    <2>6. n \in Nat /\ s \in [1 .. n -> Players]
      BY <2>1, <2>3, <2>4, <2>5
    <2>7. IsInjective(s)
      BY <2>1 DEF IsInjective
    <2>8. ToSet(s) \subseteq ids
      BY <2>1 DEF ToSet
    <2>9. QED
      BY <2>6, <2>7, <2>8
  <1>3. /\ cleaning = "collect" /\ cleaning' = "scan"
        /\ toClose' = toClose \cup {closing} /\ ids' = {}
        /\ UNCHANGED <<queue, matched, rooms, nextRoomId, newRoom, matching, conn, members, toScan>>
    BY DEF CollectPlayers, room, matcher
  <1>4. /\ OpenRooms' = OpenRooms \ {closing} /\ closing \in OpenRooms \ toScan
        /\ toScan \subseteq OpenRooms /\ OpenRooms \subseteq Rooms
    BY <1>3 DEF OpenRooms, PInv, ScanOpen, IInv, TypeOK
  <1>5. ids \cap Waiting = {} /\ \A r \in OpenRooms' : ids \cap members[r] = {}
    BY <1>3, <1>4 DEF PInv, Collected
  <1>6. toRematch \in Seq(Players) /\ ToSet(toRematch) \subseteq Waiting
    BY DEF IInv, TypeOK, Waiting
  <1>7. ToSet(toRematch') = ToSet(toRematch) \cup ToSet(s)
    BY <1>1, <1>2, <1>6, ConcatSafe
  <1>8. IsInjective(toRematch')
    <2>1. ToSet(toRematch) \cap ToSet(s) = {} /\ IsInjective(toRematch)
      BY <1>2, <1>5, <1>6 DEF PInv, OnePlace
    <2>2. QED
      BY <1>1, <1>2, <1>6, <2>1, ConcatSafe
  <1>9. Waiting' = Waiting \cup ToSet(s)
    BY <1>3, <1>7 DEF Waiting
  <1>10. OnePlace'
    <2>1. ToSet(queue) \cap ToSet(s) = {} /\ ToSet(matched) \cap ToSet(s) = {}
      BY <1>2, <1>5 DEF Waiting
    <2>2. /\ IsInjective(queue') /\ IsInjective(matched') /\ IsInjective(toRematch')
          /\ ToSet(queue') \cap ToSet(matched') = {}
          /\ ToSet(queue') \cap ToSet(toRematch') = {}
          /\ ToSet(matched') \cap ToSet(toRematch') = {}
      BY <1>3, <1>7, <1>8, <2>1 DEF PInv, OnePlace
    <2>3. \A r \in OpenRooms' : members'[r] \cap Waiting' = {}
      BY <1>2, <1>3, <1>4, <1>5, <1>9 DEF PInv, OnePlace
    <2>4. \A r, t \in OpenRooms' : r # t => members'[r] \cap members'[t] = {}
      BY <1>3, <1>4 DEF PInv, OnePlace
    <2>5. QED
      BY <2>2, <2>3, <2>4 DEF OnePlace
  <1>11. Fresh'
    BY <1>2, <1>3, <1>9 DEF PInv, Fresh
  <1>12. UnusedRooms' /\ NothingInHand' /\ ScanOpen' /\ Collected'
    BY <1>3, <1>4 DEF PInv, UnusedRooms, NothingInHand, ScanOpen, Collected
  <1>13. QED
    BY <1>10, <1>11, <1>12 DEF PInv

\* Closing a collected room changes nothing for the open ones.
LEMMA CloseRoomPInv ==
    ASSUME IInv, PInv, NEW r \in Rooms, CloseRoom(r)
    PROVE  PInv'
  <1>1. /\ cleaning = "close" /\ rooms' = rooms \ {r} /\ toClose' = toClose \ {r}
        /\ UNCHANGED <<queue, matched, toRematch, ids, nextRoomId, newRoom, matching, conn,
                       members, cleaning, toScan, closing>>
    BY DEF CloseRoom, player, room, matcher
  <1>2. Waiting' = Waiting /\ OpenRooms' \subseteq OpenRooms
    BY <1>1 DEF Waiting, OpenRooms
  <1>3. OnePlace'
    BY <1>1, <1>2 DEF PInv, OnePlace
  <1>4. Fresh' /\ UnusedRooms' /\ NothingInHand' /\ ScanOpen' /\ Collected'
    BY <1>1, <1>2 DEF PInv, Fresh, UnusedRooms, NothingInHand, ScanOpen, Collected
  <1>5. QED
    BY <1>3, <1>4 DEF PInv

\* A collected player moves into the queue.
LEMMA RematchPInv ==
    ASSUME IInv, PInv, Rematch
    PROVE  PInv'
  <1>1. PICK p : p = Head(toRematch)
    OBVIOUS
  <1>2. /\ toRematch \in Seq(Players) /\ toRematch # <<>> /\ queue \in Seq(Players)
        /\ toRematch' = Tail(toRematch) /\ queue' = Enqueue(queue, p)
        /\ cleaning = "close"
        /\ UNCHANGED <<matched, ids, rooms, toClose, nextRoomId, newRoom, matching, conn,
                       members, cleaning, toScan, closing>>
    BY <1>1 DEF Rematch, IInv, TypeOK, player, room, matcher
  <1>3. /\ p \in Players /\ ToSet(toRematch) = {p} \cup ToSet(toRematch')
        /\ IsInjective(toRematch) => IsInjective(toRematch') /\ p \notin ToSet(toRematch')
    BY <1>1, <1>2, TailSafe
  <1>4. ToSet(queue') = ToSet(queue) \cup {p} /\ (IsInjective(queue) => IsInjective(queue'))
    BY <1>2, <1>3, EnqueueSafe
  <1>5. Waiting' = Waiting /\ OpenRooms' = OpenRooms
    BY <1>2, <1>3, <1>4 DEF Waiting, OpenRooms
  <1>6. OnePlace'
    BY <1>2, <1>3, <1>4, <1>5 DEF PInv, OnePlace
  <1>7. Fresh' /\ UnusedRooms' /\ NothingInHand' /\ ScanOpen' /\ Collected'
    BY <1>2, <1>5 DEF PInv, Fresh, UnusedRooms, NothingInHand, ScanOpen, Collected
  <1>8. QED
    BY <1>6, <1>7 DEF PInv

\* Nobody is in two places: not twice among those who wait, not waiting while
\* seated in an open room, not in two open rooms - with any number of handlers
\* passing players to MatchLoop and the cleanup loop passing them back.
THEOREM PlayersAreInOnePlace == Spec => []OnePlace
  <1>1. ASSUME IInv, PInv, [Next]_vars
        PROVE  PInv'
    <2>1. CASE \E p \in Players : HandlerStep(p) \/ ClientStep(p)
      BY <1>1, <2>1, HandlerPInv, JoinQueuePInv, LeaveQueuePInv DEF HandlerStep, ClientStep
    <2>2. CASE MatchStep
      BY <1>1, <2>2, TryMatchPInv, CreateRoomPInv, FillRoomPInv, StartPInv DEF MatchStep
    <2>3. CASE \E r \in Rooms : GameStep(r)
      BY <1>1, <2>3, GamePInv DEF GameStep
    <2>4. CASE CleanupStep
      BY <1>1, <2>4, LookPInv, GetPlayerIdsPInv, CollectPlayersPInv, CloseRoomPInv, RematchPInv
      DEF CleanupStep
    <2>5. CASE UNCHANGED vars
      <3>1. members' \in [Rooms -> SUBSET Players] /\ \A r \in Rooms : members'[r] = members[r]
        BY <1>1, <2>5 DEF IInv, TypeOK, vars, room
      <3>2. UNCHANGED <<queue, matched, toRematch, ids, rooms, toClose, nextRoomId, newRoom,
                        matching, cleaning, toScan, closing, conn>>
        BY <2>5 DEF vars, player, matcher, cleaner
      <3>3. QED
        BY <1>1, <3>1, <3>2, FramePInv
    <2>6. QED
      BY <1>1, <2>1, <2>2, <2>3, <2>4, <2>5 DEF Next
  <1>2. PInv => OnePlace
    BY DEF PInv
  <1>3. QED
    BY <1>1, <1>2, InitPInv, Inductive, PTL DEF Spec

-----------------------------------------------------------------------------
(* Where games go on: GamesAreOpen *)

\* RoomCleanupLoop has found the room closable and is collecting its players.
Collecting(r) == cleaning \in {"ids", "collect"} /\ closing = r

\* Nobody has begun to close the room.
Untouched(r) == r \in rooms /\ r \notin toClose /\ ~Collecting(r)

\* The loops know rooms only by ids that have been given out.
KnownRooms ==
    /\ \A r \in Rooms : r \in rooms \cup toScan \cup toClose => r < nextRoomId
    /\ cleaning \in {"ids", "collect"} => closing < nextRoomId

\* Unless the cleanup loop has caught a room too early, it leaves the room that
\* is being filled alone, and every room with a game and somebody in it.
FilledIsUntouched == early = {} /\ matching = "fill" => Untouched(newRoom)

PlayedIsUntouched ==
    early = {} => \A r \in Rooms : status[r] = "Playing" /\ members[r] # {} => Untouched(r)

GInv == KnownRooms /\ FilledIsUntouched /\ PlayedIsUntouched

\* A step of anybody but the loops that open, fill, scan and close rooms: no
\* game begins, and members are only lost.
LEMMA FrameGInv ==
    ASSUME TypeOK, GInv,
           UNCHANGED <<rooms, toClose, nextRoomId, newRoom, matching, cleaning, toScan, closing, early>>,
           \A r \in Rooms : members'[r] \subseteq members[r],
           \A r \in Rooms : status'[r] = "Playing" => status[r] = "Playing"
    PROVE  GInv'
  <1>1. \A r \in Rooms : Untouched(r)' <=> Untouched(r)
    BY DEF Untouched, Collecting
  <1>2. KnownRooms'
    BY DEF GInv, KnownRooms
  <1>3. FilledIsUntouched'
    BY DEF GInv, FilledIsUntouched, Untouched, Collecting
  <1>4. PlayedIsUntouched'
    BY <1>1 DEF GInv, PlayedIsUntouched
  <1>5. QED
    BY <1>2, <1>3, <1>4 DEF GInv

LEMMA HandlerGInv ==
    ASSUME TypeOK, GInv, NEW p \in Players, HandlerStep(p) \/ ClientStep(p)
    PROVE  GInv'
  <1> USE DEF HandlerStep, ClientStep, Connect, ResponseFails, UnexpectedPackage, ReceiveAck,
              ClientGone, ReceiveMove, HeartbeatReplyFails, ForwardMove, Unregister, ReadRoomId,
              LeaveRoom, JoinQueue, LeaveQueue, Abandon
  <1>1. /\ UNCHANGED <<rooms, toClose, nextRoomId, newRoom, matching, cleaning, toScan, closing, early>>
        /\ UNCHANGED status
    BY DEF matcher, cleaner, room
  <1>2. \A r \in Rooms : members'[r] \subseteq members[r]
    <2>1. CASE LeaveRoom(p)
      BY <2>1 DEF TypeOK
    <2>2. CASE ~LeaveRoom(p)
      <3>1. members' = members
        BY <2>2 DEF room
      <3>2. QED
        BY <3>1
    <2>3. QED
      BY <2>1, <2>2
  <1> HIDE DEF HandlerStep, ClientStep, Connect, ResponseFails, UnexpectedPackage, ReceiveAck,
              ClientGone, ReceiveMove, HeartbeatReplyFails, ForwardMove, Unregister, ReadRoomId,
              LeaveRoom, JoinQueue, LeaveQueue, Abandon
  <1>3. QED
    BY <1>1, <1>2, FrameGInv

LEMMA GameGInv ==
    ASSUME TypeOK, GInv, NEW r \in Rooms, GameStep(r)
    PROVE  GInv'
  <1>1. UNCHANGED <<rooms, toClose, nextRoomId, newRoom, matching, cleaning, toScan, closing, early>>
    BY DEF GameStep, GameTick, SendState, matcher, cleaner
  <1>2. CASE GameTick(r)
    <2>1. members' = members /\ \A s \in Rooms : status'[s] = "Playing" => status[s] = "Playing"
      BY <1>2 DEF GameTick, TypeOK
    <2>2. QED
      BY <1>1, <2>1, FrameGInv
  <1>3. CASE SendState(r)
    <2>1. status' = status /\ \A s \in Rooms : members'[s] \subseteq members[s]
      BY <1>3 DEF SendState, Broadcast, TypeOK
    <2>2. QED
      BY <1>1, <2>1, FrameGInv
  <1>4. QED
    BY <1>2, <1>3 DEF GameStep

\* A new room is known to nobody, and no scan is under way.
LEMMA CreateRoomGInv ==
    ASSUME TypeOK, GInv, CreateRoom
    PROVE  GInv'
  <1>1. /\ rooms' = rooms \cup {nextRoomId} /\ nextRoomId' = nextRoomId + 1 /\ newRoom' = nextRoomId
        /\ cleaning \in {"idle", "close"} /\ nextRoomId <= MaxRooms
        /\ UNCHANGED <<members, status, toClose, cleaning, toScan, closing, early>>
    BY DEF CreateRoom, RoomsLockFree, room, cleaner
  <1>2. nextRoomId \in Rooms /\ nextRoomId \in Nat
    <2>1. MaxRooms \in Nat /\ nextRoomId \in 1 .. MaxRooms + 1
      BY LobbyAssumption DEF TypeOK
    <2>2. QED
      BY <1>1, <2>1 DEF Rooms
  <1>3. nextRoomId \notin toClose
    BY <1>1, <1>2 DEF GInv, KnownRooms
  <1>4. KnownRooms'
    <2>1. ASSUME NEW r \in Rooms, r \in rooms' \cup toScan' \cup toClose'
          PROVE  r < nextRoomId'
      <3>1. r \in Nat
        BY DEF Rooms
      <3>2. CASE r = nextRoomId
        BY <1>1, <1>2, <3>2
      <3>3. CASE r # nextRoomId
        <4>1. r < nextRoomId
          BY <1>1, <2>1, <3>3 DEF GInv, KnownRooms
        <4>2. QED
          BY <1>1, <1>2, <3>1, <4>1
      <3>4. QED
        BY <3>2, <3>3
    <2>2. QED
      BY <1>1, <2>1 DEF KnownRooms
  <1>5. FilledIsUntouched'
    BY <1>1, <1>3 DEF FilledIsUntouched, Untouched, Collecting
  <1>6. PlayedIsUntouched'
    BY <1>1 DEF GInv, PlayedIsUntouched, Untouched, Collecting
  <1>7. QED
    BY <1>4, <1>5, <1>6 DEF GInv

\* Members come to the room that is being filled only, and it is that room
\* whose game begins.
LEMMA MatchGInv ==
    ASSUME IInv, GInv, TryMatch \/ FillRoom \/ StartGame \/ Announce
    PROVE  GInv'
  <1>1. UNCHANGED <<rooms, toClose, nextRoomId, cleaning, toScan, closing, early>>
    BY DEF TryMatch, FillRoom, StartGame, Announce, cleaner
  <1>2. KnownRooms'
    BY <1>1 DEF GInv, KnownRooms
  <1>3. \A r \in Rooms : Untouched(r)' <=> Untouched(r)
    BY <1>1 DEF Untouched, Collecting
  <1>4. CASE TryMatch
    BY <1>1, <1>2, <1>3, <1>4 DEF TryMatch, GInv, FilledIsUntouched, PlayedIsUntouched, room
  <1>5. CASE FillRoom
    <2>1. /\ matching = "fill" /\ newRoom \in Rooms
          /\ UNCHANGED <<status, matching, newRoom>>
      BY <1>5 DEF FillRoom, IInv, LoopsHaveRooms
    <2>2. \A r \in Rooms : r # newRoom => members'[r] = members[r]
      BY <1>5, <2>1 DEF FillRoom, AddPlayer, IInv, TypeOK
    <2>3. FilledIsUntouched'
      BY <1>1, <1>3, <2>1 DEF GInv, FilledIsUntouched
    <2>4. PlayedIsUntouched'
      BY <1>1, <1>3, <2>1, <2>2 DEF GInv, FilledIsUntouched, PlayedIsUntouched
    <2>5. QED
      BY <1>2, <2>3, <2>4 DEF GInv
  <1>6. CASE StartGame
    <2>1. /\ matching = "fill" /\ newRoom \in Rooms /\ matching' # "fill"
          /\ UNCHANGED members
      BY <1>6 DEF StartGame, IInv, LoopsHaveRooms
    <2>2. \A r \in Rooms : r # newRoom => status'[r] = status[r]
      BY <1>6, <2>1 DEF StartGame, IInv, TypeOK
    <2>3. PlayedIsUntouched'
      BY <1>1, <1>3, <2>1, <2>2 DEF GInv, FilledIsUntouched, PlayedIsUntouched
    <2>4. QED
      BY <1>2, <2>1, <2>3 DEF GInv, FilledIsUntouched
  <1>7. CASE Announce
    <2>1. status' = status /\ matching' # "fill" /\ newRoom \in Rooms
      BY <1>7 DEF Announce, IInv, LoopsHaveRooms
    <2>2. \A r \in Rooms : members'[r] \subseteq members[r]
      BY <1>7, <2>1 DEF Announce, Broadcast, IInv, TypeOK
    <2>3. PlayedIsUntouched'
      BY <1>1, <1>3, <2>1, <2>2 DEF GInv, PlayedIsUntouched
    <2>4. QED
      BY <1>2, <2>1, <2>3 DEF GInv, FilledIsUntouched
  <1>8. QED
    BY <1>4, <1>5, <1>6, <1>7

\* The cleanup loop picks a room whose game is over, or an empty one, or is
\* early.
LEMMA CheckRoomGInv ==
    ASSUME IInv, GInv, NEW r \in Rooms, CheckRoom(r)
    PROVE  GInv'
  <1>1. /\ cleaning = "scan" /\ r \in toScan /\ toScan' = toScan \ {r}
        /\ UNCHANGED <<members, status, rooms, toClose, nextRoomId, newRoom, matching>>
    BY DEF CheckRoom, room, matcher
  <1>2. CASE CanClose(r)
    <2>1. /\ cleaning' = "ids" /\ closing' = r
          /\ early' = IF matching = "fill" /\ newRoom = r THEN early \cup {r} ELSE early
      BY <1>2 DEF CheckRoom
    <2>2. KnownRooms'
      BY <1>1, <2>1 DEF GInv, KnownRooms
    <2>3. ASSUME NEW s \in Rooms, s # r
          PROVE  Untouched(s)' <=> Untouched(s)
      BY <1>1, <2>1, <2>3 DEF Untouched, Collecting
    <2>4. early' = {} => early = {} /\ ~(matching = "fill" /\ newRoom = r)
      BY <2>1
    <2>5. FilledIsUntouched'
      BY <1>1, <2>3, <2>4 DEF IInv, LoopsHaveRooms, GInv, FilledIsUntouched
    <2>6. ~(status[r] = "Playing" /\ members[r] # {})
      BY <1>2 DEF CanClose
    <2>7. PlayedIsUntouched'
      BY <1>1, <2>3, <2>4, <2>6 DEF GInv, PlayedIsUntouched
    <2>8. QED
      BY <2>2, <2>5, <2>7 DEF GInv
  <1>3. CASE ~CanClose(r)
    <2>1. UNCHANGED <<cleaning, closing, early>>
      BY <1>3 DEF CheckRoom
    <2>2. KnownRooms'
      BY <1>1, <2>1 DEF GInv, KnownRooms
    <2>3. FilledIsUntouched' /\ PlayedIsUntouched'
      BY <1>1, <2>1 DEF GInv, FilledIsUntouched, PlayedIsUntouched, Untouched, Collecting
    <2>4. QED
      BY <2>2, <2>3 DEF GInv
  <1>4. QED
    BY <1>2, <1>3

\* The rest of the loop goes on with the room it has picked.
LEMMA CleanupGInv ==
    ASSUME IInv, GInv,
           \/ BeginScan \/ GetPlayerIds \/ CollectPlayers \/ EndScan
           \/ \E r \in Rooms : CloseRoom(r)
           \/ Rematch \/ EndCleanup
    PROVE  GInv'
  <1>1. UNCHANGED <<members, status, nextRoomId, newRoom, matching, early>>
    BY DEF BeginScan, GetPlayerIds, CollectPlayers, EndScan, CloseRoom, Rematch, EndCleanup,
           room, matcher
  <1>2. ASSUME NEW s \in Rooms, Untouched(s)
        PROVE  Untouched(s)'
    BY <1>2 DEF BeginScan, GetPlayerIds, CollectPlayers, EndScan, CloseRoom, Rematch, EndCleanup,
                Untouched, Collecting
  <1>3. KnownRooms'
    BY <1>1 DEF BeginScan, GetPlayerIds, CollectPlayers, EndScan, CloseRoom, Rematch, EndCleanup,
                GInv, KnownRooms
  <1>4. FilledIsUntouched'
    BY <1>1, <1>2 DEF IInv, LoopsHaveRooms, GInv, FilledIsUntouched
  <1>5. PlayedIsUntouched'
    BY <1>1, <1>2 DEF GInv, PlayedIsUntouched
  <1>6. QED
    BY <1>3, <1>4, <1>5 DEF GInv

\* A game with players is never lost to the cleanup loop, for any number of
\* rooms and players, unless the loop has caught a room while it was filled.
THEOREM GamesStayOpen == Spec => []GamesAreOpen
  <1>1. Init => GInv
    BY DEF Init, GInv, KnownRooms, FilledIsUntouched, PlayedIsUntouched
  <1>2. ASSUME IInv, GInv, [Next]_vars
        PROVE  GInv'
    <2>1. TypeOK
      BY <1>2 DEF IInv
    <2>2. CASE \E p \in Players : HandlerStep(p) \/ ClientStep(p)
      BY <1>2, <2>1, <2>2, HandlerGInv
    <2>3. CASE MatchStep
      BY <1>2, <2>1, <2>3, CreateRoomGInv, MatchGInv DEF MatchStep
    <2>4. CASE \E r \in Rooms : GameStep(r)
      BY <1>2, <2>1, <2>4, GameGInv
    <2>5. CASE CleanupStep
      BY <1>2, <2>5, CheckRoomGInv, CleanupGInv DEF CleanupStep
    <2>6. CASE UNCHANGED vars
      BY <1>2, <2>1, <2>6, FrameGInv DEF vars, room, matcher, cleaner
    <2>7. QED
      BY <1>2, <2>2, <2>3, <2>4, <2>5, <2>6 DEF Next
  <1>3. GInv => GamesAreOpen
    BY DEF GInv, PlayedIsUntouched, Untouched, GamesAreOpen, OpenRooms
  <1>4. QED
    BY <1>1, <1>2, <1>3, Inductive, PTL DEF Spec
=============================================================================
