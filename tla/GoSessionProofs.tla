--------------------------- MODULE GoSessionProofs ---------------------------
(***************************************************************************)
(* Proofs about GoSession, for any time-outs, any number of heartbeat      *)
(* goroutines and of packages: the types, that a working session is        *)
(* watched, that a client that keeps to the protocol is safe, and that     *)
(* every step of the session is a step of EchoService or a stutter.        *)
(*                                                                         *)
(* What has been sent and not yet handled (Todo) lies in two places.  Only *)
(* sending and handling a package change it, whatever the reads deliver at *)
(* a time, and the invariants speak of it and not of the two.              *)
(***************************************************************************)
EXTENDS GoSession, SequenceTheorems, TLAPS

Todo == dataBuf \o wire

Pending(types) == \E i \in 1..Len(Todo) : Todo[i].type \in types

(* Between two packages the reader's buffer is empty.                      *)
BufferEmpty == reader \in {"select", "read"} => dataBuf = <<>>

(* The handshake comes before everything else, the acknowledgement next.   *)
InOrder ==
    /\ ~Pending({"kick", "null"})
    /\ \A i \in 1..Len(Todo) :
         /\ Todo[i].type = "handshake" => i = 1
         /\ Todo[i].type = "ack" => i = 1 \/ (i = 2 /\ Todo[1].type = "handshake")
    /\ manners = "new" => Todo = <<>>
    /\ manners = "shaken" => Len(Todo) <= 1 /\ \A i \in 1..Len(Todo) : Todo[i].type = "handshake"

(* Before the acknowledgement has been handled no heartbeat has begun, and *)
(* nobody but the reader, on its way out, has closed the session.          *)
Unacknowledged == manners \in {"new", "shaken"} \/ Pending({"handshake", "ack"})

NoBeatYet ==
    Unacknowledged => /\ \A b \in Beats : beat[b] = "done"
                      /\ closeChan => reader = "done"

(* The handshake has set the interval before a heartbeat needs it.         *)
IntervalSet ==
    /\ manners # "new" /\ ~Pending({"handshake"}) => interval = 1
    /\ \A b \in Beats : beat[b] # "done" => interval = 1

(* Whoever closes the channel has closed the session before, alone and once. *)
OneCloser ==
    /\ reader # "kick"
    /\ closeChan \/ reader = "closing" \/ (\E b \in Beats : beat[b] = "closing") => state = "Closed"
    /\ closeChan => reader # "closing" /\ \A b \in Beats : beat[b] # "closing"
    /\ reader = "closing" => \A b \in Beats : beat[b] # "closing"
    /\ \A b, c \in Beats : beat[b] = "closing" /\ beat[c] = "closing" => b = c

Courteous == manners # "rude" => ~panicked /\ InOrder /\ NoBeatYet /\ IntervalSet /\ OneCloser

(* What waits to be answered on an open connection are the requests from the *)
(* one behind the last answer to the last one asked, in that order.        *)
Numbered ==
    ~connClosed /\ ~panicked =>
        /\ Len(replies) <= asked
        /\ \A i \in 1..Len(Todo) : Todo[i].type \in Requests => Todo[i].id \in (Len(replies) + 1)..asked
        /\ \A i, j \in 1..Len(Todo) :
             i < j /\ Todo[i].type \in Requests /\ Todo[j].type \in Requests => Todo[i].id < Todo[j].id
        /\ \A n \in (Len(replies) + 1)..asked :
             \E i \in 1..Len(Todo) : Todo[i].type \in Requests /\ Todo[i].id = n

-----------------------------------------------------------------------------
(* What the steps do to the packages still to be handled. *)

LEMMA SplitConcat ==
    ASSUME NEW S, NEW s \in Seq(S), NEW n \in 1..Len(s)
    PROVE  /\ SubSeq(s, 1, n) \in Seq(S) /\ SubSeq(s, n + 1, Len(s)) \in Seq(S)
           /\ SubSeq(s, 1, n) \o SubSeq(s, n + 1, Len(s)) = s
<1>1. SubSeq(s, 1, n) \o SubSeq(s, n + 1, Len(s)) = SubSeq(s, 1, Len(s))
    BY ConcatAdjacentSubSeq
<1>2. SubSeq(s, 1, Len(s)) = s
    BY SubSeqFull
<1>3. SubSeq(s, 1, n) \in Seq(S) /\ SubSeq(s, n + 1, Len(s)) \in Seq(S)
    OBVIOUS
<1> QED
    BY <1>1, <1>2, <1>3

LEMMA TailOfConcat ==
    ASSUME NEW S, NEW s \in Seq(S), NEW t \in Seq(S), s # <<>>
    PROVE  /\ s \o t \in Seq(S) /\ Tail(s) \o t \in Seq(S)
           /\ Len(s \o t) >= 1 /\ (s \o t)[1] = Head(s)
           /\ Len(Tail(s) \o t) = Len(s \o t) - 1
           /\ \A i \in 1..Len(Tail(s) \o t) : (Tail(s) \o t)[i] = (s \o t)[i + 1]
    OBVIOUS

LEMMA AppendToConcat ==
    ASSUME NEW S, NEW s \in Seq(S), NEW t \in Seq(S), NEW e \in S
    PROVE  /\ s \o t \in Seq(S) /\ s \o Append(t, e) \in Seq(S)
           /\ Len(s \o Append(t, e)) = Len(s \o t) + 1
           /\ \A i \in 1..Len(s \o t) : (s \o Append(t, e))[i] = (s \o t)[i]
           /\ (s \o Append(t, e))[Len(s \o t) + 1] = e
    OBVIOUS

-----------------------------------------------------------------------------
(* Types *)

LEMMA InitTypes == Init => TypeOK
<1> SUFFICES ASSUME Init PROVE TypeOK
    OBVIOUS
<1>1. wire \in Seq(Packages) /\ dataBuf \in Seq(Packages) /\ replies \in Seq(0..MaxSent)
    BY DEF Init
<1>2. /\ beat \in [Beats -> {"start", "wait", "check", "closing", "done"}]
      /\ due \in [Beats -> BOOLEAN]
      /\ seen \in [Beats -> [state : States, age : 0..(Timeout + 1)]]
    BY TimesAssumption DEF Init, States
<1>3. /\ state \in States /\ interval \in {0, 1}
      /\ closeChan \in BOOLEAN /\ connClosed \in BOOLEAN
      /\ hungUp \in BOOLEAN /\ panicked \in BOOLEAN
      /\ reader = "select" /\ manners = "new"
    BY Zenon DEF Init, NewSession, States
<1>4. /\ age \in 0..(Timeout + 1)
      /\ idle \in 0..ReadDeadline /\ sent \in 0..MaxSent /\ asked \in 0..MaxSent /\ asked <= sent
    BY TimesAssumption DEF Init, NewSession
<1> QED
    BY <1>1, <1>2, <1>3, <1>4 DEF TypeOK

LEMMA SendTypes == ASSUME TypeOK, ClientSend PROVE TypeOK'
<1> PICK type \in Controls \cup Datas :
        LET number == IF type \in Requests THEN asked + 1 ELSE 0 IN
        /\ wire' = Append(wire, [type |-> type, id |-> number])
        /\ asked' = IF type \in Requests THEN asked + 1 ELSE asked
        /\ manners' = MannersAfter(type)
    BY DEF ClientSend
<1>1. wire' \in Seq(Packages)
    <2>1. [type |-> type, id |-> IF type \in Requests THEN asked + 1 ELSE 0] \in Packages
        BY TimesAssumption DEF TypeOK, ClientSend, Packages
    <2> QED
        BY <2>1 DEF TypeOK
<1>2. asked' \in 0..MaxSent /\ sent' \in 0..MaxSent /\ asked' <= sent'
    BY TimesAssumption DEF TypeOK, ClientSend
<1>3. manners' \in {"new", "shaken", "polite", "rude"}
    BY DEF MannersAfter
<1> QED
    BY <1>1, <1>2, <1>3 DEF TypeOK, ClientSend, sessionVars, beatVars

LEMMA CloseTypes ==
    ASSUME TypeOK, CloseLocked \/ AlreadyClosed \/ CloseChannel
    PROVE  /\ state' \in States /\ interval' \in {0, 1} /\ age' \in 0..(Timeout + 1)
           /\ closeChan' \in BOOLEAN /\ connClosed' \in BOOLEAN
           /\ CloseChannel => panicked' \in BOOLEAN
    BY DEF TypeOK, CloseLocked, AlreadyClosed, CloseChannel, States, sessionVars

LEMMA PackageTypes ==
    ASSUME TypeOK, NEW types, Package(types)
    PROVE  /\ dataBuf' \in Seq(Packages) /\ wire' \in Seq(Packages)
           /\ Head(dataBuf) \in Packages
    BY DEF TypeOK, Package

LEMMA ReaderTypes == ASSUME TypeOK, Reader PROVE TypeOK'
<1> USE TimesAssumption
<1>1. CASE ReaderSelect
    BY <1>1 DEF TypeOK, ReaderSelect, sessionVars, beatVars, clientVars
<1>2. CASE ReaderRead
    <2> PICK n \in 1..Len(wire) : dataBuf' = SubSeq(wire, 1, n) /\ wire' = SubSeq(wire, n + 1, Len(wire))
        BY <1>2 DEF ReaderRead
    <2>1. dataBuf' \in Seq(Packages) /\ wire' \in Seq(Packages)
        BY SplitConcat DEF TypeOK
    <2> QED
        BY <1>2, <2>1 DEF TypeOK, ReaderRead, sessionVars, beatVars, clientVars
<1>3. CASE ReaderError
    BY <1>3 DEF TypeOK, ReaderError, sessionVars, beatVars, clientVars
<1>4. CASE ReaderDrained
    BY <1>4 DEF TypeOK, ReaderDrained, sessionVars, beatVars, clientVars
<1>5. CASE HandleHandshake
    BY <1>5, PackageTypes DEF TypeOK, HandleHandshake, Package, States, beatVars, clientVars
<1>6. CASE HandleHandshakeAck
    <2>1. beat' \in [Beats -> {"start", "wait", "check", "closing", "done"}]
        BY <1>6 DEF TypeOK, HandleHandshakeAck
    <2> QED
        BY <1>6, <2>1, PackageTypes DEF TypeOK, HandleHandshakeAck, Package, States, clientVars
<1>7. CASE HandleHeartbeat
    BY <1>7, PackageTypes DEF TypeOK, HandleHeartbeat, Package, beatVars, clientVars
<1>8. CASE HandleData
    <2>1. replies' \in Seq(0..MaxSent)
        <3>1. Head(dataBuf).id \in 0..MaxSent
            BY <1>8, PackageTypes DEF HandleData, Packages
        <3>2. replies' = replies \/ replies' = Append(replies, Head(dataBuf).id)
            BY <1>8 DEF HandleData, Reply
        <3>3. replies \in Seq(0..MaxSent)
            BY DEF TypeOK
        <3> QED
            BY <3>1, <3>2, <3>3
    <2>2. panicked' \in BOOLEAN
        BY <1>8 DEF HandleData
    <2> QED
        BY <1>8, <2>1, <2>2, PackageTypes DEF TypeOK, HandleData, Package, beatVars, clientVars
<1>9. CASE HandleKick
    BY <1>9, PackageTypes, CloseTypes DEF TypeOK, HandleKick, Package, beatVars, clientVars
<1>10. CASE KickCloses
    BY <1>10, CloseTypes DEF TypeOK, KickCloses, beatVars, clientVars
<1>11. CASE ReaderDefers
    BY <1>11, CloseTypes DEF TypeOK, ReaderDefers, beatVars, clientVars
<1>12. CASE ReaderCloses
    BY <1>12, CloseTypes DEF TypeOK, ReaderCloses, beatVars, clientVars
<1> QED
    BY <1>1, <1>2, <1>3, <1>4, <1>5, <1>6, <1>7, <1>8, <1>9, <1>10, <1>11, <1>12 DEF Reader

LEMMA BeatTypes == ASSUME TypeOK, NEW b \in Beats, Beat(b) PROVE TypeOK'
<1> USE DEF beatUnchanged, clientVars
<1>1. CASE BeatStart(b)
    BY <1>1 DEF TypeOK, BeatStart, sessionVars
<1>2. CASE BeatStops(b)
    BY <1>2 DEF TypeOK, BeatStops, sessionVars
<1>3. CASE BeatReads(b)
    BY <1>3 DEF TypeOK, BeatReads, sessionVars
<1>4. CASE BeatChecks(b)
    <2>1. beat' \in [Beats -> {"start", "wait", "check", "closing", "done"}]
        BY <1>4 DEF TypeOK, BeatChecks
    <2>2. UNCHANGED sessionVars \/ CloseLocked \/ AlreadyClosed
        BY <1>4 DEF BeatChecks
    <2> QED
        BY <1>4, <2>1, <2>2, CloseTypes DEF TypeOK, BeatChecks, sessionVars
<1>5. CASE BeatCloses(b)
    BY <1>5, CloseTypes DEF TypeOK, BeatCloses
<1> QED
    BY <1>1, <1>2, <1>3, <1>4, <1>5 DEF Beat

LEMMA TickTypes == ASSUME TypeOK, Tick PROVE TypeOK'
<1>1. age' \in 0..(Timeout + 1) /\ idle' \in 0..ReadDeadline
    BY TimesAssumption DEF TypeOK, Tick, Older
<1>2. seen' \in [Beats -> [state : States, age : 0..(Timeout + 1)]]
    <2>1. ASSUME NEW b \in Beats
          PROVE  [seen[b] EXCEPT !.age = Older(@)] \in [state : States, age : 0..(Timeout + 1)]
        <3>1. seen[b] \in [state : States, age : 0..(Timeout + 1)]
            BY DEF TypeOK
        <3>2. Older(seen[b].age) \in 0..(Timeout + 1)
            BY <3>1, TimesAssumption DEF Older
        <3> QED
            BY <3>1, <3>2, Zenon
    <2> QED
        BY <2>1, Zenon DEF Tick
<1>3. due' \in [Beats -> BOOLEAN]
    BY DEF TypeOK, Tick
<1> QED
    BY <1>1, <1>2, <1>3 DEF TypeOK, Tick, clientVars

LEMMA NextTypes == ASSUME TypeOK, [Next]_vars PROVE TypeOK'
<1>1. CASE ClientHangUp
    BY <1>1 DEF TypeOK, ClientHangUp, sessionVars, beatVars
<1>2. CASE UNCHANGED vars
    BY <1>2 DEF TypeOK, vars
<1> QED
    BY <1>1, <1>2, SendTypes, ReaderTypes, BeatTypes, TickTypes DEF Next

(* Every variable keeps to the values the code can give it, for any number *)
(* of packages and of heartbeat goroutines (the fields of Session and the  *)
(* local variables of Start and heartbeatLoop).                            *)
THEOREM TypeCorrect == Spec => []TypeOK
    BY InitTypes, NextTypes, PTL DEF Spec

-----------------------------------------------------------------------------
(* A working session is watched. *)

LEMMA ReaderWatched == ASSUME TypeOK, WorkingIsWatched, Reader PROVE WorkingIsWatched'
<1> USE DEF WorkingIsWatched, Watching
<1>1. CASE ReaderSelect \/ ReaderRead \/ ReaderError \/ ReaderDrained
    BY <1>1 DEF ReaderSelect, ReaderRead, ReaderError, ReaderDrained, sessionVars, beatVars
<1>2. CASE HandleHandshake
    BY <1>2 DEF HandleHandshake
<1>3. CASE HandleHandshakeAck
    <2> PICK b \in Beats : beat[b] = "done" /\ beat' = [beat EXCEPT ![b] = "start"]
        BY <1>3 DEF HandleHandshakeAck
    <2>1. beat'[b] = "start"
        BY DEF TypeOK
    <2> QED
        BY <2>1
<1>4. CASE HandleHeartbeat
    BY <1>4 DEF HandleHeartbeat, Package, beatVars
<1>5. CASE HandleData
    BY <1>5 DEF HandleData, Package, beatVars
<1>6. CASE HandleKick
    BY <1>6 DEF HandleKick, Package, CloseLocked, AlreadyClosed, sessionVars, beatVars
<1>7. CASE KickCloses \/ ReaderCloses
    BY <1>7 DEF KickCloses, ReaderCloses, CloseChannel
<1>8. CASE ReaderDefers
    BY <1>8 DEF ReaderDefers, CloseLocked, AlreadyClosed, sessionVars, beatVars
<1> QED
    BY <1>1, <1>2, <1>3, <1>4, <1>5, <1>6, <1>7, <1>8 DEF Reader

LEMMA BeatWatched == ASSUME TypeOK, WorkingIsWatched, NEW b \in Beats, Beat(b) PROVE WorkingIsWatched'
<1> USE DEF WorkingIsWatched, Watching
<1>1. CASE BeatStart(b)
    BY <1>1 DEF TypeOK, BeatStart, sessionVars
<1>2. CASE BeatStops(b)
    BY <1>2 DEF BeatStops, sessionVars
<1>3. CASE BeatReads(b)
    BY <1>3 DEF TypeOK, BeatReads, sessionVars
<1>4. CASE BeatChecks(b)
    BY <1>4 DEF TypeOK, BeatChecks, CloseLocked, AlreadyClosed, sessionVars
<1>5. CASE BeatCloses(b)
    BY <1>5 DEF BeatCloses, CloseChannel
<1> QED
    BY <1>1, <1>2, <1>3, <1>4, <1>5 DEF Beat

LEMMA TickWatched == ASSUME TypeOK, WorkingIsWatched, Tick PROVE WorkingIsWatched'
<1>1. \A b \in Beats : seen'[b].state = seen[b].state
    BY DEF TypeOK, Tick
<1> QED
    BY <1>1 DEF Tick, WorkingIsWatched, Watching

(* A session that counts as working and has not been closed has a          *)
(* heartbeatLoop that will notice when the client falls silent, whatever   *)
(* the client sends and however many loops run.                            *)
THEOREM WorkingSessionsAreWatched == Spec => []WorkingIsWatched
<1>1. Init => WorkingIsWatched
    BY DEF Init, NewSession, WorkingIsWatched
<1>2. TypeOK /\ WorkingIsWatched /\ [Next]_vars => WorkingIsWatched'
    <2> SUFFICES ASSUME TypeOK, WorkingIsWatched, [Next]_vars PROVE WorkingIsWatched'
        OBVIOUS
    <2>1. CASE ClientSend \/ ClientHangUp \/ UNCHANGED vars
        BY <2>1 DEF ClientSend, ClientHangUp, vars, sessionVars, beatVars, WorkingIsWatched, Watching
    <2> QED
        BY <2>1, ReaderWatched, BeatWatched, TickWatched DEF Next
<1> QED
    BY <1>1, <1>2, TypeCorrect, PTL DEF Spec

-----------------------------------------------------------------------------
(* What the actions do to Todo. *)

LEMMA ReadKeepsTodo == ASSUME TypeOK, BufferEmpty, ReaderRead PROVE Todo' = Todo
<1> PICK n \in 1..Len(wire) : dataBuf' = SubSeq(wire, 1, n) /\ wire' = SubSeq(wire, n + 1, Len(wire))
    BY DEF ReaderRead
<1>1. dataBuf' \o wire' = wire
    BY SplitConcat DEF TypeOK
<1>2. dataBuf \o wire = wire
    BY DEF TypeOK, BufferEmpty, ReaderRead
<1> QED
    BY <1>1, <1>2 DEF Todo

LEMMA PackageTakesTodo ==
    ASSUME TypeOK, NEW types, Package(types)
    PROVE  /\ Todo \in Seq(Packages) /\ Todo' \in Seq(Packages)
           /\ Len(Todo) >= 1 /\ Todo[1] = Head(dataBuf) /\ Todo[1].type \in types
           /\ Len(Todo') = Len(Todo) - 1
           /\ \A i \in 1..Len(Todo') : Todo'[i] = Todo[i + 1]
<1>1. dataBuf \in Seq(Packages) /\ wire \in Seq(Packages) /\ dataBuf # <<>>
    BY DEF TypeOK, Package
<1>2. dataBuf' = Tail(dataBuf) /\ wire' = wire /\ Head(dataBuf).type \in types
    BY DEF Package
<1> QED
    BY <1>1, <1>2, TailOfConcat DEF Todo

LEMMA SendAddsTodo ==
    ASSUME TypeOK, ClientSend
    PROVE  \E type \in Controls \cup Datas :
              /\ asked' = IF type \in Requests THEN asked + 1 ELSE asked
              /\ manners' = MannersAfter(type)
              /\ Todo \in Seq(Packages) /\ Todo' \in Seq(Packages)
              /\ Len(Todo') = Len(Todo) + 1
              /\ \A i \in 1..Len(Todo) : Todo'[i] = Todo[i]
              /\ Todo'[Len(Todo) + 1].type = type
              /\ type \in Requests => Todo'[Len(Todo) + 1].id = asked + 1
<1> PICK type \in Controls \cup Datas :
        LET number == IF type \in Requests THEN asked + 1 ELSE 0 IN
        /\ wire' = Append(wire, [type |-> type, id |-> number])
        /\ asked' = IF type \in Requests THEN asked + 1 ELSE asked
        /\ manners' = MannersAfter(type)
    BY DEF ClientSend
<1>0. /\ asked' = IF type \in Requests THEN asked + 1 ELSE asked
      /\ manners' = MannersAfter(type)
    OBVIOUS
<1>1. PICK p \in Packages : p = [type |-> type, id |-> IF type \in Requests THEN asked + 1 ELSE 0]
    <2>1. asked \in Nat /\ MaxSent \in Nat /\ asked + 1 <= MaxSent
        BY TimesAssumption DEF TypeOK, ClientSend
    <2>2. [type |-> type, id |-> IF type \in Requests THEN asked + 1 ELSE 0] \in Packages
        BY <2>1 DEF Packages
    <2> QED
        BY <2>2
<1>2. dataBuf \in Seq(Packages) /\ wire \in Seq(Packages) /\ dataBuf' = dataBuf /\ wire' = Append(wire, p)
    BY <1>1 DEF TypeOK, ClientSend
<1>3. /\ Todo \in Seq(Packages) /\ Todo' \in Seq(Packages)
      /\ Len(Todo') = Len(Todo) + 1
      /\ \A i \in 1..Len(Todo) : Todo'[i] = Todo[i]
      /\ Todo'[Len(Todo) + 1] = p
    BY <1>2, AppendToConcat DEF Todo
<1>4. p.type = type /\ (type \in Requests => p.id = asked + 1)
    BY <1>1
<1> HIDE DEF MannersAfter
<1> WITNESS type \in Controls \cup Datas
<1> QED
    BY <1>0, <1>3, <1>4

-----------------------------------------------------------------------------
(* A client that keeps to the protocol is safe. *)

LEMMA EmptyBuffer == ASSUME TypeOK, BufferEmpty, [Next]_vars PROVE BufferEmpty'
<1> USE DEF BufferEmpty
<1>1. CASE ClientSend \/ ClientHangUp \/ Tick \/ UNCHANGED vars
    BY <1>1 DEF ClientSend, ClientHangUp, Tick, vars
<1>2. CASE ReaderSelect \/ ReaderRead \/ ReaderError \/ ReaderDrained
    BY <1>2 DEF ReaderSelect, ReaderRead, ReaderError, ReaderDrained
<1>3. CASE HandleHandshake \/ HandleHandshakeAck \/ HandleHeartbeat \/ HandleData \/ HandleKick
    BY <1>3 DEF HandleHandshake, HandleHandshakeAck, HandleHeartbeat, HandleData, HandleKick, Package
<1>4. CASE KickCloses \/ ReaderDefers \/ ReaderCloses
    BY <1>4 DEF KickCloses, ReaderDefers, ReaderCloses
<1>5. ASSUME NEW b \in Beats, Beat(b) PROVE BufferEmpty'
    BY <1>5 DEF Beat, BeatStart, BeatStops, BeatReads, BeatChecks, BeatCloses, beatUnchanged
<1> QED
    BY <1>1, <1>2, <1>3, <1>4, <1>5 DEF Next, Reader

LEMMA OrderKept ==
    ASSUME Todo' = Todo, manners' = manners, InOrder
    PROVE  InOrder' /\ Unacknowledged' = Unacknowledged /\ \A types : Pending(types)' = Pending(types)
    BY DEF InOrder, Unacknowledged, Pending

LEMMA OrderOfTheRest ==
    ASSUME TypeOK, NEW types, Package(types), manners # "rude", InOrder
    PROVE  /\ InOrder' /\ (Unacknowledged' => Unacknowledged)
           /\ \A others : Pending(others)' => Pending(others)
           /\ Todo[1].type \in types /\ Pending(types)
           /\ manners # "new"
<1>1. \A others : Pending(others)' => Pending(others)
    BY PackageTakesTodo DEF Pending
<1>2. InOrder'
    <2>1. ~Pending({"kick", "null"})'
        BY <1>1 DEF InOrder
    <2> QED
        BY <2>1, PackageTakesTodo DEF InOrder, Package, clientVars
<1>3. Todo[1].type \in types /\ Pending(types) /\ manners # "new"
    BY PackageTakesTodo DEF Pending, InOrder
<1> QED
    BY <1>1, <1>2, <1>3 DEF Unacknowledged, Package, clientVars

LEMMA SendIsCourteous == ASSUME TypeOK, Courteous, ClientSend PROVE Courteous'
<1> SUFFICES ASSUME manners' # "rude" PROVE Courteous'
    BY DEF Courteous
<1> PICK type \in Controls \cup Datas :
        /\ asked' = IF type \in Requests THEN asked + 1 ELSE asked
        /\ manners' = MannersAfter(type)
        /\ Todo \in Seq(Packages) /\ Todo' \in Seq(Packages)
        /\ Len(Todo') = Len(Todo) + 1
        /\ \A i \in 1..Len(Todo) : Todo'[i] = Todo[i]
        /\ Todo'[Len(Todo) + 1].type = type
        /\ type \in Requests => Todo'[Len(Todo) + 1].id = asked + 1
    BY SendAddsTodo
<1>1. \/ manners = "new" /\ type = "handshake" /\ manners' = "shaken"
      \/ manners = "shaken" /\ type = "ack" /\ manners' = "polite"
      \/ /\ manners = "polite" /\ manners' = "polite"
         /\ type \in {"heartbeat", "hello", "other", "notify", "bad"}
    BY DEF MannersAfter, TypeOK
<1>2. ~panicked /\ InOrder /\ NoBeatYet /\ IntervalSet /\ OneCloser
    BY <1>1 DEF Courteous
<1>3. Len(Todo) \in Nat /\ \A types : Pending(types)' <=> Pending(types) \/ type \in types
    BY DEF Pending
<1>4. InOrder'
    <2>1. ~Pending({"kick", "null"})'
        BY <1>1, <1>2, <1>3 DEF InOrder
    <2>2. CASE manners = "new"
        <3>1. Len(Todo) = 0
            BY <1>2, <2>2 DEF InOrder
        <3> QED
            BY <2>1, <2>2, <3>1, <1>1 DEF InOrder
    <2>3. CASE manners = "shaken"
        <3>1. Len(Todo) <= 1 /\ (\A i \in 1..Len(Todo) : Todo[i].type = "handshake")
            BY <1>2, <2>3 DEF InOrder
        <3> QED
            BY <2>1, <2>3, <3>1, <1>1 DEF InOrder
    <2>4. CASE manners = "polite"
        BY <2>1, <2>4, <1>1, <1>2 DEF InOrder
    <2> QED
        BY <2>2, <2>3, <2>4, <1>1
<1>5. NoBeatYet'
    <2>1. Unacknowledged' => Unacknowledged
        BY <1>1, <1>3 DEF Unacknowledged
    <2> QED
        BY <1>2, <2>1 DEF NoBeatYet, ClientSend, sessionVars, beatVars
<1>6. IntervalSet'
    <2>1. manners' # "new" /\ ~Pending({"handshake"})' => manners # "new" /\ ~Pending({"handshake"})
        BY <1>1, <1>3
    <2> QED
        BY <1>2, <2>1 DEF IntervalSet, ClientSend, sessionVars, beatVars
<1>7. OneCloser' /\ ~panicked'
    BY <1>2 DEF OneCloser, ClientSend, sessionVars, beatVars
<1> QED
    BY <1>4, <1>5, <1>6, <1>7 DEF Courteous

LEMMA ReaderIsCourteous == ASSUME TypeOK, BufferEmpty, Courteous, Reader PROVE Courteous'
<1> SUFFICES ASSUME manners' # "rude" PROVE Courteous'
    BY DEF Courteous
<1>1. manners' = manners /\ ~panicked
    BY DEF Reader, ReaderSelect, ReaderRead, ReaderError, ReaderDrained, HandleHandshake,
           HandleHandshakeAck, HandleHeartbeat, HandleData, HandleKick, Package, KickCloses,
           ReaderDefers, ReaderCloses, clientVars
<1>2. InOrder /\ NoBeatYet /\ IntervalSet /\ OneCloser
    BY <1>1 DEF Courteous
<1>3. ASSUME Todo' = Todo, UNCHANGED <<sessionVars, beatVars, panicked>>,
             reader # "done", reader' \in {"select", "read", "package", "deferred"}
      PROVE  Courteous'
    <2>1. NoBeatYet' /\ IntervalSet'
        BY <1>1, <1>2, <1>3, OrderKept DEF NoBeatYet, IntervalSet, sessionVars, beatVars
    <2>2. OneCloser'
        BY <1>2, <1>3 DEF OneCloser, sessionVars, beatVars
    <2> QED
        BY <1>1, <1>2, <1>3, <2>1, <2>2, OrderKept DEF Courteous
<1>4. CASE ReaderSelect \/ ReaderError \/ ReaderDrained
    BY <1>3, <1>4 DEF ReaderSelect, ReaderError, ReaderDrained, Todo
<1>5. CASE ReaderRead
    BY <1>3, <1>5, ReadKeepsTodo DEF ReaderRead
<1>6. CASE HandleHandshake
    <2>1. /\ InOrder' /\ (Unacknowledged' => Unacknowledged)
          /\ Pending({"handshake"})
        BY <1>1, <1>2, <1>6, OrderOfTheRest DEF HandleHandshake
    <2>2. Unacknowledged
        BY <2>1 DEF Unacknowledged, Pending
    <2>3. (\A b \in Beats : beat[b] = "done") /\ ~closeChan /\ reader = "package"
        BY <1>2, <1>6, <2>2 DEF NoBeatYet, HandleHandshake, Package
    <2> QED
        BY <1>1, <1>2, <1>6, <2>1, <2>3
           DEF HandleHandshake, Courteous, NoBeatYet, IntervalSet, OneCloser, beatVars
<1>7. CASE HandleHandshakeAck
    <2> PICK b \in Beats : beat[b] = "done" /\ beat' = [beat EXCEPT ![b] = "start"]
        BY <1>7 DEF HandleHandshakeAck
    <2>1. InOrder' /\ Pending({"ack"}) /\ Todo[1].type = "ack" /\ manners # "new"
        BY <1>1, <1>2, <1>7, OrderOfTheRest DEF HandleHandshakeAck
    <2>2. Unacknowledged
        BY <2>1 DEF Unacknowledged, Pending
    <2>3. (\A c \in Beats : beat[c] = "done") /\ ~closeChan /\ reader = "package"
        BY <1>2, <1>7, <2>2 DEF NoBeatYet, HandleHandshakeAck, Package
    <2>4. /\ Len(Todo) \in Nat /\ Len(Todo) >= 1 /\ Len(Todo') = Len(Todo) - 1
          /\ \A i \in 1..Len(Todo') : Todo'[i] = Todo[i + 1]
        BY <1>7, PackageTakesTodo DEF HandleHandshakeAck
    <2>5. manners = "polite"
        BY <1>1, <1>2, <2>1, <2>4 DEF InOrder, TypeOK
    <2>6. \A i \in 1..Len(Todo') : Todo'[i].type \notin {"handshake", "ack"}
        BY <1>2, <2>1, <2>4 DEF InOrder
    <2>7. ~Unacknowledged' /\ ~Pending({"handshake"})
        <3>1. ~Unacknowledged'
            BY <1>1, <2>5, <2>6 DEF Unacknowledged, Pending
        <3>2. ~Pending({"handshake"})
            BY <1>2, <2>1 DEF InOrder, Pending
        <3> QED
            BY <3>1, <3>2
    <2>8. interval' = 1
        BY <1>2, <1>7, <2>1, <2>7 DEF IntervalSet, HandleHandshakeAck
    <2>9. OneCloser'
        BY <1>7, <2>3 DEF TypeOK, OneCloser, HandleHandshakeAck
    <2> QED
        BY <1>1, <1>7, <2>1, <2>7, <2>8, <2>9
           DEF Courteous, NoBeatYet, IntervalSet, HandleHandshakeAck
<1>8. ASSUME NEW types, Package(types), "handshake" \notin types,
             UNCHANGED <<state, interval, closeChan, connClosed, reader, beatVars>>, ~panicked'
      PROVE  Courteous'
    <2>1. /\ InOrder' /\ (Unacknowledged' => Unacknowledged)
          /\ Todo[1].type # "handshake" /\ manners # "new"
        BY <1>1, <1>2, <1>8, OrderOfTheRest
    <2>2. ~Pending({"handshake"})
        BY <1>2, <2>1 DEF InOrder, Pending
    <2> QED
        BY <1>1, <1>2, <1>8, <2>1, <2>2
           DEF Courteous, NoBeatYet, IntervalSet, OneCloser, beatVars
<1>9. CASE HandleHeartbeat
    BY <1>1, <1>8, <1>9 DEF HandleHeartbeat
<1>10. CASE HandleData
    <2>1. Head(dataBuf).type # "null"
        BY <1>1, <1>2, <1>10, PackageTakesTodo DEF HandleData, InOrder, Pending
    <2> QED
        BY <1>8, <1>10, <2>1 DEF HandleData, Datas, Requests
<1>11. CASE HandleKick
    BY <1>1, <1>2, <1>11, OrderOfTheRest DEF HandleKick, InOrder, Pending
<1>12. CASE KickCloses
    BY <1>2, <1>12 DEF KickCloses, OneCloser
<1>13. CASE ReaderDefers
    <2>1. Todo' = Todo /\ UNCHANGED <<beat, closeChan, interval>> /\ ~panicked'
        BY <1>1, <1>13 DEF ReaderDefers, CloseLocked, AlreadyClosed, sessionVars, beatVars, Todo
    <2>2. NoBeatYet' /\ IntervalSet'
        BY <1>1, <1>2, <1>13, <2>1, OrderKept DEF NoBeatYet, IntervalSet, ReaderDefers
    <2>3. OneCloser'
        BY <1>2, <1>13, <2>1 DEF OneCloser, ReaderDefers, CloseLocked, AlreadyClosed, sessionVars
    <2> QED
        BY <1>1, <1>2, <2>1, <2>2, <2>3, OrderKept DEF Courteous
<1>14. CASE ReaderCloses
    <2>1. Todo' = Todo /\ UNCHANGED <<beat, state, interval>> /\ reader' = "done"
        BY <1>14 DEF ReaderCloses, CloseChannel, beatVars, Todo
    <2>2. ~panicked'
        BY <1>2, <1>14 DEF ReaderCloses, CloseChannel, OneCloser
    <2>3. NoBeatYet' /\ IntervalSet'
        BY <1>1, <1>2, <2>1, OrderKept DEF NoBeatYet, IntervalSet
    <2>4. OneCloser'
        BY <1>2, <1>14, <2>1 DEF OneCloser, ReaderCloses
    <2> QED
        BY <1>1, <1>2, <2>1, <2>2, <2>3, <2>4, OrderKept DEF Courteous
<1> QED
    BY <1>4, <1>5, <1>6, <1>7, <1>9, <1>10, <1>11, <1>12, <1>13, <1>14 DEF Reader

LEMMA BeatIsCourteous == ASSUME TypeOK, Courteous, NEW b \in Beats, Beat(b) PROVE Courteous'
<1> SUFFICES ASSUME manners' # "rude" PROVE Courteous'
    BY DEF Courteous
<1>1. /\ manners' = manners /\ Todo' = Todo /\ reader' = reader /\ interval' = interval
      /\ ~panicked /\ beat[b] # "done"
    BY DEF Beat, BeatStart, BeatStops, BeatReads, BeatChecks, BeatCloses, beatUnchanged, clientVars,
           sessionVars, Todo, CloseLocked, AlreadyClosed, CloseChannel
<1>2. InOrder /\ NoBeatYet /\ IntervalSet /\ OneCloser
    BY <1>1 DEF Courteous
<1>3. ~Unacknowledged /\ interval = 1
    BY <1>1, <1>2 DEF NoBeatYet, IntervalSet
<1>4. InOrder' /\ NoBeatYet' /\ IntervalSet'
    BY <1>1, <1>2, <1>3, OrderKept DEF NoBeatYet, IntervalSet
<1>5. ~panicked' /\ OneCloser'
    <2>1. CASE BeatStart(b)
        BY <1>2, <1>3, <2>1 DEF TypeOK, BeatStart, OneCloser, sessionVars, beatUnchanged
    <2>2. CASE BeatStops(b)
        BY <1>1, <1>2, <2>2 DEF TypeOK, BeatStops, OneCloser, sessionVars
    <2>3. CASE BeatReads(b)
        BY <1>1, <1>2, <2>3 DEF TypeOK, BeatReads, OneCloser, sessionVars
    <2>4. CASE BeatChecks(b)
        <3>1. \/ /\ state # "Closed" /\ state' = "Closed" /\ closeChan' = closeChan
                 /\ beat' = [beat EXCEPT ![b] = "closing"]
              \/ /\ state' = state /\ closeChan' = closeChan
                 /\ beat' = [beat EXCEPT ![b] = "done"] \/ beat' = [beat EXCEPT ![b] = "wait"]
            BY <2>4 DEF BeatChecks, CloseLocked, AlreadyClosed, sessionVars
        <3>2. ~panicked'
            BY <1>1, <2>4 DEF BeatChecks
        <3>3. beat \in [Beats -> {"start", "wait", "check", "closing", "done"}] /\ reader' = reader
            BY <1>1 DEF TypeOK
        <3> QED
            BY <1>2, <3>1, <3>2, <3>3 DEF OneCloser
    <2>5. CASE BeatCloses(b)
        BY <1>1, <1>2, <2>5 DEF TypeOK, BeatCloses, CloseChannel, OneCloser
    <2> QED
        BY <2>1, <2>2, <2>3, <2>4, <2>5 DEF Beat
<1> QED
    BY <1>4, <1>5 DEF Courteous

(* No client that keeps to the protocol can bring the process down: for    *)
(* any number of packages and any time-outs, Close() closes the channel    *)
(* once and no heartbeatLoop starts without an interval.                   *)
THEOREM PoliteClientsAreSafe == Spec => []PoliteNeverPanics
<1>1. Init => BufferEmpty /\ Courteous
    <2> SUFFICES ASSUME Init PROVE BufferEmpty /\ Courteous
        OBVIOUS
    <2>1. Todo = <<>>
        BY DEF Init, Todo
    <2>2. InOrder
        BY <2>1 DEF Init, InOrder, Pending
    <2> QED
        BY <2>2 DEF Init, NewSession, BufferEmpty, Courteous, NoBeatYet, IntervalSet, OneCloser
<1>2. TypeOK /\ BufferEmpty /\ Courteous /\ [Next]_vars => (BufferEmpty /\ Courteous)'
    <2> SUFFICES ASSUME TypeOK, BufferEmpty, Courteous, [Next]_vars PROVE Courteous'
        BY EmptyBuffer
    <2>1. CASE ClientHangUp \/ Tick \/ UNCHANGED vars
        <3>1. /\ Todo' = Todo /\ manners' = manners
              /\ UNCHANGED <<state, interval, closeChan, reader, beat, panicked>>
            BY <2>1 DEF ClientHangUp, Tick, vars, Todo, sessionVars, beatVars, clientVars
        <3> QED
            BY <3>1, OrderKept DEF Courteous, NoBeatYet, IntervalSet, OneCloser
    <2> QED
        BY <2>1, SendIsCourteous, ReaderIsCourteous, BeatIsCourteous DEF Next
<1>3. Courteous => PoliteNeverPanics
    BY DEF Courteous, PoliteNeverPanics
<1> QED
    BY <1>1, <1>2, <1>3, TypeCorrect, PTL DEF Spec

-----------------------------------------------------------------------------
(* The session answers as EchoService promises. *)

LEMMA NumbersKept ==
    ASSUME Numbered, Todo' = Todo, asked' = asked, replies' = replies,
           connClosed' \/ ~connClosed, panicked' \/ ~panicked
    PROVE  Numbered'
    BY DEF Numbered

LEMMA SendIsNumbered == ASSUME TypeOK, Numbered, ClientSend PROVE Numbered'
<1> SUFFICES ASSUME ~connClosed', ~panicked' PROVE Numbered'
    BY DEF Numbered
<1> PICK type \in Controls \cup Datas :
        /\ asked' = IF type \in Requests THEN asked + 1 ELSE asked
        /\ manners' = MannersAfter(type)
        /\ Todo \in Seq(Packages) /\ Todo' \in Seq(Packages)
        /\ Len(Todo') = Len(Todo) + 1
        /\ \A i \in 1..Len(Todo) : Todo'[i] = Todo[i]
        /\ Todo'[Len(Todo) + 1].type = type
        /\ type \in Requests => Todo'[Len(Todo) + 1].id = asked + 1
    BY SendAddsTodo
<1>1. /\ Len(replies) \in Nat /\ asked \in Nat /\ Len(Todo) \in Nat
      /\ Len(replies) <= asked /\ replies' = replies
    BY DEF TypeOK, Numbered, ClientSend, sessionVars
<1>2. \A i \in 1..Len(Todo) : Todo[i].type \in Requests => Todo[i].id \in (Len(replies) + 1)..asked
    BY DEF Numbered, ClientSend, sessionVars
<1>3. \A i, j \in 1..Len(Todo) :
         i < j /\ Todo[i].type \in Requests /\ Todo[j].type \in Requests => Todo[i].id < Todo[j].id
    BY DEF Numbered, ClientSend, sessionVars
<1>4. \A n \in (Len(replies) + 1)..asked :
         \E i \in 1..Len(Todo) : Todo[i].type \in Requests /\ Todo[i].id = n
    BY DEF Numbered, ClientSend, sessionVars
<1>5. \A i \in 1..Len(Todo') : i \in 1..Len(Todo) \/ i = Len(Todo) + 1
    BY <1>1
<1>6. \A i \in 1..Len(Todo') : Todo'[i].type \in Requests => Todo'[i].id \in (Len(replies) + 1)..asked'
    BY <1>1, <1>2, <1>5
<1>7. \A i, j \in 1..Len(Todo') :
         i < j /\ Todo'[i].type \in Requests /\ Todo'[j].type \in Requests => Todo'[i].id < Todo'[j].id
    <2> SUFFICES ASSUME NEW i \in 1..Len(Todo'), NEW j \in 1..Len(Todo'), i < j,
                        Todo'[i].type \in Requests, Todo'[j].type \in Requests
                 PROVE  Todo'[i].id < Todo'[j].id
        OBVIOUS
    <2>1. CASE j \in 1..Len(Todo)
        BY <1>1, <1>3, <2>1
    <2>2. CASE j = Len(Todo) + 1
        <3>1. i \in 1..Len(Todo) /\ Todo[i].id \in 1..asked
            BY <1>1, <1>2, <2>2
        <3> QED
            BY <1>1, <2>2, <3>1
    <2> QED
        BY <1>5, <2>1, <2>2
<1>8. \A n \in (Len(replies) + 1)..asked' :
         \E i \in 1..Len(Todo') : Todo'[i].type \in Requests /\ Todo'[i].id = n
    <2> TAKE n \in (Len(replies) + 1)..asked'
    <2>1. CASE n \in (Len(replies) + 1)..asked
        BY <1>1, <1>4, <2>1
    <2>2. CASE n \notin (Len(replies) + 1)..asked
        <3>1. type \in Requests /\ n = asked + 1
            BY <1>1, <2>2
        <3> QED
            BY <1>1, <3>1
    <2> QED
        BY <2>1, <2>2
<1> QED
    BY <1>1, <1>6, <1>7, <1>8 DEF Numbered

(* The request at the head is the one behind the last answer. *)
LEMMA NextInLine ==
    ASSUME TypeOK, Numbered, ~connClosed, ~panicked, NEW types, Package(types),
           Todo[1].type \in Requests
    PROVE  Todo[1].id = Len(replies) + 1 /\ Len(replies) + 1 <= asked
<1>1. Len(replies) \in Nat /\ asked \in Nat /\ Len(Todo) \in Nat /\ Len(Todo) >= 1
    BY PackageTakesTodo DEF TypeOK
<1>2. Todo[1].id \in (Len(replies) + 1)..asked
    BY <1>1 DEF Numbered
<1>3. PICK i \in 1..Len(Todo) : Todo[i].type \in Requests /\ Todo[i].id = Len(replies) + 1
    BY <1>1, <1>2 DEF Numbered
<1>4. 1 < i => Todo[1].id < Todo[i].id
    BY <1>1, <1>3 DEF Numbered
<1> QED
    BY <1>1, <1>2, <1>3, <1>4

LEMMA PackageIsNumbered ==
    ASSUME TypeOK, Numbered, ~panicked, NEW types, Package(types),
           connClosed' = connClosed,
           \/ Todo[1].type \notin Requests /\ replies' = replies
           \/ Todo[1].type \in Requests /\ replies' = Append(replies, Todo[1].id)
    PROVE  Numbered'
<1> SUFFICES ASSUME ~connClosed PROVE Numbered'
    BY DEF Numbered
<1>1. /\ Len(replies) \in Nat /\ asked \in Nat /\ asked' = asked /\ Len(Todo) \in Nat
      /\ Len(Todo) >= 1 /\ Len(Todo') = Len(Todo) - 1
      /\ \A i \in 1..Len(Todo') : i + 1 \in 1..Len(Todo) /\ Todo'[i] = Todo[i + 1]
    BY PackageTakesTodo DEF TypeOK, Package, clientVars
<1>2. /\ Len(replies) <= asked
      /\ \A i \in 1..Len(Todo) : Todo[i].type \in Requests => Todo[i].id \in (Len(replies) + 1)..asked
      /\ \A n \in (Len(replies) + 1)..asked :
           \E i \in 1..Len(Todo) : Todo[i].type \in Requests /\ Todo[i].id = n
    BY DEF Numbered
<1>3. \A i, j \in 1..Len(Todo) :
         i < j /\ Todo[i].type \in Requests /\ Todo[j].type \in Requests => Todo[i].id < Todo[j].id
    BY DEF Numbered
<1>4. \A i, j \in 1..Len(Todo') :
         i < j /\ Todo'[i].type \in Requests /\ Todo'[j].type \in Requests => Todo'[i].id < Todo'[j].id
    <2> TAKE i, j \in 1..Len(Todo')
    <2>1. i < j => i + 1 < j + 1
        OBVIOUS
    <2>2. /\ i + 1 \in 1..Len(Todo) /\ Todo'[i] = Todo[i + 1]
          /\ j + 1 \in 1..Len(Todo) /\ Todo'[j] = Todo[j + 1]
        BY <1>1
    <2> QED
        BY <1>3, <2>1, <2>2
<1>5. \A i \in 1..Len(Todo) : i = 1 \/ \E j \in 1..Len(Todo') : Todo'[j] = Todo[i]
    <2> TAKE i \in 1..Len(Todo)
    <2>1. i # 1 => i - 1 \in 1..Len(Todo') /\ (i - 1) + 1 = i
        BY <1>1
    <2> QED
        BY <1>1, <2>1
<1>6. CASE Todo[1].type \notin Requests /\ replies' = replies
    <2>1. \A n \in (Len(replies) + 1)..asked :
             \E i \in 1..Len(Todo') : Todo'[i].type \in Requests /\ Todo'[i].id = n
        BY <1>2, <1>5, <1>6
    <2>2. \A i \in 1..Len(Todo') : Todo'[i].type \in Requests => Todo'[i].id \in (Len(replies) + 1)..asked
        BY <1>1, <1>2
    <2> QED
        BY <1>1, <1>2, <1>4, <1>6, <2>1, <2>2 DEF Numbered
<1>7. CASE Todo[1].type \in Requests /\ replies' = Append(replies, Todo[1].id)
    <2>1. Todo[1].id = Len(replies) + 1 /\ Len(replies) + 1 <= asked
        BY <1>7, NextInLine
    <2>2. Len(replies') = Len(replies) + 1
        <3>1. replies \in Seq(0..MaxSent)
            BY DEF TypeOK
        <3> QED
            BY <1>7, <3>1
    <2>3. \A i \in 1..Len(Todo') : Todo'[i].type \in Requests => Todo'[i].id \in (Len(replies) + 2)..asked
        <3> TAKE i \in 1..Len(Todo')
        <3> HAVE Todo'[i].type \in Requests
        <3>1. Todo[i + 1].id \in (Len(replies) + 1)..asked /\ Todo[1].id < Todo[i + 1].id
            BY <1>1, <1>2, <1>3, <1>7
        <3> QED
            BY <1>1, <2>1, <3>1
    <2>4. \A n \in (Len(replies) + 2)..asked :
             \E i \in 1..Len(Todo') : Todo'[i].type \in Requests /\ Todo'[i].id = n
        <3> TAKE n \in (Len(replies) + 2)..asked
        <3>1. PICK i \in 1..Len(Todo) : Todo[i].type \in Requests /\ Todo[i].id = n
            BY <1>1, <1>2
        <3>2. i # 1
            BY <1>1, <2>1, <3>1
        <3> QED
            BY <1>5, <3>1, <3>2
    <2> QED
        BY <1>1, <1>4, <2>1, <2>2, <2>3, <2>4 DEF Numbered
<1> QED
    BY <1>6, <1>7

(* Closing never reopens the connection. *)
LEMMA ClosedForGood ==
    CloseLocked \/ AlreadyClosed \/ CloseChannel => connClosed' \/ ~connClosed
<1>1. CloseChannel => connClosed' \/ ~connClosed
    BY Zenon DEF CloseChannel
<1>2. CloseLocked \/ AlreadyClosed => connClosed' = connClosed
    BY DEF CloseLocked, AlreadyClosed, sessionVars
<1> QED
    BY <1>1, <1>2

LEMMA NextIsNumbered == ASSUME TypeOK, BufferEmpty, Numbered, [Next]_vars PROVE Numbered'
<1> SUFFICES ASSUME ~connClosed', ~panicked' PROVE Numbered'
    BY DEF Numbered
<1>1. CASE ClientHangUp \/ Tick \/ UNCHANGED vars
    BY <1>1, NumbersKept DEF ClientHangUp, Tick, vars, sessionVars, clientVars, Todo
<1>2. CASE ReaderSelect \/ ReaderError \/ ReaderDrained
    BY <1>2, NumbersKept DEF ReaderSelect, ReaderError, ReaderDrained, sessionVars, clientVars, Todo
<1>3. CASE ReaderRead
    BY <1>3, ReadKeepsTodo, NumbersKept DEF ReaderRead, sessionVars, clientVars
<1>4. CASE KickCloses \/ ReaderDefers \/ ReaderCloses
    <2>1. connClosed' \/ ~connClosed
        BY <1>4, ClosedForGood DEF KickCloses, ReaderDefers, ReaderCloses
    <2>2. Todo' = Todo /\ asked' = asked /\ replies' = replies /\ ~panicked
        BY <1>4 DEF KickCloses, ReaderDefers, ReaderCloses, clientVars, Todo
    <2> QED
        BY <2>1, <2>2, NumbersKept
<1>5. CASE HandleHandshake \/ HandleHandshakeAck \/ HandleHeartbeat \/ HandleKick
    <2>1. PICK types : Package(types) /\ types \cap Requests = {}
        BY <1>5 DEF HandleHandshake, HandleHandshakeAck, HandleHeartbeat, HandleKick, Requests
    <2>2. replies' = replies /\ connClosed' = connClosed
        BY <1>5 DEF HandleHandshake, HandleHandshakeAck, HandleHeartbeat, HandleKick, CloseLocked,
                    AlreadyClosed, sessionVars
    <2>3. Todo[1].type \notin Requests /\ ~panicked
        BY <2>1, PackageTakesTodo DEF Package
    <2> QED
        BY <2>1, <2>2, <2>3, PackageIsNumbered
<1>6. CASE HandleData
    <2>1. /\ Todo[1] = Head(dataBuf) /\ Todo[1].type \in Datas /\ ~panicked
          /\ connClosed' = connClosed
        BY <1>6, PackageTakesTodo DEF HandleData, Package
    <2>2. Todo[1].type # "null"
        BY <1>6, <2>1 DEF HandleData
    <2>3. \/ Todo[1].type \notin Requests /\ replies' = replies
          \/ Todo[1].type \in Requests /\ replies' = Append(replies, Todo[1].id)
        BY <1>6, <2>1, <2>2 DEF HandleData, Reply, Requests
    <2> QED
        BY <1>6, <2>1, <2>3, PackageIsNumbered DEF HandleData
<1>7. ASSUME NEW b \in Beats, Beat(b) PROVE Numbered'
    <2>1. connClosed' \/ ~connClosed
        BY <1>7, ClosedForGood DEF Beat, BeatStart, BeatStops, BeatReads, BeatChecks, BeatCloses, sessionVars
    <2>2. Todo' = Todo /\ asked' = asked /\ replies' = replies /\ ~panicked
        BY <1>7 DEF Beat, BeatStart, BeatStops, BeatReads, BeatChecks, BeatCloses, beatUnchanged,
                    clientVars, Todo
    <2> QED
        BY <2>1, <2>2, NumbersKept
<1> QED
    BY <1>1, <1>2, <1>3, <1>4, <1>5, <1>6, <1>7, SendIsNumbered DEF Next, Reader

LEMMA StepIsEchoStep ==
    ASSUME TypeOK, Numbered, [Next]_vars
    PROVE  [Echo!Next]_(Echo!vars)
<1> USE DEF Echo!Next, Echo!vars
<1>1. ASSUME UNCHANGED <<asked, replies>>, connClosed' \/ ~connClosed, panicked' \/ ~panicked
      PROVE  [Echo!Next]_(Echo!vars)
    BY <1>1 DEF Echo!End, TypeOK
<1>2. CASE ClientSend
    BY <1>2 DEF ClientSend, Echo!Ask, sessionVars
<1>3. CASE ClientHangUp \/ Tick \/ UNCHANGED vars
    BY <1>1, <1>3 DEF ClientHangUp, Tick, vars, sessionVars, clientVars
<1>4. CASE ReaderSelect \/ ReaderRead \/ ReaderError \/ ReaderDrained
    BY <1>1, <1>4 DEF ReaderSelect, ReaderRead, ReaderError, ReaderDrained, sessionVars, clientVars
<1>5. CASE HandleHandshake \/ HandleHandshakeAck \/ HandleHeartbeat \/ HandleKick
    BY <1>1, <1>5 DEF HandleHandshake, HandleHandshakeAck, HandleHeartbeat, HandleKick, Package,
                      CloseLocked, AlreadyClosed, sessionVars, clientVars
<1>6. CASE KickCloses \/ ReaderDefers \/ ReaderCloses
    BY <1>1, <1>6 DEF KickCloses, ReaderDefers, ReaderCloses, CloseLocked, AlreadyClosed,
                      CloseChannel, sessionVars, clientVars
<1>7. CASE HandleData
    <2>1. /\ Package(Datas) /\ ~panicked /\ asked' = asked /\ connClosed' = connClosed
          /\ Todo[1] = Head(dataBuf)
        BY <1>7, PackageTakesTodo DEF HandleData, Package, clientVars
    <2>2. CASE replies' = replies
        BY <1>1, <2>1, <2>2
    <2>3. CASE replies' # replies
        <3>1. /\ Todo[1].type \in {"hello", "other"} /\ ~connClosed
              /\ replies' = Append(replies, Todo[1].id)
            BY <1>7, <2>1, <2>3 DEF HandleData, Reply
        <3>2. Todo[1].id = Len(replies) + 1 /\ Len(replies) + 1 <= asked
            BY <2>1, <3>1, NextInLine DEF Requests
        <3>3. ~panicked'
            BY <1>7, <2>1, <3>1 DEF HandleData
        <3>4. Len(replies) < asked
            BY <3>2 DEF TypeOK
        <3> QED
            BY <2>1, <3>1, <3>2, <3>3, <3>4 DEF Echo!Answer
    <2> QED
        BY <2>2, <2>3
<1>8. ASSUME NEW b \in Beats, Beat(b) PROVE [Echo!Next]_(Echo!vars)
    BY <1>1, <1>8 DEF Beat, BeatStart, BeatStops, BeatReads, BeatChecks, BeatCloses, beatUnchanged,
                      CloseLocked, AlreadyClosed, CloseChannel, sessionVars, clientVars
<1> QED
    BY <1>2, <1>3, <1>4, <1>5, <1>6, <1>7, <1>8 DEF Next, Reader

(* Every step of a session is a step of the echo service or leaves what    *)
(* the client sees alone: its answers come one per request and in the      *)
(* order of the requests, and none on a connection that has ended.  That   *)
(* the answers come at all is left to the fairness of ImplementsEcho.      *)
THEOREM SessionsEcho == Spec => Echo!Init /\ [][Echo!Next]_(Echo!vars)
<1>1. Init => BufferEmpty /\ Numbered /\ Echo!Init
    <2> SUFFICES ASSUME Init PROVE BufferEmpty /\ Numbered /\ Echo!Init
        OBVIOUS
    <2>1. Todo = <<>> /\ replies = <<>> /\ asked = 0
        BY DEF Init, Todo
    <2>2. Numbered
        BY <2>1 DEF Numbered
    <2> QED
        BY <2>2 DEF Init, NewSession, BufferEmpty, Echo!Init
<1>2. TypeOK /\ BufferEmpty /\ Numbered /\ [Next]_vars => (BufferEmpty /\ Numbered)'
    BY EmptyBuffer, NextIsNumbered
<1>3. TypeOK /\ Numbered /\ [Next]_vars => [Echo!Next]_(Echo!vars)
    BY StepIsEchoStep
<1> QED
    BY <1>1, <1>2, <1>3, TypeCorrect, PTL DEF Spec

=============================================================================
