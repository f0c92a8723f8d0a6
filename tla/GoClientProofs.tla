--------------------------- MODULE GoClientProofs ---------------------------
(***************************************************************************)
(* The safety properties of GoClient, for any number of attempts and of    *)
(* requests. That some loop reads the connection rests on a count: the     *)
(* server writes one handshake response, in two pieces, per connection, so *)
(* two connections make at most two responses, whichever loops take the    *)
(* pieces. Counts bounds the responses taken, queued and held, and those   *)
(* the remaining pieces can still make, so that the one loop left cannot   *)
(* be blocked in front of a full channel.                                  *)
(***************************************************************************)
EXTENDS GoClient, SequenceTheorems, TLAPS

\* Where the robot is, and what it has done for its attempt.
Phases ==
    /\ at = "dial" => attempt < MaxRetries
    /\ at \notin {"dial", "gave up"} => attempt > 0 /\ conn = attempt
    /\ at \in {"shake", "agree", "ready", "register", "wait"} => loop[attempt] # "none"
    /\ netState = "Working" <=> Connected
    /\ netState = "Inited" => \A c \in Conns : asked[c] = {}
    /\ conn <= attempt
    /\ at \in {"register", "wait"} => reqId > 0
    /\ at = "hello" => loop[attempt] = "none"

\* A loop that has not been started, and what one that has been reads.
Started(c) ==
    /\ c > conn => loop[c] = "none"
    /\ loop[c] = "none" => c \notin greeted /\ wire[c] = <<>> /\ asked[c] = {}
    /\ loop[c] \notin {"parse", "push"} => chunk[c] = <<>>
    /\ loop[c] \notin {"none", "read"} => reading[c] \in 1..attempt
    /\ loop[c] = "done" => ~up[reading[c]]

\* The loop of the attempt under way reads the connection of that attempt.
Newest ==
    attempt > 0 /\ loop[attempt] # "none" =>
        /\ conn = attempt
        /\ loop[attempt] # "read" => reading[attempt] = attempt

\* A package that has been read and not reset is a response that a loop waits
\* to hand over.
Pushed == frame.at = "full" => \E l \in Conns : loop[l] = "push"

\* Only requests that have been sent have callbacks, and each has one.
Owners ==
    /\ callbacks \cup delivered \subseteq 1..reqId
    /\ at = "register" => reqId \notin callbacks \cup delivered
    /\ callbacks \cap delivered = {}

Control == Phases /\ Newest /\ Pushed /\ \A c \in Conns : Started(c)

-----------------------------------------------------------------------------
(* Types                                                                   *)

LEMMA Numbers == MaxRetries \in Nat \ {0} /\ MaxRequests \in Nat \ {0}
BY ClientAssumption

LEMMA FrameCases ==
    ASSUME frame \in Frames
    PROVE  \/ frame = Between /\ frame.at = "head"
           \/ frame = Lost /\ frame.at = "lost"
           \/ frame.at \in {"body", "full"} /\ frame.pkg \in Packages
                /\ frame \in [at : {"body", "full"}, pkg : Packages]
BY DEF Frames, Between, Lost

LEMMA PackageKinds ==
    ASSUME NEW p \in Packages
    PROVE  /\ p.type = "handshake" => p.ok \in BOOLEAN
           /\ p.type = "answer" => p.id \in Requests
BY DEF Packages, Responses, Answers

\* The first piece of a chunk is taken.
LEMMA Consumed ==
    ASSUME TypeOK, NEW l \in Conns, chunk[l] # <<>>, Consume(l)
    PROVE  /\ chunk' \in [Conns -> Seq(Pieces)] /\ Piece(l) \in Pieces
           /\ Len(chunk[l]) \in Nat /\ Len(chunk[l]) > 0 /\ Len(chunk'[l]) = Len(chunk[l]) - 1
           /\ \A k \in Conns : k # l => chunk'[k] = chunk[k]
<1>1. chunk \in [Conns -> Seq(Pieces)] /\ chunk[l] \in Seq(Pieces)
    BY DEF TypeOK
<1>2. Tail(chunk[l]) \in Seq(Pieces) /\ Len(Tail(chunk[l])) = Len(chunk[l]) - 1 /\ Head(chunk[l]) \in Pieces
    BY <1>1, HeadTailProperties
<1>3. Len(chunk[l]) \in Nat /\ Len(chunk[l]) > 0
    BY <1>1, EmptySeq, LenProperties
<1>4. chunk' = [chunk EXCEPT ![l] = Tail(chunk[l])]
    BY DEF Consume
<1> QED
    BY <1>1, <1>2, <1>3, <1>4 DEF Piece

\* The types of the numbers, without those of the sequences.
LEMMA Scalars ==
    ASSUME TypeOK
    PROVE  /\ MaxRetries \in Nat \ {0} /\ MaxRequests \in Nat \ {0}
           /\ at \in Robot /\ attempt \in 0..MaxRetries /\ conn \in 0..MaxRetries /\ reqId \in 0..MaxRequests
           /\ netState \in {"Inited", "Working"} /\ errorChan \in Nat
           /\ loop \in [Conns -> LoopAt] /\ reading \in [Conns -> 0..MaxRetries] /\ up \in [Conns -> BOOLEAN]
           /\ asked \in [Conns -> SUBSET Requests] /\ frame \in Frames
           /\ callbacks \subseteq Requests /\ delivered \subseteq Requests
BY Numbers, Zenon DEF TypeOK

LEMMA RobotTypes == ASSUME TypeOK, Phases, RobotNext PROVE TypeOK'
<1>0. /\ MaxRetries \in Nat \ {0} /\ MaxRequests \in Nat \ {0}
      /\ at \in Robot /\ attempt \in 0..MaxRetries /\ conn \in 0..MaxRetries /\ reqId \in 0..MaxRequests
      /\ netState \in {"Inited", "Working"} /\ errorChan \in Nat
      /\ callbacks \subseteq Requests /\ asked \in [Conns -> SUBSET Requests]
    BY Scalars
<1>1. CASE Dial
    <2>1. attempt' \in 0..MaxRetries /\ at' \in Robot /\ conn' \in 0..MaxRetries /\ netState' \in {"Inited", "Working"}
        <3>1. at' \in Robot
            BY <1>1, Zenon DEF Dial, Robot
        <3>2. /\ attempt' = attempt + 1 /\ attempt < MaxRetries /\ conn' \in {conn, attempt'}
              /\ netState' \in {netState, "Inited"}
            BY <1>1, Zenon DEF Dial, Phases
        <3>3. attempt' \in 0..MaxRetries
            BY <1>0, <3>2
        <3> QED
            BY <1>0, <3>1, <3>2, <3>3
    <2>2. up' \in [Conns -> BOOLEAN]
        BY <1>1 DEF Dial, TypeOK
    <2> QED
        BY <1>1, <2>1, <2>2 DEF Dial, TypeOK, shared, reader
<1>2. CASE Hello
    <2>1. at' \in Robot /\ loop' \in [Conns -> LoopAt]
        BY <1>2 DEF Hello, Retry, TypeOK, Robot, LoopAt
    <2> QED
        BY <1>2, <2>1 DEF Hello, TypeOK, shared, server
<1>3. CASE TakeHandshake
    <2>1. at' \in Robot
        BY <1>3 DEF TakeHandshake, Retry, Robot
    <2>2. handshakeChan' \in Seq(BOOLEAN)
        BY <1>3, HeadTailProperties DEF TakeHandshake, TypeOK
    <2> QED
        BY <1>3, <2>1, <2>2 DEF TakeHandshake, TypeOK, reader, server
<1>4. CASE TakeError
    <2>1. at' \in Robot /\ errorChan' \in Nat
        <3>1. at' \in Robot
            BY <1>4, Zenon DEF TakeError, Retry, Robot
        <3>2. errorChan' = errorChan - 1 /\ errorChan > 0
            BY <1>4, Zenon DEF TakeError
        <3> QED
            BY <1>0, <3>1, <3>2
    <2> QED
        BY <1>4, <2>1 DEF TakeError, TypeOK, reader, server
<1>5. CASE HandshakeTimeout
    <2>1. at' \in Robot
        BY <1>5 DEF HandshakeTimeout, Retry, Robot
    <2> QED
        BY <1>5, <2>1 DEF HandshakeTimeout, TypeOK, reader, shared, server
<1>6. CASE SendAck
    <2>1. at' \in Robot /\ netState' \in {"Inited", "Working"}
        BY <1>6 DEF SendAck, Retry, Robot, TypeOK
    <2> QED
        BY <1>6, <2>1 DEF SendAck, TypeOK, reader, shared, server
<1>7. CASE SendRequest
    <2>1. reqId' \in 0..MaxRequests /\ reqId' \in Requests /\ at' \in Robot
        <3>1. at' \in Robot
            BY <1>0, <1>7, Zenon DEF SendRequest, Robot
        <3>2. reqId' = reqId + 1 /\ reqId < MaxRequests
            BY <1>7, Zenon DEF SendRequest, MayAsk
        <3> QED
            BY <1>0, <3>1, <3>2 DEF Requests
    <2>2. asked' \in [Conns -> SUBSET Requests]
        BY <1>0, <1>7, <2>1 DEF SendRequest
    <2>3. outcome' \in [Requests -> {"none", "answer", "error", "timeout"}]
        BY <1>7 DEF SendRequest, TypeOK
    <2> QED
        BY <1>7, <2>1, <2>2, <2>3 DEF SendRequest, TypeOK, reader, shared
<1>8. CASE Register
    <2>1. at' \in Robot
        BY <1>8 DEF Register, Robot
    <2>2. callbacks' \subseteq Requests
        BY <1>0, <1>8 DEF Register, Phases, Requests
    <2> QED
        BY <1>8, <2>1, <2>2 DEF Register, TypeOK, reader, server
<1>9. ASSUME NEW how \in {"answer", "error", "timeout"}, Return(how),
             callbacks' \subseteq Requests, errorChan' \in Nat
      PROVE  TypeOK'
    BY <1>9 DEF Return, TypeOK, Robot, reader, server
<1>10. CASE ReturnAnswer \/ ReturnError \/ RequestTimeout
    BY <1>9, <1>10 DEF ReturnAnswer, ReturnError, RequestTimeout, TypeOK
<1> QED
    BY <1>1, <1>2, <1>3, <1>4, <1>5, <1>6, <1>7, <1>8, <1>10 DEF RobotNext

\* A Read takes n pieces off the wire.
LEMMA Cut ==
    ASSUME NEW S, NEW s \in Seq(S), NEW n \in 1..Len(s)
    PROVE  /\ SubSeq(s, 1, n) \in Seq(S) /\ Len(SubSeq(s, 1, n)) = n
           /\ SubSeq(s, n + 1, Len(s)) \in Seq(S) /\ Len(SubSeq(s, n + 1, Len(s))) = Len(s) - n
<1> DEFINE l == Len(s)
<1>1. l \in Nat /\ n \in Nat /\ 1 <= n /\ n <= l /\ \A i \in 1..l : s[i] \in S
    BY LenProperties, ElementOfSeq
<1>2. /\ (IF 1 <= n THEN n - 1 + 1 ELSE 0) = n
      /\ (IF n + 1 <= l THEN l - (n + 1) + 1 ELSE 0) = l - n
    <2> HIDE DEF l
    <2> QED
        BY <1>1
<1>3. SubSeq(s, 1, n) \in Seq(S) /\ Len(SubSeq(s, 1, n)) = IF 1 <= n THEN n - 1 + 1 ELSE 0
    BY <1>1, SubSeqProperties
<1>4. /\ SubSeq(s, n + 1, l) \in Seq(S)
      /\ Len(SubSeq(s, n + 1, l)) = IF n + 1 <= l THEN l - (n + 1) + 1 ELSE 0
    BY <1>1, SubSeqProperties
<1> QED
    BY <1>2, <1>3, <1>4

LEMMA Received ==
    ASSUME TypeOK, NEW l \in Conns, Started(l), Receive(l)
    PROVE  LET c == reading[l]
           IN  /\ c \in Conns /\ c \in 1..attempt
               /\ wire' \in [Conns -> Seq(Pieces)] /\ chunk' \in [Conns -> Seq(Pieces)]
               /\ \A k \in Conns \ {c} : wire'[k] = wire[k]
               /\ \A k \in Conns \ {l} : chunk'[k] = chunk[k]
               /\ \E n \in 1..Len(wire[c]) : Len(chunk'[l]) = n /\ Len(wire'[c]) = Len(wire[c]) - n
<1> DEFINE c == reading[l]
<1>1. c \in 1..attempt /\ c \in Conns
    <2>1. c \in 1..attempt
        BY DEF Started, Receive
    <2> QED
        BY <2>1, Scalars DEF Conns
<1> HIDE DEF c
<1>2. PICK n \in 1..Len(wire[c]) :
        /\ chunk' = [chunk EXCEPT ![l] = SubSeq(wire[c], 1, n)]
        /\ wire' = [wire EXCEPT ![c] = SubSeq(wire[c], n + 1, Len(wire[c]))]
    BY DEF Receive, c
<1>3. wire \in [Conns -> Seq(Pieces)] /\ chunk \in [Conns -> Seq(Pieces)] /\ wire[c] \in Seq(Pieces)
    BY <1>1 DEF TypeOK
<1>4. /\ SubSeq(wire[c], 1, n) \in Seq(Pieces) /\ Len(SubSeq(wire[c], 1, n)) = n
      /\ SubSeq(wire[c], n + 1, Len(wire[c])) \in Seq(Pieces)
      /\ Len(SubSeq(wire[c], n + 1, Len(wire[c]))) = Len(wire[c]) - n
    BY <1>3, Cut
<1>5. wire'[c] = SubSeq(wire[c], n + 1, Len(wire[c])) /\ chunk'[l] = SubSeq(wire[c], 1, n)
    BY <1>1, <1>2, <1>3
<1>6. wire' \in [Conns -> Seq(Pieces)] /\ chunk' \in [Conns -> Seq(Pieces)]
    BY <1>1, <1>2, <1>3, <1>4
<1>7. /\ \A k \in Conns \ {c} : wire'[k] = wire[k]
      /\ \A k \in Conns \ {l} : chunk'[k] = chunk[k]
    BY <1>2, <1>3
<1> QED
    BY <1>1, <1>4, <1>5, <1>6, <1>7, Zenon DEF c

LEMMA LoopTypes == ASSUME TypeOK, NEW l \in Conns, Started(l), LoopNext(l) PROVE TypeOK'
<1>1. CASE CallRead(l)
    BY <1>1 DEF CallRead, TypeOK, LoopAt, robot, shared, server
<1>2. CASE Receive(l)
    <2>1. wire' \in [Conns -> Seq(Pieces)] /\ chunk' \in [Conns -> Seq(Pieces)]
        BY <1>2, Received
    <2> QED
        BY <1>2, <2>1 DEF Receive, TypeOK, LoopAt, robot, shared
<1>3. CASE ReadFails(l)
    BY <1>3 DEF ReadFails, TypeOK, LoopAt, robot, server
<1>4. CASE ReadHead(l)
    <2>1. chunk' \in [Conns -> Seq(Pieces)] /\ Piece(l) \in Pieces
        BY <1>4, Consumed DEF ReadHead
    <2>2. frame' \in Frames
        BY <1>4, <2>1 DEF ReadHead, Frames, Pieces
    <2> QED
        BY <1>4, <2>1, <2>2 DEF ReadHead, TypeOK, robot, shared, server
<1>5. CASE LoseStep(l)
    <2>1. chunk' \in [Conns -> Seq(Pieces)]
        BY <1>5, Consumed DEF LoseStep
    <2> QED
        BY <1>5, <2>1 DEF LoseStep, TypeOK, robot, shared, server, Frames
<1>6. ASSUME ReadBody(l)
      PROVE  /\ chunk' \in [Conns -> Seq(Pieces)] /\ frame.pkg \in Packages
             /\ frame \in [at : {"body", "full"}, pkg : Packages]
    <2>1. chunk' \in [Conns -> Seq(Pieces)]
        BY <1>6, Consumed DEF ReadBody, Complete, TypeOK
    <2>2. frame.at \in {"body", "full"} /\ frame \in Frames
        BY <1>6 DEF ReadBody, Complete, TypeOK
    <2> QED
        BY <2>1, <2>2, FrameCases
<1>7. CASE ReadResponse(l)
    <2>1. /\ chunk' \in [Conns -> Seq(Pieces)] /\ frame.pkg \in Packages
          /\ frame \in [at : {"body", "full"}, pkg : Packages]
        BY <1>6, <1>7 DEF ReadResponse
    <2>2. frame' \in [at : {"body", "full"}, pkg : Packages] /\ frame'.pkg = frame.pkg
        BY <1>7, <2>1 DEF ReadResponse
    <2>3. resp' \in [Conns -> BOOLEAN]
        BY <1>7, <2>1, <2>2, PackageKinds DEF ReadResponse, TypeOK
    <2>4. loop' \in [Conns -> LoopAt]
        BY <1>7 DEF ReadResponse, TypeOK, LoopAt
    <2> QED
        BY <1>7, <2>1, <2>2, <2>3, <2>4 DEF ReadResponse, ReadBody, TypeOK, robot, server, Frames
<1>8. CASE PushResponse(l)
    <2>1. handshakeChan' \in Seq(BOOLEAN)
        BY <1>8 DEF PushResponse, TypeOK
    <2> QED
        BY <1>8, <2>1 DEF PushResponse, TypeOK, LoopAt, robot, server, Frames
<1>9. CASE Ignore(l)
    BY <1>6, <1>9 DEF Ignore, ReadBody, TypeOK, robot, server, Frames
<1>10. CASE ReadAnswer(l)
    <2>1. frame.pkg.id \in Requests /\ chunk' \in [Conns -> Seq(Pieces)]
        BY <1>6, <1>10, PackageKinds DEF ReadAnswer
    <2>2. callbacks' \subseteq Requests /\ delivered' \subseteq Requests
        BY <1>10, <2>1 DEF ReadAnswer, TypeOK
    <2> QED
        BY <1>10, <2>1, <2>2 DEF ReadAnswer, ReadBody, TypeOK, robot, server, Frames
<1>11. CASE NextRead(l)
    BY <1>11 DEF NextRead, TypeOK, LoopAt, robot, shared, server
<1> QED
    BY <1>1, <1>2, <1>3, <1>4, <1>5, <1>7, <1>8, <1>9, <1>10, <1>11 DEF LoopNext

\* What Send does to the line of a connection.
LEMMA Sent ==
    ASSUME TypeOK, NEW c \in Conns, NEW pkg \in Packages, Send(c, pkg)
    PROVE  /\ wire' \in [Conns -> Seq(Pieces)] /\ wire'[c] # <<>>
           /\ Len(wire[c]) \in Nat /\ Len(wire'[c]) = Len(wire[c]) + 2
           /\ \A k \in Conns : k # c => wire'[k] = wire[k]
<1>1. wire \in [Conns -> Seq(Pieces)] /\ wire[c] \in Seq(Pieces)
    BY DEF TypeOK
<1>2. PICK t : t = <<[pkg |-> pkg, part |-> "head"], [pkg |-> pkg, part |-> "body"]>>
    OBVIOUS
<1>3. t \in Seq(Pieces) /\ Len(t) = 2
    BY <1>2 DEF Pieces
<1>4. wire[c] \o t \in Seq(Pieces) /\ Len(wire[c] \o t) = Len(wire[c]) + Len(t) /\ Len(wire[c]) \in Nat
    BY <1>1, <1>3, ConcatProperties, LenProperties
<1>5. wire' = [wire EXCEPT ![c] = wire[c] \o t]
    BY <1>2 DEF Send
<1>6. wire'[c] = wire[c] \o t /\ wire' \in [Conns -> Seq(Pieces)]
    BY <1>1, <1>4, <1>5
<1>7. Len(wire'[c]) = Len(wire[c]) + 2
    BY <1>3, <1>4, <1>6
<1>8. wire'[c] # <<>>
    BY <1>4, <1>7, EmptySeq, <1>6
<1> QED
    BY <1>1, <1>4, <1>5, <1>6, <1>7, <1>8

LEMMA ServerTypes == ASSUME TypeOK, NEW c \in Conns, Greet(c) \/ Answer(c) \/ HangUp(c) PROVE TypeOK'
<1>1. CASE Greet(c)
    <2>1. wire' \in [Conns -> Seq(Pieces)]
        BY <1>1, Sent DEF Greet, Packages
    <2> QED
        BY <1>1, <2>1 DEF Greet, TypeOK, robot, shared, reader
<1>2. CASE Answer(c)
    <2>1. PICK q \in asked[c] : asked' = [asked EXCEPT ![c] = @ \ {q}] /\ Send(c, [type |-> "answer", id |-> q])
        BY <1>2 DEF Answer
    <2>2. [type |-> "answer", id |-> q] \in Packages
        BY <2>1 DEF TypeOK, Packages, Answers
    <2>3. wire' \in [Conns -> Seq(Pieces)]
        BY <2>1, <2>2, Sent
    <2> QED
        BY <1>2, <2>1, <2>3 DEF Answer, TypeOK, robot, shared, reader
<1>3. CASE HangUp(c)
    BY <1>3 DEF HangUp, TypeOK, robot, shared, reader
<1> QED
    BY <1>1, <1>2, <1>3

LEMMA NextTypes == ASSUME TypeOK, Phases, \A c \in Conns : Started(c), [Next]_vars PROVE TypeOK'
<1>1. CASE UNCHANGED vars
    BY <1>1 DEF vars, robot, shared, reader, server, TypeOK
<1>2. CASE Next
    BY <1>2, RobotTypes, LoopTypes, ServerTypes DEF Next
<1> QED
    BY <1>1, <1>2

-----------------------------------------------------------------------------
(* The robot and its loops                                                 *)

LEMMA AttemptIsConn ==
    ASSUME TypeOK
    PROVE  attempt \in Nat /\ (attempt > 0 => attempt \in Conns) /\ (conn > 0 => conn \in Conns) /\ conn \in Nat
           /\ \A c \in Conns : c \in Nat /\ c > 0
<1>1. MaxRetries \in Nat \ {0} /\ attempt \in 0..MaxRetries /\ conn \in 0..MaxRetries
    BY Scalars
<1> QED
    BY <1>1 DEF Conns

LEMMA DialControl == ASSUME TypeOK, Control, Dial PROVE Control'
<1>1. /\ at = "dial" /\ attempt' = attempt + 1 /\ netState = "Inited" /\ netState' = "Inited"
      /\ UNCHANGED <<reqId, frame, loop, reading, chunk, wire, greeted, asked>>
    BY Scalars, Zenon DEF Dial, Control, Phases, Connected, shared, reader
<1>2. /\ attempt \in Nat /\ attempt < MaxRetries /\ MaxRetries \in Nat /\ conn \in Nat /\ conn <= attempt
      /\ up \in [Conns -> BOOLEAN]
    BY <1>1, Scalars, AttemptIsConn DEF Control, Phases
<1>3. attempt' \in Conns /\ attempt' > attempt /\ attempt' \in Nat
    BY <1>1, <1>2 DEF Conns
<1>4. \/ at' = "hello" /\ conn' = attempt' /\ up' = [up EXCEPT ![attempt'] = TRUE]
      \/ /\ at' = IF attempt' < MaxRetries THEN "dial" ELSE "gave up"
         /\ UNCHANGED <<conn, up>>
    BY Zenon DEF Dial
<1>5. loop[attempt'] = "none"
    BY <1>2, <1>3 DEF Control, Started
<1>6. (conn' = conn \/ conn' = attempt') /\ (at' = "dial" => attempt' < MaxRetries)
    BY <1>4
<1>7. attempt' > 0 /\ conn' \in Nat /\ conn <= conn' /\ conn' <= attempt'
    BY <1>1, <1>2, <1>6
<1>8. Phases'
    <2>1. \A c \in Conns : asked[c] = {}
        BY <1>1 DEF Control, Phases
    <2>2. /\ at' \in {"hello", "dial", "gave up"} /\ (at' = "hello" => conn' = attempt')
          /\ loop'[attempt'] = "none"
        BY <1>1, <1>4, <1>5
    <2> QED
        BY <1>1, <1>6, <1>7, <2>1, <2>2 DEF Phases, Connected
<1>9. ASSUME NEW c \in Conns PROVE Started(c)'
    <2>1. c \in Nat /\ Started(c)
        BY AttemptIsConn DEF Control
    <2>2. loop[c] \notin {"none", "read"} => reading[c] \in 1..attempt /\ reading[c] \in Conns /\ reading[c] # attempt'
        BY <1>1, <1>2, <2>1 DEF Started, Conns
    <2>3. (loop[c] \notin {"none", "read"} => reading[c] \in 1..attempt') /\ (c > conn' => c > conn)
        <3>1. \A r \in 1..attempt : r \in 1..attempt'
            BY <1>1, <1>2
        <3>2. c > conn' => c > conn
            BY <1>2, <1>7, <2>1
        <3> QED
            BY <2>2, <3>1, <3>2
    <2>4. loop[c] = "done" => ~up'[reading[c]]
        BY <1>2, <1>4, <2>1, <2>2 DEF Started
    <2> QED
        BY <1>1, <2>1, <2>3, <2>4 DEF Started
<1>10. Newest' /\ Pushed'
    BY <1>1, <1>5 DEF Newest, Control, Pushed
<1> QED
    BY <1>8, <1>9, <1>10 DEF Control

LEMMA HelloControl == ASSUME TypeOK, Control, Hello PROVE Control'
<1>1. /\ at = "hello" /\ attempt > 0 /\ conn = attempt /\ attempt \in Conns /\ attempt \in Nat
      /\ loop \in [Conns -> LoopAt] /\ netState = "Inited" /\ loop[attempt] = "none"
      /\ UNCHANGED <<attempt, conn, netState, reqId, frame, reading, chunk, up, wire, greeted, asked>>
    BY Scalars, AttemptIsConn DEF Hello, Control, Phases, Connected, server
<1>2. \/ at' = "shake" /\ loop' = [loop EXCEPT ![attempt] = "read"]
      \/ at' = (IF attempt < MaxRetries THEN "dial" ELSE "gave up") /\ UNCHANGED loop
    BY Zenon DEF Hello, Retry
<1>3. loop'[attempt] = "read" \/ (UNCHANGED loop /\ at' # "shake")
    BY <1>1, <1>2
<1>4. \A c \in Conns : loop'[c] = loop[c] \/ (c = attempt /\ loop'[c] = "read")
    BY <1>1, <1>2
<1>5. Phases'
    BY <1>1, <1>2, <1>3 DEF Control, Phases, Connected
<1>6. ASSUME NEW c \in Conns PROVE Started(c)'
    BY <1>1, <1>4, AttemptIsConn DEF Control, Started
<1>7. Newest'
    BY <1>1, <1>3 DEF Control, Newest
<1>8. Pushed'
    BY <1>1, <1>4 DEF Control, Pushed
<1> QED
    BY <1>5, <1>6, <1>7, <1>8 DEF Control

LEMMA RobotControl ==
    ASSUME TypeOK, Control, RobotNext, ~Dial, ~Hello
    PROVE  /\ Control' /\ UNCHANGED <<attempt, conn, reader, up, wire, greeted>>
           /\ at \in {"shake", "agree"} \/ (Connected /\ Connected')
<1>1. UNCHANGED <<attempt, conn, reader, up, wire, greeted>>
    BY Zenon DEF RobotNext, TakeHandshake, TakeError, HandshakeTimeout, SendAck, SendRequest, Register,
        ReturnAnswer, ReturnError, RequestTimeout, Return, shared, server
<1>2. /\ attempt > 0 /\ conn = attempt /\ attempt \in Conns /\ loop[attempt] # "none"
      /\ at \in {"shake", "agree"} \/ Connected
    <2>1. at \in {"shake", "agree", "ready", "register", "wait"}
        BY DEF RobotNext, TakeHandshake, TakeError, HandshakeTimeout, SendAck, SendRequest, MayAsk, Register,
            ReturnAnswer, ReturnError, RequestTimeout, Return
    <2> QED
        BY <2>1, AttemptIsConn DEF Control, Phases, Connected
<1>3. asked' = asked \/ (at = "ready" /\ \E Q : asked' = [asked EXCEPT ![conn] = Q])
    BY Zenon DEF RobotNext, TakeHandshake, TakeError, HandshakeTimeout, SendAck, SendRequest, MayAsk, Register,
        ReturnAnswer, ReturnError, RequestTimeout, Return, shared, server
<1>4. at = "ready" => netState = "Working"
    BY DEF Control, Phases, Connected
<1>5. /\ netState' = "Working" <=> Connected'
      /\ netState' = "Inited" => netState = "Inited"
      /\ at' = "dial" => attempt < MaxRetries
      /\ at' # "hello"
      /\ at' \in {"register", "wait"} => reqId' > 0
      /\ Connected => Connected'
    <2>1. netState \in {"Inited", "Working"} /\ reqId \in Nat
        BY Scalars
    <2>2. CASE TakeHandshake \/ TakeError \/ HandshakeTimeout \/ SendAck
        BY <2>1, <2>2 DEF TakeHandshake, TakeError, HandshakeTimeout, SendAck, Retry, Connected, Control, Phases
    <2>3. CASE SendRequest
        BY <2>1, <2>3 DEF SendRequest, MayAsk, Connected, Control, Phases
    <2>4. CASE Register \/ ReturnAnswer \/ ReturnError \/ RequestTimeout
        BY <2>1, <2>4 DEF Register, ReturnAnswer, ReturnError, RequestTimeout, Return, Connected, Control, Phases
    <2> QED
        BY <2>2, <2>3, <2>4 DEF RobotNext
<1>6. Phases'
    <2>1. netState' = "Inited" => \A c \in Conns : asked'[c] = {}
        BY <1>3, <1>4, <1>5 DEF Control, Phases
    <2> QED
        BY <1>1, <1>2, <1>5, <2>1 DEF Control, Phases, reader
<1>7. ASSUME NEW c \in Conns PROVE Started(c)'
    <2>1. loop[c] = "none" => asked'[c] = asked[c]
        BY <1>2, <1>3, Scalars
    <2> QED
        BY <1>1, <2>1 DEF Control, Started, reader
<1>8. Newest' /\ Pushed'
    BY <1>1 DEF Newest, Control, Pushed, reader
<1> QED
    BY <1>1, <1>2, <1>5, <1>6, <1>7, <1>8 DEF Control

\* A step of a read loop, apart from what it reads.
LEMMA LoopMoves ==
    ASSUME TypeOK, NEW l \in Conns, LoopNext(l)
    PROVE  /\ UNCHANGED robot /\ UNCHANGED <<up, greeted, asked>>
           /\ loop[l] # "none" /\ loop'[l] # "none"
           /\ \A k \in Conns \ {l} : loop'[k] = loop[k] /\ reading'[k] = reading[k]
           /\ loop[l] = "push" => frame' = Between /\ loop'[l] = "parse"
           /\ frame'.at = "full" => frame.at = "full" \/ loop'[l] = "push"
           /\ CallRead(l) \/ reading' = reading
           /\ Receive(l) \/ wire' = wire
           /\ loop'[l] = "done" => ~up[reading'[l]]
           /\ loop'[l] \notin {"parse", "push"} =>
                 chunk'[l] = chunk[l] /\ (chunk[l] = <<>> \/ loop[l] \notin {"parse", "push"})
<1>1. UNCHANGED robot /\ UNCHANGED <<up, greeted, asked>> /\ (Receive(l) \/ wire' = wire)
    BY Zenon DEF LoopNext, CallRead, Receive, ReadFails, ReadHead, LoseStep, ReadResponse, ReadBody, PushResponse,
        Ignore, ReadAnswer, NextRead, server
<1>2. loop \in [Conns -> LoopAt] /\ reading \in [Conns -> 0..MaxRetries]
    BY Scalars
<1>3. loop[l] # "none"
    BY DEF LoopNext, CallRead, Receive, ReadFails, ReadHead, LoseStep, ReadResponse, ReadBody, PushResponse,
        Ignore, ReadAnswer, NextRead
<1>4. /\ reading' = reading \/ (CallRead(l) /\ reading' = [reading EXCEPT ![l] = conn])
      /\ loop' = loop \/ \E x \in LoopAt \ {"none", "done"} : loop' = [loop EXCEPT ![l] = x]
         \/ (ReadFails(l) /\ loop' = [loop EXCEPT ![l] = "done"])
    BY DEF LoopNext, CallRead, Receive, ReadFails, ReadHead, LoseStep, ReadResponse, ReadBody, PushResponse,
        Ignore, ReadAnswer, NextRead, LoopAt
<1>5. loop[l] = "push" => frame' = Between /\ loop'[l] = "parse"
    BY <1>2 DEF LoopNext, CallRead, Receive, ReadFails, ReadHead, LoseStep, ReadResponse, ReadBody, PushResponse,
        Ignore, ReadAnswer, NextRead
<1>6. frame'.at = "full" => frame.at = "full" \/ loop'[l] = "push"
    BY <1>2 DEF LoopNext, CallRead, Receive, ReadFails, ReadHead, LoseStep, ReadResponse, ReadBody, PushResponse,
        Ignore, ReadAnswer, NextRead, Between, Lost
<1>7. loop'[l] = "done" => ~up[reading'[l]]
    <2>1. loop[l] # "done"
        BY DEF LoopNext, CallRead, Receive, ReadFails, ReadHead, LoseStep, ReadResponse, ReadBody, PushResponse,
            Ignore, ReadAnswer, NextRead
    <2>2. ReadFails(l) => ~up[reading[l]] /\ reading' = reading
        BY DEF ReadFails
    <2> QED
        BY <1>2, <1>4, <2>1, <2>2
<1>8. loop'[l] # "none" /\ \A k \in Conns \ {l} : loop'[k] = loop[k] /\ reading'[k] = reading[k]
    BY <1>2, <1>3, <1>4
<1>9. loop'[l] \notin {"parse", "push"} =>
         chunk'[l] = chunk[l] /\ (chunk[l] = <<>> \/ loop[l] \notin {"parse", "push"})
    BY <1>2 DEF LoopNext, CallRead, Receive, ReadFails, ReadHead, LoseStep, ReadResponse, ReadBody, PushResponse,
        Ignore, ReadAnswer, NextRead
<1> QED
    BY <1>1, <1>3, <1>4, <1>5, <1>6, <1>7, <1>8, <1>9

\* Only the chunk of the loop itself changes.
LEMMA OwnChunk ==
    ASSUME TypeOK, NEW l \in Conns, LoopNext(l)
    PROVE  \A k \in Conns \ {l} : chunk'[k] = chunk[k]
<1>1. chunk \in [Conns -> Seq(Pieces)]
    BY DEF TypeOK
<1>2. chunk' = chunk \/ \E s : chunk' = [chunk EXCEPT ![l] = s]
    BY Zenon DEF LoopNext, CallRead, Receive, ReadFails, ReadHead, LoseStep, ReadResponse, ReadBody, Complete, Consume,
        PushResponse, Ignore, ReadAnswer, NextRead
<1> QED
    BY <1>1, <1>2

LEMMA LoopControl == ASSUME TypeOK, Control, NEW l \in Conns, LoopNext(l) PROVE Control'
<1>1. /\ UNCHANGED <<at, attempt, conn, netState, reqId>> /\ UNCHANGED <<up, greeted, asked>>
      /\ loop[l] # "none" /\ loop'[l] # "none"
      /\ \A k \in Conns \ {l} : loop'[k] = loop[k] /\ reading'[k] = reading[k]
      /\ loop[l] = "push" => frame' = Between /\ loop'[l] = "parse"
      /\ frame'.at = "full" => frame.at = "full" \/ loop'[l] = "push"
      /\ CallRead(l) \/ reading' = reading
      /\ Receive(l) \/ wire' = wire
      /\ loop'[l] = "done" => ~up[reading'[l]]
      /\ loop'[l] \notin {"parse", "push"} =>
            chunk'[l] = chunk[l] /\ (chunk[l] = <<>> \/ loop[l] \notin {"parse", "push"})
    BY LoopMoves DEF robot
<1>2. loop \in [Conns -> LoopAt] /\ reading \in [Conns -> 0..MaxRetries]
    BY Scalars
<1>3. /\ attempt \in Nat /\ conn \in Nat /\ conn <= attempt /\ conn > 0 /\ conn \in Conns
    <2>1. attempt \in Nat /\ conn \in Nat /\ conn <= attempt /\ l > 0 /\ l \in Nat
        BY AttemptIsConn DEF Control, Phases
    <2>2. ~(l > conn)
        BY <1>1 DEF Control, Started
    <2> QED
        BY <2>1, <2>2, AttemptIsConn
<1>4. CallRead(l) => loop[l] = "read" /\ loop'[l] = "await" /\ reading'[l] = conn
    BY <1>2 DEF CallRead
<1>5. Phases'
    <2>1. attempt \in Conns
        BY <1>3, AttemptIsConn
    <2>2. loop'[attempt] = "none" <=> loop[attempt] = "none"
        BY <1>1, <2>1
    <2> QED
        BY <1>1, <2>2 DEF Control, Phases, Connected
<1>6. ASSUME NEW c \in Conns PROVE Started(c)'
    <2>1. (c > conn => loop[c] = "none") /\ (loop'[c] = "none" <=> loop[c] = "none")
        BY <1>1 DEF Control, Started
    <2>2. loop[c] = "none" => wire'[c] = <<>>
        <3>1. loop[c] = "none" => wire[c] = <<>> /\ Len(wire[c]) = 0
            BY DEF Control, Started
        <3>2. CASE Receive(l) /\ loop[c] = "none"
            <4>1. Started(l)
                BY DEF Control
            <4>2. PICK n \in 1..Len(wire[reading[l]]) : TRUE
                BY <3>2, Received, <4>1
            <4>3. c # reading[l]
                BY <3>1, <3>2, <4>2
            <4> QED
                BY <3>1, <3>2, <4>1, <4>3, Received
        <3> QED
            BY <1>1, <3>1, <3>2
    <2>3. loop[c] = "none" => c \notin greeted /\ asked[c] = {}
        BY <1>1 DEF Control, Started
    <2>4. loop'[c] \notin {"parse", "push"} => chunk'[c] = <<>>
        BY <1>1, OwnChunk DEF Control, Started
    <2>5. loop'[c] \notin {"none", "read"} => reading'[c] \in 1..attempt
        <3>1. loop[c] \notin {"none", "read"} => reading[c] \in 1..attempt
            BY DEF Control, Started
        <3>2. CASE CallRead(l) /\ c = l
            BY <1>3, <1>4, <3>2
        <3>3. CASE ~CallRead(l) /\ c = l
            <4>1. loop[l] = "read" => CallRead(l)
                BY DEF LoopNext, CallRead, Receive, ReadFails, ReadHead, LoseStep, ReadResponse, ReadBody, PushResponse,
                    Ignore, ReadAnswer, NextRead
            <4> QED
                BY <1>1, <3>1, <3>3, <4>1
        <3> QED
            BY <1>1, <3>1, <3>2, <3>3
    <2>6. loop'[c] = "done" => ~up[reading'[c]]
        BY <1>1 DEF Control, Started
    <2> QED
        BY <1>1, <2>1, <2>2, <2>3, <2>4, <2>5, <2>6 DEF Started
<1>7. Newest'
    <2>1. attempt > 0 => attempt \in Conns
        BY AttemptIsConn
    <2>2. loop[l] = "read" => CallRead(l)
        BY DEF LoopNext, CallRead, Receive, ReadFails, ReadHead, LoseStep, ReadResponse, ReadBody, PushResponse,
            Ignore, ReadAnswer, NextRead
    <2> QED
        BY <1>1, <1>4, <2>1, <2>2 DEF Control, Newest
<1>8. Pushed'
    BY <1>1 DEF Control, Pushed, Between
<1> QED
    BY <1>5, <1>6, <1>7, <1>8 DEF Control

LEMMA ServerControl ==
    ASSUME TypeOK, Control, NEW c \in Conns, Greet(c) \/ Answer(c) \/ HangUp(c)
    PROVE  Control' /\ UNCHANGED <<robot, shared, reader>>
<1>1. UNCHANGED <<robot, shared, reader>>
    BY Zenon DEF Greet, Answer, HangUp
<1>2. \A k \in Conns : loop[k] = "none" => k \notin greeted' /\ wire'[k] = wire[k] /\ asked'[k] = asked[k]
    <2>1. CASE Greet(c)
        <3>1. PICK r \in Responses : Send(c, r)
            BY <2>1 DEF Greet
        <3> QED
            BY <2>1, <3>1, Sent DEF Greet, Control, Started, Packages
    <2>2. CASE Answer(c)
        <3>1. PICK q \in asked[c] : asked' = [asked EXCEPT ![c] = @ \ {q}] /\ Send(c, [type |-> "answer", id |-> q])
            BY <2>2 DEF Answer
        <3>2. [type |-> "answer", id |-> q] \in Packages /\ asked \in [Conns -> SUBSET Requests]
            BY <3>1 DEF TypeOK, Packages, Answers
        <3>3. loop[c] # "none"
            BY <3>1 DEF Control, Started
        <3> QED
            BY <2>2, <3>1, <3>2, <3>3, Sent DEF Answer, Control, Started
    <2>3. CASE HangUp(c)
        BY <2>3 DEF HangUp, Control, Started
    <2> QED
        BY <2>1, <2>2, <2>3
<1>3. \A k \in Conns : (~up[k] => ~up'[k]) /\ asked'[k] \subseteq asked[k]
    BY Scalars DEF Greet, Answer, HangUp
<1>4. Phases'
    BY <1>1, <1>3 DEF Control, Phases, Connected, robot, reader
<1>5. ASSUME NEW k \in Conns PROVE Started(k)'
    <2>1. Started(k) /\ (loop[k] = "done" => reading[k] \in Conns)
        BY Scalars, AttemptIsConn DEF Control, Started, Conns
    <2> QED
        BY <1>1, <1>2, <1>3, <2>1 DEF Started, robot, reader
<1>6. Newest' /\ Pushed'
    BY <1>1 DEF Newest, Control, Pushed, robot, reader
<1> QED
    BY <1>1, <1>4, <1>5, <1>6 DEF Control

LEMMA RobotOwners == ASSUME TypeOK, Phases, Owners, CallbacksHaveOwners, RobotNext PROVE Owners' /\ CallbacksHaveOwners'
<1>1. /\ reqId \in 0..MaxRequests /\ MaxRequests \in Nat /\ callbacks \subseteq 1..reqId /\ delivered \subseteq 1..reqId
      /\ outcome \in [Requests -> {"none", "answer", "error", "timeout"}]
    BY Scalars DEF Owners, TypeOK
<1>2. CASE Dial \/ Hello \/ TakeHandshake \/ TakeError \/ HandshakeTimeout \/ SendAck
    <2>1. UNCHANGED <<reqId, callbacks, delivered, outcome>> /\ at # "wait" /\ at' # "register"
        BY <1>2 DEF Dial, Hello, TakeHandshake, TakeError, HandshakeTimeout, SendAck, Retry, shared
    <2> QED
        BY <2>1 DEF Owners, CallbacksHaveOwners
<1>3. CASE SendRequest
    <2>1. /\ reqId' = reqId + 1 /\ UNCHANGED <<callbacks, delivered>> /\ at = "ready"
          /\ UNCHANGED outcome \/ outcome' = [outcome EXCEPT ![reqId'] = "error"]
        BY <1>3 DEF SendRequest, MayAsk, shared
    <2>2. \A q \in 1..reqId : q \in 1..reqId' /\ q # reqId'
        BY <1>1, <2>1
    <2>3. Owners'
        BY <1>1, <2>1, <2>2 DEF Owners
    <2>4. \A q \in callbacks : q \in Requests /\ q # reqId' /\ outcome[q] = "error"
        BY <1>1, <2>1, <2>2, Scalars DEF CallbacksHaveOwners
    <2>5. \A q \in callbacks : outcome'[q] = "error"
        BY <1>1, <2>1, <2>4
    <2> QED
        BY <2>1, <2>3, <2>5 DEF CallbacksHaveOwners
<1>4. CASE Register
    <2>1. /\ at = "register" /\ at' = "wait" /\ callbacks' = callbacks \cup {reqId}
          /\ UNCHANGED <<reqId, delivered, outcome>>
        BY <1>4 DEF Register
    <2>2. reqId \in 1..reqId
        BY <1>1, <2>1 DEF Phases
    <2> QED
        BY <1>1, <2>1, <2>2 DEF Owners, CallbacksHaveOwners
<1>5. ASSUME NEW how, Return(how), callbacks' \subseteq callbacks, reqId \notin callbacks' \/ how = "error"
      PROVE  Owners' /\ CallbacksHaveOwners'
    <2>1. /\ at = "wait" /\ at' = "ready" /\ outcome' = [outcome EXCEPT ![reqId] = how]
          /\ UNCHANGED <<reqId, delivered>>
        BY <1>5 DEF Return
    <2>2. reqId \in Requests
        BY <1>1, <2>1 DEF Phases, Requests
    <2> QED
        BY <1>1, <1>5, <2>1, <2>2 DEF Owners, CallbacksHaveOwners
<1>6. CASE ReturnAnswer \/ ReturnError \/ RequestTimeout
    BY <1>5, <1>6 DEF ReturnAnswer, ReturnError, RequestTimeout, Owners
<1> QED
    BY <1>2, <1>3, <1>4, <1>6 DEF RobotNext

LEMMA LoopOwners ==
    ASSUME Owners, CallbacksHaveOwners, NEW l \in Conns, LoopNext(l)
    PROVE  Owners' /\ CallbacksHaveOwners'
<1>1. UNCHANGED <<at, reqId, outcome>>
    BY Zenon DEF LoopNext, CallRead, Receive, ReadFails, ReadHead, LoseStep, ReadResponse, ReadBody, PushResponse,
        Ignore, ReadAnswer, NextRead, robot
<1>2. callbacks' \subseteq callbacks /\ delivered' \subseteq delivered \cup (callbacks \ callbacks')
    BY DEF LoopNext, CallRead, Receive, ReadFails, ReadHead, LoseStep, ReadResponse, PushResponse,
        Ignore, ReadAnswer, NextRead, shared
<1> QED
    BY <1>1, <1>2 DEF Owners, CallbacksHaveOwners

-----------------------------------------------------------------------------
(* Handshake responses of the first two attempts                           *)

\* Responses that a loop waits to hand over, that wait in the channel, and that
\* the robot has acted upon.
Held(l) == IF loop[l] = "push" THEN 1 ELSE 0
Queued == Len(handshakeChan)
Taken == IF at = "agree" \/ Connected THEN 1 ELSE 0

\* Pieces of responses on the way over a connection, and those that a loop has
\* read.
Owed(c) == IF c \in greeted THEN 0 ELSE 2
Left(c) == Len(wire[c]) + Owed(c)
Chunk(l) == Len(chunk[l])

\* How many responses p pieces can still make, f being the framing state and s
\* netState: one needs a head, unless that is in the framing state already, and a
\* piece to look at.
Hope(p, both, f, s) ==
    IF s = "Working" THEN 0
    ELSE IF f = "body" \/ (f = "full" /\ ~both) THEN p
    ELSE IF p > 0 THEN p - 1 ELSE 0

LEMMA CountTypes ==
    ASSUME TypeOK
    PROVE  /\ \A c \in Conns : Left(c) \in Nat /\ Chunk(c) \in Nat /\ Held(c) \in {0, 1}
           /\ Queued \in Nat /\ Taken \in {0, 1} /\ frame.at \in {"head", "body", "full", "lost"}
           /\ (frame = Between <=> frame.at = "head")
<1>1. \A c \in Conns : Len(wire[c]) \in Nat /\ Chunk(c) \in Nat
    BY LenProperties DEF TypeOK, Chunk
<1>2. ASSUME NEW c \in Conns PROVE Left(c) \in Nat /\ Held(c) \in {0, 1}
    <2>1. Len(wire[c]) \in Nat /\ Owed(c) \in Nat
        BY <1>1 DEF Owed
    <2>2. \A m, n \in Nat : m + n \in Nat
        OBVIOUS
    <2>3. Left(c) \in Nat
        BY <2>1, <2>2, Zenon DEF Left
    <2> QED
        BY <2>3 DEF Held
<1>3. Queued \in Nat /\ Taken \in {0, 1}
    BY LenProperties DEF TypeOK, Queued, Taken
<1>4. frame.at \in {"head", "body", "full", "lost"} /\ (frame = Between <=> frame.at = "head")
    BY Scalars, FrameCases DEF Between
<1> QED
    BY <1>1, <1>2, <1>3, <1>4

\* What a step of a read loop does to the responses held (h) and queued (q), the
\* pieces in its chunk (n) and the framing state (f).
Effect(h, h1, q, q1, n, n1, f, f1, s) ==
    \/ h1 = h /\ q1 = q /\ n1 = n /\ f1 = f
    \/ h1 = h /\ q1 = q /\ n1 = n - 1 /\ n > 0 /\ f = "head" /\ f1 = "body"
    \/ h1 = h /\ q1 = q /\ n1 = n - 1 /\ n > 0 /\ f # "full" /\ f1 = "lost"
    \/ h1 = h /\ q1 = q /\ n1 = n - 1 /\ n > 0 /\ f = "body" /\ f1 = "head"
    \/ h1 = h /\ q1 = q /\ n1 = n /\ f = "full" /\ f1 = "head"
    \/ h = 0 /\ h1 = 1 /\ q1 = q /\ n1 = n - 1 /\ n > 0 /\ f = "body" /\ f1 = "full" /\ s = "Inited"
    \/ h = 0 /\ h1 = 1 /\ q1 = q /\ n1 = n /\ n > 0 /\ f = "full" /\ f1 = "full" /\ s = "Inited"
    \/ h = 1 /\ h1 = 0 /\ q = 0 /\ q1 = 1 /\ n1 = n /\ f1 = "head"

LoopEffect(l) ==
    Effect(Held(l), Held(l)', Queued, Queued', Chunk(l), Chunk(l)', frame.at, frame'.at, netState)

LEMMA LoopCounts ==
    ASSUME TypeOK, NEW l \in Conns, LoopNext(l)
    PROVE  /\ Receive(l) \/ (LoopEffect(l) /\ \A c \in Conns : Left(c)' = Left(c))
           /\ Receive(l) => UNCHANGED <<handshakeChan, frame>> /\ Held(l)' = Held(l) /\ Queued' = Queued
           /\ \A k \in Conns \ {l} : Held(k)' = Held(k) /\ Chunk(k)' = Chunk(k)
<1>1. /\ loop \in [Conns -> LoopAt] /\ (frame = Between <=> frame.at = "head")
    BY CountTypes, Scalars
<1>2. \A k \in Conns \ {l} : Held(k)' = Held(k) /\ Chunk(k)' = Chunk(k)
    BY LoopMoves, OwnChunk DEF Held, Chunk
<1>3. Receive(l) \/ \A c \in Conns : Left(c)' = Left(c)
    BY LoopMoves DEF Left, Owed
<1>4. chunk[l] # <<>> => Chunk(l) > 0
    BY EmptySeq, LenProperties DEF Chunk, TypeOK
<1>5. Consume(l) /\ chunk[l] # <<>> => Chunk(l)' = Chunk(l) - 1
    BY Consumed DEF Chunk
<1>6. CASE CallRead(l) \/ ReadFails(l) \/ NextRead(l)
    <2>1. UNCHANGED <<handshakeChan, frame, chunk>>
        BY <1>6, Zenon DEF CallRead, ReadFails, NextRead, shared
    <2>2. Held(l)' = Held(l)
        BY <1>1, <1>6 DEF CallRead, ReadFails, NextRead, Held
    <2>3. ~Receive(l)
        BY <1>6, <1>1 DEF Receive, CallRead, ReadFails, NextRead
    <2> QED
        BY <1>2, <1>3, <2>1, <2>2, <2>3 DEF LoopEffect, Effect, Queued, Chunk
<1>7. CASE Receive(l)
    <2>1. UNCHANGED <<handshakeChan, frame>>
        BY <1>7, Zenon DEF Receive, shared
    <2>2. Held(l)' = Held(l)
        BY <1>1, <1>7 DEF Receive, Held
    <2> QED
        BY <1>2, <1>7, <2>1, <2>2 DEF Queued
<1>8. CASE ReadHead(l) /\ ~Receive(l)
    <2>1. UNCHANGED <<handshakeChan, loop>> /\ frame = Between /\ frame'.at = "body" /\ chunk[l] # <<>> /\ Consume(l)
        BY <1>8 DEF ReadHead, shared
    <2>2. Held(l)' = Held(l) /\ Queued' = Queued /\ frame.at = "head"
        BY <1>1, <2>1 DEF Held, Queued
    <2> QED
        BY <1>2, <1>3, <1>4, <1>5, <1>8, <2>1, <2>2 DEF LoopEffect, Effect
<1>9. CASE LoseStep(l) /\ ~Receive(l)
    <2>1. UNCHANGED <<handshakeChan, loop>> /\ frame'.at = "lost" /\ chunk[l] # <<>> /\ Consume(l)
        BY <1>9 DEF LoseStep, shared, Lost
    <2>2. frame.at # "full"
        BY <1>9 DEF LoseStep, OutOfStep, Lost, Between
    <2>3. Held(l)' = Held(l) /\ Queued' = Queued
        BY <2>1 DEF Held, Queued
    <2> QED
        BY <1>2, <1>3, <1>4, <1>5, <1>9, <2>1, <2>2, <2>3 DEF LoopEffect, Effect
<1>10. ASSUME ReadBody(l)
       PROVE  /\ loop[l] = "parse" /\ Chunk(l) > 0 /\ Queued' = Queued
              /\ \/ Chunk(l)' = Chunk(l) - 1 /\ frame.at = "body"
                 \/ Chunk(l)' = Chunk(l) /\ frame.at = "full"
    <2>1. loop[l] = "parse" /\ chunk[l] # <<>> /\ handshakeChan' = handshakeChan /\ Complete(l)
        BY <1>10 DEF ReadBody
    <2> QED
        BY <1>4, <1>5, <2>1 DEF Complete, Chunk, Queued
<1>11. CASE ReadResponse(l) /\ ~Receive(l)
    <2>1. ReadBody(l) /\ netState = "Inited" /\ frame' = [frame EXCEPT !.at = "full"] /\ loop' = [loop EXCEPT ![l] = "push"]
        BY <1>11 DEF ReadResponse
    <2>2. frame'.at = "full"
        <3>1. frame \in [at : {"body", "full"}, pkg : Packages]
            BY <1>10, <2>1, Scalars, FrameCases
        <3> QED
            BY <2>1, <3>1
    <2>3. Held(l) = 0 /\ Held(l)' = 1
        BY <1>1, <1>10, <2>1 DEF Held
    <2> QED
        BY <1>2, <1>3, <1>10, <1>11, <2>1, <2>2, <2>3 DEF LoopEffect, Effect
<1>12. CASE PushResponse(l) /\ ~Receive(l)
    <2>1. /\ loop[l] = "push" /\ Len(handshakeChan) < 1 /\ handshakeChan' = Append(handshakeChan, resp[l])
          /\ frame' = Between /\ loop' = [loop EXCEPT ![l] = "parse"] /\ chunk' = chunk
        BY <1>12 DEF PushResponse
    <2>2. Queued = 0 /\ Queued' = 1
        <3>1. handshakeChan \in Seq(BOOLEAN) /\ resp[l] \in BOOLEAN
            BY DEF TypeOK
        <3>2. Len(handshakeChan') = Len(handshakeChan) + 1 /\ Len(handshakeChan) \in Nat
            BY <2>1, <3>1, AppendProperties, LenProperties
        <3> QED
            BY <2>1, <3>2 DEF Queued
    <2>3. Held(l) = 1 /\ Held(l)' = 0
        BY <1>1, <2>1 DEF Held
    <2>4. Chunk(l)' = Chunk(l) /\ frame'.at = "head"
        BY <2>1 DEF Chunk, Between
    <2> QED
        BY <1>2, <1>3, <1>12, <2>2, <2>3, <2>4 DEF LoopEffect, Effect
<1>13. CASE (Ignore(l) \/ ReadAnswer(l)) /\ ~Receive(l)
    <2>1. ReadBody(l) /\ frame' = Between /\ loop' = loop
        BY <1>13 DEF Ignore, ReadAnswer
    <2>2. frame'.at = "head" /\ Held(l)' = Held(l)
        BY <2>1 DEF Between, Held
    <2> QED
        BY <1>2, <1>3, <1>10, <1>13, <2>1, <2>2 DEF LoopEffect, Effect
<1> QED
    BY <1>6, <1>7, <1>8, <1>9, <1>11, <1>12, <1>13 DEF LoopNext

\* During the first attempt at most one response is on its way: as pieces that
\* nobody has taken for anything yet, or as one that is pushed, queued or taken.
OneAt(t, q, h, p, f, s) ==
    /\ t + q + h <= 1
    /\ s = "Inited" =>
          /\ p <= 2
          /\ p = 2 => f = "head"
          /\ p = 1 => f \in {"body", "lost"}
          /\ p > 0 => t + q + h = 0
          /\ p = 0 => f # "body"

One == attempt <= 1 => OneAt(Taken, Queued, Held(1), Left(1) + Chunk(1), frame.at, netState)

\* During the second, two loops and their four pieces make three at most: one
\* that is taken, one that is queued and one that is pushed.
TwoAt(t, q, h, g, p, f, s) == t + q + h + g + Hope(p, h + g = 2, f, s) <= 3

Two ==
    attempt = 2 /\ conn = 2 =>
        TwoAt(Taken, Queued, Held(1), Held(2), Left(1) + Left(2) + (Chunk(1) + Chunk(2)), frame.at, netState)

\* The first loop takes no part any more.
Passive == loop[1] = "none" \/ (loop[1] \in {"await", "done"} /\ reading[1] # 2)

\* Then the second makes two at most.
AloneAt(t, q, h, p, f, s) == t + q + h + Hope(p, FALSE, f, s) <= 2

Alone ==
    attempt = 2 /\ conn = 2 /\ Passive =>
        AloneAt(Taken, Queued, Held(2), Left(2) + Chunk(2), frame.at, netState)

Counts == One /\ Two /\ Alone

LEMMA OneOrTwo ==
    ASSUME TypeOK, Control, NEW l \in Conns, loop[l] # "none"
    PROVE  l \in Nat /\ l >= 1 /\ l <= conn /\ conn <= attempt /\ attempt \in Nat /\ conn \in Nat /\ l <= attempt
<1>1. l \in Nat /\ l > 0 /\ conn \in Nat /\ attempt \in Nat /\ conn <= attempt
    BY AttemptIsConn DEF Control, Phases
<1>2. ~(l > conn)
    BY DEF Control, Started
<1> QED
    BY <1>1, <1>2

LEMMA ReceiveCounts ==
    ASSUME TypeOK, Control, NEW l \in Conns, Receive(l), NEW c \in Conns, c = reading[l]
    PROVE  /\ c \in 1..attempt /\ Left(c)' \in Nat /\ Chunk(l)' \in Nat
           /\ Left(c)' + Chunk(l)' = Left(c) + Chunk(l)
           /\ \A k \in Conns \ {c} : Left(k)' = Left(k)
<1>1. /\ c \in 1..attempt
      /\ \A k \in Conns \ {c} : wire'[k] = wire[k]
      /\ \E n \in 1..Len(wire[c]) : Len(chunk'[l]) = n /\ Len(wire'[c]) = Len(wire[c]) - n
    BY Received DEF Control
<1>2. Chunk(l) = 0
    BY DEF Control, Started, Receive, Chunk
<1>3. Len(wire[c]) \in Nat /\ Len(wire'[c]) \in Nat /\ Chunk(l)' \in Nat /\ Len(wire'[c]) + Chunk(l)' = Len(wire[c])
    <2>1. Len(wire[c]) \in Nat
        BY <1>1, LenProperties DEF TypeOK
    <2> DEFINE w == Len(wire[c])
    <2> HIDE DEF w
    <2>2. PICK n \in 1..w : Len(chunk'[l]) = n /\ Len(wire'[c]) = w - n
        BY <1>1 DEF w
    <2>3. w - n \in Nat /\ n \in Nat /\ w - n + n = w
        BY <2>1, <2>2 DEF w
    <2> QED
        BY <2>1, <2>2, <2>3 DEF Chunk, w
<1>4. greeted' = greeted
    BY DEF Receive
<1>5. \A m, n, k \in Nat : m + n \in Nat /\ (m + k) + n = (m + n) + k /\ m + 0 = m
    OBVIOUS
<1>6. Left(c)' \in Nat /\ Left(c)' + Chunk(l)' = Left(c) + Chunk(l)
    <2>1. Owed(c) \in Nat /\ Owed(c)' = Owed(c)
        BY <1>4 DEF Owed
    <2>2. Left(c)' = Len(wire'[c]) + Owed(c)
        BY <2>1, Zenon DEF Left
    <2>3. Left(c) \in Nat /\ Left(c)' \in Nat
        BY <1>3, <1>5, <2>1, <2>2, Zenon DEF Left
    <2>4. Left(c)' + Chunk(l)' = (Len(wire'[c]) + Chunk(l)') + Owed(c)
        <3> DEFINE m == Len(wire'[c]) n == Chunk(l)' k == Owed(c)
        <3>1. m \in Nat /\ n \in Nat /\ k \in Nat /\ Left(c)' = m + k
            BY <1>3, <2>1, <2>2
        <3>2. (m + k) + n = (m + n) + k
            <4> HIDE DEF m, n, k
            <4> QED
                BY <3>1
        <3> QED
            BY <3>1, <3>2, Zenon
    <2>5. Left(c)' + Chunk(l)' = Left(c)
        BY <1>3, <2>4, Zenon DEF Left
    <2> QED
        BY <1>2, <1>5, <2>3, <2>5, Zenon
<1>7. \A k \in Conns \ {c} : Left(k)' = Left(k)
    BY <1>1, <1>4 DEF Left, Owed
<1> QED
    BY <1>1, <1>3, <1>6, <1>7

LEMMA RobotCounts ==
    ASSUME TypeOK, Control, RobotNext, ~Dial
    PROVE  /\ Taken' + Queued' <= Taken + Queued /\ Taken' \in {0, 1} /\ Queued' \in Nat
           /\ netState' = "Inited" => netState = "Inited"
           /\ UNCHANGED <<attempt, conn, frame>>
           /\ \A c \in Conns : Left(c)' = Left(c) /\ Chunk(c)' = Chunk(c) /\ Held(c)' = Held(c)
           /\ \A c \in Conns : c # attempt => loop'[c] = loop[c] /\ reading'[c] = reading[c]
<1>1. Taken \in {0, 1} /\ Queued \in Nat
    BY CountTypes
<1>2. CASE Hello
    <2>1. /\ UNCHANGED <<attempt, conn, netState, frame, reading, chunk, wire, greeted, handshakeChan>>
          /\ loop' = loop \/ loop' = [loop EXCEPT ![attempt] = "read"]
          /\ at = "hello" /\ at' # "agree" /\ ~Connected'
        BY <1>2 DEF Hello, Retry, shared, server, Connected
    <2>2. Taken = 0 /\ Taken' = 0 /\ Queued' = Queued
        BY <2>1 DEF Taken, Connected, Queued
    <2>3. loop[attempt] = "none"
        BY <2>1 DEF Control, Phases
    <2>4. \A c \in Conns : Left(c)' = Left(c) /\ Chunk(c)' = Chunk(c) /\ Held(c)' = Held(c)
        BY <2>1, <2>3, Scalars DEF Left, Owed, Chunk, Held
    <2>5. Taken' + Queued' <= Taken + Queued
        BY <1>1, <2>2
    <2>6. \A c \in Conns : c # attempt => loop'[c] = loop[c] /\ reading'[c] = reading[c]
        BY <2>1, Scalars
    <2> QED
        BY <1>1, <2>1, <2>2, <2>4, <2>5, <2>6
<1>3. CASE ~Hello
    <2>1. /\ UNCHANGED <<attempt, conn, frame, reading, loop, chunk, wire, greeted>>
          /\ Connected => Connected'
        BY <1>3, RobotControl DEF reader, Connected
    <2>2. netState' = "Inited" => netState = "Inited"
        BY <1>3, <2>1, Scalars, RobotControl DEF Control, Phases
    <2>3. CASE TakeHandshake
        <3>1. Queued > 0 /\ Queued' = Queued - 1
            <4>1. handshakeChan \in Seq(BOOLEAN) /\ handshakeChan # <<>> /\ handshakeChan' = Tail(handshakeChan)
                BY <2>3 DEF TakeHandshake, TypeOK
            <4>2. Len(handshakeChan) \in Nat /\ Len(handshakeChan) > 0 /\ Len(Tail(handshakeChan)) = Len(handshakeChan) - 1
                BY <4>1, EmptySeq, LenProperties, HeadTailProperties
            <4> QED
                BY <4>1, <4>2 DEF Queued
        <3>2. Taken = 0 /\ Taken' \in {0, 1}
            BY <2>3 DEF TakeHandshake, Taken, Connected
        <3>3. Taken' + Queued' <= Taken + Queued /\ Queued' \in Nat
            <4> DEFINE t == Taken' q == Queued'
            <4>1. Queued > 0 /\ q = Queued - 1 /\ Taken = 0 /\ t \in {0, 1}
                BY <3>1, <3>2
            <4> HIDE DEF t, q
            <4>2. t + q <= Taken + Queued /\ q \in Nat
                BY <1>1, <4>1
            <4> QED
                BY <4>2 DEF t, q
        <3> QED
            BY <2>1, <2>2, <3>2, <3>3 DEF Left, Owed, Chunk, Held
    <2>4. CASE ~TakeHandshake
        <3>1. Queued' = Queued
            <4>1. handshakeChan' = handshakeChan
                BY <1>3, <2>4, Zenon DEF RobotNext, TakeError, HandshakeTimeout, SendAck, SendRequest, Register,
                    ReturnAnswer, ReturnError, RequestTimeout, Return, shared
            <4> QED
                BY <4>1 DEF Queued
        <3>2. at' = "agree" => FALSE
            BY <1>3, <2>4 DEF RobotNext, TakeError, HandshakeTimeout, SendAck, SendRequest, MayAsk, Register,
                ReturnAnswer, ReturnError, RequestTimeout, Return, Retry
        <3>3. Connected' => at = "agree" \/ Connected
            BY <1>3, <2>4 DEF RobotNext, TakeError, HandshakeTimeout, SendAck, SendRequest, MayAsk, Register,
                ReturnAnswer, ReturnError, RequestTimeout, Return, Retry, Connected
        <3>4. Taken' <= Taken /\ Taken' \in {0, 1}
            BY <3>2, <3>3 DEF Taken
        <3>5. Taken' + Queued' <= Taken + Queued /\ Queued' \in Nat
            <4> DEFINE t == Taken' q == Queued'
            <4>1. q = Queued /\ t <= Taken /\ t \in {0, 1}
                BY <3>1, <3>4
            <4> HIDE DEF t, q
            <4>2. t + q <= Taken + Queued /\ q \in Nat
                BY <1>1, <4>1
            <4> QED
                BY <4>2 DEF t, q
        <3> QED
            BY <2>1, <2>2, <3>4, <3>5 DEF Left, Owed, Chunk, Held
    <2> QED
        BY <2>3, <2>4
<1> QED
    BY <1>2, <1>3

\* The server owes a connection one response and, before the robot is
\* connected, nothing else.
LEMMA ServerCounts ==
    ASSUME TypeOK, Control, NEW c \in Conns, Greet(c) \/ Answer(c) \/ HangUp(c)
    PROVE  /\ UNCHANGED <<robot, shared, reader>>
           /\ netState = "Inited" => \A k \in Conns : Left(k)' = Left(k)
<1>1. UNCHANGED <<robot, shared, reader>>
    BY Zenon DEF Greet, Answer, HangUp
<1>2. CASE Greet(c)
    <2>1. PICK r \in Responses : Send(c, r)
        BY <1>2 DEF Greet
    <2>2. /\ c \notin greeted /\ greeted' = greeted \cup {c}
          /\ Len(wire[c]) \in Nat /\ Len(wire'[c]) = Len(wire[c]) + 2
          /\ \A k \in Conns : k # c => wire'[k] = wire[k]
        BY <1>2, <2>1, Sent DEF Greet, Packages
    <2>3. Left(c)' = Left(c)
        <3>1. Left(c) = Len(wire[c]) + 2 /\ Left(c)' = Len(wire'[c]) + 0
            <4>1. Owed(c) = 2 /\ Owed(c)' = 0
                BY <2>2 DEF Owed
            <4> QED
                BY <4>1, Zenon DEF Left
        <3>2. \A n \in Nat : (n + 2) + 0 = n + 2
            OBVIOUS
        <3> QED
            BY <2>2, <3>1, <3>2, Zenon
    <2> QED
        BY <1>1, <2>2, <2>3 DEF Left, Owed
<1>3. CASE Answer(c)
    BY <1>1, <1>3 DEF Answer, Control, Phases
<1>4. CASE HangUp(c)
    BY <1>1, <1>4 DEF HangUp, Left, Owed
<1> QED
    BY <1>2, <1>3, <1>4

LEMMA FirstTwo ==
    ASSUME TypeOK
    PROVE  1 \in Conns /\ (attempt = 2 => 2 \in Conns) /\ attempt \in Nat /\ netState \in {"Inited", "Working"}
<1>1. MaxRetries \in Nat \ {0} /\ attempt \in 0..MaxRetries /\ netState \in {"Inited", "Working"}
    BY Scalars
<1> QED
    BY <1>1 DEF Conns

LEMMA RobotKeepsCounts == ASSUME TypeOK, Control, Counts, RobotNext, ~Dial PROVE Counts'
<1> DEFINE t == Taken' q == Queued' s == netState'
<1>1. /\ t + q <= Taken + Queued /\ t \in {0, 1} /\ q \in Nat /\ Taken \in {0, 1} /\ Queued \in Nat
      /\ s = "Inited" => netState = "Inited"
      /\ s \in {"Inited", "Working"} /\ netState \in {"Inited", "Working"}
    <2>1. s \in {"Inited", "Working"}
        <3>1. s = netState \/ s = "Working"
            BY DEF RobotNext, Dial, Hello, TakeHandshake, TakeError, HandshakeTimeout, SendAck, SendRequest, Register,
                ReturnAnswer, ReturnError, RequestTimeout, Return
        <3> QED
            BY <3>1, FirstTwo
    <2> QED
        BY <2>1, RobotCounts, CountTypes, FirstTwo
<1>2. /\ UNCHANGED <<attempt, conn, frame>> /\ 1 \in Conns /\ (attempt = 2 => 2 \in Conns)
      /\ \A c \in Conns : Left(c)' = Left(c) /\ Chunk(c)' = Chunk(c) /\ Held(c)' = Held(c)
      /\ \A c \in Conns : Left(c) \in Nat /\ Chunk(c) \in Nat /\ Held(c) \in {0, 1}
    BY RobotCounts, CountTypes, FirstTwo
<1>3. One'
    <2> SUFFICES ASSUME attempt <= 1
                 PROVE  OneAt(t, q, Held(1), Left(1) + Chunk(1), frame.at, s)
        BY <1>2 DEF One
    <2>1. OneAt(Taken, Queued, Held(1), Left(1) + Chunk(1), frame.at, netState)
        BY DEF Counts, One
    <2> HIDE DEF t, q, s
    <2> QED
        BY <1>1, <1>2, <2>1 DEF OneAt
<1>4. Two'
    <2> DEFINE p == Left(1) + Left(2) + (Chunk(1) + Chunk(2))
    <2> SUFFICES ASSUME attempt = 2, conn = 2
                 PROVE  TwoAt(t, q, Held(1), Held(2), p, frame.at, s)
        BY <1>2 DEF Two
    <2>1. TwoAt(Taken, Queued, Held(1), Held(2), p, frame.at, netState)
        BY DEF Counts, Two
    <2>2. p \in Nat /\ Held(1) \in {0, 1} /\ Held(2) \in {0, 1}
        BY <1>2
    <2> HIDE DEF t, q, s, p
    <2> QED
        BY <1>1, <2>1, <2>2 DEF TwoAt, Hope
<1>5. Alone'
    <2> DEFINE p == Left(2) + Chunk(2)
    <2> SUFFICES ASSUME attempt = 2, conn = 2, Passive'
                 PROVE  AloneAt(t, q, Held(2), p, frame.at, s)
        BY <1>2 DEF Alone
    <2>1. Passive
        BY <1>2, RobotCounts DEF Passive
    <2>2. AloneAt(Taken, Queued, Held(2), p, frame.at, netState)
        BY <2>1 DEF Counts, Alone
    <2>3. p \in Nat /\ Held(2) \in {0, 1}
        BY <1>2
    <2> HIDE DEF t, q, s, p
    <2> QED
        BY <1>1, <2>2, <2>3 DEF AloneAt, Hope
<1> QED
    BY <1>3, <1>4, <1>5 DEF Counts

LEMMA ServerKeepsCounts ==
    ASSUME TypeOK, Control, Counts, NEW c \in Conns, Greet(c) \/ Answer(c) \/ HangUp(c)
    PROVE  Counts'
<1>1. /\ UNCHANGED <<at, attempt, conn, netState, handshakeChan, frame, loop, reading, chunk>>
      /\ netState = "Inited" => \A k \in Conns : Left(k)' = Left(k)
    BY ServerCounts DEF robot, shared, reader
<1>2. Taken' = Taken /\ Queued' = Queued /\ \A k \in Conns : Held(k)' = Held(k) /\ Chunk(k)' = Chunk(k)
    BY <1>1 DEF Taken, Connected, Queued, Held, Chunk
<1>3. 1 \in Conns /\ (attempt = 2 => 2 \in Conns) /\ netState \in {"Inited", "Working"}
    BY FirstTwo
<1>4. /\ \A k \in Conns : Left(k) \in Nat /\ Chunk(k) \in Nat /\ Held(k) \in {0, 1}
      /\ Taken \in {0, 1} /\ Queued \in Nat
    BY CountTypes
<1>5. CASE netState = "Inited"
    BY <1>1, <1>2, <1>3, <1>5 DEF Counts, One, Two, Alone, Passive
<1>6. CASE netState = "Working"
    <2>1. One'
        BY <1>1, <1>2, <1>3, <1>6 DEF Counts, One, OneAt
    <2>2. Two'
        <3> DEFINE p == Left(1) + Left(2) + (Chunk(1) + Chunk(2))
        <3> SUFFICES ASSUME attempt = 2, conn = 2
                     PROVE  TwoAt(Taken, Queued, Held(1), Held(2), p', frame.at, netState)
            BY <1>1, <1>2, <1>3 DEF Two
        <3>1. TwoAt(Taken, Queued, Held(1), Held(2), p, frame.at, netState)
            BY DEF Counts, Two
        <3> HIDE DEF p
        <3> QED
            BY <1>6, <3>1 DEF TwoAt, Hope
    <2>3. Alone'
        <3> DEFINE p == Left(2) + Chunk(2)
        <3> SUFFICES ASSUME attempt = 2, conn = 2, Passive
                     PROVE  AloneAt(Taken, Queued, Held(2), p', frame.at, netState)
            BY <1>1, <1>2, <1>3 DEF Alone, Passive
        <3>1. AloneAt(Taken, Queued, Held(2), p, frame.at, netState)
            BY DEF Counts, Alone
        <3> HIDE DEF p
        <3> QED
            BY <1>6, <3>1 DEF AloneAt, Hope
    <2> QED
        BY <2>1, <2>2, <2>3 DEF Counts
<1> QED
    BY <1>3, <1>5, <1>6

\* While a package is complete, one of the two loops waits to hand it over.
LEMMA Pushers ==
    ASSUME TypeOK, Control, attempt <= 2, frame.at = "full"
    PROVE  Held(1) = 1 \/ (attempt = 2 /\ Held(2) = 1)
<1>1. PICK l \in Conns : loop[l] = "push"
    BY DEF Control, Pushed
<1>2. l \in Nat /\ l >= 1 /\ l <= attempt /\ attempt \in Nat
    BY <1>1, OneOrTwo
<1>3. l = 1 \/ (l = 2 /\ attempt = 2)
    BY <1>2
<1> QED
    BY <1>1, <1>3 DEF Held

LEMMA LoopKeepsOne ==
    ASSUME TypeOK, Control, Counts, NEW l \in Conns, LoopNext(l), attempt <= 1
    PROVE  One'
<1>1. l = 1 /\ attempt = 1
    <2>1. l \in Nat /\ l >= 1 /\ l <= attempt /\ attempt \in Nat
        BY LoopMoves, OneOrTwo
    <2> QED
        BY <2>1
<1>2. 1 \in Conns /\ UNCHANGED <<at, attempt, netState>> /\ Taken' = Taken
    BY FirstTwo, LoopMoves DEF robot, Taken, Connected
<1> DEFINE q == Queued' h == Held(1)' p == Left(1)' + Chunk(1)' f == frame'.at
<1> SUFFICES OneAt(Taken, q, h, p, f, netState)
    BY <1>2 DEF One
<1>3. OneAt(Taken, Queued, Held(1), Left(1) + Chunk(1), frame.at, netState)
    BY <1>1 DEF Counts, One
<1>4. CASE Receive(1)
    <2>1. reading[1] = 1
        BY <1>1, <1>2, <1>4, ReceiveCounts DEF Control, Newest, Receive
    <2>2. p = Left(1) + Chunk(1) /\ q = Queued /\ h = Held(1) /\ f = frame.at
        BY <1>1, <1>2, <1>4, <2>1, ReceiveCounts, LoopCounts
    <2> QED
        BY <1>3, <2>2
<1>5. CASE LoopEffect(1) /\ Left(1)' = Left(1)
    <2> DEFINE n == Chunk(1)'
    <2>1. Effect(Held(1), h, Queued, q, Chunk(1), n, frame.at, f, netState) /\ p = Left(1) + n
        BY <1>5 DEF LoopEffect
    <2>2. Left(1) \in Nat /\ Chunk(1) \in Nat /\ Held(1) \in {0, 1} /\ Queued \in Nat /\ Taken \in {0, 1}
        BY <1>2, CountTypes
    <2>3. frame.at = "full" => Held(1) = 1
        BY <1>1, Pushers
    <2> HIDE DEF q, h, p, f, n
    <2> QED
        BY <1>3, <2>1, <2>2, <2>3 DEF OneAt, Effect
<1> QED
    BY <1>1, <1>2, <1>4, <1>5, LoopCounts

LEMMA LoopKeepsTwo ==
    ASSUME TypeOK, Control, Counts, NEW l \in Conns, LoopNext(l), attempt = 2, conn = 2
    PROVE  Two'
<1>1. /\ l = 1 \/ l = 2
      /\ 1 \in Conns /\ 2 \in Conns /\ UNCHANGED <<at, attempt, conn, netState>> /\ Taken' = Taken
    <2>1. l \in Nat /\ l >= 1 /\ l <= 2
        BY LoopMoves, OneOrTwo
    <2> QED
        BY <2>1, FirstTwo, LoopMoves DEF robot, Taken, Connected
<1>2. PICK m \in {1, 2} : m # l
    OBVIOUS
<1>3. m \in Conns /\ Held(m)' = Held(m) /\ Chunk(m)' = Chunk(m)
    BY <1>1, <1>2, LoopCounts
<1>4. /\ \A c \in Conns : Left(c) \in Nat /\ Chunk(c) \in Nat /\ Held(c) \in {0, 1}
      /\ Taken \in {0, 1} /\ Queued \in Nat
    BY CountTypes
<1> DEFINE q == Queued' h == Held(l)' r == Left(l)' + Left(m)' n == Chunk(l)' f == frame'.at
<1>5. TwoAt(Taken, Queued, Held(l), Held(m), Left(l) + Left(m) + (Chunk(l) + Chunk(m)), frame.at, netState)
    <2>1. TwoAt(Taken, Queued, Held(1), Held(2), Left(1) + Left(2) + (Chunk(1) + Chunk(2)), frame.at, netState)
        BY <1>1 DEF Counts, Two
    <2> QED
        BY <1>1, <1>2, <1>4, <2>1 DEF TwoAt
<1>6. /\ Left(l)' \in Nat /\ Left(m)' \in Nat /\ n \in Nat /\ h \in {0, 1} /\ q \in Nat
      /\ TwoAt(Taken, q, h, Held(m), r + (n + Chunk(m)), f, netState)
    <2>1. CASE Receive(l)
        <3>1. PICK c \in Conns : c = reading[l] /\ c \in 1..attempt
            BY <2>1, Received DEF Control
        <3>2. c = l \/ c = m
            BY <1>1, <1>2, <3>1
        <3>3. PICK d \in {l, m} : d # c
            BY <1>2
        <3> DEFINE u == Left(c)'
        <3>4. u \in Nat /\ n \in Nat /\ u + n = Left(c) + Chunk(l) /\ Left(d)' = Left(d) /\ d \in Conns
            BY <1>3, <2>1, <3>1, <3>3, ReceiveCounts
        <3>5. r = u + Left(d) \/ r = Left(d) + u
            BY <3>2, <3>3, <3>4
        <3>6. Left(l) + Left(m) = Left(c) + Left(d) /\ Left(c) \in Nat /\ Left(d) \in Nat
            BY <1>1, <1>3, <1>4, <3>2, <3>3
        <3>7. h = Held(l) /\ q = Queued /\ f = frame.at
            BY <2>1, LoopCounts
        <3>8. Chunk(l) \in Nat /\ Chunk(m) \in Nat /\ Held(l) \in {0, 1}
            BY <1>3, <1>4
        <3>9. r \in Nat /\ r + (n + Chunk(m)) = Left(l) + Left(m) + (Chunk(l) + Chunk(m))
            <4> HIDE DEF u, r, n
            <4> QED
                BY <3>4, <3>5, <3>6, <3>8
        <3>10. Left(l)' \in Nat /\ Left(m)' \in Nat
            BY <1>3, <1>4, <3>2, <3>3, <3>4, <3>6
        <3> QED
            BY <1>4, <1>5, <3>4, <3>7, <3>8, <3>9, <3>10
    <2>2. CASE LoopEffect(l) /\ Left(l)' = Left(l) /\ Left(m)' = Left(m)
        <3>1. Effect(Held(l), h, Queued, q, Chunk(l), n, frame.at, f, netState) /\ r = Left(l) + Left(m)
            BY <2>2 DEF LoopEffect
        <3>2. /\ Left(l) \in Nat /\ Left(m) \in Nat /\ Chunk(l) \in Nat /\ Chunk(m) \in Nat
              /\ Held(l) \in {0, 1} /\ Held(m) \in {0, 1}
            BY <1>3, <1>4
        <3>3. frame.at = "full" => Held(l) = 1 \/ Held(m) = 1
            BY <1>1, <1>2, Pushers
        <3>4. Left(l)' \in Nat /\ Left(m)' \in Nat
            BY <2>2, <3>2
        <3> HIDE DEF q, h, r, n, f
        <3>5. n \in Nat /\ h \in {0, 1} /\ q \in Nat
            BY <1>4, <3>1, <3>2 DEF Effect
        <3>6. TwoAt(Taken, q, h, Held(m), r + (n + Chunk(m)), f, netState)
            <4> DEFINE p == Left(l) + Left(m) + (Chunk(l) + Chunk(m)) p1 == r + (n + Chunk(m))
            <4>1. /\ p \in Nat /\ p1 \in Nat
                  /\ n = Chunk(l) => p1 = p
                  /\ n = Chunk(l) - 1 => p1 = p - 1
                  /\ Chunk(l) > 0 => p > 0
                BY <3>1, <3>2, <3>5
            <4> HIDE DEF p, p1
            <4> QED
                BY <1>4, <1>5, <3>1, <3>2, <3>3, <4>1 DEF TwoAt, Effect, Hope, p
        <3> QED
            BY <3>4, <3>5, <3>6
    <2> QED
        BY <1>1, <1>3, <2>1, <2>2, LoopCounts
<1>7. TwoAt(Taken, Queued', Held(1)', Held(2)', Left(1)' + Left(2)' + (Chunk(1)' + Chunk(2)'), frame'.at, netState)
    <2> DEFINE a == Left(l)' b == Left(m)' g == Held(m)' k == Chunk(m)'
    <2>1. g = Held(m) /\ k = Chunk(m) /\ g \in {0, 1} /\ k \in Nat
        BY <1>3, <1>4
    <2>2. TwoAt(Taken, q, h, g, a + b + (n + k), f, netState)
        BY <1>6, <2>1
    <2>3. TwoAt(Taken, q, g, h, b + a + (k + n), f, netState)
        <3> HIDE DEF a, b, n, k, h, g, q, f
        <3>1. a + b + (n + k) = b + a + (k + n) /\ (h + g = 2 <=> g + h = 2)
            BY <1>6, <2>1 DEF a, b, n, k, h, g
        <3>2. Taken + q + h + g = Taken + q + g + h
            BY <1>4, <1>6, <2>1 DEF h, g, q
        <3> QED
            BY <2>2, <3>1, <3>2 DEF TwoAt, Hope
    <2> QED
        BY <1>1, <1>2, <2>2, <2>3
<1> QED
    BY <1>1, <1>7 DEF Two

LEMMA LoopKeepsAlone ==
    ASSUME TypeOK, Control, Counts, NEW l \in Conns, LoopNext(l), attempt = 2, conn = 2
    PROVE  Alone'
<1>1. /\ l = 1 \/ l = 2
      /\ 1 \in Conns /\ 2 \in Conns /\ UNCHANGED <<at, attempt, conn, netState>> /\ Taken' = Taken
    <2>1. l \in Nat /\ l >= 1 /\ l <= 2
        BY LoopMoves, OneOrTwo
    <2> QED
        BY <2>1, FirstTwo, LoopMoves DEF robot, Taken, Connected
<1>2. /\ \A c \in Conns : Left(c) \in Nat /\ Chunk(c) \in Nat /\ Held(c) \in {0, 1}
      /\ Taken \in {0, 1} /\ Queued \in Nat
    BY CountTypes
<1> DEFINE q == Queued' h == Held(2)' p == Left(2)' + Chunk(2)' f == frame'.at
<1> SUFFICES ASSUME Passive'
             PROVE  AloneAt(Taken, q, h, p, f, netState)
    BY <1>1 DEF Alone
<1>3. CASE l = 1
    <2>1. loop'[1] \in {"await", "done"} /\ reading'[1] # 2
        BY <1>3, LoopMoves DEF Passive
    <2>2. ReadFails(1)
        <3>1. loop \in [Conns -> LoopAt] /\ reading \in [Conns -> 0..MaxRetries]
            BY Scalars
        <3> QED
            BY <1>1, <1>3, <2>1, <3>1 DEF LoopNext, CallRead, Receive, ReadHead, LoseStep, ReadResponse, ReadBody,
                PushResponse, Ignore, ReadAnswer, NextRead
    <2>3. Passive
        BY <2>1, <2>2 DEF ReadFails, Passive
    <2>4. /\ q = Queued /\ f = frame.at /\ Left(2)' = Left(2) /\ Chunk(2)' = Chunk(2) /\ h = Held(2)
        <3>1. UNCHANGED <<handshakeChan, frame, wire, greeted, chunk>>
            BY <2>2 DEF ReadFails, server
        <3> QED
            BY <1>1, <1>3, <3>1, LoopCounts DEF Queued, Left, Owed, Chunk
    <2> QED
        BY <1>1, <2>3, <2>4 DEF Counts, Alone
<1>4. CASE l = 2
    <2>1. Passive
        BY <1>1, <1>4, LoopMoves DEF Passive
    <2>2. AloneAt(Taken, Queued, Held(2), Left(2) + Chunk(2), frame.at, netState)
        BY <1>1, <2>1 DEF Counts, Alone
    <2>3. CASE Receive(2)
        <3>1. reading[2] = 2
            BY <1>1, <2>3 DEF Control, Newest, Receive
        <3>2. p = Left(2) + Chunk(2) /\ q = Queued /\ h = Held(2) /\ f = frame.at
            BY <1>1, <1>4, <2>3, <3>1, ReceiveCounts, LoopCounts
        <3> QED
            BY <2>2, <3>2
    <2>4. CASE LoopEffect(2) /\ Left(2)' = Left(2)
        <3> DEFINE n == Chunk(2)'
        <3>1. Effect(Held(2), h, Queued, q, Chunk(2), n, frame.at, f, netState) /\ p = Left(2) + n
            BY <2>4 DEF LoopEffect
        <3>2. Left(2) \in Nat /\ Chunk(2) \in Nat /\ Held(2) \in {0, 1}
            BY <1>1, <1>2
        <3>3. frame.at = "full" => Held(2) = 1
            BY <1>1, <2>1, Pushers DEF Passive, Held
        <3> HIDE DEF q, h, p, f, n
        <3> QED
            BY <1>2, <2>2, <3>1, <3>2, <3>3 DEF AloneAt, Effect, Hope
    <2> QED
        BY <1>1, <1>4, <2>3, <2>4, LoopCounts
<1> QED
    BY <1>1, <1>3, <1>4

LEMMA LoopKeepsCounts == ASSUME TypeOK, Control, Counts, NEW l \in Conns, LoopNext(l) PROVE Counts'
<1>1. UNCHANGED <<attempt, conn>>
    BY LoopMoves DEF robot
<1>2. One' /\ Two' /\ Alone'
    BY <1>1, LoopKeepsOne, LoopKeepsTwo, LoopKeepsAlone DEF One, Two, Alone
<1> QED
    BY <1>2 DEF Counts

\* A second attempt starts with what the first has left: a loop of its own and
\* two pieces more.
LEMMA DialKeepsCounts == ASSUME TypeOK, Control, Counts, Dial PROVE Counts'
<1>1. /\ at = "dial" /\ attempt' = attempt + 1 /\ netState = "Inited" /\ netState' = "Inited"
      /\ UNCHANGED <<handshakeChan, frame, loop, reading, chunk, wire, greeted>>
      /\ at' \in {"hello", "dial", "gave up"}
    BY Scalars, Zenon DEF Dial, Control, Phases, Connected, shared, reader
<1>2. Taken = 0 /\ Taken' = 0 /\ Queued' = Queued
    BY <1>1 DEF Taken, Connected, Queued
<1>3. \A c \in Conns : Left(c)' = Left(c) /\ Chunk(c)' = Chunk(c) /\ Held(c)' = Held(c)
    BY <1>1 DEF Left, Owed, Chunk, Held
<1>4. 1 \in Conns /\ attempt \in Nat
    BY FirstTwo
<1>5. Left(1) \in Nat /\ Chunk(1) \in Nat /\ Held(1) \in {0, 1} /\ Queued \in Nat
    BY <1>4, CountTypes
<1>6. (attempt' <= 1 => attempt <= 1) /\ (attempt' = 2 => attempt = 1 /\ attempt <= 1)
    <2>1. \A n \in Nat : (n + 1 <= 1 => n <= 1) /\ (n + 1 = 2 => n = 1 /\ n <= 1)
        OBVIOUS
    <2> QED
        BY <1>1, <1>4, <2>1
<1>7. One'
    <2> SUFFICES ASSUME attempt' <= 1
                 PROVE  OneAt(0, Queued, Held(1), Left(1) + Chunk(1), frame.at, "Inited")
        BY <1>1, <1>2, <1>3, <1>4 DEF One
    <2>1. attempt <= 1
        BY <1>6
    <2> QED
        BY <1>1, <1>2, <2>1 DEF Counts, One
<1>8. ASSUME attempt' = 2, conn' = 2
      PROVE  /\ OneAt(0, Queued, Held(1), Left(1) + Chunk(1), frame.at, "Inited")
             /\ 2 \in Conns /\ Left(2) = 2 /\ Chunk(2) = 0 /\ Held(2) = 0 /\ attempt = 1 /\ loop[2] = "none"
    <2>1. attempt = 1 /\ attempt <= 1
        BY <1>6, <1>8
    <2>2. OneAt(0, Queued, Held(1), Left(1) + Chunk(1), frame.at, "Inited")
        BY <1>1, <1>2, <2>1 DEF Counts, One
    <2>3. 2 \in Conns
        <3>1. attempt < MaxRetries /\ MaxRetries \in Nat
            BY <1>1, Scalars DEF Control, Phases
        <3> QED
            BY <2>1, <3>1 DEF Conns
    <2>4. loop[2] = "none"
        <3>1. conn \in Nat /\ conn <= 1
            BY <2>1, AttemptIsConn DEF Control, Phases
        <3> QED
            BY <2>3, <3>1 DEF Control, Started
    <2>5. 2 \notin greeted /\ Len(wire[2]) = 0 /\ Chunk(2) = 0 /\ Held(2) = 0
        BY <2>3, <2>4 DEF Control, Started, Chunk, Held
    <2>6. Left(2) = 2
        BY <2>5 DEF Left, Owed
    <2> QED
        BY <2>1, <2>2, <2>3, <2>4, <2>5, <2>6
<1>9. frame.at = "full" /\ attempt = 1 => Held(1) = 1
    BY Pushers
<1>10. Two'
    <2> SUFFICES ASSUME attempt' = 2, conn' = 2
                 PROVE  TwoAt(0, Queued, Held(1), Held(2), Left(1) + Left(2) + (Chunk(1) + Chunk(2)), frame.at, "Inited")
        BY <1>1, <1>2, <1>3, <1>4, <1>8 DEF Two
    <2>1. Left(1) + Left(2) + (Chunk(1) + Chunk(2)) = Left(1) + Chunk(1) + 2
        BY <1>5, <1>8
    <2>2. Held(1) + Held(2) = 2 => FALSE
        BY <1>5, <1>8
    <2> QED
        BY <1>5, <1>8, <1>9, <2>1, <2>2 DEF OneAt, TwoAt, Hope
<1>11. Alone'
    <2> SUFFICES ASSUME attempt' = 2, conn' = 2, Passive
                 PROVE  AloneAt(0, Queued, Held(2), Left(2) + Chunk(2), frame.at, "Inited")
        BY <1>1, <1>2, <1>3, <1>4, <1>8 DEF Alone, Passive
    <2>1. Left(2) + Chunk(2) = 2
        BY <1>8
    <2>2. frame.at # "full"
        BY <1>8, <1>9 DEF Passive, Held
    <2> QED
        BY <1>5, <1>8, <2>1, <2>2 DEF OneAt, AloneAt, Hope
<1> QED
    BY <1>7, <1>10, <1>11 DEF Counts

-----------------------------------------------------------------------------
(* The theorems                                                            *)

\* The inductive invariant.
IInv == TypeOK /\ Control /\ Owners /\ CallbacksHaveOwners /\ Counts

LEMMA InitHolds == Init => IInv
<1> SUFFICES ASSUME Init PROVE IInv
    OBVIOUS
<1>1. 1 \in Conns /\ 0 \in 0..MaxRetries /\ 0 \in 0..MaxRequests /\ MaxRetries \in Nat /\ 0 < MaxRetries
    BY Numbers DEF Conns
<1>2. TypeOK
    <2>1. <<>> \in Seq(BOOLEAN) /\ <<>> \in Seq(Pieces)
        OBVIOUS
    <2>2. frame \in Frames
        BY DEF Init, Frames
    <2> QED
        BY <1>1, <2>1, <2>2 DEF Init, TypeOK, Robot, LoopAt, NoConn
<1>3. Control
    <2>1. Phases
        BY <1>1 DEF Init, Phases, Connected, NoConn
    <2>2. Newest /\ Pushed
        BY DEF Init, Newest, Pushed, Between
    <2>3. \A c \in Conns : Started(c)
        BY DEF Init, Started
    <2> QED
        BY <2>1, <2>2, <2>3 DEF Control
<1>4. Owners /\ CallbacksHaveOwners
    BY DEF Init, Owners, CallbacksHaveOwners
<1>5. Counts
    <2>1. Len(wire[1]) = 0 /\ Chunk(1) = 0 /\ Queued = 0 /\ Taken = 0 /\ Held(1) = 0 /\ Owed(1) = 2
        BY <1>1 DEF Init, Chunk, Queued, Taken, Connected, Held, Owed
    <2>2. Left(1) + Chunk(1) = 2
        BY <2>1 DEF Left
    <2>3. attempt = 0 /\ frame.at = "head"
        BY DEF Init, Between
    <2> QED
        BY <2>1, <2>2, <2>3 DEF Counts, One, Two, Alone, OneAt
<1> QED
    BY <1>2, <1>3, <1>4, <1>5 DEF IInv

LEMMA NextControl == ASSUME TypeOK, Control, Next PROVE Control'
BY DialControl, HelloControl, RobotControl, LoopControl, ServerControl DEF Next

LEMMA NextOwners ==
    ASSUME TypeOK, Control, Owners, CallbacksHaveOwners, Next
    PROVE  Owners' /\ CallbacksHaveOwners'
<1>1. ASSUME NEW c \in Conns, Greet(c) \/ Answer(c) \/ HangUp(c) PROVE Owners' /\ CallbacksHaveOwners'
    BY <1>1, ServerControl DEF Owners, CallbacksHaveOwners, robot, shared
<1>2. Phases
    BY DEF Control
<1> QED
    BY <1>1, <1>2, RobotOwners, LoopOwners DEF Next

LEMMA NextCounts == ASSUME TypeOK, Control, Counts, Next PROVE Counts'
BY DialKeepsCounts, RobotKeepsCounts, LoopKeepsCounts, ServerKeepsCounts DEF Next

LEMMA StutterHolds == ASSUME IInv, UNCHANGED vars PROVE IInv'
<1>1. UNCHANGED <<at, attempt, conn, netState, reqId, outcome, callbacks, delivered, handshakeChan, errorChan,
                  frame, loop, reading, chunk, resp, up, wire, greeted, asked>>
    BY DEF vars, robot, shared, reader, server
<1>2. TypeOK'
    BY <1>1 DEF IInv, TypeOK
<1>3. Control'
    BY <1>1 DEF IInv, Control, Phases, Connected, Newest, Pushed, Started
<1>4. Owners' /\ CallbacksHaveOwners'
    BY <1>1 DEF IInv, Owners, CallbacksHaveOwners
<1>5. Counts'
    BY <1>1 DEF IInv, Counts, One, Two, Alone, Passive, Taken, Connected, Queued, Held, Left, Owed, Chunk
<1> QED
    BY <1>2, <1>3, <1>4, <1>5 DEF IInv

\* The invariant holds in every state that the client can reach.
THEOREM Invariance == Spec => []IInv
<1>1. Init => IInv
    BY InitHolds
<1>2. IInv /\ [Next]_vars => IInv'
    <2> SUFFICES ASSUME IInv, [Next]_vars PROVE IInv'
        OBVIOUS
    <2>1. CASE Next
        <3>1. TypeOK'
            BY <2>1, NextTypes DEF IInv, Control
        <3> QED
            BY <2>1, <3>1, NextControl, NextOwners, NextCounts DEF IInv
    <2> QED
        BY <2>1, StutterHolds
<1> QED
    BY <1>1, <1>2, PTL DEF Spec

\* The variables keep their types (main.go, type Client).
THEOREM TypeCorrect == Spec => []TypeOK
<1>1. IInv => TypeOK
    BY DEF IInv
<1> QED
    BY <1>1, Invariance, PTL

\* A callback belongs to the request that waits or to one that an error ended
\* (Request registers it after Write; only the timeout takes it out again).
THEOREM OwnersOfCallbacks == Spec => []CallbacksHaveOwners
<1>1. IInv => CallbacksHaveOwners
    BY DEF IInv
<1> QED
    BY <1>1, Invariance, PTL

LEMMA InvReads == IInv => SomebodyReads
<1> SUFFICES ASSUME IInv, attempt <= 2, Connected, up[conn]
             PROVE  \E l \in Conns :
                        \/ loop[l] \in {"read", "parse"}
                        \/ loop[l] = "push" /\ handshakeChan = <<>>
                        \/ loop[l] = "await" /\ reading[l] = conn
    BY DEF SomebodyReads
<1>1. /\ attempt > 0 /\ conn = attempt /\ attempt \in Conns /\ loop[attempt] # "none" /\ Taken = 1
      /\ loop[attempt] # "read" => reading[attempt] = attempt
      /\ loop[attempt] = "done" => ~up[reading[attempt]]
    BY AttemptIsConn DEF IInv, Control, Phases, Newest, Started, Connected, Taken
<1>2. loop \in [Conns -> LoopAt] /\ 1 \in Conns /\ (attempt = 2 => 2 \in Conns) /\ attempt \in Nat
    BY Scalars, FirstTwo DEF IInv
<1>3. loop[attempt] \in {"read", "await", "parse", "push"}
    BY <1>1, <1>2 DEF LoopAt
<1>4. CASE loop[attempt] = "push" /\ handshakeChan # <<>>
    <2>1. Queued \in Nat /\ Queued > 0
        BY <1>4, EmptySeq, LenProperties DEF IInv, TypeOK, Queued
    <2>2. Held(attempt) = 1
        BY <1>4 DEF Held
    <2>3. /\ \A c \in Conns : Left(c) \in Nat /\ Chunk(c) \in Nat /\ Held(c) \in {0, 1}
        BY CountTypes DEF IInv
    <2>4. attempt = 2
        <3>1. attempt # 1
            <4> SUFFICES ASSUME attempt = 1 PROVE FALSE
                OBVIOUS
            <4>1. Taken + Queued + Held(1) <= 1 /\ Held(1) = 1
                BY <2>2 DEF IInv, Counts, One, OneAt
            <4> QED
                BY <1>1, <2>1, <4>1
        <3> QED
            BY <1>1, <1>2, <3>1
    <2>5. loop[1] # "push"
        <3> DEFINE p == Left(1) + Left(2) + (Chunk(1) + Chunk(2))
        <3>1. p \in Nat
            BY <1>2, <2>3, <2>4
        <3>2. TwoAt(Taken, Queued, Held(1), Held(2), p, frame.at, netState)
            BY <1>1, <2>4 DEF IInv, Counts, Two
        <3>3. Held(1) \in {0, 1} /\ Held(2) = 1
            BY <1>2, <2>2, <2>3, <2>4
        <3> HIDE DEF p
        <3>4. Held(1) = 0
            BY <1>1, <2>1, <3>1, <3>2, <3>3 DEF TwoAt, Hope
        <3> QED
            BY <3>4 DEF Held
    <2>6. ~Passive
        <3> SUFFICES ASSUME Passive PROVE FALSE
            OBVIOUS
        <3> DEFINE p == Left(2) + Chunk(2)
        <3>1. p \in Nat
            BY <1>2, <2>3, <2>4
        <3>2. AloneAt(Taken, Queued, Held(2), p, frame.at, netState)
            BY <1>1, <2>4 DEF IInv, Counts, Alone
        <3>3. Held(2) = 1
            BY <2>2, <2>4
        <3> HIDE DEF p
        <3> QED
            BY <1>1, <2>1, <3>1, <3>2, <3>3 DEF AloneAt, Hope
    <2>7. loop[1] = "done" => ~up[reading[1]]
        BY <1>2 DEF IInv, Control, Started
    <2>8. loop[1] \in {"read", "parse"} \/ (loop[1] = "await" /\ reading[1] = conn)
        BY <1>1, <1>2, <2>4, <2>5, <2>6, <2>7 DEF Passive, LoopAt
    <2> QED
        BY <1>2, <2>8
<1> QED
    BY <1>1, <1>3, <1>4

\* While the connection of the first or the second attempt is up, some loop is on
\* its way to read it (readLoop, handleHandshake's send to handshakeChan).
THEOREM ConnectionIsRead == Spec => []SomebodyReads
BY InvReads, Invariance, PTL
=============================================================================
