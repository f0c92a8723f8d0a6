-------------------------- MODULE CppServerProofs --------------------------
(***************************************************************************)
(* Proofs about CppServer, for any number of clients, workers, descriptors *)
(* and packages.                                                           *)
(***************************************************************************)
EXTENDS CppServer, FiniteSetTheorems, SequenceTheorems, TLAPS

(* The main thread holds a descriptor exactly between accept and enqueue. *)
Handed ==
    /\ hand # 0 <=> mainAt = "enqueue"
    /\ running /\ hand # 0 => owner[hand] # Nobody

InQueue(w, f) == \E i \in 1..Len(pending[w]) : pending[w][i] = f
OnTheWay(f) == hand = f \/ \E w \in WorkerIds : InQueue(w, f)

(* A descriptor in a hand or a queue is open, and is there once. *)
Queued ==
    /\ running => \A w \in WorkerIds, f \in FdIds : InQueue(w, f) => owner[f] # Nobody
    /\ \A w \in WorkerIds : ~InQueue(w, hand)
    /\ \A v, w \in WorkerIds : \A i \in 1..Len(pending[v]), j \in 1..Len(pending[w]) :
         pending[v][i] = pending[w][j] => v = w /\ i = j

(* A session is filed under its own descriptor, in one worker's map. *)
Filed ==
    /\ \A w \in WorkerIds, f \in FdIds : sessions[w][f] # Nobody => fdOf[sessions[w][f]] = f
    /\ \A v, w \in WorkerIds, f, g \in FdIds :
         sessions[v][f] = sessions[w][g] /\ sessions[v][f] # Nobody => v = w

(* A session that is up owns its descriptor; close() gives it back. *)
Served ==
    running => \A w \in WorkerIds, f \in FdIds :
        sessions[w][f] # Nobody /\ up[sessions[w][f]] => owner[f] = sessions[w][f]

(* A map may still hold the closed session of a number given out again. *)
NotServed ==
    \A w \in WorkerIds, f \in FdIds :
        OnTheWay(f) /\ sessions[w][f] # Nobody => ~up[sessions[w][f]]

(* No connection that was accepted has been lost. *)
Housed ==
    running => \A f \in FdIds : owner[f] # Nobody =>
        \/ OnTheWay(f)
        \/ \E w \in WorkerIds : sessions[w][f] = owner[f] /\ up[owner[f]]

InBacklog(c) == \E i \in 1..Len(backlog) : backlog[i] = c

NoSession(c) == \A w \in WorkerIds, f \in FdIds : sessions[w][f] # c

(* A client that has not been adopted has left no trace in any map. *)
Fresh ==
    /\ \A c \in Clients : peer[c] = "new" \/ InBacklog(c) =>
          NoSession(c) /\ ~up[c] /\ \A f \in FdIds : owner[f] # c
    /\ \A c \in Clients : peer[c] = "new" => ~InBacklog(c)
    /\ \A i, j \in 1..Len(backlog) : backlog[i] = backlog[j] => i = j
    /\ \A f \in FdIds : OnTheWay(f) /\ owner[f] # Nobody => NoSession(owner[f]) /\ ~up[owner[f]]
    /\ \A f, g \in FdIds : owner[f] = owner[g] /\ owner[f] # Nobody => f = g

(* A worker that holds a session's mutex works on one of its sessions. *)
Reading == \A w \in WorkerIds : HoldsMutex(w) => Exists(w, current[w])

Placed == Handed /\ Queued /\ Filed /\ Served /\ NotServed /\ Housed /\ Fresh /\ Reading

Ending == \A w \in WorkerIds : at[w] \in {"cleanup", "stopped"} => ~running

NoEvents == \A w \in WorkerIds : at[w] \in {"top", "pending", "wait", "tick"} => events[w] = {}

-----------------------------------------------------------------------------
(* Types *)

LEMMA InitTypes == Init => TypeOK
<1> SUFFICES ASSUME Init PROVE TypeOK
    OBVIOUS
<1> USE CountsAssumption DEF Init
<1>1. ThreadTypes
    <2>1. running \in BOOLEAN /\ shouldStop \in BOOLEAN /\ shouldStop # running
        BY Zenon
    <2>2. nextWorker \in WorkerIds /\ hand \in 0..Fds
        BY DEF WorkerIds
    <2>3. mainAt = "poll" /\ backlog \in Seq(Clients) /\ pending \in [WorkerIds -> Seq(FdIds)]
        OBVIOUS
    <2> QED
        BY <2>1, <2>2, <2>3 DEF ThreadTypes
<1>2. KernelTypes
    <2>1. wire \in [Clients -> Seq(Kinds \X Nat)] /\ inbox \in [Clients -> Seq(Clients \X Nat)]
        OBVIOUS
    <2>2. edge \in [Clients -> BOOLEAN] /\ killed \in BOOLEAN
        BY Zenon
    <2> QED
        BY <2>1, <2>2 DEF KernelTypes
<1>3. PollTypes
    BY DEF PollTypes, HoldsMutex
<1>4. TimerTypes
    <2>1. dangling \in BOOLEAN
        BY Zenon
    <2>2. removed \in [WorkerIds -> SUBSET Nat] /\ nextId \in [WorkerIds -> Nat \ {0}]
        OBVIOUS
    <2> QED
        BY <2>1, <2>2 DEF TimerTypes
<1>5. SessionTypes
    BY DEF SessionTypes
<1> QED
    BY <1>1, <1>2, <1>3, <1>4, <1>5 DEF TypeOK

(* A step that leaves a group of variables alone keeps their types.        *)
LEMMA TypesKept ==
    /\ TypeOK /\ UNCHANGED threadVars => ThreadTypes'
    /\ TypeOK /\ UNCHANGED kernelVars => KernelTypes'
    /\ TypeOK /\ UNCHANGED pollVars => PollTypes'
    /\ TypeOK /\ UNCHANGED timerVars => TimerTypes'
    /\ TypeOK /\ UNCHANGED sessionVars => SessionTypes'
    /\ TypeOK /\ UNCHANGED historyVars => sent' \in [Clients -> Nat] /\ acks' \in [Clients -> Nat]
<1>1. TypeOK /\ UNCHANGED threadVars => ThreadTypes'
    BY DEF TypeOK, threadVars, ThreadTypes
<1>2. TypeOK /\ UNCHANGED kernelVars => KernelTypes'
    BY DEF TypeOK, kernelVars, KernelTypes
<1>3. TypeOK /\ UNCHANGED pollVars => PollTypes'
    BY DEF TypeOK, pollVars, PollTypes, HoldsMutex
<1>4. TypeOK /\ UNCHANGED timerVars => TimerTypes'
    BY DEF TypeOK, timerVars, TimerTypes
<1>5. TypeOK /\ UNCHANGED sessionVars => SessionTypes'
    BY DEF TypeOK, sessionVars, SessionTypes
<1>6. TypeOK /\ UNCHANGED historyVars => sent' \in [Clients -> Nat] /\ acks' \in [Clients -> Nat]
    BY DEF TypeOK, historyVars
<1> QED
    BY <1>1, <1>2, <1>3, <1>4, <1>5, <1>6

LEMMA ClientTypes == ASSUME TypeOK, NEW c \in Clients, Client(c) PROVE TypeOK'
<1>1. CASE ClientConnect(c)
    <2>1. ThreadTypes'
        <3>1. backlog' \in Seq(Clients)
            BY <1>1, AppendProperties DEF TypeOK, ThreadTypes, ClientConnect
        <3>2. UNCHANGED <<running, shouldStop, mainAt, hand, nextWorker, pending>>
            BY <1>1 DEF ClientConnect
        <3> QED
            BY <3>1, <3>2 DEF TypeOK, ThreadTypes
    <2>2. KernelTypes'
        BY <1>1 DEF TypeOK, KernelTypes, ClientConnect
    <2> QED
        BY <1>1, <2>1, <2>2, TypesKept DEF TypeOK, ClientConnect
<1>2. CASE ClientSend(c)
    <2> PICK kind \in Kinds :
            /\ wire' = [wire EXCEPT ![c] = Append(@, <<kind, sent[c] + 1>>)]
            /\ acks' = IF kind = "ack" THEN [acks EXCEPT ![c] = @ + 1] ELSE acks
        BY <1>2 DEF ClientSend
    <2>1. sent' \in [Clients -> Nat] /\ acks' \in [Clients -> Nat]
        BY <1>2 DEF TypeOK, ClientSend
    <2>2. wire' \in [Clients -> Seq(Kinds \X Nat)]
        <3>1. <<kind, sent[c] + 1>> \in Kinds \X Nat /\ wire[c] \in Seq(Kinds \X Nat)
            BY DEF TypeOK, KernelTypes
        <3>2. Append(wire[c], <<kind, sent[c] + 1>>) \in Seq(Kinds \X Nat)
            BY <3>1, AppendProperties
        <3> QED
            BY <3>2 DEF TypeOK, KernelTypes
    <2>3. KernelTypes'
        BY <1>2, <2>2 DEF TypeOK, KernelTypes, ClientSend
    <2> QED
        BY <1>2, <2>1, <2>3, TypesKept DEF TypeOK, ClientSend
<1>3. CASE ClientLeave(c)
    <2>1. KernelTypes'
        BY <1>3 DEF TypeOK, KernelTypes, ClientLeave
    <2> QED
        BY <1>3, <2>1, TypesKept DEF TypeOK, ClientLeave
<1> QED
    BY <1>1, <1>2, <1>3 DEF Client

LEMMA MainTypes == ASSUME TypeOK, Handed, Main \/ SignalHandler PROVE TypeOK'
<1> USE CountsAssumption
<1>1. CASE SignalHandler
    <2>1. running' = FALSE /\ shouldStop' = TRUE
        BY <1>1 DEF SignalHandler
    <2>2. running' \in BOOLEAN /\ shouldStop' \in BOOLEAN /\ shouldStop' # running'
        BY <2>1, Zenon
    <2>3. ThreadTypes'
        <3>1. backlog' \in Seq(Clients) /\ UNCHANGED <<mainAt, hand, nextWorker, pending>>
            BY <1>1 DEF SignalHandler
        <3> QED
            BY <2>2, <3>1 DEF TypeOK, ThreadTypes
    <2> QED
        BY <1>1, <2>3, TypesKept DEF TypeOK, SignalHandler
<1>2. CASE Accept
    <2> PICK f \in FdIds : owner' = [owner EXCEPT ![f] = Head(backlog)] /\ hand' = f
        BY <1>2 DEF Accept
    <2>1. Head(backlog) \in Clients /\ backlog' \in Seq(Clients)
        BY <1>2 DEF TypeOK, ThreadTypes, Accept
    <2>2. KernelTypes'
        BY <1>2, <2>1 DEF TypeOK, KernelTypes, Accept
    <2>3. ThreadTypes'
        <3>1. /\ hand' \in 0..Fds /\ mainAt' = "enqueue"
              /\ UNCHANGED <<running, shouldStop, nextWorker, pending>>
            BY <1>2 DEF Accept, FdIds
        <3> QED
            BY <2>1, <3>1 DEF TypeOK, ThreadTypes
    <2> QED
        BY <1>2, <2>2, <2>3, TypesKept DEF TypeOK, Accept
<1>3. CASE Enqueue
    <2>1. nextWorker' \in WorkerIds /\ hand' \in 0..Fds
        BY <1>3 DEF TypeOK, ThreadTypes, Enqueue, WorkerIds
    <2>2. pending' \in [WorkerIds -> Seq(FdIds)]
        <3>1. hand \in FdIds /\ pending[nextWorker] \in Seq(FdIds)
            BY <1>3 DEF TypeOK, ThreadTypes, Handed, Enqueue, FdIds
        <3>2. Append(pending[nextWorker], hand) \in Seq(FdIds)
            BY <3>1, AppendProperties
        <3> QED
            BY <1>3, <3>2 DEF TypeOK, ThreadTypes, Enqueue
    <2>3. ThreadTypes'
        BY <1>3, <2>1, <2>2 DEF TypeOK, ThreadTypes, Enqueue
    <2> QED
        BY <1>3, <2>3, TypesKept DEF TypeOK, Enqueue
<1>4. CASE MainStops \/ Join
    <2>1. running' \in BOOLEAN /\ shouldStop' \in BOOLEAN /\ shouldStop' # running'
        BY <1>4 DEF TypeOK, ThreadTypes, MainStops, Join
    <2>2. ThreadTypes'
        BY <1>4, <2>1 DEF TypeOK, ThreadTypes, MainStops, Join
    <2> QED
        BY <1>4, <2>2, TypesKept DEF TypeOK, MainStops, Join
<1> QED
    BY <1>1, <1>2, <1>3, <1>4 DEF Main

(* What closing a session and sending to it change.                        *)
LEMMA CloseEffect ==
    ASSUME TypeOK, NEW w \in WorkerIds, NEW s \in Clients, CloseSession(w, s)
    PROVE  /\ owner' \in [FdIds -> Clients \cup {Nobody}] /\ up' \in [Clients -> BOOLEAN]
           /\ removed' \in [WorkerIds -> SUBSET Nat] /\ timerOf' \in [Clients -> Nat]
           /\ ~up'[s]
<1>1. CASE ~up[s]
    BY <1>1 DEF TypeOK, KernelTypes, SessionTypes, TimerTypes, CloseSession
<1>2. CASE up[s]
    <2>1. /\ up' = [up EXCEPT ![s] = FALSE] /\ timerOf' = [timerOf EXCEPT ![s] = 0]
          /\ owner' = [owner EXCEPT ![fdOf[s]] = Nobody]
          /\ removed' = [removed EXCEPT ![w] = IF timerOf[s] = 0 THEN @ ELSE @ \cup {timerOf[s]}]
        BY <1>2 DEF CloseSession
    <2>2. timerOf[s] \in Nat /\ removed[w] \in SUBSET Nat
        BY DEF TypeOK, SessionTypes, TimerTypes
    <2>3. removed' \in [WorkerIds -> SUBSET Nat]
        BY <2>1, <2>2 DEF TypeOK, TimerTypes
    <2>4. owner' \in [FdIds -> Clients \cup {Nobody}] /\ timerOf' \in [Clients -> Nat]
        BY <2>1 DEF TypeOK, KernelTypes, SessionTypes
    <2>5. up' \in [Clients -> BOOLEAN] /\ ~up'[s]
        BY <2>1 DEF TypeOK, SessionTypes
    <2> QED
        BY <2>3, <2>4, <2>5
<1> QED
    BY <1>1, <1>2

LEMMA SendEffect ==
    ASSUME TypeOK, NEW w \in WorkerIds, NEW s \in Clients, NEW what \in Nat, Send(w, s, what)
    PROVE  /\ CloseSession(w, s) \/ UNCHANGED <<owner, up, removed, timerOf>>
           /\ peer' \in [Clients -> {"new", "open", "fin", "pipe", "reset"}]
           /\ \A c \in Clients : peer'[c] = peer[c] \/ (peer[c] = "fin" /\ peer'[c] = "pipe")
           /\ \/ inbox' = inbox
              \/ what # 0 /\ \E c \in Clients : inbox' = [inbox EXCEPT ![c] = Append(@, <<s, what>>)]
           /\ stream' \in [Clients -> {"whole", "cut", "garbled"}] /\ killed' \in BOOLEAN
<1> PICK c : c = owner[fdOf[s]]
    OBVIOUS
<1>0. /\ peer \in [Clients -> {"new", "open", "fin", "pipe", "reset"}]
      /\ stream \in [Clients -> {"whole", "cut", "garbled"}] /\ killed \in BOOLEAN
      /\ inbox \in [Clients -> Seq(Clients \X Nat)]
    BY DEF TypeOK, KernelTypes
<1>1. CASE /\ Delivered(c, s, what) \/ UNCHANGED <<inbox, stream>> \/ CutShort(c)
           /\ UNCHANGED <<peer, killed, up, removed, timerOf, owner>>
    <2>1. stream' \in [Clients -> {"whole", "cut", "garbled"}]
        BY <1>0, <1>1 DEF Delivered, CutShort
    <2>2. \/ inbox' = inbox
          \/ what # 0 /\ inbox' = [inbox EXCEPT ![c] = Append(@, <<s, what>>)]
        BY <1>1 DEF Delivered, CutShort
    <2>3. c \notin Clients => [inbox EXCEPT ![c] = Append(@, <<s, what>>)] = inbox
        BY <1>0
    <2> QED
        BY <1>0, <1>1, <2>1, <2>2, <2>3
<1>2. CASE /\ peer[c] \in {"fin", "pipe"} /\ peer' = [peer EXCEPT ![c] = "pipe"]
           /\ killed' = (peer[c] = "pipe")
           /\ UNCHANGED <<inbox, stream, up, removed, timerOf, owner>>
    <2>1. killed' \in BOOLEAN
        BY <1>2, Zenon
    <2>2. \A d \in Clients : peer'[d] = peer[d] \/ (peer[d] = "fin" /\ peer'[d] = "pipe")
        BY <1>0, <1>2
    <2>3. peer' \in [Clients -> {"new", "open", "fin", "pipe", "reset"}]
        BY <1>0, <1>2
    <2> QED
        BY <1>0, <1>2, <2>1, <2>2, <2>3
<1>3. CASE CloseSession(w, s) /\ UNCHANGED <<peer, killed, inbox, stream>>
    BY <1>0, <1>3
<1> QED
    BY <1>1, <1>2, <1>3 DEF Send

LEMMA SendTypes ==
    ASSUME TypeOK, NEW w \in WorkerIds, NEW s \in Clients, NEW what \in Nat, Send(w, s, what)
    PROVE  /\ owner' \in [FdIds -> Clients \cup {Nobody}] /\ up' \in [Clients -> BOOLEAN]
           /\ removed' \in [WorkerIds -> SUBSET Nat] /\ timerOf' \in [Clients -> Nat]
           /\ inbox' \in [Clients -> Seq(Clients \X Nat)]
<1>1. /\ owner' \in [FdIds -> Clients \cup {Nobody}] /\ up' \in [Clients -> BOOLEAN]
      /\ removed' \in [WorkerIds -> SUBSET Nat] /\ timerOf' \in [Clients -> Nat]
    BY CloseEffect, SendEffect DEF TypeOK, KernelTypes, SessionTypes, TimerTypes
<1>2. inbox' \in [Clients -> Seq(Clients \X Nat)]
    <2>1. inbox \in [Clients -> Seq(Clients \X Nat)] /\ <<s, what>> \in Clients \X Nat
        BY DEF TypeOK, KernelTypes
    <2>2. \A c \in Clients : Append(inbox[c], <<s, what>>) \in Seq(Clients \X Nat)
        BY <2>1, AppendProperties
    <2>3. CASE inbox' = inbox
        BY <2>1, <2>3
    <2>4. CASE \E c \in Clients : inbox' = [inbox EXCEPT ![c] = Append(@, <<s, what>>)]
        BY <2>1, <2>2, <2>4
    <2> QED
        BY <2>3, <2>4, SendEffect
<1> QED
    BY <1>1, <1>2

LEMMA GotoTypes ==
    ASSUME TypeOK, NEW w \in WorkerIds, NEW there, Goto(w, there), UNCHANGED <<sessions, events, current>>,
           \/ there \in {"top", "pending", "wait", "events", "tick", "cleanup", "stopped"}
           \/ there \in {"recv", "package", "drop"} /\ HoldsMutex(w)
    PROVE  PollTypes'
<1>1. at' \in [WorkerIds -> {"top", "pending", "wait", "events", "recv", "package", "drop", "tick",
                             "cleanup", "stopped"}]
    BY DEF TypeOK, PollTypes, Goto
<1>2. \A v \in WorkerIds : HoldsMutex(v)' => HoldsMutex(v)
    BY DEF TypeOK, PollTypes, Goto, HoldsMutex
<1> QED
    BY <1>1, <1>2 DEF TypeOK, PollTypes

LEMMA LoopTypes ==
    ASSUME TypeOK, NEW w \in WorkerIds,
           \/ Loop(w) \/ Adopted(w) \/ RecvEnds(w) \/ Drained(w) \/ TickEnds(w) \/ Stop(w)
    PROVE  TypeOK'
<1>1. \E there : /\ Goto(w, there)
                 /\ \/ there \in {"top", "pending", "wait", "events", "tick", "cleanup", "stopped"}
                    \/ there \in {"recv", "package", "drop"} /\ HoldsMutex(w)
    BY DEF Loop, Adopted, RecvEnds, Drained, TickEnds, Stop, WorkerAt, HoldsMutex
<1>2. UNCHANGED <<threadVars, kernelVars, sessions, events, current, timerVars, sessionVars, historyVars>>
    BY DEF Loop, Adopted, RecvEnds, Drained, TickEnds, Stop
<1> QED
    BY <1>1, <1>2, GotoTypes, TypesKept DEF TypeOK

LEMMA AdoptTypes == ASSUME TypeOK, NEW w \in WorkerIds, Adopt(w) PROVE TypeOK'
<1> PICK f, c : /\ f = Head(pending[w]) /\ c = owner[f]
                /\ \/ /\ c # Nobody
                      /\ sessions' = [sessions EXCEPT ![w][f] = c]
                      /\ fdOf' = [fdOf EXCEPT ![c] = f]
                      /\ up' = [up EXCEPT ![c] = TRUE]
                      /\ edge' = [edge EXCEPT ![c] = wire[c] # <<>> \/ peer[c] # "open"]
                      /\ UNCHANGED owner
                   \/ owner' = [owner EXCEPT ![f] = Nobody] /\ UNCHANGED <<sessions, fdOf, up, edge>>
    BY DEF Adopt
<1>1. f \in FdIds /\ c \in Clients \cup {Nobody} /\ f \in 0..Fds
    <2>1. pending[w] \in Seq(FdIds) /\ pending[w] # <<>>
        BY DEF TypeOK, ThreadTypes, Adopt
    <2>2. f \in FdIds
        BY <2>1
    <2> QED
        BY <2>2, CountsAssumption DEF TypeOK, KernelTypes, FdIds
<1>2. ThreadTypes'
    <2>1. pending' \in [WorkerIds -> Seq(FdIds)]
        BY DEF TypeOK, ThreadTypes, Adopt
    <2> QED
        BY <2>1 DEF TypeOK, ThreadTypes, Adopt
<1>3. KernelTypes'
    <2>1. owner' \in [FdIds -> Clients \cup {Nobody}]
        BY DEF TypeOK, KernelTypes
    <2>2. edge' \in [Clients -> BOOLEAN]
        <3>1. (wire[c] # <<>> \/ peer[c] # "open") \in BOOLEAN
            BY Zenon
        <3> QED
            BY <3>1, Zenon DEF TypeOK, KernelTypes
    <2> QED
        BY <2>1, <2>2 DEF TypeOK, KernelTypes, Adopt
<1>4. PollTypes'
    <2>1. sessions' = sessions \/ sessions' = [sessions EXCEPT ![w][f] = c]
        BY Zenon
    <2>2. sessions' \in [WorkerIds -> [FdIds -> Clients \cup {Nobody}]]
        <3>1. sessions \in [WorkerIds -> [FdIds -> Clients \cup {Nobody}]]
            BY DEF TypeOK, PollTypes
        <3>2. [sessions[w] EXCEPT ![f] = c] \in [FdIds -> Clients \cup {Nobody}]
            BY <1>1, <3>1
        <3>3. [sessions EXCEPT ![w][f] = c] \in [WorkerIds -> [FdIds -> Clients \cup {Nobody}]]
            BY <3>1, <3>2, Zenon
        <3> QED
            BY <2>1, <3>1, <3>3
    <2>3. UNCHANGED <<at, events, current>>
        BY DEF Adopt
    <2> QED
        BY <2>2, <2>3 DEF TypeOK, PollTypes, HoldsMutex
<1>5. SessionTypes'
    <2>0. fdOf' = fdOf \/ fdOf' = [fdOf EXCEPT ![c] = f]
        OBVIOUS
    <2>1. fdOf' \in [Clients -> 0..Fds]
        BY <1>1, <2>0 DEF TypeOK, SessionTypes
    <2>2. up' = up \/ up' = [up EXCEPT ![c] = TRUE]
        OBVIOUS
    <2>3. up' \in [Clients -> BOOLEAN]
        BY <2>2 DEF TypeOK, SessionTypes
    <2> QED
        BY <2>1, <2>3 DEF TypeOK, SessionTypes, Adopt
<1> QED
    BY <1>2, <1>3, <1>4, <1>5, TypesKept DEF TypeOK, Adopt

LEMMA WaitTypes == ASSUME TypeOK, Filed, NEW w \in WorkerIds, Wait(w) PROVE TypeOK'
<1> PICK ready : /\ ready = {c \in Watched(w) : edge[c]}
                 /\ events' = [events EXCEPT ![w] =
                      {[fd |-> fdOf[c], error |-> peer[c] \in {"pipe", "reset"}] : c \in ready}]
                 /\ edge' = [c \in Clients |-> edge[c] /\ c \notin ready]
    BY DEF Wait
<1>1. \A c \in ready : fdOf[c] \in FdIds
    <2> SUFFICES ASSUME NEW c \in ready PROVE fdOf[c] \in FdIds
        OBVIOUS
    <2>1. PICK f \in FdIds : sessions[w][f] = c /\ c \in Clients
        BY DEF Watched
    <2>2. fdOf[c] = f
        BY <2>1, CountsAssumption DEF Filed
    <2> QED
        BY <2>2
<1>2. events' \in [WorkerIds -> SUBSET [fd : FdIds, error : BOOLEAN]]
    <2>1. \A x, S : (x \in S) \in BOOLEAN
        OBVIOUS
    <2>2. \A c \in ready :
            [fd |-> fdOf[c], error |-> peer[c] \in {"pipe", "reset"}] \in [fd : FdIds, error : BOOLEAN]
        BY <1>1, <2>1, ZenonT(60)
    <2>3. {[fd |-> fdOf[c], error |-> peer[c] \in {"pipe", "reset"}] : c \in ready}
            \in SUBSET [fd : FdIds, error : BOOLEAN]
        BY <2>2, Zenon
    <2> QED
        BY <2>3, Zenon DEF TypeOK, PollTypes
<1>3. edge' \in [Clients -> BOOLEAN]
    BY Zenon
<1>4. KernelTypes'
    BY <1>3 DEF TypeOK, KernelTypes, Wait
<1>5. PollTypes'
    <2>1. /\ at' \in [WorkerIds -> {"top", "pending", "wait", "events", "recv", "package", "drop", "tick",
                                    "cleanup", "stopped"}]
          /\ \A v \in WorkerIds : HoldsMutex(v)' => HoldsMutex(v)
        BY DEF TypeOK, PollTypes, Wait, Goto, HoldsMutex
    <2> QED
        BY <1>2, <2>1 DEF TypeOK, PollTypes, Wait
<1> QED
    BY <1>4, <1>5, TypesKept DEF TypeOK, Wait

LEMMA HandleEventTypes == ASSUME TypeOK, NEW w \in WorkerIds, HandleEvent(w) PROVE TypeOK'
<1> PICK e \in events[w] :
        /\ events' = [events EXCEPT ![w] = @ \ {e}]
        /\ current' = [current EXCEPT ![w] = sessions[w][e.fd]]
        /\ Goto(w, CASE sessions[w][e.fd] = Nobody -> "events"
                     [] sessions[w][e.fd] # Nobody /\ e.error -> "drop"
                     [] OTHER -> "recv")
    BY DEF HandleEvent
<1>1. e.fd \in FdIds /\ sessions[w][e.fd] \in Clients \cup {Nobody}
    BY DEF TypeOK, PollTypes
<1>2. /\ at' \in [WorkerIds -> {"top", "pending", "wait", "events", "recv", "package", "drop", "tick",
                                "cleanup", "stopped"}]
      /\ at'[w] \in {"recv", "package", "drop"} => sessions[w][e.fd] # Nobody
      /\ \A v \in WorkerIds : v # w => at'[v] = at[v]
    BY DEF TypeOK, PollTypes, Goto
<1>3. current' \in [WorkerIds -> Clients \cup {Nobody}]
    BY <1>1 DEF TypeOK, PollTypes
<1>4. \A v \in WorkerIds : HoldsMutex(v)' => current'[v] # Nobody
    BY <1>1, <1>2, <1>3 DEF TypeOK, PollTypes, HoldsMutex
<1>5. events' \in [WorkerIds -> SUBSET [fd : FdIds, error : BOOLEAN]]
    BY DEF TypeOK, PollTypes
<1>6. PollTypes'
    BY <1>2, <1>3, <1>4, <1>5 DEF TypeOK, PollTypes, HandleEvent
<1> QED
    BY <1>6, TypesKept DEF TypeOK, HandleEvent

LEMMA RecvTypes == ASSUME TypeOK, NEW w \in WorkerIds, Recv(w) PROVE TypeOK'
<1> PICK s : s = current[w]
    OBVIOUS
<1>1. s \in Clients
    BY DEF Recv, WorkerAt, TypeOK, PollTypes, HoldsMutex
<1> PICK n \in 1..Len(wire[s]) :
        /\ buf' = [buf EXCEPT ![s] = SubSeq(wire[s], 1, n)]
        /\ wire' = [wire EXCEPT ![s] = SubSeq(@, n + 1, Len(@))]
    BY DEF Recv
<1>2. wire[s] \in Seq(Kinds \X Nat)
    BY <1>1 DEF TypeOK, KernelTypes
<1>3. SubSeq(wire[s], 1, n) \in Seq(Kinds \X Nat) /\ SubSeq(wire[s], n + 1, Len(wire[s])) \in Seq(Kinds \X Nat)
    BY <1>2
<1>4. KernelTypes'
    <2>1. wire' \in [Clients -> Seq(Kinds \X Nat)]
        BY <1>1, <1>3 DEF TypeOK, KernelTypes
    <2> QED
        BY <2>1 DEF TypeOK, KernelTypes, Recv
<1>5. SessionTypes'
    <2>1. buf' \in [Clients -> Seq(Kinds \X Nat)]
        BY <1>1, <1>3 DEF TypeOK, SessionTypes
    <2> QED
        BY <2>1 DEF TypeOK, SessionTypes, Recv
<1>6. PollTypes'
    BY GotoTypes DEF Recv, WorkerAt, HoldsMutex
<1> QED
    BY <1>4, <1>5, <1>6, TypesKept DEF TypeOK, Recv

(* The steps that read a package or resume a timer: their types, variable  *)
(* by variable.                                                            *)
ServedTypes ==
    /\ owner \in [FdIds -> Clients \cup {Nobody}]
    /\ peer \in [Clients -> {"new", "open", "fin", "pipe", "reset"}]
    /\ inbox \in [Clients -> Seq(Clients \X Nat)]
    /\ stream \in [Clients -> {"whole", "cut", "garbled"}] /\ killed \in BOOLEAN
    /\ up \in [Clients -> BOOLEAN] /\ timerOf \in [Clients -> Nat]
    /\ removed \in [WorkerIds -> SUBSET Nat]

ServeVars == <<threadVars, wire, edge, pollVars, fdOf, historyVars>>

LEMMA ServedTypesKept ==
    ASSUME TypeOK, UNCHANGED <<owner, peer, inbox, stream, killed, up, timerOf, removed>>
    PROVE  ServedTypes'
BY DEF TypeOK, KernelTypes, SessionTypes, TimerTypes, ServedTypes

LEMMA CloseServed ==
    ASSUME TypeOK, NEW w \in WorkerIds, NEW s \in Clients, CloseSession(w, s),
           UNCHANGED <<peer, inbox, stream, killed>>
    PROVE  ServedTypes'
<1>1. /\ owner' \in [FdIds -> Clients \cup {Nobody}] /\ up' \in [Clients -> BOOLEAN]
      /\ removed' \in [WorkerIds -> SUBSET Nat] /\ timerOf' \in [Clients -> Nat]
    BY CloseEffect
<1> QED
    BY <1>1 DEF TypeOK, KernelTypes, ServedTypes

LEMMA SendServed ==
    ASSUME TypeOK, NEW w \in WorkerIds, NEW s \in Clients, NEW what \in Nat, Send(w, s, what)
    PROVE  ServedTypes'
<1>1. /\ peer' \in [Clients -> {"new", "open", "fin", "pipe", "reset"}]
      /\ stream' \in [Clients -> {"whole", "cut", "garbled"}] /\ killed' \in BOOLEAN
    BY SendEffect
<1> QED
    BY <1>1, SendTypes DEF ServedTypes

LEMMA ServeTypes ==
    ASSUME TypeOK, ServedTypes', UNCHANGED ServeVars,
           state' \in [Clients -> {"Inited", "WaitAck", "Working", "Closed"}],
           buf' \in [Clients -> Seq(Kinds \X Nat)],
           timers' \in [WorkerIds -> SUBSET (Nat \X Clients)],
           todo' \in [WorkerIds -> SUBSET (Nat \X Clients)],
           nextId' \in [WorkerIds -> Nat \ {0}], dangling' \in BOOLEAN
    PROVE  TypeOK'
<1>1. KernelTypes'
    BY DEF TypeOK, KernelTypes, ServedTypes, ServeVars
<1>2. TimerTypes'
    BY DEF TimerTypes, ServedTypes
<1>3. SessionTypes'
    BY DEF TypeOK, SessionTypes, ServedTypes, ServeVars
<1> QED
    BY <1>1, <1>2, <1>3, TypesKept DEF TypeOK, ServeVars

LEMMA PackageTypes ==
    ASSUME TypeOK, NEW w \in WorkerIds,
           HandleHandshake(w) \/ HandleHandshakeAck(w) \/ HandleAndAnswer(w) \/ HandleKick(w)
    PROVE  TypeOK'
<1> DEFINE s == current[w]
<1>1. /\ \E kinds : Package(w, kinds)
      /\ UNCHANGED <<ServeVars, todo, dangling>>
    BY DEF HandleHandshake, HandleHandshakeAck, HandleAndAnswer, HandleKick, Package, ServeVars
<1>2. s \in Clients
    BY <1>1 DEF Package, WorkerAt, TypeOK, PollTypes, HoldsMutex
<1>3. buf[s] \in Seq(Kinds \X Nat) /\ buf[s] # <<>>
    BY <1>1, <1>2 DEF Package, TypeOK, SessionTypes
<1>4. buf' \in [Clients -> Seq(Kinds \X Nat)]
    <2>1. Tail(buf[s]) \in Seq(Kinds \X Nat)
        BY <1>3
    <2> QED
        BY <1>1, <2>1 DEF Package, TypeOK, SessionTypes
<1>5. Head(buf[s]) \in Kinds \X Nat
    BY <1>3
<1>6. Head(buf[s])[2] \in Nat
    BY <1>5
<1>7. state' \in [Clients -> {"Inited", "WaitAck", "Working", "Closed"}]
    <2>1. \E x \in {"WaitAck", "Working", "Closed", state[s]} : state' = [state EXCEPT ![s] = x]
        BY DEF HandleHandshake, HandleHandshakeAck, HandleAndAnswer, HandleKick, ClosedState
    <2> QED
        BY <1>2, <2>1 DEF TypeOK, SessionTypes
<1>8. todo' \in [WorkerIds -> SUBSET (Nat \X Clients)] /\ dangling' \in BOOLEAN
    BY <1>1 DEF TypeOK, TimerTypes
<1>9. timers \in [WorkerIds -> SUBSET (Nat \X Clients)] /\ nextId \in [WorkerIds -> Nat \ {0}]
    BY DEF TypeOK, TimerTypes
<1>10. CASE HandleHandshakeAck(w)
    <2>1. timers' = timers \/ timers' = [timers EXCEPT ![w] = @ \cup {<<nextId[w], s>>}]
        BY <1>10 DEF HandleHandshakeAck, AddTimerTask
    <2>2. <<nextId[w], s>> \in Nat \X Clients
        BY <1>2, <1>9
    <2>3. timers' \in [WorkerIds -> SUBSET (Nat \X Clients)]
        BY <1>9, <2>1, <2>2
    <2>4. timerOf' \in [Clients -> Nat] /\ nextId' \in [WorkerIds -> Nat \ {0}]
        <3>1. timerOf' = [timerOf EXCEPT ![s] = nextId[w]] /\ nextId' = [nextId EXCEPT ![w] = @ + 1]
            BY <1>10 DEF HandleHandshakeAck, AddTimerTask
        <3>2. nextId[w] \in Nat /\ nextId[w] + 1 \in Nat \ {0}
            BY <1>9
        <3>3. timerOf' \in [Clients -> Nat]
            BY <1>2, <3>1, <3>2 DEF TypeOK, SessionTypes
        <3>4. nextId' \in [WorkerIds -> Nat \ {0}]
            BY <1>9, <3>1, <3>2
        <3> QED
            BY <3>3, <3>4
    <2>5. ServedTypes'
        BY <1>10, <2>4 DEF HandleHandshakeAck, TypeOK, KernelTypes, SessionTypes, TimerTypes, ServedTypes
    <2> QED
        BY <1>1, <1>4, <1>7, <1>8, <2>3, <2>4, <2>5, ServeTypes
<1>11. ASSUME HandleHandshake(w) \/ HandleAndAnswer(w) \/ HandleKick(w) PROVE TypeOK'
    <2>1. UNCHANGED <<timers, nextId>>
        BY <1>11 DEF HandleHandshake, HandleAndAnswer, HandleKick
    <2>2. CASE HandleKick(w)
        <3>1. ServedTypes'
            BY <1>2, <2>2, CloseServed DEF HandleKick
        <3> QED
            BY <1>1, <1>4, <1>7, <1>8, <1>9, <2>1, <3>1, ServeTypes
    <2>3. CASE HandleHandshake(w) \/ HandleAndAnswer(w)
        <3>1. ServedTypes'
            BY <1>2, <1>6, <2>3, SendServed DEF HandleHandshake, HandleAndAnswer
        <3> QED
            BY <1>1, <1>4, <1>7, <1>8, <1>9, <2>1, <3>1, ServeTypes
    <2> QED
        BY <1>11, <2>2, <2>3
<1> QED
    BY <1>10, <1>11

LEMMA TimerStepTypes ==
    ASSUME TypeOK, NEW w \in WorkerIds, NEW t \in todo[w],
           TimerRemoved(w, t) \/ BeatReturns(w, t) \/ BeatTimeout(w, t) \/ BeatSends(w, t) \/ BeatDangles(w, t)
    PROVE  TypeOK'
<1> DEFINE s == t[2]
<1>1. Due(w, t)
    BY DEF TimerRemoved, BeatReturns, BeatTimeout, BeatSends, BeatDangles
<1>2. t \in Nat \X Clients
    BY DEF TypeOK, TimerTypes
<1>3. s \in Clients /\ t[1] \in Nat
    BY <1>2
<1>4. UNCHANGED ServeVars
    BY <1>1 DEF Due, ServeVars
<1>5. /\ buf' \in [Clients -> Seq(Kinds \X Nat)] /\ nextId' \in [WorkerIds -> Nat \ {0}]
      /\ todo' \in [WorkerIds -> SUBSET (Nat \X Clients)]
    BY <1>1 DEF Due, TypeOK, SessionTypes, TimerTypes
<1>6. timers' \in [WorkerIds -> SUBSET (Nat \X Clients)]
    <2>1. timers' = timers \/ timers' = [timers EXCEPT ![w] = @ \ {t}]
        BY DEF TimerRemoved, BeatReturns, BeatTimeout, BeatSends, BeatDangles
    <2> QED
        BY <2>1 DEF TypeOK, TimerTypes
<1>7. dangling' \in BOOLEAN
    <2>1. dangling' = dangling \/ dangling' = TRUE
        BY DEF TimerRemoved, BeatReturns, BeatTimeout, BeatSends, BeatDangles
    <2> QED
        BY <2>1, Zenon DEF TypeOK, TimerTypes
<1>8. state' \in [Clients -> {"Inited", "WaitAck", "Working", "Closed"}]
    <2>1. state' = state \/ \E x \in {"Closed", state[s]} : state' = [state EXCEPT ![s] = x]
        BY DEF TimerRemoved, BeatReturns, BeatTimeout, BeatSends, BeatDangles, ClosedState
    <2> QED
        BY <1>3, <2>1 DEF TypeOK, SessionTypes
<1>9. ServedTypes'
    <2>1. CASE TimerRemoved(w, t)
        <3>1. removed' \in [WorkerIds -> SUBSET Nat]
            BY <2>1 DEF TimerRemoved, TypeOK, TimerTypes
        <3>2. UNCHANGED <<owner, peer, inbox, stream, killed, up, timerOf>>
            BY <2>1 DEF TimerRemoved
        <3> QED
            BY <3>1, <3>2 DEF TypeOK, KernelTypes, SessionTypes, ServedTypes
    <2>2. CASE BeatReturns(w, t) \/ BeatDangles(w, t)
        BY <2>2, ServedTypesKept DEF BeatReturns, BeatDangles
    <2>3. CASE BeatTimeout(w, t)
        BY <1>3, <2>3, CloseServed DEF BeatTimeout
    <2>4. CASE BeatSends(w, t)
        BY <1>3, <2>4, SendServed DEF BeatSends
    <2> QED
        BY <2>1, <2>2, <2>3, <2>4
<1> QED
    BY <1>4, <1>5, <1>6, <1>7, <1>8, <1>9, ServeTypes

LEMMA TickStartsTypes == ASSUME TypeOK, NEW w \in WorkerIds, TickStarts(w) PROVE TypeOK'
<1>1. todo' \in [WorkerIds -> SUBSET (Nat \X Clients)]
    BY DEF TickStarts, TypeOK, TimerTypes
<1>2. TimerTypes'
    BY <1>1 DEF TickStarts, TypeOK, TimerTypes
<1>3. PollTypes'
    BY GotoTypes DEF TickStarts
<1> QED
    BY <1>2, <1>3, TypesKept DEF TypeOK, TickStarts

LEMMA UnfileTypes ==
    ASSUME TypeOK, NEW w, NEW f, sessions' = [sessions EXCEPT ![w][f] = Nobody],
           UNCHANGED <<at, events, current>>
    PROVE  PollTypes'
<1>1. sessions \in [WorkerIds -> [FdIds -> Clients \cup {Nobody}]]
    BY DEF TypeOK, PollTypes
<1>2. w \in WorkerIds => [sessions[w] EXCEPT ![f] = Nobody] \in [FdIds -> Clients \cup {Nobody}]
    BY <1>1
<1>3. sessions' \in [WorkerIds -> [FdIds -> Clients \cup {Nobody}]]
    BY <1>1, <1>2, Zenon
<1> QED
    BY <1>3 DEF TypeOK, PollTypes, HoldsMutex

LEMMA DropTypes == ASSUME TypeOK, NEW w \in WorkerIds, Drop(w) PROVE TypeOK'
<1> PICK s : s = current[w]
    OBVIOUS
<1>1. s \in Clients
    BY DEF Drop, WorkerAt, TypeOK, PollTypes, HoldsMutex
<1>2. ServedTypes'
    BY <1>1, CloseServed DEF Drop
<1>3. KernelTypes'
    BY <1>2 DEF Drop, TypeOK, KernelTypes, ServedTypes
<1>4. TimerTypes'
    BY <1>2 DEF Drop, TypeOK, TimerTypes, ServedTypes
<1>5. SessionTypes'
    <2>1. \E x \in {"Closed", state[s]} : state' = [state EXCEPT ![s] = x]
        BY DEF Drop
    <2>2. state' \in [Clients -> {"Inited", "WaitAck", "Working", "Closed"}]
        BY <1>1, <2>1 DEF TypeOK, SessionTypes
    <2> QED
        BY <1>2, <2>2 DEF Drop, TypeOK, SessionTypes, ServedTypes
<1>6. PollTypes'
    <2>1. sessions' \in [WorkerIds -> [FdIds -> Clients \cup {Nobody}]]
        <3>1. sessions \in [WorkerIds -> [FdIds -> Clients \cup {Nobody}]]
            BY DEF TypeOK, PollTypes
        <3>2. [sessions[w] EXCEPT ![fdOf[s]] = Nobody] \in [FdIds -> Clients \cup {Nobody}]
            BY <3>1
        <3>3. sessions' = [sessions EXCEPT ![w][fdOf[s]] = Nobody]
            BY DEF Drop
        <3> QED
            BY <3>1, <3>2, <3>3, Zenon
    <2>2. /\ at' \in [WorkerIds -> {"top", "pending", "wait", "events", "recv", "package", "drop", "tick",
                                    "cleanup", "stopped"}]
          /\ \A v \in WorkerIds : HoldsMutex(v)' => HoldsMutex(v)
        BY DEF TypeOK, PollTypes, Drop, Goto, HoldsMutex
    <2> QED
        BY <2>1, <2>2 DEF Drop, TypeOK, PollTypes
<1> QED
    BY <1>3, <1>4, <1>5, <1>6, TypesKept DEF TypeOK, Drop

LEMMA CleanupTypes == ASSUME TypeOK, NEW w \in WorkerIds, Cleanup(w) PROVE TypeOK'
<1> PICK f, s :
        /\ f \in FdIds
        /\ s = sessions[w][f] /\ s # Nobody
        /\ owner' = [owner EXCEPT ![f] = Nobody]
        /\ up' = [up EXCEPT ![s] = FALSE]
        /\ state' = [state EXCEPT ![s] = IF up[s] THEN "Closed" ELSE @]
        /\ removed' = [removed EXCEPT ![w] = IF up[s] /\ timerOf[s] # 0 THEN @ \cup {timerOf[s]} ELSE @]
        /\ timerOf' = [timerOf EXCEPT ![s] = IF up[s] THEN 0 ELSE @]
        /\ sessions' = [sessions EXCEPT ![w][f] = Nobody]
    BY DEF Cleanup
<1>1. s \in Clients
    BY DEF TypeOK, PollTypes
<1>2. KernelTypes'
    BY DEF Cleanup, TypeOK, KernelTypes
<1>3. TimerTypes'
    <2>1. timerOf[s] \in Nat /\ removed \in [WorkerIds -> SUBSET Nat]
        BY <1>1 DEF TypeOK, SessionTypes, TimerTypes
    <2>2. removed' \in [WorkerIds -> SUBSET Nat]
        BY <2>1
    <2> QED
        BY <2>2 DEF Cleanup, TypeOK, TimerTypes
<1>4. SessionTypes'
    <2>1. state' \in [Clients -> {"Inited", "WaitAck", "Working", "Closed"}]
        BY <1>1 DEF TypeOK, SessionTypes
    <2>2. timerOf' \in [Clients -> Nat]
        BY <1>1 DEF TypeOK, SessionTypes
    <2>3. up' \in [Clients -> BOOLEAN]
        BY <1>1 DEF TypeOK, SessionTypes
    <2> QED
        BY <2>1, <2>2, <2>3 DEF Cleanup, TypeOK, SessionTypes
<1>5. PollTypes'
    BY UnfileTypes DEF Cleanup
<1> QED
    BY <1>2, <1>3, <1>4, <1>5, TypesKept DEF TypeOK, Cleanup

LEMMA NextTypes == ASSUME TypeOK, Handed, Filed, [Next]_vars PROVE TypeOK'
<1>1. CASE UNCHANGED vars
    BY <1>1, TypesKept DEF TypeOK, vars
<1>2. ASSUME NEW w \in WorkerIds, Worker(w) PROVE TypeOK'
    <2>1. CASE Loop(w) \/ Adopted(w) \/ RecvEnds(w) \/ Drained(w) \/ TickEnds(w) \/ Stop(w)
        BY <2>1, LoopTypes
    <2>2. CASE Adopt(w) \/ Wait(w) \/ HandleEvent(w) \/ Recv(w)
        BY <2>2, AdoptTypes, WaitTypes, HandleEventTypes, RecvTypes
    <2>3. CASE HandleHandshake(w) \/ HandleHandshakeAck(w) \/ HandleAndAnswer(w) \/ HandleKick(w)
        BY <2>3, PackageTypes
    <2>4. CASE Drop(w) \/ TickStarts(w) \/ Cleanup(w)
        BY <2>4, DropTypes, TickStartsTypes, CleanupTypes
    <2>5. ASSUME NEW t \in todo[w], \/ TimerRemoved(w, t) \/ BeatReturns(w, t) \/ BeatTimeout(w, t)
                                    \/ BeatSends(w, t) \/ BeatDangles(w, t)
          PROVE  TypeOK'
        BY <2>5, TimerStepTypes
    <2> QED
        BY <1>2, <2>1, <2>2, <2>3, <2>4, <2>5 DEF Worker
<1> QED
    BY <1>1, <1>2, ClientTypes, MainTypes DEF Next

-----------------------------------------------------------------------------
(* Where the connections are *)

PlaceVars == <<running, hand, pending, fdOf>>

(* A step that moves no connection. *)
LEMMA QuietPlaced ==
    ASSUME TypeOK, Placed, UNCHANGED <<PlaceVars, backlog, owner, sessions, up>>,
           mainAt' = mainAt \/ (mainAt # "enqueue" /\ mainAt' # "enqueue"),
           \A c \in Clients : peer'[c] = "new" => peer[c] = "new",
           Reading'
    PROVE  Placed'
<1> USE DEF PlaceVars, OnTheWay, InQueue, Placed
<1>1. Handed'
    BY DEF Handed
<1>2. Queued'
    BY DEF Queued
<1>3. Filed' /\ Served' /\ NotServed' /\ Housed'
    BY DEF Filed, Served, NotServed, Housed
<1>4. Fresh'
    BY DEF Fresh, InBacklog, NoSession
<1> QED
    BY <1>1, <1>2, <1>3, <1>4

(* The worker that files a session under a descriptor knows it. *)
LEMMA ExistsFiled ==
    ASSUME TypeOK, Filed, NEW w \in WorkerIds, NEW s \in Clients, Exists(w, s)
    PROVE  fdOf[s] \in FdIds /\ sessions[w][fdOf[s]] = s
BY CountsAssumption DEF Exists, Filed

LEMMA ReadingKept ==
    ASSUME Reading, UNCHANGED sessions,
           \A w \in WorkerIds : HoldsMutex(w)' => HoldsMutex(w) /\ current'[w] = current[w]
    PROVE  Reading'
BY DEF Reading, Exists

(* A worker closes one of its sessions and may forget it. *)
LEMMA ClosingPlaced ==
    ASSUME TypeOK, Placed, NEW w \in WorkerIds, NEW s \in Clients, Exists(w, s),
           UNCHANGED <<PlaceVars, backlog, mainAt>>,
           \A c \in Clients : peer'[c] = "new" => peer[c] = "new",
           up' = [up EXCEPT ![s] = FALSE],
           owner' = owner \/ owner' = [owner EXCEPT ![fdOf[s]] = Nobody],
           running => owner' = IF up[s] THEN [owner EXCEPT ![fdOf[s]] = Nobody] ELSE owner,
           sessions' = sessions \/ sessions' = [sessions EXCEPT ![w][fdOf[s]] = Nobody],
           \A v \in WorkerIds : HoldsMutex(v)' => HoldsMutex(v) /\ current'[v] = current[v],
           HoldsMutex(w)' => sessions' = sessions
    PROVE  Placed'
<1> USE DEF PlaceVars, OnTheWay, InQueue
<1>0. /\ TypeOK /\ Handed /\ Queued /\ Filed /\ Served /\ NotServed /\ Housed /\ Fresh /\ Reading
      /\ fdOf[s] \in FdIds /\ sessions[w][fdOf[s]] = s /\ s # Nobody
    BY ExistsFiled, CountsAssumption DEF Placed
<1>1. \A f \in FdIds : owner'[f] = owner[f] \/ owner'[f] = Nobody
    BY DEF TypeOK, KernelTypes
<1>2. \A c \in Clients : up'[c] => up[c] /\ c # s
    BY DEF TypeOK, SessionTypes
<1>3. \A v \in WorkerIds, f \in FdIds :
        sessions'[v][f] = sessions[v][f] \/ (v = w /\ f = fdOf[s] /\ sessions'[v][f] = Nobody)
    BY DEF TypeOK, PollTypes
<1>4. /\ \A f \in FdIds : sessions[w][f] \in Clients \cup {Nobody}
      /\ \A v \in WorkerIds, f \in FdIds : sessions[v][f] \in Clients \cup {Nobody}
      /\ \A f \in FdIds : owner[f] \in Clients \cup {Nobody}
    BY DEF TypeOK, PollTypes, KernelTypes
<1>5. ASSUME running, NEW f \in FdIds, owner'[f] # owner[f] PROVE up[s] /\ f = fdOf[s] /\ ~OnTheWay(f)
    <2>1. up[s] /\ f = fdOf[s]
        BY <1>5 DEF TypeOK, KernelTypes
    <2> QED
        BY <1>0, <2>1 DEF NotServed
<1>6. Handed'
    <2>1. running /\ hand # 0 => hand \in FdIds /\ owner[hand] # Nobody
        BY <1>0 DEF Handed, TypeOK, ThreadTypes, FdIds
    <2>2. running /\ hand # 0 => owner'[hand] = owner[hand]
        BY <1>5, <2>1
    <2> QED
        BY <1>0, <2>1, <2>2 DEF Handed
<1>7. Queued'
    <2>1. running => \A v \in WorkerIds, f \in FdIds : InQueue(v, f) => owner'[f] # Nobody
        BY <1>0, <1>5 DEF Queued
    <2> QED
        BY <1>0, <2>1 DEF Queued
<1>8. Filed'
    BY <1>0, <1>3 DEF Filed
<1>9. Served'
    <2> SUFFICES ASSUME running, NEW v \in WorkerIds, NEW f \in FdIds,
                        sessions'[v][f] # Nobody, up'[sessions'[v][f]]
                 PROVE  owner'[f] = sessions'[v][f]
        BY DEF Served
    <2>1. sessions'[v][f] = sessions[v][f] /\ sessions[v][f] \in Clients
        BY <1>3, <1>4
    <2>2. up[sessions[v][f]] /\ sessions[v][f] # s
        BY <1>2, <2>1
    <2>3. owner[f] = sessions[v][f]
        BY <1>0, <2>1, <2>2 DEF Served
    <2>4. up[s] => owner[fdOf[s]] = s
        BY <1>0 DEF Served
    <2> QED
        BY <1>5, <2>1, <2>2, <2>3, <2>4
<1>10. NotServed'
    BY <1>0, <1>2, <1>3, <1>4 DEF NotServed
<1>11. Housed'
    <2> SUFFICES ASSUME running, NEW f \in FdIds, owner'[f] # Nobody, ~OnTheWay(f)
                 PROVE  \E v \in WorkerIds : sessions'[v][f] = owner'[f] /\ up'[owner'[f]]
        BY DEF Housed
    <2>1. owner'[f] = owner[f] /\ owner[f] \in Clients
        BY <1>1, <1>4
    <2> PICK v \in WorkerIds : sessions[v][f] = owner[f] /\ up[owner[f]]
        BY <1>0, <2>1 DEF Housed
    <2>2. owner[f] # s
        <3> SUFFICES ASSUME owner[f] = s PROVE FALSE
            OBVIOUS
        <3>1. f = fdOf[s] /\ up[s]
            BY <1>0 DEF Filed
        <3>2. owner'[f] = Nobody
            BY <3>1 DEF TypeOK, KernelTypes
        <3> QED
            BY <3>2
    <2>3. up'[owner[f]]
        BY <2>1, <2>2 DEF TypeOK, SessionTypes
    <2>4. sessions'[v][f] = sessions[v][f]
        BY <1>0, <1>3, <2>2
    <2> QED
        BY <2>1, <2>3, <2>4
<1>12. Fresh'
    <2>1. \A c \in Clients : NoSession(c) => NoSession(c)'
        BY <1>3, CountsAssumption DEF NoSession
    <2>2. \A c \in Clients : (peer[c] = "new" \/ InBacklog(c))' => peer[c] = "new" \/ InBacklog(c)
        BY DEF InBacklog
    <2>3. \A c \in Clients : (peer[c] = "new" \/ InBacklog(c))' =>
            (NoSession(c) /\ ~up[c] /\ \A f \in FdIds : owner[f] # c)'
        BY <1>0, <1>1, <1>2, <2>1, <2>2, CountsAssumption DEF Fresh
    <2>4. \A c \in Clients : peer'[c] = "new" => ~InBacklog(c)'
        BY <1>0 DEF Fresh, InBacklog
    <2>5. \A f \in FdIds : OnTheWay(f)' /\ owner'[f] # Nobody => NoSession(owner[f])' /\ ~up'[owner'[f]]
        BY <1>0, <1>1, <1>2, <1>4, <2>1 DEF Fresh
    <2>6. \A f, g \in FdIds : owner'[f] = owner'[g] /\ owner'[f] # Nobody => f = g
        BY <1>0, <1>1 DEF Fresh
    <2>7. \A f \in FdIds : OnTheWay(f)' /\ owner'[f] # Nobody => NoSession(owner[f])' /\ ~up'[owner'[f]]
        BY <1>1, <2>5
    <2> QED
        BY <1>0, <2>3, <2>4, <2>6, <2>7 DEF Fresh
<1>13. Reading'
    <2> SUFFICES ASSUME NEW v \in WorkerIds, HoldsMutex(v)' PROVE Exists(v, current[v])'
        BY DEF Reading
    <2>1. Exists(v, current[v]) /\ current'[v] = current[v] /\ \A f \in FdIds : sessions'[v][f] = sessions[v][f]
        BY <1>0, <1>3 DEF Reading
    <2> QED
        BY <2>1 DEF Exists
<1> QED
    BY <1>6, <1>7, <1>8, <1>9, <1>10, <1>11, <1>12, <1>13 DEF Placed

LEMMA ConnectPlaced == ASSUME TypeOK, Placed, NEW c \in Clients, ClientConnect(c) PROVE Placed'
<1> USE DEF Placed
<1>1. /\ UNCHANGED <<PlaceVars, mainAt, owner, sessions, up, at, current>> /\ peer[c] = "new"
      /\ peer' = [peer EXCEPT ![c] = "open"] /\ backlog' = Append(backlog, c)
    BY DEF ClientConnect, PlaceVars, pollVars, sessionVars
<1>2. Handed' /\ Queued' /\ Filed' /\ Served' /\ NotServed' /\ Housed' /\ Reading'
    BY <1>1 DEF PlaceVars, Handed, Queued, InQueue, OnTheWay, Filed, Served, NotServed, Housed, Reading,
                Exists, HoldsMutex
<1>3. Fresh'
    <2>1. /\ backlog \in Seq(Clients) /\ Len(backlog') = Len(backlog) + 1
          /\ \A i \in 1..Len(backlog) : backlog'[i] = backlog[i]
          /\ backlog'[Len(backlog) + 1] = c
        BY <1>1, AppendProperties DEF TypeOK, ThreadTypes
    <2>2. \A d \in Clients : InBacklog(d)' <=> InBacklog(d) \/ d = c
        BY <2>1 DEF InBacklog
    <2>3. \A d \in Clients : peer'[d] = "new" => peer[d] = "new" /\ d # c
        BY <1>1 DEF TypeOK, KernelTypes
    <2>4. \A d \in Clients : (peer[d] = "new" \/ InBacklog(d))' =>
            NoSession(d)' /\ ~up'[d] /\ \A f \in FdIds : owner'[f] # d
        BY <1>1, <2>2, <2>3 DEF Fresh, NoSession
    <2>5. \A d \in Clients : peer'[d] = "new" => ~InBacklog(d)'
        BY <2>2, <2>3 DEF Fresh
    <2>6. \A i, j \in 1..Len(backlog') : backlog'[i] = backlog'[j] => i = j
        <3>1. \A i \in 1..Len(backlog) : backlog[i] # c
            BY <1>1 DEF Fresh, InBacklog
        <3> QED
            BY <2>1, <3>1 DEF Fresh
    <2>7. /\ \A f \in FdIds : OnTheWay(f)' /\ owner'[f] # Nobody => NoSession(owner[f])' /\ ~up'[owner'[f]]
          /\ \A f, g \in FdIds : owner'[f] = owner'[g] /\ owner'[f] # Nobody => f = g
        BY <1>1 DEF Fresh, PlaceVars, OnTheWay, InQueue, NoSession
    <2> QED
        BY <1>1, <2>4, <2>5, <2>6, <2>7 DEF Fresh
<1> QED
    BY <1>2, <1>3

LEMMA SignalPlaced == ASSUME TypeOK, Placed, SignalHandler PROVE Placed'
<1> USE DEF Placed
<1>1. /\ UNCHANGED <<hand, pending, mainAt, owner, sessions, up, fdOf, at, current, peer>>
      /\ running' = FALSE /\ backlog' = <<>>
    BY DEF SignalHandler, kernelVars, pollVars, sessionVars
<1>2. Handed' /\ Queued' /\ Filed' /\ Served' /\ NotServed' /\ Housed' /\ Reading'
    BY <1>1 DEF Handed, Queued, InQueue, OnTheWay, Filed, Served, NotServed, Housed, Reading,
                Exists, HoldsMutex
<1>3. Fresh'
    BY <1>1 DEF Fresh, InBacklog, OnTheWay, InQueue, NoSession
<1> QED
    BY <1>2, <1>3

LEMMA AcceptPlaced == ASSUME TypeOK, Placed, Accept PROVE Placed'
<1> USE DEF Placed
<1> PICK f \in FdIds : /\ owner[f] = Nobody
                       /\ owner' = [owner EXCEPT ![f] = Head(backlog)]
                       /\ hand' = f
    BY DEF Accept
<1> DEFINE c == Head(backlog)
<1>1. /\ UNCHANGED <<running, pending, fdOf, sessions, up, at, current, peer>>
      /\ running /\ mainAt # "enqueue" /\ mainAt' = "enqueue" /\ backlog' = Tail(backlog) /\ backlog # <<>>
    BY DEF Accept, pollVars, sessionVars
<1>2. /\ f # 0 /\ c \in Clients /\ c # Nobody /\ c = backlog[1] /\ InBacklog(c) /\ hand = 0
      /\ Len(backlog') = Len(backlog) - 1 /\ \A i \in 1..Len(backlog') : backlog'[i] = backlog[i + 1]
      /\ Len(backlog) \in Nat \ {0}
    BY <1>1, CountsAssumption DEF TypeOK, ThreadTypes, FdIds, InBacklog, Handed
<1>3. \A g \in FdIds : owner'[g] = IF g = f THEN c ELSE owner[g]
    BY DEF TypeOK, KernelTypes
<1>4. \A w \in WorkerIds : \A g : InQueue(w, g)' <=> InQueue(w, g)
    BY <1>1 DEF InQueue
<1>5. \A g \in FdIds : OnTheWay(g)' <=> OnTheWay(g) \/ g = f
    BY <1>2, <1>4 DEF OnTheWay, FdIds
<1>6. \A w \in WorkerIds : ~InQueue(w, f)
    BY <1>1 DEF Queued
<1>7. \A d \in Clients : InBacklog(d)' => InBacklog(d) /\ d # c
    BY <1>2 DEF InBacklog, Fresh
<1>8. NoSession(c) /\ ~up[c] /\ (\A g \in FdIds : owner[g] # c)
    BY <1>2 DEF Fresh
<1>9. Handed'
    BY <1>1, <1>2, <1>3 DEF Handed
<1>10. Queued'
    <2>1. \A w \in WorkerIds, g \in FdIds : InQueue(w, g)' => owner'[g] # Nobody
        BY <1>1, <1>2, <1>3, <1>4 DEF Queued
    <2> QED
        BY <1>1, <1>4, <1>6, <2>1 DEF Queued
<1>11. Filed' /\ Reading'
    BY <1>1 DEF Filed, Reading, Exists, HoldsMutex
<1>12. \A w \in WorkerIds : sessions[w][f] # Nobody => ~up[sessions[w][f]]
    BY <1>1 DEF Served
<1>13. Served'
    BY <1>1, <1>3, <1>12 DEF Served
<1>14. NotServed'
    BY <1>1, <1>5, <1>12 DEF NotServed
<1>15. Housed'
    BY <1>1, <1>3, <1>5 DEF Housed
<1>16. Fresh'
    <2>1. \A d \in Clients : NoSession(d)' <=> NoSession(d)
        BY <1>1 DEF NoSession
    <2>2. \A d \in Clients : (peer[d] = "new" \/ InBacklog(d))' => (peer[d] = "new" \/ InBacklog(d)) /\ d # c
        BY <1>1, <1>2, <1>7 DEF Fresh
    <2>3. \A d \in Clients : (peer[d] = "new" \/ InBacklog(d))' =>
            NoSession(d)' /\ ~up'[d] /\ \A g \in FdIds : owner'[g] # d
        BY <1>1, <1>3, <2>1, <2>2 DEF Fresh
    <2>4. \A d \in Clients : peer'[d] = "new" => ~InBacklog(d)'
        BY <1>1, <1>7 DEF Fresh
    <2>5. \A i, j \in 1..Len(backlog') : backlog'[i] = backlog'[j] => i = j
        <3> SUFFICES ASSUME NEW i \in 1..Len(backlog'), NEW j \in 1..Len(backlog'), backlog'[i] = backlog'[j]
                     PROVE  i = j
            OBVIOUS
        <3>1. i + 1 \in 1..Len(backlog) /\ j + 1 \in 1..Len(backlog) /\ backlog[i + 1] = backlog[j + 1]
            BY <1>2
        <3>2. i + 1 = j + 1
            BY <3>1 DEF Fresh
        <3> QED
            BY <3>2
    <2>6. \A g \in FdIds : OnTheWay(g)' /\ owner'[g] # Nobody => NoSession(owner[g])' /\ ~up'[owner'[g]]
        <3> SUFFICES ASSUME NEW g \in FdIds, OnTheWay(g)', owner'[g] # Nobody
                     PROVE  NoSession(owner[g])' /\ ~up'[owner'[g]]
            OBVIOUS
        <3>1. CASE g = f
            BY <1>1, <1>3, <1>8, <3>1 DEF NoSession
        <3>2. CASE g # f
            BY <1>1, <1>3, <1>5, <3>2 DEF NoSession, Fresh
        <3> QED
            BY <3>1, <3>2
    <2>7. \A g, h \in FdIds : owner'[g] = owner'[h] /\ owner'[g] # Nobody => g = h
        BY <1>3, <1>8 DEF Fresh
    <2> QED
        BY <2>3, <2>4, <2>5, <2>6, <2>7 DEF Fresh
<1> QED
    BY <1>9, <1>10, <1>11, <1>13, <1>14, <1>15, <1>16

LEMMA EnqueuePlaced == ASSUME TypeOK, Placed, Enqueue PROVE Placed'
<1> USE DEF Placed
<1> DEFINE n == nextWorker
           q == pending[n]
<1>1. /\ UNCHANGED <<running, fdOf, backlog, owner, sessions, up, at, current, peer>>
      /\ mainAt = "enqueue" /\ mainAt' = "poll" /\ hand' = 0
      /\ pending' = [pending EXCEPT ![n] = Append(@, hand)]
    BY DEF Enqueue, kernelVars, pollVars, sessionVars
<1>2. n \in WorkerIds /\ hand \in FdIds /\ 0 \notin FdIds /\ pending \in [WorkerIds -> Seq(FdIds)]
    BY <1>1 DEF TypeOK, ThreadTypes, Handed, FdIds
<1>3. /\ Len(pending'[n]) = Len(q) + 1 /\ pending'[n][Len(q) + 1] = hand
      /\ \A i \in 1..Len(q) : pending'[n][i] = q[i]
      /\ \A w \in WorkerIds \ {n} : pending'[w] = pending[w]
      /\ Len(q) \in Nat
    <2>1. pending'[n] = Append(q, hand) /\ \A w \in WorkerIds \ {n} : pending'[w] = pending[w]
        BY <1>1, <1>2
    <2>2. q \in Seq(FdIds)
        BY <1>2
    <2> QED
        BY <1>2, <2>1, <2>2, AppendProperties
<1>4. \A w \in WorkerIds : \A f : InQueue(w, f)' <=> InQueue(w, f) \/ (w = n /\ f = hand)
    BY <1>3, SMTT(40) DEF InQueue
<1>5. \A f \in FdIds : OnTheWay(f)' <=> OnTheWay(f)
    BY <1>1, <1>2, <1>4 DEF OnTheWay
<1>6. Handed'
    BY <1>1 DEF Handed
<1>7. Queued'
    <2>1. running' => \A w \in WorkerIds, f \in FdIds : InQueue(w, f)' => owner'[f] # Nobody
        BY <1>1, <1>2, <1>4 DEF Queued, Handed
    <2>2. \A w \in WorkerIds : ~InQueue(w, hand)'
        <3>1. \A w \in WorkerIds : \A i \in 1..Len(pending[w]) : pending[w][i] \in FdIds
            BY <1>2
        <3>2. \A w \in WorkerIds : ~InQueue(w, 0)
            BY <1>2, <3>1 DEF InQueue
        <3> QED
            BY <1>1, <1>2, <1>4, <3>2 DEF InQueue
    <2>3. ASSUME NEW v \in WorkerIds, NEW w \in WorkerIds, NEW i \in 1..Len(pending'[v]),
                 NEW j \in 1..Len(pending'[w]), pending'[v][i] = pending'[w][j]
          PROVE  v = w /\ i = j
        <3>1. \A u \in WorkerIds : \A k : k \in 1..Len(pending'[u]) =>
                \/ k \in 1..Len(pending[u]) /\ pending'[u][k] = pending[u][k] /\ pending[u][k] # hand
                \/ u = n /\ k = Len(q) + 1 /\ pending'[u][k] = hand
            <4>1. \A u \in WorkerIds : u # n => pending'[u] = pending[u]
                BY <1>3
            <4>2. \A u \in WorkerIds : \A k : k \in 1..Len(pending[u]) => pending[u][k] # hand
                BY DEF Queued, InQueue
            <4>3. \A k \in 1..Len(pending'[n]) : k \in 1..Len(q) \/ k = Len(q) + 1
                BY <1>3
            <4>4. \A k \in 1..Len(pending'[n]) :
                    (k \in 1..Len(q) /\ pending'[n][k] = q[k]) \/ (k = Len(q) + 1 /\ pending'[n][k] = hand)
                BY <1>3, <4>3
            <4> QED
                BY <1>2, <4>1, <4>2, <4>4
        <3>2. CASE pending'[v][i] = hand
            <4>1. v = n /\ i = Len(q) + 1
                BY <3>1, <3>2
            <4>2. w = n /\ j = Len(q) + 1
                BY <2>3, <3>1, <3>2
            <4> QED
                BY <4>1, <4>2
        <3>3. CASE pending'[v][i] # hand
            <4>1. /\ i \in 1..Len(pending[v]) /\ j \in 1..Len(pending[w])
                  /\ pending[v][i] = pending[w][j]
                BY <2>3, <3>1, <3>3
            <4> QED
                BY <4>1 DEF Queued
        <3> QED
            BY <3>2, <3>3
    <2> QED
        BY <2>1, <2>2, <2>3 DEF Queued
<1>8. Filed' /\ Reading' /\ Served'
    BY <1>1 DEF Filed, Reading, Exists, HoldsMutex, Served
<1>9. NotServed' /\ Housed'
    BY <1>1, <1>5 DEF NotServed, Housed
<1>10. Fresh'
    BY <1>1, <1>5 DEF Fresh, InBacklog, NoSession
<1> QED
    BY <1>6, <1>7, <1>8, <1>9, <1>10

LEMMA AdoptPlaced == ASSUME TypeOK, Placed, NEW w \in WorkerIds, Adopt(w) PROVE Placed'
<1> USE DEF Placed
<1> PICK f, c : /\ f = Head(pending[w]) /\ c = owner[f]
                /\ \/ /\ c # Nobody
                      /\ sessions' = [sessions EXCEPT ![w][f] = c]
                      /\ fdOf' = [fdOf EXCEPT ![c] = f]
                      /\ up' = [up EXCEPT ![c] = TRUE]
                      /\ UNCHANGED owner
                   \/ owner' = [owner EXCEPT ![f] = Nobody] /\ UNCHANGED <<sessions, fdOf, up>>
    BY DEF Adopt
<1> DEFINE q == pending[w]
<1>1. /\ UNCHANGED <<running, hand, mainAt, backlog, at, current, peer>>
      /\ at[w] = "pending" /\ q # <<>> /\ pending' = [pending EXCEPT ![w] = Tail(@)]
    BY DEF Adopt, WorkerAt
<1>2. /\ q \in Seq(FdIds) /\ f = q[1] /\ f \in FdIds /\ f # 0 /\ Len(q) \in Nat \ {0}
      /\ Len(pending'[w]) = Len(q) - 1 /\ \A i \in 1..Len(pending'[w]) : pending'[w][i] = q[i + 1]
      /\ \A v \in WorkerIds \ {w} : pending'[v] = pending[v]
    <2>1. q \in Seq(FdIds) /\ q # <<>>
        BY <1>1 DEF TypeOK, ThreadTypes
    <2>2. f = q[1] /\ f \in FdIds /\ Len(q) \in Nat \ {0}
        BY <2>1
    <2>3. pending'[w] = Tail(q) /\ \A v \in WorkerIds \ {w} : pending'[v] = pending[v]
        BY <1>1 DEF TypeOK, ThreadTypes
    <2> QED
        BY <2>1, <2>2, <2>3 DEF FdIds
<1>3. InQueue(w, f) /\ OnTheWay(f) /\ hand # f
    <2>1. InQueue(w, f)
        BY <1>2 DEF InQueue
    <2> QED
        BY <2>1 DEF OnTheWay, Queued
<1>4. \A v \in WorkerIds : \A g : InQueue(v, g)' <=> InQueue(v, g) /\ g # f
    <2>1. ASSUME NEW v \in WorkerIds, NEW g, InQueue(v, g)' PROVE InQueue(v, g) /\ g # f
        <3>1. CASE v = w
            <4> PICK i \in 1..Len(pending'[w]) : pending'[w][i] = g
                BY <2>1, <3>1 DEF InQueue
            <4>1. i + 1 \in 1..Len(q) /\ q[i + 1] = g /\ 1 \in 1..Len(q) /\ i + 1 # 1
                BY <1>2
            <4>2. g # f
                BY <1>2, <4>1 DEF Queued
            <4> QED
                BY <3>1, <4>1, <4>2 DEF InQueue
        <3>2. CASE v # w
            <4>1. InQueue(v, g)
                BY <1>2, <2>1, <3>2 DEF InQueue
            <4>2. ~InQueue(v, f)
                BY <1>2, <3>2 DEF Queued, InQueue
            <4> QED
                BY <4>1, <4>2
        <3> QED
            BY <3>1, <3>2
    <2>2. ASSUME NEW v \in WorkerIds, NEW g, InQueue(v, g), g # f PROVE InQueue(v, g)'
        <3>1. CASE v = w
            <4> PICK i \in 1..Len(q) : q[i] = g
                BY <2>2, <3>1 DEF InQueue
            <4>1. i - 1 \in 1..Len(pending'[w]) /\ (i - 1) + 1 = i
                BY <1>2, <2>2
            <4>2. pending'[w][i - 1] = g
                BY <1>2, <4>1
            <4> QED
                BY <3>1, <4>1, <4>2 DEF InQueue
        <3>2. CASE v # w
            BY <1>2, <2>2, <3>2 DEF InQueue
        <3> QED
            BY <3>1, <3>2
    <2> QED
        BY <2>1, <2>2
<1>5. \A g \in FdIds : OnTheWay(g)' <=> OnTheWay(g) /\ g # f
    BY <1>1, <1>3, <1>4 DEF OnTheWay
<1>6. /\ \A g \in FdIds : owner[g] \in Clients \cup {Nobody}
      /\ \A v \in WorkerIds, g \in FdIds : sessions[v][g] \in Clients \cup {Nobody}
      /\ c \in Clients \cup {Nobody}
    BY <1>2 DEF TypeOK, KernelTypes, PollTypes
<1>7. \A g \in FdIds : g # f => owner'[g] = owner[g]
    BY DEF TypeOK, KernelTypes
<1>8. Handed'
    <2>1. hand # 0 => hand \in FdIds
        BY DEF TypeOK, ThreadTypes, FdIds
    <2> QED
        BY <1>1, <1>3, <1>7, <2>1 DEF Handed
<1>9. Queued'
    <2>1. running' => \A v \in WorkerIds, g \in FdIds : InQueue(v, g)' => owner'[g] # Nobody
        BY <1>1, <1>4, <1>7 DEF Queued
    <2>2. \A v \in WorkerIds : ~InQueue(v, hand)'
        BY <1>1, <1>4 DEF Queued, InQueue
    <2>3. ASSUME NEW u \in WorkerIds, NEW v \in WorkerIds, NEW i \in 1..Len(pending'[u]),
                 NEW j \in 1..Len(pending'[v]), pending'[u][i] = pending'[v][j]
          PROVE  u = v /\ i = j
        <3>1. \A x \in WorkerIds : \A k : k \in 1..Len(pending'[x]) =>
                \/ x = w /\ k + 1 \in 1..Len(pending[x]) /\ pending'[x][k] = pending[x][k + 1]
                \/ x # w /\ k \in 1..Len(pending[x]) /\ pending'[x][k] = pending[x][k]
            <4>1. \A k \in 1..Len(pending'[w]) : k + 1 \in 1..Len(q) /\ pending'[w][k] = q[k + 1]
                BY <1>2
            <4> QED
                BY <1>2, <4>1
        <3>2. i \in Int /\ j \in Int
            OBVIOUS
        <3>3. u = v
            BY <2>3, <3>1 DEF Queued
        <3>4. CASE u = w
            <4>1. i + 1 = j + 1
                BY <2>3, <3>1, <3>3, <3>4, SMTT(40) DEF Queued
            <4> QED
                BY <3>2, <3>3, <4>1
        <3>5. CASE u # w
            BY <2>3, <3>1, <3>3, <3>5 DEF Queued
        <3> QED
            BY <3>4, <3>5
    <2> QED
        BY <2>1, <2>2, <2>3 DEF Queued
<1>10. CASE /\ c # Nobody
            /\ sessions' = [sessions EXCEPT ![w][f] = c]
            /\ fdOf' = [fdOf EXCEPT ![c] = f]
            /\ up' = [up EXCEPT ![c] = TRUE]
            /\ UNCHANGED owner
    <2>1. c \in Clients /\ NoSession(c) /\ ~up[c]
        BY <1>2, <1>3, <1>6, <1>10 DEF Fresh
    <2>2. \A v \in WorkerIds, g \in FdIds :
            sessions'[v][g] = IF v = w /\ g = f THEN c ELSE sessions[v][g]
        BY <1>2, <1>10 DEF TypeOK, PollTypes
    <2>3. /\ \A d \in Clients : d # c => up'[d] = up[d] /\ fdOf'[d] = fdOf[d]
          /\ up'[c] /\ fdOf'[c] = f
        BY <1>10, <2>1 DEF TypeOK, SessionTypes
    <2>4. \A v \in WorkerIds, g \in FdIds : sessions[v][g] # c
        BY <2>1 DEF NoSession
    <2>5. Filed'
        <3>1. \A v \in WorkerIds, g \in FdIds : sessions'[v][g] # Nobody => fdOf'[sessions'[v][g]] = g
            BY <1>6, <2>2, <2>3, <2>4 DEF Filed
        <3>2. \A u, v \in WorkerIds, g, h \in FdIds :
                sessions'[u][g] = sessions'[v][h] /\ sessions'[u][g] # Nobody => u = v
            BY <2>2, <2>4 DEF Filed
        <3> QED
            BY <3>1, <3>2 DEF Filed
    <2>6. Served'
        <3> SUFFICES ASSUME running, NEW v \in WorkerIds, NEW g \in FdIds,
                            sessions'[v][g] # Nobody, up'[sessions'[v][g]]
                     PROVE  owner'[g] = sessions'[v][g]
            BY <1>1 DEF Served
        <3>1. CASE v = w /\ g = f
            BY <1>10, <2>2, <3>1
        <3>2. CASE ~(v = w /\ g = f)
            <4>1. sessions'[v][g] = sessions[v][g] /\ sessions[v][g] \in Clients /\ sessions[v][g] # c
                BY <1>6, <2>2, <2>4, <3>2
            <4>2. up[sessions[v][g]]
                BY <2>3, <4>1
            <4> QED
                BY <1>10, <4>1, <4>2 DEF Served
        <3> QED
            BY <3>1, <3>2
    <2>7. NotServed'
        BY <1>5, <1>6, <2>2, <2>3, <2>4 DEF NotServed
    <2>8. \A g \in FdIds : g # f => owner[g] # c
        BY <1>2, <1>10 DEF Fresh
    <2>9. Housed'
        <3> SUFFICES ASSUME running, NEW g \in FdIds, owner[g] # Nobody, ~OnTheWay(g)'
                     PROVE  \E v \in WorkerIds : sessions'[v][g] = owner[g] /\ up'[owner[g]]
            BY <1>1, <1>10 DEF Housed
        <3>1. CASE g = f
            BY <2>2, <2>3, <3>1
        <3>2. CASE g # f
            <4>1. PICK v \in WorkerIds : sessions[v][g] = owner[g] /\ up[owner[g]]
                BY <1>5, <3>2 DEF Housed
            <4>2. sessions'[v][g] = owner[g] /\ up'[owner[g]]
                BY <1>6, <2>2, <2>3, <2>8, <3>2, <4>1
            <4> QED
                BY <4>2
        <3> QED
            BY <3>1, <3>2
    <2>10. Fresh'
        <3>1. \A d \in Clients : NoSession(d) /\ d # c => NoSession(d)'
            BY <2>2 DEF NoSession
        <3>2. \A d \in Clients : (peer[d] = "new" \/ InBacklog(d))' <=> peer[d] = "new" \/ InBacklog(d)
            BY <1>1 DEF InBacklog
        <3>3. \A d \in Clients : (peer[d] = "new" \/ InBacklog(d))' =>
                NoSession(d)' /\ ~up'[d] /\ \A g \in FdIds : owner'[g] # d
            BY <1>2, <1>10, <2>3, <3>1, <3>2 DEF Fresh
        <3>4. /\ \A d \in Clients : peer'[d] = "new" => ~InBacklog(d)'
              /\ \A i, j \in 1..Len(backlog') : backlog'[i] = backlog'[j] => i = j
              /\ \A g, h \in FdIds : owner'[g] = owner'[h] /\ owner'[g] # Nobody => g = h
            BY <1>1, <1>10 DEF Fresh, InBacklog
        <3>5. \A g \in FdIds : OnTheWay(g)' /\ owner'[g] # Nobody => NoSession(owner[g])' /\ ~up'[owner'[g]]
            BY <1>5, <1>6, <1>10, <2>3, <2>8, <3>1 DEF Fresh, NoSession
        <3> QED
            BY <3>3, <3>4, <3>5 DEF Fresh
    <2>11. Reading'
        <3> SUFFICES ASSUME NEW v \in WorkerIds, HoldsMutex(v) PROVE Exists(v, current[v])'
            BY <1>1 DEF Reading, HoldsMutex
        <3>1. v # w /\ Exists(v, current[v])
            BY <1>1 DEF HoldsMutex, Reading
        <3> QED
            BY <1>1, <2>2, <3>1 DEF Exists
    <2> QED
        BY <1>8, <1>9, <2>5, <2>6, <2>7, <2>9, <2>10, <2>11
<1>11. CASE owner' = [owner EXCEPT ![f] = Nobody] /\ UNCHANGED <<sessions, fdOf, up>>
    <2>1. owner'[f] = Nobody
        BY <1>2, <1>11 DEF TypeOK, KernelTypes
    <2>2. \A g \in FdIds : owner'[g] = owner[g] \/ owner'[g] = Nobody
        BY <1>7, <2>1
    <2>3. Filed' /\ Reading'
        BY <1>1, <1>11 DEF Filed, Reading, Exists, HoldsMutex
    <2>4. Served'
        <3>1. \A v \in WorkerIds : sessions[v][f] # Nobody => ~up[sessions[v][f]]
            BY <1>2, <1>3 DEF NotServed
        <3> QED
            BY <1>1, <1>7, <1>11, <3>1 DEF Served
    <2>5. NotServed'
        BY <1>5, <1>11 DEF NotServed
    <2>6. Housed'
        BY <1>1, <1>5, <1>7, <1>11, <2>1 DEF Housed
    <2>7. Fresh'
        <3>1. \A d \in Clients : (NoSession(d)' <=> NoSession(d)) /\ (InBacklog(d)' <=> InBacklog(d))
            BY <1>1, <1>11 DEF NoSession, InBacklog
        <3>2. \A d \in Clients : (peer[d] = "new" \/ InBacklog(d))' =>
                NoSession(d)' /\ ~up'[d] /\ \A g \in FdIds : owner'[g] # d
            BY <1>1, <1>11, <2>2, <3>1, CountsAssumption DEF Fresh
        <3>3. /\ \A d \in Clients : peer'[d] = "new" => ~InBacklog(d)'
              /\ \A i, j \in 1..Len(backlog') : backlog'[i] = backlog'[j] => i = j
            BY <1>1, <3>1 DEF Fresh
        <3>4. \A g, h \in FdIds : owner'[g] = owner'[h] /\ owner'[g] # Nobody => g = h
            BY <2>2 DEF Fresh
        <3>5. \A g \in FdIds : OnTheWay(g)' /\ owner'[g] # Nobody => NoSession(owner[g])' /\ ~up'[owner'[g]]
            BY <1>5, <1>7, <1>11 DEF Fresh, NoSession
        <3> QED
            BY <3>2, <3>3, <3>4, <3>5 DEF Fresh
    <2> QED
        BY <1>8, <1>9, <2>3, <2>4, <2>5, <2>6, <2>7
<1> QED
    BY <1>10, <1>11

(* The steps, one lemma for each way they treat the connections. *)
PeersKept == \A c \in Clients : peer'[c] = "new" => peer[c] = "new"

ReadersKept == \A w \in WorkerIds : HoldsMutex(w)' => HoldsMutex(w) /\ current'[w] = current[w]

LEMMA QuietStep ==
    ASSUME TypeOK, Placed, UNCHANGED <<PlaceVars, backlog, owner, sessions, up>>,
           mainAt' = mainAt \/ (mainAt # "enqueue" /\ mainAt' # "enqueue"), PeersKept, ReadersKept
    PROVE  Placed'
<1>1. Reading'
    BY ReadingKept DEF ReadersKept, Placed
<1> QED
    BY <1>1, QuietPlaced DEF PeersKept

LEMMA CloseEquations ==
    ASSUME TypeOK, NEW w \in WorkerIds, NEW s \in Clients, CloseSession(w, s)
    PROVE  /\ up' = [up EXCEPT ![s] = FALSE]
           /\ owner' = IF up[s] THEN [owner EXCEPT ![fdOf[s]] = Nobody] ELSE owner
<1>1. ~up[s] => up = [up EXCEPT ![s] = FALSE]
    BY DEF TypeOK, SessionTypes
<1> QED
    BY <1>1 DEF CloseSession

LEMMA CloseStep ==
    ASSUME TypeOK, Placed, NEW w \in WorkerIds, NEW s \in Clients, Exists(w, s), CloseSession(w, s),
           UNCHANGED <<PlaceVars, backlog, mainAt>>, PeersKept, ReadersKept,
           \/ UNCHANGED sessions
           \/ sessions' = [sessions EXCEPT ![w][fdOf[s]] = Nobody] /\ ~HoldsMutex(w)'
    PROVE  Placed'
<1>1. /\ up' = [up EXCEPT ![s] = FALSE]
      /\ owner' = IF up[s] THEN [owner EXCEPT ![fdOf[s]] = Nobody] ELSE owner
    BY CloseEquations
<1> QED
    BY <1>1, ClosingPlaced DEF PeersKept, ReadersKept

LEMMA SendStep ==
    ASSUME TypeOK, Placed, NEW w \in WorkerIds, NEW s \in Clients, Exists(w, s), NEW what \in Nat,
           Send(w, s, what), UNCHANGED <<PlaceVars, backlog, mainAt, pollVars>>
    PROVE  Placed'
<1>1. PeersKept
    BY SendEffect DEF PeersKept
<1>2. ReadersKept
    BY DEF ReadersKept, HoldsMutex, pollVars
<1>3. CASE CloseSession(w, s)
    BY <1>1, <1>2, <1>3, CloseStep DEF pollVars
<1>4. CASE UNCHANGED <<owner, up>>
    BY <1>1, <1>2, <1>4, QuietStep DEF pollVars
<1> QED
    BY <1>3, <1>4, SendEffect

LEMMA MainPlaced == ASSUME TypeOK, Placed, Main \/ SignalHandler PROVE Placed'
<1>1. CASE MainStops \/ Join
    <2>1. /\ UNCHANGED <<PlaceVars, backlog, owner, sessions, up, peer, at, current>>
          /\ mainAt # "enqueue" /\ mainAt' # "enqueue"
        BY <1>1 DEF MainStops, Join, PlaceVars, kernelVars, pollVars, sessionVars
    <2> QED
        BY <2>1, QuietStep DEF PeersKept, ReadersKept, HoldsMutex
<1> QED
    BY <1>1, SignalPlaced, AcceptPlaced, EnqueuePlaced DEF Main

LEMMA ClientPlaced == ASSUME TypeOK, Placed, NEW c \in Clients, Client(c) PROVE Placed'
<1>1. CASE ClientSend(c) \/ ClientLeave(c)
    <2>1. UNCHANGED <<PlaceVars, backlog, mainAt, owner, sessions, up, at, current>>
        BY <1>1 DEF ClientSend, ClientLeave, PlaceVars, threadVars, pollVars, sessionVars
    <2>2. PeersKept
        BY <1>1 DEF ClientSend, ClientLeave, PeersKept, TypeOK, KernelTypes
    <2> QED
        BY <2>1, <2>2, QuietStep DEF ReadersKept, HoldsMutex
<1> QED
    BY <1>1, ConnectPlaced DEF Client

LEMMA LoopPlaced ==
    ASSUME TypeOK, Placed, NEW w \in WorkerIds,
           \/ Loop(w) \/ Adopted(w) \/ Wait(w) \/ Recv(w) \/ RecvEnds(w) \/ Drained(w)
           \/ TickStarts(w) \/ TickEnds(w) \/ Stop(w)
    PROVE  Placed'
<1>1. UNCHANGED <<PlaceVars, backlog, mainAt, owner, sessions, up, peer, current>>
    BY DEF Loop, Adopted, Wait, Recv, RecvEnds, Drained, TickStarts, TickEnds, Stop,
           PlaceVars, threadVars, kernelVars, sessionVars
<1>2. \E there : Goto(w, there) /\ (there \in {"recv", "package", "drop"} => HoldsMutex(w))
    BY DEF Loop, Adopted, Wait, Recv, RecvEnds, Drained, TickStarts, TickEnds, Stop, WorkerAt, HoldsMutex
<1>3. ReadersKept
    BY <1>1, <1>2 DEF ReadersKept, HoldsMutex, Goto, TypeOK, PollTypes
<1> QED
    BY <1>1, <1>3, QuietStep DEF PeersKept

LEMMA HandleEventPlaced == ASSUME TypeOK, Placed, NEW w \in WorkerIds, HandleEvent(w) PROVE Placed'
<1> PICK e \in events[w] :
        /\ current' = [current EXCEPT ![w] = sessions[w][e.fd]]
        /\ Goto(w, CASE sessions[w][e.fd] = Nobody -> "events"
                     [] sessions[w][e.fd] # Nobody /\ e.error -> "drop"
                     [] OTHER -> "recv")
    BY DEF HandleEvent
<1>1. UNCHANGED <<PlaceVars, backlog, mainAt, owner, sessions, up, peer>>
    BY DEF HandleEvent, PlaceVars, threadVars, kernelVars, sessionVars
<1>2. e.fd \in FdIds
    BY DEF TypeOK, PollTypes
<1>3. /\ current'[w] = sessions[w][e.fd]
      /\ \A v \in WorkerIds : v # w => current'[v] = current[v] /\ at'[v] = at[v]
    BY DEF TypeOK, PollTypes, Goto
<1>4. Reading'
    BY <1>1, <1>2, <1>3 DEF Placed, Reading, HoldsMutex, Exists
<1> QED
    BY <1>1, <1>4, QuietPlaced

LEMMA PackagePlaced ==
    ASSUME TypeOK, Placed, NEW w \in WorkerIds,
           HandleHandshake(w) \/ HandleHandshakeAck(w) \/ HandleAndAnswer(w) \/ HandleKick(w)
    PROVE  Placed'
<1> PICK s : s = current[w]
    OBVIOUS
<1>1. /\ UNCHANGED <<PlaceVars, backlog, mainAt, pollVars>>
      /\ HoldsMutex(w) /\ buf[s] # <<>>
    BY DEF HandleHandshake, HandleHandshakeAck, HandleAndAnswer, HandleKick, Package, PlaceVars, threadVars,
           WorkerAt, HoldsMutex
<1>2. s \in Clients /\ Exists(w, s)
    BY <1>1 DEF Placed, Reading, TypeOK, PollTypes
<1>3. buf[s] \in Seq(Kinds \X Nat)
    BY <1>2 DEF TypeOK, SessionTypes
<1>4. Head(buf[s]) \in Kinds \X Nat
    BY <1>1, <1>3
<1>5. Head(buf[s])[2] \in Nat
    BY <1>4
<1>6. ReadersKept
    BY <1>1 DEF ReadersKept, HoldsMutex, pollVars
<1>7. CASE HandleHandshake(w) \/ HandleAndAnswer(w)
    BY <1>1, <1>2, <1>5, <1>7, SendStep DEF HandleHandshake, HandleAndAnswer
<1>8. CASE HandleHandshakeAck(w)
    <2>1. UNCHANGED <<owner, peer, up>>
        BY <1>8 DEF HandleHandshakeAck
    <2> QED
        BY <1>1, <1>6, <2>1, QuietStep DEF PeersKept, pollVars
<1>9. CASE HandleKick(w)
    <2>1. CloseSession(w, s) /\ peer' = peer
        BY <1>9 DEF HandleKick
    <2> QED
        BY <1>1, <1>2, <1>6, <2>1, CloseStep DEF PeersKept, pollVars
<1> QED
    BY <1>7, <1>8, <1>9

LEMMA TimerStepPlaced ==
    ASSUME TypeOK, Placed, NEW w \in WorkerIds, NEW t \in todo[w],
           TimerRemoved(w, t) \/ BeatReturns(w, t) \/ BeatTimeout(w, t) \/ BeatSends(w, t) \/ BeatDangles(w, t)
    PROVE  Placed'
<1> PICK s : s = t[2]
    OBVIOUS
<1>1. UNCHANGED <<PlaceVars, backlog, mainAt, pollVars>>
    BY DEF TimerRemoved, BeatReturns, BeatTimeout, BeatSends, BeatDangles, Due, PlaceVars, threadVars
<1>2. s \in Clients
    BY DEF TypeOK, TimerTypes
<1>3. ReadersKept
    BY <1>1 DEF ReadersKept, HoldsMutex, pollVars
<1>4. CASE TimerRemoved(w, t) \/ BeatReturns(w, t) \/ BeatDangles(w, t)
    <2>1. UNCHANGED <<owner, peer, up>>
        BY <1>4 DEF TimerRemoved, BeatReturns, BeatDangles
    <2> QED
        BY <1>1, <1>3, <2>1, QuietStep DEF PeersKept, pollVars
<1>5. CASE BeatTimeout(w, t)
    <2>1. CloseSession(w, s) /\ peer' = peer /\ Exists(w, s)
        BY <1>5 DEF BeatTimeout
    <2> QED
        BY <1>1, <1>2, <1>3, <2>1, CloseStep DEF PeersKept, pollVars
<1>6. CASE BeatSends(w, t)
    <2>1. Send(w, s, 0) /\ Exists(w, s)
        BY <1>6 DEF BeatSends
    <2> QED
        BY <1>1, <1>2, <2>1, SendStep
<1> QED
    BY <1>4, <1>5, <1>6

LEMMA DropPlaced == ASSUME TypeOK, Placed, NEW w \in WorkerIds, Drop(w) PROVE Placed'
<1> PICK s : s = current[w]
    OBVIOUS
<1>1. /\ UNCHANGED <<PlaceVars, backlog, mainAt, peer, current>> /\ HoldsMutex(w)
      /\ CloseSession(w, s) /\ sessions' = [sessions EXCEPT ![w][fdOf[s]] = Nobody]
    BY DEF Drop, PlaceVars, threadVars, WorkerAt, HoldsMutex
<1>2. s \in Clients /\ Exists(w, s)
    BY <1>1 DEF Placed, Reading, TypeOK, PollTypes
<1>3. ~HoldsMutex(w)' /\ \A v \in WorkerIds : v # w => at'[v] = at[v]
    BY DEF Drop, Goto, HoldsMutex, TypeOK, PollTypes
<1>4. ReadersKept
    BY <1>1, <1>3 DEF ReadersKept, HoldsMutex
<1> QED
    BY <1>1, <1>2, <1>3, <1>4, CloseStep DEF PeersKept

LEMMA CleanupPlaced == ASSUME TypeOK, Placed, Ending, NEW w \in WorkerIds, Cleanup(w) PROVE Placed'
<1> PICK f, s :
        /\ f \in FdIds
        /\ s = sessions[w][f] /\ s # Nobody
        /\ owner' = [owner EXCEPT ![f] = Nobody]
        /\ up' = [up EXCEPT ![s] = FALSE]
        /\ sessions' = [sessions EXCEPT ![w][f] = Nobody]
    BY DEF Cleanup
<1>1. s \in Clients /\ Exists(w, s) /\ f = fdOf[s]
    BY DEF TypeOK, PollTypes, Exists, Placed, Filed
<1>2. UNCHANGED <<PlaceVars, backlog, mainAt, peer, current, at>> /\ ~running /\ ~HoldsMutex(w)
    BY DEF Cleanup, PlaceVars, threadVars, WorkerAt, HoldsMutex, Ending
<1> QED
    BY <1>1, <1>2, ClosingPlaced DEF HoldsMutex

-----------------------------------------------------------------------------
(* The invariant *)

IInv == TypeOK /\ Placed /\ Ending /\ NoEvents

LEMMA InitIInv == Init => IInv
<1> SUFFICES ASSUME Init PROVE IInv
    OBVIOUS
<1> USE CountsAssumption
<1>1. TypeOK
    BY InitTypes
<1>2. /\ hand = 0 /\ mainAt = "poll" /\ backlog = <<>> /\ pending = [w \in WorkerIds |-> <<>>]
      /\ owner = [f \in FdIds |-> Nobody] /\ up = [c \in Clients |-> FALSE]
      /\ sessions = [w \in WorkerIds |-> [f \in FdIds |-> Nobody]]
      /\ at = [w \in WorkerIds |-> "top"] /\ events = [w \in WorkerIds |-> {}]
    BY DEF Init
<1>3. /\ \A w \in WorkerIds, f \in FdIds : sessions[w][f] = Nobody
      /\ \A w \in WorkerIds : \A f : ~InQueue(w, f)
      /\ \A f \in FdIds : owner[f] = Nobody /\ ~OnTheWay(f)
      /\ \A c \in Clients : ~InBacklog(c) /\ ~up[c] /\ c # Nobody
      /\ \A w \in WorkerIds : at[w] = "top" /\ events[w] = {}
    BY <1>2 DEF InQueue, OnTheWay, InBacklog, FdIds
<1>4. Handed /\ Filed /\ Served /\ NotServed /\ Housed
    BY <1>2, <1>3 DEF Handed, Filed, Served, NotServed, Housed
<1>5. Queued
    <2>1. \A w \in WorkerIds : pending[w] = <<>>
        BY <1>2
    <2> QED
        BY <1>3, <2>1 DEF Queued
<1>6. Fresh
    BY <1>2, <1>3 DEF Fresh, NoSession
<1>7. Reading /\ Ending /\ NoEvents
    BY <1>3 DEF Reading, HoldsMutex, Ending, NoEvents
<1> QED
    BY <1>1, <1>4, <1>5, <1>6, <1>7 DEF IInv, Placed

LEMMA NextPlaced == ASSUME TypeOK, Placed, Ending, [Next]_vars PROVE Placed'
<1>1. CASE UNCHANGED vars
    BY <1>1, QuietStep DEF vars, PlaceVars, threadVars, kernelVars, pollVars, sessionVars, PeersKept,
                           ReadersKept, HoldsMutex
<1>2. ASSUME NEW w \in WorkerIds, Worker(w) PROVE Placed'
    <2>1. CASE \/ Loop(w) \/ Adopted(w) \/ Wait(w) \/ Recv(w) \/ RecvEnds(w) \/ Drained(w)
               \/ TickStarts(w) \/ TickEnds(w) \/ Stop(w)
        BY <2>1, LoopPlaced
    <2>2. CASE Adopt(w) \/ HandleEvent(w)
        BY <2>2, AdoptPlaced, HandleEventPlaced
    <2>3. CASE HandleHandshake(w) \/ HandleHandshakeAck(w) \/ HandleAndAnswer(w) \/ HandleKick(w)
        BY <2>3, PackagePlaced
    <2>4. CASE Drop(w) \/ Cleanup(w)
        BY <2>4, DropPlaced, CleanupPlaced
    <2>5. ASSUME NEW t \in todo[w], \/ TimerRemoved(w, t) \/ BeatReturns(w, t) \/ BeatTimeout(w, t)
                                    \/ BeatSends(w, t) \/ BeatDangles(w, t)
          PROVE  Placed'
        BY <2>5, TimerStepPlaced
    <2> QED
        BY <1>2, <2>1, <2>2, <2>3, <2>4, <2>5 DEF Worker
<1> QED
    BY <1>1, <1>2, ClientPlaced, MainPlaced DEF Next

(* How a step moves the workers. *)
LEMMA WorkersMove ==
    ASSUME TypeOK, [Next]_vars
    PROVE  /\ running' => running
           /\ \A v \in WorkerIds :
                \/ at'[v] = at[v] /\ (events'[v] = events[v] \/ at[v] = "events")
                \/ at[v] = "top" /\ at'[v] = "cleanup" /\ ~running /\ events'[v] = events[v]
                \/ at[v] \in {"top", "pending", "tick"} /\ at'[v] \in {"top", "pending", "wait"}
                   /\ events'[v] = events[v]
                \/ at[v] = "events" /\ at'[v] = "tick" /\ events[v] = {} /\ events'[v] = events[v]
                \/ at'[v] \in {"events", "recv", "package", "drop"}
                \/ at[v] = "cleanup" /\ at'[v] = "stopped"
<1>0. CASE Next \/ UNCHANGED vars
    <2>1. CASE UNCHANGED vars
        BY <2>1 DEF vars, threadVars, pollVars
    <2>2. ASSUME NEW c \in Clients, Client(c) PROVE UNCHANGED <<running, at, events>>
        BY <2>2 DEF Client, ClientConnect, ClientSend, ClientLeave, threadVars, pollVars
    <2>3. CASE SignalHandler \/ Main
        <3>1. UNCHANGED <<at, events>> /\ (running' => running)
            BY <2>3 DEF SignalHandler, Main, Accept, Enqueue, MainStops, Join, pollVars
        <3> QED
            BY <3>1
    <2>4. ASSUME NEW w \in WorkerIds, Worker(w)
          PROVE  /\ running' => running
                 /\ \A v \in WorkerIds : v # w => at'[v] = at[v] /\ events'[v] = events[v]
                 /\ \/ at'[w] = at[w] /\ (events'[w] = events[w] \/ at[w] = "events")
                    \/ at[w] = "top" /\ at'[w] = "cleanup" /\ ~running /\ events'[w] = events[w]
                    \/ at[w] \in {"top", "pending", "tick"} /\ at'[w] \in {"top", "pending", "wait"}
                       /\ events'[w] = events[w]
                    \/ at[w] = "events" /\ at'[w] = "tick" /\ events[w] = {} /\ events'[w] = events[w]
                    \/ at'[w] \in {"events", "recv", "package", "drop"}
                    \/ at[w] = "cleanup" /\ at'[w] = "stopped"
        <3>0. /\ at \in [WorkerIds -> {"top", "pending", "wait", "events", "recv", "package", "drop", "tick",
                                       "cleanup", "stopped"}]
              /\ events \in [WorkerIds -> SUBSET [fd : FdIds, error : BOOLEAN]]
            BY DEF TypeOK, PollTypes
        <3>1. CASE Loop(w)
            BY <3>0, <3>1 DEF Loop, WorkerAt, Goto, threadVars
        <3>2. CASE Adopted(w) \/ TickEnds(w) \/ TickStarts(w) \/ Stop(w)
            BY <3>0, <3>2 DEF Adopted, TickEnds, TickStarts, Stop, WorkerAt, Goto, threadVars
        <3>3. CASE Recv(w) \/ RecvEnds(w) \/ Drained(w) \/ Drop(w)
            BY <3>0, <3>3 DEF Recv, RecvEnds, Drained, Drop, WorkerAt, Goto, threadVars
        <3>4. CASE Wait(w)
            <4>1. \E S : events' = [events EXCEPT ![w] = S]
                BY <3>4 DEF Wait
            <4> QED
                BY <3>0, <3>4, <4>1 DEF Wait, WorkerAt, Goto, threadVars
        <3>5. CASE HandleEvent(w)
            <4>1. /\ \E S : events' = [events EXCEPT ![w] = S]
                  /\ \E there \in {"events", "recv", "drop"} : Goto(w, there)
                BY <3>5 DEF HandleEvent
            <4> QED
                BY <3>0, <3>5, <4>1 DEF HandleEvent, Goto, threadVars
        <3>6. CASE \/ HandleHandshake(w) \/ HandleHandshakeAck(w) \/ HandleAndAnswer(w) \/ HandleKick(w)
                   \/ Adopt(w) \/ Cleanup(w)
            BY <3>6 DEF HandleHandshake, HandleHandshakeAck, HandleAndAnswer, HandleKick, Package, Adopt,
                        Cleanup, threadVars, pollVars
        <3>7. CASE \E t \in todo[w] : \/ TimerRemoved(w, t) \/ BeatReturns(w, t) \/ BeatTimeout(w, t)
                                      \/ BeatSends(w, t) \/ BeatDangles(w, t)
            <4>1. \E t \in todo[w] : Due(w, t)
                BY <3>7 DEF TimerRemoved, BeatReturns, BeatTimeout, BeatSends, BeatDangles
            <4> QED
                BY <4>1 DEF Due, threadVars, pollVars
        <3> QED
            BY <2>4, <3>1, <3>2, <3>3, <3>4, <3>5, <3>6, <3>7 DEF Worker
    <2>5. CASE \E w \in WorkerIds : Worker(w)
        <3> PICK w \in WorkerIds : Worker(w)
            BY <2>5
        <3>1. ASSUME NEW v \in WorkerIds, v # w PROVE at'[v] = at[v] /\ events'[v] = events[v]
            BY <2>4, <3>1
        <3> QED
            BY <2>4, <3>1
    <2> QED
        BY <1>0, <2>1, <2>2, <2>3, <2>5 DEF Next
<1> QED
    BY <1>0

LEMMA NextIInv == IInv /\ [Next]_vars => IInv'
<1> SUFFICES ASSUME IInv, [Next]_vars PROVE IInv'
    OBVIOUS
<1> USE DEF IInv
<1>1. TypeOK' /\ Placed'
    BY NextTypes, NextPlaced DEF Placed
<1>2. Ending'
    BY WorkersMove DEF Ending
<1>3. NoEvents'
    BY WorkersMove DEF NoEvents
<1> QED
    BY <1>1, <1>2, <1>3

(* The values of the variables are those of their types. *)
THEOREM TypeCorrect == Spec => []TypeOK
<1>1. IInv => TypeOK
    BY DEF IInv
<1> QED
    BY <1>1, InitIInv, NextIInv, PTL DEF Spec

-----------------------------------------------------------------------------
(* One home *)

(* A queue holds a descriptor once, so it is no longer than there are.     *)
LEMMA NoRepetition ==
    ASSUME NEW n \in Nat, NEW m \in Nat, NEW g \in [1..n -> 1..m],
           \A i, j \in 1..n : g[i] = g[j] => i = j
    PROVE  n <= m
<1>1. /\ IsFiniteSet(1..n) /\ Cardinality(1..n) = (IF 1 > n THEN 0 ELSE n - 1 + 1)
      /\ IsFiniteSet(1..m) /\ Cardinality(1..m) = (IF 1 > m THEN 0 ELSE m - 1 + 1)
    <2>1. n \in Int /\ m \in Int /\ 1 \in Int
        OBVIOUS
    <2> QED
        BY <2>1, FS_Interval
<1>2. IsFiniteSet(1..n) /\ Cardinality(1..n) = n /\ IsFiniteSet(1..m) /\ Cardinality(1..m) = m
    BY <1>1
<1>3. ~(Cardinality(1..m) < Cardinality(1..n))
    <2> SUFFICES ASSUME Cardinality(1..m) < Cardinality(1..n) PROVE FALSE
        OBVIOUS
    <2>1. \E x, y \in 1..n : x # y /\ g[x] = g[y]
        BY <1>1, FS_PigeonHole, Zenon
    <2> QED
        BY <2>1
<1> QED
    BY <1>2, <1>3

LEMMA QueueBound == ASSUME TypeOK, Queued, NEW w \in WorkerIds PROVE Len(pending[w]) <= Fds
<1>1. pending[w] \in Seq(FdIds) /\ Len(pending[w]) \in Nat /\ Fds \in Nat
    BY CountsAssumption DEF TypeOK, ThreadTypes
<1>2. pending[w] \in [1..Len(pending[w]) -> 1..Fds]
    BY <1>1 DEF FdIds
<1>3. \A i, j \in 1..Len(pending[w]) : pending[w][i] = pending[w][j] => i = j
    BY DEF Queued
<1> QED
    BY <1>1, <1>2, <1>3, NoRepetition

LEMMA OneHomeHolds == IInv => OneHome
<1> SUFFICES ASSUME IInv, running, NEW f \in FdIds, owner[f] # Nobody
             PROVE  Cardinality(Homes(f)) = 1
    BY DEF OneHome
<1> USE DEF IInv, Placed
<1> DEFINE H == {<<"hand", f>> : x \in {1} \cap {y \in {1} : hand = f}}
           P == {<<"pending", h>> : h \in {h \in WorkerIds \X (1..Fds) :
                    h[2] <= Len(pending[h[1]]) /\ pending[h[1]][h[2]] = f}}
           S == {<<"session", w>> : w \in {w \in WorkerIds : sessions[w][f] = owner[f] /\ up[owner[f]]}}
<1>1. Homes(f) = H \cup P \cup S
    BY DEF Homes
<1>2. hand = f \/ H = {}
    OBVIOUS
<1>3. hand = f => H = {<<"hand", f>>}
    OBVIOUS
<1>4. (\A w \in WorkerIds : ~InQueue(w, f)) => P = {}
    <2> SUFFICES ASSUME \A w \in WorkerIds : ~InQueue(w, f), NEW h \in WorkerIds \X (1..Fds),
                        h[2] <= Len(pending[h[1]]), pending[h[1]][h[2]] = f
                 PROVE  FALSE
        OBVIOUS
    <2>1. h[1] \in WorkerIds /\ h[2] \in 1..Fds
        OBVIOUS
    <2>2. pending[h[1]] \in Seq(FdIds)
        BY <2>1 DEF TypeOK, ThreadTypes
    <2>3. h[2] \in 1..Len(pending[h[1]])
        BY <2>1, <2>2
    <2> QED
        BY <2>1, <2>3 DEF InQueue
<1>5. ASSUME NEW w \in WorkerIds, InQueue(w, f) PROVE \E h : P = {<<"pending", h>>}
    <2> PICK i \in 1..Len(pending[w]) : pending[w][i] = f
        BY <1>5 DEF InQueue
    <2>1. pending[w] \in Seq(FdIds) /\ Fds \in Nat
        BY CountsAssumption DEF TypeOK, ThreadTypes
    <2>2. i \in 1..Fds
        BY <2>1, QueueBound
    <2>3. <<"pending", <<w, i>>>> \in P
        <3> DEFINE k == <<w, i>>
        <3>1. k \in WorkerIds \X (1..Fds) /\ k[1] = w /\ k[2] = i
            BY <2>2
        <3>2. k[2] <= Len(pending[k[1]]) /\ pending[k[1]][k[2]] = f
            BY <2>1, <3>1
        <3> HIDE DEF k
        <3>3. <<"pending", k>> \in P
            BY <3>1, <3>2
        <3> QED
            BY <3>3 DEF k
    <2>4. ASSUME NEW h \in WorkerIds \X (1..Fds), h[2] <= Len(pending[h[1]]), pending[h[1]][h[2]] = f
          PROVE  h = <<w, i>>
        <3>1. h[1] \in WorkerIds /\ h[2] \in 1..Fds /\ h = <<h[1], h[2]>>
            OBVIOUS
        <3>2. pending[h[1]] \in Seq(FdIds)
            BY <3>1 DEF TypeOK, ThreadTypes
        <3>3. h[2] \in 1..Len(pending[h[1]])
            BY <2>4, <3>1, <3>2
        <3>4. h[1] = w /\ h[2] = i
            BY <2>4, <3>1, <3>3 DEF Queued
        <3> QED
            BY <3>1, <3>4
    <2>5. P = {<<"pending", <<w, i>>>>}
        BY <2>3, <2>4
    <2> QED
        BY <2>5
<1>6. OnTheWay(f) => S = {}
    BY DEF NotServed
<1>7. ASSUME NEW w \in WorkerIds, sessions[w][f] = owner[f], up[owner[f]] PROVE S = {<<"session", w>>}
    <2>1. \A v \in WorkerIds : sessions[v][f] = owner[f] => v = w
        BY <1>7 DEF Filed
    <2> QED
        BY <1>7, <2>1
<1>8. \E x : Homes(f) = {x}
    <2> HIDE DEF H, P, S
    <2>1. CASE hand = f
        <3>1. P = {}
            BY <1>4, <2>1 DEF Queued
        <3>2. S = {}
            BY <1>6, <2>1 DEF OnTheWay
        <3> QED
            BY <1>1, <1>3, <2>1, <3>1, <3>2
    <2>2. CASE hand # f /\ \E w \in WorkerIds : InQueue(w, f)
        <3>1. S = {} /\ H = {}
            BY <1>2, <1>6, <2>2 DEF OnTheWay
        <3> QED
            BY <1>1, <1>5, <2>2, <3>1
    <2>3. CASE ~OnTheWay(f)
        <3>1. H = {} /\ P = {}
            BY <1>2, <1>4, <2>3 DEF OnTheWay
        <3>2. \E w \in WorkerIds : sessions[w][f] = owner[f] /\ up[owner[f]]
            BY <2>3 DEF Housed
        <3> QED
            BY <1>1, <1>7, <3>1, <3>2
    <2> QED
        BY <2>1, <2>2, <2>3 DEF OnTheWay
<1> QED
    BY <1>8, FS_Singleton

(* The main thread and the workers hand connections over without losing    *)
(* one and without two of them serving the same.                           *)
THEOREM ConnectionsHaveOneHome == Spec => []OneHome
BY InitIInv, NextIInv, OneHomeHolds, PTL DEF Spec

-----------------------------------------------------------------------------
(* No lost wakeup *)

Unread(c) == wire[c] # <<>> \/ peer[c] # "open"

(* A step that reports no edge, reads nothing and opens nothing.           *)
LEMMA WakeKept ==
    ASSUME NoLostWakeup, UNCHANGED <<edge, events>>,
           \A w \in WorkerIds, c \in Clients : Exists(w, c)' /\ up'[c] /\ Unread(c)' =>
               /\ Exists(w, c) /\ up[c] /\ Unread(c) /\ fdOf'[c] = fdOf[c]
               /\ current[w] = c /\ HoldsMutex(w) => current'[w] = c /\ HoldsMutex(w)'
    PROVE  NoLostWakeup'
<1> SUFFICES ASSUME NEW w \in WorkerIds, NEW c \in Clients, Exists(w, c)', up'[c], Unread(c)'
             PROVE  BeingRead(w, c)'
    BY DEF NoLostWakeup, Unread
<1>1. BeingRead(w, c)
    BY DEF NoLostWakeup, Unread
<1> QED
    BY <1>1 DEF BeingRead, HoldsMutex

LEMMA ClientWakes ==
    ASSUME TypeOK, Placed, NoLostWakeup, NEW c \in Clients, Client(c)
    PROVE  NoLostWakeup'
<1>1. CASE ClientConnect(c)
    <2>1. UNCHANGED <<wire, edge, events, sessions, up, fdOf, current, at>> /\ peer[c] = "new"
          /\ peer' = [peer EXCEPT ![c] = "open"]
        BY <1>1 DEF ClientConnect, pollVars, sessionVars
    <2>2. \A d \in Clients : up[d] => d # c
        BY <2>1 DEF Placed, Fresh
    <2>3. \A d \in Clients : up[d] => (Unread(d)' <=> Unread(d))
        BY <2>1, <2>2 DEF Unread, TypeOK, KernelTypes
    <2> QED
        BY <2>1, <2>3, WakeKept DEF Exists, HoldsMutex
<1>2. CASE ClientSend(c) \/ ClientLeave(c)
    <2>1. UNCHANGED <<events, sessions, up, fdOf, current, at>> /\ edge' = [edge EXCEPT ![c] = TRUE]
        BY <1>2 DEF ClientSend, ClientLeave, pollVars, sessionVars
    <2>2. \A d \in Clients : d # c => wire'[d] = wire[d] /\ peer'[d] = peer[d] /\ edge'[d] = edge[d]
        BY <1>2 DEF ClientSend, ClientLeave, TypeOK, KernelTypes
    <2>3. edge'[c]
        BY <2>1 DEF TypeOK, KernelTypes
    <2> QED
        BY <2>1, <2>2, <2>3 DEF NoLostWakeup, BeingRead, Exists
<1> QED
    BY <1>1, <1>2 DEF Client

LEMMA AdoptWakes ==
    ASSUME TypeOK, Placed, NoLostWakeup, NEW w \in WorkerIds, Adopt(w)
    PROVE  NoLostWakeup'
<1> PICK f, c : /\ f = Head(pending[w]) /\ c = owner[f]
                /\ \/ /\ c # Nobody
                      /\ sessions' = [sessions EXCEPT ![w][f] = c]
                      /\ fdOf' = [fdOf EXCEPT ![c] = f]
                      /\ up' = [up EXCEPT ![c] = TRUE]
                      /\ edge' = [edge EXCEPT ![c] = wire[c] # <<>> \/ peer[c] # "open"]
                   \/ UNCHANGED <<sessions, fdOf, up, edge>>
    BY DEF Adopt
<1>1. UNCHANGED <<wire, peer, events, current, at>> /\ pending[w] # <<>>
    BY DEF Adopt
<1>2. CASE UNCHANGED <<sessions, fdOf, up, edge>>
    BY <1>1, <1>2, WakeKept DEF Exists, HoldsMutex, Unread
<1>3. CASE /\ c # Nobody
           /\ sessions' = [sessions EXCEPT ![w][f] = c]
           /\ fdOf' = [fdOf EXCEPT ![c] = f]
           /\ up' = [up EXCEPT ![c] = TRUE]
           /\ edge' = [edge EXCEPT ![c] = wire[c] # <<>> \/ peer[c] # "open"]
    <2>1. f \in FdIds /\ InQueue(w, f)
        <3>1. pending[w] \in Seq(FdIds)
            BY DEF TypeOK, ThreadTypes
        <3>2. f = pending[w][1] /\ f \in FdIds /\ 1 \in 1..Len(pending[w])
            BY <1>1, <3>1
        <3> QED
            BY <3>2 DEF InQueue
    <2>2. c \in Clients /\ NoSession(c)
        BY <1>3, <2>1 DEF TypeOK, KernelTypes, Placed, Fresh, OnTheWay
    <2>3. /\ \A d \in Clients : d # c => fdOf'[d] = fdOf[d] /\ up'[d] = up[d] /\ edge'[d] = edge[d]
          /\ \A v \in WorkerIds, g \in FdIds : sessions'[v][g] = sessions[v][g] \/ sessions'[v][g] = c
        <3>1. \A d \in Clients : d # c => fdOf'[d] = fdOf[d] /\ up'[d] = up[d]
            BY <1>3 DEF TypeOK, SessionTypes
        <3>2. \A d \in Clients : d # c => edge'[d] = edge[d]
            BY <1>3, Zenon DEF TypeOK, KernelTypes
        <3>3. \A v \in WorkerIds, g \in FdIds : sessions'[v][g] = sessions[v][g] \/ sessions'[v][g] = c
            BY <1>3 DEF TypeOK, PollTypes
        <3> QED
            BY <3>1, <3>2, <3>3
    <2>4. edge'[c] = (wire[c] # <<>> \/ peer[c] # "open")
        BY <1>3, <2>2, Zenon DEF TypeOK, KernelTypes
    <2>5. ASSUME NEW v \in WorkerIds, NEW d \in Clients, Exists(v, d)', up'[d], Unread(d)'
          PROVE  BeingRead(v, d)'
        <3>1. CASE d = c
            BY <1>1, <2>4, <2>5, <3>1 DEF Unread, BeingRead
        <3>2. CASE d # c
            <4>1. Exists(v, d) /\ up[d] /\ Unread(d)
                BY <1>1, <2>3, <2>5, <3>2 DEF Exists, Unread
            <4>2. BeingRead(v, d)
                BY <4>1 DEF NoLostWakeup, Unread
            <4> QED
                BY <1>1, <2>3, <3>2, <4>2 DEF BeingRead
        <3> QED
            BY <3>1, <3>2
    <2> QED
        BY <2>5 DEF NoLostWakeup, Unread
<1> QED
    BY <1>2, <1>3

LEMMA WaitWakes ==
    ASSUME TypeOK, Filed, NoEvents, NoLostWakeup, NEW w \in WorkerIds, Wait(w)
    PROVE  NoLostWakeup'
<1> PICK ready : /\ ready = {c \in Watched(w) : edge[c]}
                 /\ events' = [events EXCEPT ![w] =
                      {[fd |-> fdOf[c], error |-> peer[c] \in {"pipe", "reset"}] : c \in ready}]
                 /\ edge' = [c \in Clients |-> edge[c] /\ c \notin ready]
    BY DEF Wait
<1>1. UNCHANGED <<wire, peer, sessions, current, up, fdOf>> /\ at[w] = "wait" /\ events[w] = {}
    BY DEF Wait, WorkerAt, sessionVars, NoEvents
<1>2. /\ events'[w] = {[fd |-> fdOf[c], error |-> peer[c] \in {"pipe", "reset"}] : c \in ready}
      /\ \A v \in WorkerIds : v # w => events'[v] = events[v] /\ at'[v] = at[v]
    BY DEF Wait, Goto, TypeOK, PollTypes
<1>3. ASSUME NEW v \in WorkerIds, NEW c \in Clients, Exists(v, c)', up'[c], Unread(c)'
      PROVE  BeingRead(v, c)'
    <2>1. Exists(v, c) /\ BeingRead(v, c)
        BY <1>1, <1>3 DEF NoLostWakeup, Unread, Exists
    <2>2. CASE c \in ready
        <3>1. Exists(w, c)
            BY <2>2 DEF Watched, Exists
        <3>2. v = w
            BY <2>1, <3>1, CountsAssumption DEF Exists, Filed
        <3>3. [fd |-> fdOf[c], error |-> peer[c] \in {"pipe", "reset"}] \in events'[w]
            BY <1>2, <2>2
        <3>4. \E e \in events'[w] : e.fd = fdOf'[c]
            BY <1>1, <3>3
        <3> QED
            BY <3>2, <3>4 DEF BeingRead
    <2>3. CASE c \notin ready
        <3>1. edge'[c] = edge[c]
            BY <2>3, Zenon DEF TypeOK, KernelTypes
        <3>2. CASE v = w
            BY <1>1, <2>1, <3>1, <3>2 DEF BeingRead
        <3>3. CASE v # w
            BY <1>1, <1>2, <2>1, <3>1, <3>3 DEF BeingRead
        <3> QED
            BY <3>2, <3>3
    <2> QED
        BY <2>2, <2>3
<1> QED
    BY <1>3 DEF NoLostWakeup, Unread

LEMMA HandleEventWakes ==
    ASSUME TypeOK, Filed, NoLostWakeup, NEW w \in WorkerIds, HandleEvent(w)
    PROVE  NoLostWakeup'
<1> PICK e \in events[w] :
        /\ events' = [events EXCEPT ![w] = @ \ {e}]
        /\ current' = [current EXCEPT ![w] = sessions[w][e.fd]]
        /\ Goto(w, CASE sessions[w][e.fd] = Nobody -> "events"
                     [] sessions[w][e.fd] # Nobody /\ e.error -> "drop"
                     [] OTHER -> "recv")
    BY DEF HandleEvent
<1>1. UNCHANGED <<wire, peer, sessions, edge, up, fdOf>> /\ at[w] = "events"
    BY DEF HandleEvent, WorkerAt, sessionVars, kernelVars
<1>2. /\ events'[w] = events[w] \ {e} /\ current'[w] = sessions[w][e.fd]
      /\ sessions[w][e.fd] # Nobody => at'[w] \in {"drop", "recv"}
      /\ \A v \in WorkerIds : v # w => events'[v] = events[v] /\ at'[v] = at[v] /\ current'[v] = current[v]
    BY DEF Goto, TypeOK, PollTypes
<1>3. ASSUME NEW v \in WorkerIds, NEW c \in Clients, Exists(v, c)', up'[c], Unread(c)'
      PROVE  BeingRead(v, c)'
    <2>1. Exists(v, c) /\ BeingRead(v, c)
        BY <1>1, <1>3 DEF NoLostWakeup, Unread, Exists
    <2>2. CASE v # w
        BY <1>1, <1>2, <2>1, <2>2 DEF BeingRead
    <2>3. CASE v = w /\ e.fd = fdOf[c]
        <3>1. sessions[w][e.fd] = c /\ c # Nobody
            BY <2>1, <2>3, ExistsFiled, CountsAssumption
        <3> QED
            BY <1>2, <2>3, <3>1 DEF BeingRead
    <2>4. CASE v = w /\ e.fd # fdOf[c]
        BY <1>1, <1>2, <2>1, <2>4 DEF BeingRead
    <2> QED
        BY <2>2, <2>3, <2>4
<1> QED
    BY <1>3 DEF NoLostWakeup, Unread

LEMMA ReadWakes ==
    ASSUME TypeOK, Placed, NoLostWakeup, NEW w \in WorkerIds, Recv(w) \/ RecvEnds(w) \/ Drained(w)
    PROVE  NoLostWakeup'
<1> PICK s : s = current[w]
    OBVIOUS
<1>1. UNCHANGED <<peer, sessions, events, edge, current, up, fdOf>> /\ HoldsMutex(w)
    BY DEF Recv, RecvEnds, Drained, WorkerAt, HoldsMutex, kernelVars, sessionVars
<1>2. s \in Clients /\ Exists(w, s)
    BY <1>1 DEF Placed, Reading, TypeOK, PollTypes
<1>3. \A v \in WorkerIds : v # w => at'[v] = at[v]
    BY DEF Recv, RecvEnds, Drained, Goto, TypeOK, PollTypes
<1>4. \A c \in Clients : c # s => wire'[c] = wire[c]
    BY DEF Recv, RecvEnds, Drained, kernelVars, TypeOK, KernelTypes
<1>5. HoldsMutex(w)' \/ (~Unread(s)' /\ up[s])
    <2>1. CASE Recv(w) \/ Drained(w)
        <3>1. at'[w] \in {"package", "recv"}
            BY <2>1 DEF Recv, Drained, Goto, TypeOK, PollTypes
        <3> QED
            BY <3>1 DEF HoldsMutex
    <2>2. CASE RecvEnds(w)
        <3>1. CASE up[s] /\ peer[s] = "open"
            BY <2>2, <3>1 DEF RecvEnds, Unread, kernelVars
        <3>2. CASE ~(up[s] /\ peer[s] = "open")
            <4>1. at'[w] = "drop"
                BY <2>2, <3>2 DEF RecvEnds, Goto, TypeOK, PollTypes
            <4> QED
                BY <4>1 DEF HoldsMutex
        <3> QED
            BY <3>1, <3>2
    <2> QED
        BY <2>1, <2>2
<1>6. ASSUME NEW v \in WorkerIds, NEW c \in Clients, Exists(v, c)', up'[c], Unread(c)'
      PROVE  BeingRead(v, c)'
    <2>1. Exists(v, c) /\ up[c]
        BY <1>1, <1>6 DEF Exists
    <2>2. CASE c = s
        <3>1. v = w
            BY <1>2, <2>1, <2>2, CountsAssumption DEF Exists, Placed, Filed
        <3> QED
            BY <1>1, <1>5, <1>6, <2>2, <3>1 DEF BeingRead, HoldsMutex
    <2>3. CASE c # s
        <3>1. BeingRead(v, c)
            BY <1>1, <1>4, <1>6, <2>1, <2>3 DEF NoLostWakeup, Unread
        <3>2. v = w => current[v] # c
            BY <2>3
        <3> QED
            BY <1>1, <1>3, <3>1, <3>2 DEF BeingRead
    <2> QED
        BY <2>2, <2>3
<1> QED
    BY <1>6 DEF NoLostWakeup, Unread

LEMMA UpFalls ==
    ASSUME TypeOK, NEW w \in WorkerIds, NEW s \in Clients, NEW what \in Nat,
           \/ Send(w, s, what)
           \/ CloseSession(w, s) /\ UNCHANGED peer
    PROVE  /\ \A c \in Clients : up'[c] => up[c]
           /\ \A c \in Clients : peer'[c] # "open" => peer[c] # "open"
<1>1. CloseSession(w, s) \/ UNCHANGED up
    BY SendEffect
<1>2. \A c \in Clients : up'[c] => up[c]
    <2>1. CloseSession(w, s) => up' = [up EXCEPT ![s] = FALSE]
        BY CloseEquations
    <2> QED
        BY <1>1, <2>1 DEF TypeOK, SessionTypes
<1>3. \A c \in Clients : peer'[c] # "open" => peer[c] # "open"
    BY SendEffect
<1> QED
    BY <1>2, <1>3

LEMMA PackageWakes ==
    ASSUME TypeOK, Placed, NoLostWakeup, NEW w \in WorkerIds,
           HandleHandshake(w) \/ HandleHandshakeAck(w) \/ HandleAndAnswer(w) \/ HandleKick(w)
    PROVE  NoLostWakeup'
<1> PICK s : s = current[w]
    OBVIOUS
<1>1. UNCHANGED <<wire, edge, pollVars, fdOf>> /\ HoldsMutex(w) /\ buf[s] # <<>>
    BY DEF HandleHandshake, HandleHandshakeAck, HandleAndAnswer, HandleKick, Package, WorkerAt, HoldsMutex
<1>2. s \in Clients
    BY <1>1 DEF TypeOK, PollTypes
<1>3. buf[s] \in Seq(Kinds \X Nat)
    BY <1>2 DEF TypeOK, SessionTypes
<1>4. Head(buf[s]) \in Kinds \X Nat
    BY <1>1, <1>3
<1>5. Head(buf[s])[2] \in Nat
    BY <1>4
<1>6. /\ \A c \in Clients : up'[c] => up[c]
      /\ \A c \in Clients : peer'[c] # "open" => peer[c] # "open"
    <2>1. CASE HandleHandshakeAck(w)
        BY <2>1 DEF HandleHandshakeAck
    <2>2. CASE HandleHandshake(w) \/ HandleAndAnswer(w) \/ HandleKick(w)
        <3>1. \E what \in Nat : Send(w, s, what) \/ (CloseSession(w, s) /\ UNCHANGED peer)
            BY <1>5, <2>2 DEF HandleHandshake, HandleAndAnswer, HandleKick
        <3> QED
            BY <1>2, <3>1, UpFalls
    <2> QED
        BY <2>1, <2>2
<1> QED
    BY <1>1, <1>6, WakeKept DEF pollVars, Exists, HoldsMutex, Unread

LEMMA TimerStepWakes ==
    ASSUME TypeOK, NoLostWakeup, NEW w \in WorkerIds, NEW t \in todo[w],
           TimerRemoved(w, t) \/ BeatReturns(w, t) \/ BeatTimeout(w, t) \/ BeatSends(w, t) \/ BeatDangles(w, t)
    PROVE  NoLostWakeup'
<1>1. UNCHANGED <<wire, edge, pollVars, fdOf>>
    BY DEF TimerRemoved, BeatReturns, BeatTimeout, BeatSends, BeatDangles, Due
<1>2. t[2] \in Clients
    BY DEF TypeOK, TimerTypes
<1>3. /\ \A c \in Clients : up'[c] => up[c]
      /\ \A c \in Clients : peer'[c] # "open" => peer[c] # "open"
    <2>1. \/ UNCHANGED <<up, peer>>
          \/ Send(w, t[2], 0)
          \/ CloseSession(w, t[2]) /\ UNCHANGED peer
        BY DEF TimerRemoved, BeatReturns, BeatTimeout, BeatSends, BeatDangles
    <2>2. CASE UNCHANGED <<up, peer>>
        BY <2>2
    <2>3. CASE Send(w, t[2], 0) \/ (CloseSession(w, t[2]) /\ UNCHANGED peer)
        BY <1>2, <2>3, UpFalls
    <2> QED
        BY <2>1, <2>2, <2>3
<1> QED
    BY <1>1, <1>3, WakeKept DEF pollVars, Exists, HoldsMutex, Unread

LEMMA ForgetWakes ==
    ASSUME TypeOK, NoLostWakeup, NEW w \in WorkerIds, Drop(w) \/ Cleanup(w)
    PROVE  NoLostWakeup'
<1>1. UNCHANGED <<wire, peer, edge, events, current, fdOf>>
    BY DEF Drop, Cleanup
<1>2. \E f : sessions' = [sessions EXCEPT ![w][f] = Nobody]
    BY DEF Drop, Cleanup
<1>3. \A v \in WorkerIds, c \in Clients : Exists(v, c)' => Exists(v, c)
    BY <1>2, CountsAssumption DEF Exists, TypeOK, PollTypes
<1>4. CASE Drop(w)
    <2> PICK s : s = current[w]
        OBVIOUS
    <2>1. HoldsMutex(w) /\ CloseSession(w, s)
        BY <1>4 DEF Drop, WorkerAt, HoldsMutex
    <2>2. s \in Clients
        BY <2>1 DEF TypeOK, PollTypes
    <2>0. up' = [up EXCEPT ![s] = FALSE]
        BY <2>1, <2>2, CloseEquations
    <2>3. \A c \in Clients : up'[c] => up[c] /\ c # s
        BY <2>0 DEF TypeOK, SessionTypes
    <2>4. \A v \in WorkerIds : v # w => at'[v] = at[v]
        BY <1>4 DEF Drop, Goto, TypeOK, PollTypes
    <2> QED
        BY <1>1, <1>3, <2>3, <2>4, WakeKept DEF HoldsMutex, Unread
<1>5. CASE Cleanup(w)
    <2>1. UNCHANGED at
        BY <1>5 DEF Cleanup
    <2>2. \E s : up' = [up EXCEPT ![s] = FALSE]
        BY <1>5 DEF Cleanup
    <2>3. \A c \in Clients : up'[c] => up[c]
        BY <2>2 DEF TypeOK, SessionTypes
    <2> QED
        BY <1>1, <1>3, <2>1, <2>3, WakeKept DEF HoldsMutex, Unread
<1> QED
    BY <1>4, <1>5

LEMMA OtherWakes ==
    ASSUME TypeOK, NoLostWakeup,
           \/ UNCHANGED vars \/ SignalHandler \/ Main
           \/ \E w \in WorkerIds : Loop(w) \/ Adopted(w) \/ TickStarts(w) \/ TickEnds(w) \/ Stop(w)
    PROVE  NoLostWakeup'
<1>1. UNCHANGED <<wire, peer, edge, sessions, events, current, up, fdOf>>
    BY DEF vars, SignalHandler, Main, Accept, Enqueue, MainStops, Join, Loop, Adopted, TickStarts, TickEnds,
           Stop, kernelVars, pollVars, sessionVars
<1>2. \A v \in WorkerIds : HoldsMutex(v) => HoldsMutex(v)'
    <2>1. CASE UNCHANGED vars \/ SignalHandler \/ Main
        BY <2>1 DEF vars, SignalHandler, Main, Accept, Enqueue, MainStops, Join, pollVars, HoldsMutex
    <2>2. ASSUME NEW w \in WorkerIds, Loop(w) \/ Adopted(w) \/ TickStarts(w) \/ TickEnds(w) \/ Stop(w)
          PROVE  ~HoldsMutex(w) /\ \A v \in WorkerIds : v # w => at'[v] = at[v]
        BY <2>2 DEF Loop, Adopted, TickStarts, TickEnds, Stop, WorkerAt, Goto, HoldsMutex, TypeOK, PollTypes
    <2> QED
        BY <2>1, <2>2 DEF HoldsMutex
<1> QED
    BY <1>1, <1>2, WakeKept DEF Exists, Unread

LEMMA NextWakes == IInv /\ NoLostWakeup /\ [Next]_vars => NoLostWakeup'
<1> SUFFICES ASSUME IInv, NoLostWakeup, [Next]_vars PROVE NoLostWakeup'
    OBVIOUS
<1>1. TypeOK /\ Placed /\ Filed /\ NoEvents
    BY DEF IInv, Placed
<1>2. ASSUME NEW w \in WorkerIds, Worker(w) PROVE NoLostWakeup'
    <2>1. CASE Loop(w) \/ Adopted(w) \/ TickStarts(w) \/ TickEnds(w) \/ Stop(w)
        BY <1>1, <2>1, OtherWakes
    <2>2. CASE Adopt(w) \/ Wait(w) \/ HandleEvent(w)
        BY <1>1, <2>2, AdoptWakes, WaitWakes, HandleEventWakes
    <2>3. CASE Recv(w) \/ RecvEnds(w) \/ Drained(w)
        BY <1>1, <2>3, ReadWakes
    <2>4. CASE HandleHandshake(w) \/ HandleHandshakeAck(w) \/ HandleAndAnswer(w) \/ HandleKick(w)
        BY <1>1, <2>4, PackageWakes
    <2>5. CASE Drop(w) \/ Cleanup(w)
        BY <1>1, <2>5, ForgetWakes
    <2>6. ASSUME NEW t \in todo[w], \/ TimerRemoved(w, t) \/ BeatReturns(w, t) \/ BeatTimeout(w, t)
                                    \/ BeatSends(w, t) \/ BeatDangles(w, t)
          PROVE  NoLostWakeup'
        BY <1>1, <2>6, TimerStepWakes
    <2> QED
        BY <1>2, <2>1, <2>2, <2>3, <2>4, <2>5, <2>6 DEF Worker
<1> QED
    BY <1>1, <1>2, ClientWakes, OtherWakes DEF Next

(* An edge-triggered event that was reported once is never needed again:   *)
(* what a running session has not read is still to be reported, is among   *)
(* the events in hand, or is being read.                                   *)
THEOREM NoWakeupIsLost == Spec => []NoLostWakeup
<1>1. Init => NoLostWakeup
    BY DEF Init, NoLostWakeup
<1> QED
    BY <1>1, InitIInv, NextIInv, NextWakes, PTL DEF Spec

-----------------------------------------------------------------------------
(* Answers in order *)

(* The packages a client has sent are numbered in the order in which they  *)
(* wait, those of the buffer before those of the socket, and what has been *)
(* answered is older than what waits.                                      *)
(* Packages are numbered in the order the client sent them. *)
Numbered ==
    \A c \in Clients :
        /\ \A i \in 1..Len(buf[c]) : buf[c][i][2] \in 1..sent[c]
        /\ \A i \in 1..Len(wire[c]) : wire[c][i][2] \in 1..sent[c]
        /\ \A i, j \in 1..Len(buf[c]) : i < j => buf[c][i][2] < buf[c][j][2]
        /\ \A i, j \in 1..Len(wire[c]) : i < j => wire[c][i][2] < wire[c][j][2]
        /\ \A i \in 1..Len(buf[c]), j \in 1..Len(wire[c]) : buf[c][i][2] < wire[c][j][2]

(* What has not been handled comes behind every answer. *)
Answered ==
    \A c, d \in Clients : \A k \in 1..Len(inbox[d]) : inbox[d][k][1] = c =>
        /\ inbox[d][k][2] <= sent[c]
        /\ \A i \in 1..Len(buf[c]) : inbox[d][k][2] < buf[c][i][2]
        /\ \A i \in 1..Len(wire[c]) : inbox[d][k][2] < wire[c][i][2]

InOrder == Numbered /\ Answered /\ AnswersInOrder

LEMMA SendKeepsOrder ==
    ASSUME TypeOK, InOrder, NEW c \in Clients, ClientSend(c) PROVE InOrder'
<1> USE DEF InOrder
<1> PICK kind \in Kinds : wire' = [wire EXCEPT ![c] = Append(@, <<kind, sent[c] + 1>>)]
    BY DEF ClientSend
<1> DEFINE q == wire[c]
           n == Len(q)
<1>1. UNCHANGED <<buf, inbox>>
    BY DEF ClientSend, sessionVars
<1>2. /\ sent'[c] = sent[c] + 1 /\ sent[c] \in Nat
      /\ \A d \in Clients : d # c => sent'[d] = sent[d] /\ wire'[d] = wire[d]
    BY DEF ClientSend, TypeOK, KernelTypes
<1>3. /\ n \in Nat /\ Len(wire'[c]) = n + 1 /\ \A i \in 1..n : wire'[c][i] = q[i]
      /\ wire'[c][n + 1] = <<kind, sent[c] + 1>>
    <2>1. q \in Seq(Kinds \X Nat) /\ <<kind, sent[c] + 1>> \in Kinds \X Nat
        BY DEF TypeOK, KernelTypes
    <2>2. wire'[c] = Append(q, <<kind, sent[c] + 1>>)
        BY DEF TypeOK, KernelTypes
    <2> QED
        BY <2>1, <2>2, AppendProperties
<1>4. wire'[c][n + 1][2] = sent[c] + 1
    BY <1>3
<1>5. Numbered'
    <2> SUFFICES ASSUME NEW d \in Clients
                 PROVE  /\ \A i \in 1..Len(buf[d]) : buf[d][i][2] \in 1..sent'[d]
                        /\ \A i \in 1..Len(wire'[d]) : wire'[d][i][2] \in 1..sent'[d]
                        /\ \A i, j \in 1..Len(buf[d]) : i < j => buf[d][i][2] < buf[d][j][2]
                        /\ \A i, j \in 1..Len(wire'[d]) : i < j => wire'[d][i][2] < wire'[d][j][2]
                        /\ \A i \in 1..Len(buf[d]), j \in 1..Len(wire'[d]) : buf[d][i][2] < wire'[d][j][2]
        BY <1>1 DEF Numbered
    <2>1. CASE d # c
        BY <1>2, <2>1 DEF Numbered
    <2>2. CASE d = c
        <3>1. \A i \in 1..Len(buf[c]) : buf[c][i][2] \in 1..sent'[c]
            BY <1>2 DEF Numbered
        <3>2. \A i \in 1..Len(wire'[c]) : \/ i \in 1..n /\ wire'[c][i][2] = q[i][2]
                                          \/ i = n + 1 /\ wire'[c][i][2] = sent[c] + 1
            BY <1>3, <1>4
        <3>3. \A i \in 1..Len(wire'[c]) : wire'[c][i][2] \in 1..sent'[c]
            BY <1>2, <3>2, SMTT(40) DEF Numbered
        <3>4. \A i, j \in 1..Len(wire'[c]) : i < j => wire'[c][i][2] < wire'[c][j][2]
            BY <1>2, <1>3, <3>2 DEF Numbered
        <3>5. \A i \in 1..Len(buf[c]), j \in 1..Len(wire'[c]) : buf[c][i][2] < wire'[c][j][2]
            BY <1>2, <3>2 DEF Numbered
        <3> QED
            BY <2>2, <3>1, <3>3, <3>4, <3>5 DEF Numbered
    <2> QED
        BY <2>1, <2>2
<1>6. Answered'
    <2> SUFFICES ASSUME NEW d \in Clients, NEW e \in Clients, NEW k \in 1..Len(inbox[e]), inbox[e][k][1] = d
                 PROVE  /\ inbox[e][k][2] <= sent'[d]
                        /\ \A i \in 1..Len(buf[d]) : inbox[e][k][2] < buf[d][i][2]
                        /\ \A i \in 1..Len(wire'[d]) : inbox[e][k][2] < wire'[d][i][2]
        BY <1>1 DEF Answered
    <2>0. inbox[e][k][2] \in Nat
        <3>1. inbox[e] \in Seq(Clients \X Nat)
            BY DEF TypeOK, KernelTypes
        <3>2. inbox[e][k] \in Clients \X Nat
            BY <3>1
        <3> QED
            BY <3>2
    <2>1. CASE d # c
        BY <1>2, <2>1 DEF Answered
    <2>2. CASE d = c
        <3>1. inbox[e][k][2] <= sent[c]
            BY <2>2 DEF Answered
        <3>2. \A i \in 1..Len(wire'[c]) : \/ i \in 1..n /\ wire'[c][i][2] = q[i][2]
                                          \/ i = n + 1 /\ wire'[c][i][2] = sent[c] + 1
            BY <1>3, <1>4
        <3>3. \A i \in 1..Len(wire'[c]) : inbox[e][k][2] < wire'[c][i][2]
            BY <1>2, <2>0, <2>2, <3>1, <3>2 DEF Answered
        <3> QED
            BY <1>2, <2>0, <2>2, <3>1, <3>3 DEF Answered
    <2> QED
        BY <2>1, <2>2
<1>7. AnswersInOrder'
    BY <1>1 DEF AnswersInOrder
<1> QED
    BY <1>5, <1>6, <1>7

LEMMA RecvKeepsOrder ==
    ASSUME TypeOK, InOrder, NEW w \in WorkerIds, Recv(w) PROVE InOrder'
<1> USE DEF InOrder
<1> PICK s : s = current[w]
    OBVIOUS
<1>1. s \in Clients
    BY DEF Recv, WorkerAt, TypeOK, PollTypes, HoldsMutex
<1> PICK n \in 1..Len(wire[s]) :
        /\ buf' = [buf EXCEPT ![s] = SubSeq(wire[s], 1, n)]
        /\ wire' = [wire EXCEPT ![s] = SubSeq(@, n + 1, Len(@))]
    BY DEF Recv
<1>2. UNCHANGED <<inbox, sent>>
    BY DEF Recv, historyVars
<1> DEFINE q == wire[s]
<1>3. q \in Seq(Kinds \X Nat) /\ Len(q) \in Nat /\ n \in Nat
    BY <1>1 DEF TypeOK, KernelTypes
<1>4. /\ Len(SubSeq(q, 1, n)) = n /\ \A i \in 1..n : SubSeq(q, 1, n)[i] = q[i]
      /\ Len(SubSeq(q, n + 1, Len(q))) = Len(q) - n
      /\ \A i \in 1..(Len(q) - n) : SubSeq(q, n + 1, Len(q))[i] = q[n + i]
    BY <1>3
<1>5. /\ Len(buf'[s]) = n /\ \A i \in 1..n : buf'[s][i] = q[i]
      /\ Len(wire'[s]) = Len(q) - n /\ \A i \in 1..(Len(q) - n) : wire'[s][i] = q[n + i]
      /\ \A c \in Clients : c # s => buf'[c] = buf[c] /\ wire'[c] = wire[c]
    BY <1>1, <1>4 DEF TypeOK, KernelTypes, SessionTypes
<1>6. \A i \in 1..(Len(q) - n) : n + i \in 1..Len(q)
    BY <1>3
<1>7. Numbered'
    <2> SUFFICES ASSUME NEW c \in Clients
                 PROVE  /\ \A i \in 1..Len(buf'[c]) : buf'[c][i][2] \in 1..sent[c]
                        /\ \A i \in 1..Len(wire'[c]) : wire'[c][i][2] \in 1..sent[c]
                        /\ \A i, j \in 1..Len(buf'[c]) : i < j => buf'[c][i][2] < buf'[c][j][2]
                        /\ \A i, j \in 1..Len(wire'[c]) : i < j => wire'[c][i][2] < wire'[c][j][2]
                        /\ \A i \in 1..Len(buf'[c]), j \in 1..Len(wire'[c]) : buf'[c][i][2] < wire'[c][j][2]
        BY <1>2 DEF Numbered
    <2>1. CASE c # s
        BY <1>5, <2>1 DEF Numbered
    <2>2. CASE c = s
        <3>1. \A i \in 1..n : i \in 1..Len(q) /\ buf'[s][i][2] = q[i][2]
            <4>1. \A i \in 1..n : i \in 1..Len(q)
                BY <1>3
            <4> QED
                BY <1>5, <4>1
        <3>2. \A i \in 1..(Len(q) - n) : n + i \in 1..Len(q) /\ wire'[s][i][2] = q[n + i][2]
            BY <1>5, <1>6
        <3>3. /\ \A i \in 1..n : buf'[s][i][2] \in 1..sent[s]
              /\ \A i \in 1..(Len(q) - n) : wire'[s][i][2] \in 1..sent[s]
            BY <1>1, <3>1, <3>2 DEF Numbered
        <3>4. \A i, j \in 1..n : i < j => buf'[s][i][2] < buf'[s][j][2]
            BY <1>1, <3>1 DEF Numbered
        <3>0. \A i, j \in 1..Len(q) : i < j => q[i][2] < q[j][2]
            BY <1>1 DEF Numbered
        <3>5. \A i, j \in 1..(Len(q) - n) : i < j => wire'[s][i][2] < wire'[s][j][2]
            <4> SUFFICES ASSUME NEW i \in 1..(Len(q) - n), NEW j \in 1..(Len(q) - n), i < j
                         PROVE  wire'[s][i][2] < wire'[s][j][2]
                OBVIOUS
            <4>1. n + i \in 1..Len(q) /\ n + j \in 1..Len(q) /\ n + i < n + j
                BY <1>3, <3>2
            <4>2. q[n + i][2] < q[n + j][2]
                BY <3>0, <4>1
            <4> QED
                BY <3>2, <4>2
        <3>6. \A i \in 1..n, j \in 1..(Len(q) - n) : buf'[s][i][2] < wire'[s][j][2]
            <4> SUFFICES ASSUME NEW i \in 1..n, NEW j \in 1..(Len(q) - n)
                         PROVE  buf'[s][i][2] < wire'[s][j][2]
                OBVIOUS
            <4>1. i \in 1..Len(q) /\ n + j \in 1..Len(q) /\ i < n + j
                BY <1>3, <3>1, <3>2
            <4>2. q[i][2] < q[n + j][2]
                BY <3>0, <4>1
            <4> QED
                BY <3>1, <3>2, <4>2
        <3>7. buf'[c] = buf'[s] /\ wire'[c] = wire'[s] /\ sent[c] = sent[s]
            BY <2>2, Zenon
        <3>8. Len(buf'[s]) = n /\ Len(wire'[s]) = Len(q) - n
            BY <1>5, Zenon
        <3> HIDE DEF q
        <3> QED
            BY <3>3, <3>4, <3>5, <3>6, <3>7, <3>8, ZenonT(40)
    <2> QED
        BY <2>1, <2>2
<1>8. Answered'
    <2> SUFFICES ASSUME NEW c \in Clients, NEW e \in Clients, NEW k \in 1..Len(inbox[e]), inbox[e][k][1] = c
                 PROVE  /\ inbox[e][k][2] <= sent[c]
                        /\ \A i \in 1..Len(buf'[c]) : inbox[e][k][2] < buf'[c][i][2]
                        /\ \A i \in 1..Len(wire'[c]) : inbox[e][k][2] < wire'[c][i][2]
        BY <1>2 DEF Answered
    <2>1. CASE c # s
        BY <1>5, <2>1 DEF Answered
    <2>2. CASE c = s
        <3>1. inbox[e][k][2] <= sent[c] /\ \A i \in 1..Len(q) : inbox[e][k][2] < q[i][2]
            BY <2>2 DEF Answered
        <3>2. \A i \in 1..n : i \in 1..Len(q)
            BY <1>3
        <3> QED
            BY <1>5, <1>6, <2>2, <3>1, <3>2
    <2> QED
        BY <2>1, <2>2
<1>9. AnswersInOrder'
    BY <1>2 DEF AnswersInOrder
<1> QED
    BY <1>7, <1>8, <1>9

(* The first package of a buffer is processed and may be answered.         *)
LEMMA PackageKeepsOrder ==
    ASSUME TypeOK, InOrder, NEW w \in WorkerIds,
           HandleHandshake(w) \/ HandleHandshakeAck(w) \/ HandleAndAnswer(w) \/ HandleKick(w)
    PROVE  InOrder'
<1> USE DEF InOrder
<1> PICK s : s = current[w]
    OBVIOUS
<1>1. /\ UNCHANGED <<wire, sent>> /\ HoldsMutex(w)
      /\ buf[s] # <<>> /\ buf' = [buf EXCEPT ![s] = Tail(@)]
    BY DEF HandleHandshake, HandleHandshakeAck, HandleAndAnswer, HandleKick, Package, WorkerAt, HoldsMutex,
           historyVars
<1>2. s \in Clients
    BY <1>1 DEF TypeOK, PollTypes
<1> DEFINE q == buf[s]
           n == q[1][2]
<1>3. q \in Seq(Kinds \X Nat) /\ q # <<>>
    BY <1>1, <1>2 DEF TypeOK, SessionTypes
<1>4. /\ Len(q) \in Nat \ {0} /\ Head(q) = q[1] /\ q[1] \in Kinds \X Nat
      /\ Len(Tail(q)) = Len(q) - 1 /\ \A i \in 1..(Len(q) - 1) : Tail(q)[i] = q[i + 1]
    BY <1>3
<1>5. /\ Len(buf'[s]) = Len(q) - 1 /\ \A i \in 1..(Len(q) - 1) : buf'[s][i] = q[i + 1] /\ i + 1 \in 1..Len(q)
      /\ \A c \in Clients : c # s => buf'[c] = buf[c]
    <2>1. buf'[s] = Tail(q) /\ \A c \in Clients : c # s => buf'[c] = buf[c]
        BY <1>1, <1>2 DEF TypeOK, SessionTypes
    <2> QED
        BY <1>4, <2>1
<1>6. n \in Nat /\ n \in 1..sent[s] /\ 1 \in 1..Len(q)
    BY <1>2, <1>4 DEF Numbered
<1>7. Numbered'
    <2> SUFFICES ASSUME NEW c \in Clients
                 PROVE  /\ \A i \in 1..Len(buf'[c]) : buf'[c][i][2] \in 1..sent[c]
                        /\ \A i \in 1..Len(wire[c]) : wire[c][i][2] \in 1..sent[c]
                        /\ \A i, j \in 1..Len(buf'[c]) : i < j => buf'[c][i][2] < buf'[c][j][2]
                        /\ \A i, j \in 1..Len(wire[c]) : i < j => wire[c][i][2] < wire[c][j][2]
                        /\ \A i \in 1..Len(buf'[c]), j \in 1..Len(wire[c]) : buf'[c][i][2] < wire[c][j][2]
        BY <1>1 DEF Numbered
    <2>1. CASE c # s
        BY <1>5, <2>1 DEF Numbered
    <2>2. CASE c = s
        <3>0. \A i, j \in 1..Len(q) : i < j => q[i][2] < q[j][2]
            BY <1>2 DEF Numbered
        <3>1. \A i, j \in 1..(Len(q) - 1) : i < j => buf'[s][i][2] < buf'[s][j][2]
            <4> SUFFICES ASSUME NEW i \in 1..(Len(q) - 1), NEW j \in 1..(Len(q) - 1), i < j
                         PROVE  buf'[s][i][2] < buf'[s][j][2]
                OBVIOUS
            <4>1. i + 1 \in 1..Len(q) /\ j + 1 \in 1..Len(q) /\ i + 1 < j + 1
                BY <1>4, <1>5
            <4>2. q[i + 1][2] < q[j + 1][2]
                BY <3>0, <4>1
            <4> QED
                BY <1>5, <4>2
        <3>2. /\ \A i \in 1..Len(q) : q[i][2] \in 1..sent[s]
              /\ \A i \in 1..Len(wire[s]) : wire[s][i][2] \in 1..sent[s]
              /\ \A i, j \in 1..Len(wire[s]) : i < j => wire[s][i][2] < wire[s][j][2]
              /\ \A i \in 1..Len(q), j \in 1..Len(wire[s]) : q[i][2] < wire[s][j][2]
            BY <1>2 DEF Numbered
        <3>3. \A i \in 1..Len(buf'[s]) : i \in 1..(Len(q) - 1) /\ i + 1 \in 1..Len(q) /\ buf'[s][i] = q[i + 1]
            BY <1>5
        <3>4. \A i \in 1..Len(buf'[s]) : buf'[s][i][2] \in 1..sent[s]
            BY <3>2, <3>3
        <3>5. \A i \in 1..Len(buf'[s]), j \in 1..Len(wire[s]) : buf'[s][i][2] < wire[s][j][2]
            BY <3>2, <3>3
        <3>6. \A i, j \in 1..Len(buf'[s]) : i < j => buf'[s][i][2] < buf'[s][j][2]
            BY <3>1, <3>3
        <3> QED
            BY <2>2, <3>2, <3>4, <3>5, <3>6
    <2> QED
        BY <2>1, <2>2
<1>8. \/ inbox' = inbox
      \/ \E d \in Clients : inbox' = [inbox EXCEPT ![d] = Append(@, <<s, n>>)]
    <2>1. CASE HandleHandshake(w) \/ HandleAndAnswer(w)
        <3>1. CASE HandleHandshake(w)
            <4>1. Send(w, s, 0)
                BY <3>1 DEF HandleHandshake
            <4> QED
                BY <1>2, <4>1, SendEffect
        <3>2. CASE HandleAndAnswer(w)
            <4>1. Send(w, s, n)
                BY <1>4, <3>2 DEF HandleAndAnswer
            <4> HIDE DEF n
            <4> QED
                BY <1>2, <1>6, <4>1, SendEffect
        <3> QED
            BY <2>1, <3>1, <3>2
    <2>2. CASE HandleHandshakeAck(w) \/ HandleKick(w)
        BY <2>2 DEF HandleHandshakeAck, HandleKick
    <2> QED
        BY <2>1, <2>2
<1>9. ASSUME NEW d \in Clients, NEW k \in 1..Len(inbox'[d])
      PROVE  \/ k \in 1..Len(inbox[d]) /\ inbox'[d][k] = inbox[d][k]
             \/ k = Len(inbox[d]) + 1 /\ inbox'[d][k] = <<s, n>>
    <2>1. inbox[d] \in Seq(Clients \X Nat) /\ <<s, n>> \in Clients \X Nat
        BY <1>2, <1>6 DEF TypeOK, KernelTypes
    <2>0. inbox \in [Clients -> Seq(Clients \X Nat)]
        BY DEF TypeOK, KernelTypes
    <2> HIDE DEF n
    <2>2. inbox'[d] = inbox[d] \/ inbox'[d] = Append(inbox[d], <<s, n>>)
        BY <1>8, <2>0
    <2>3. CASE inbox'[d] = inbox[d]
        BY <1>9, <2>3
    <2>4. CASE inbox'[d] = Append(inbox[d], <<s, n>>)
        BY <1>9, <2>1, <2>4, AppendProperties
    <2> QED
        BY <2>2, <2>3, <2>4
<1>10. Answered'
    <2> SUFFICES ASSUME NEW c \in Clients, NEW d \in Clients, NEW k \in 1..Len(inbox'[d]), inbox'[d][k][1] = c
                 PROVE  /\ inbox'[d][k][2] <= sent[c]
                        /\ \A i \in 1..Len(buf'[c]) : inbox'[d][k][2] < buf'[c][i][2]
                        /\ \A i \in 1..Len(wire[c]) : inbox'[d][k][2] < wire[c][i][2]
        BY <1>1 DEF Answered
    <2>1. CASE inbox'[d][k] = <<s, n>>
        <3>1. c = s /\ inbox'[d][k][2] = n
            BY <2>1
        <3>2. n <= sent[s]
            BY <1>2, <1>6 DEF TypeOK
        <3>3. \A i \in 1..Len(buf'[s]) : n < buf'[s][i][2]
            <4> SUFFICES ASSUME NEW i \in 1..Len(buf'[s]) PROVE n < buf'[s][i][2]
                OBVIOUS
            <4>1. i + 1 \in 1..Len(q) /\ 1 < i + 1 /\ buf'[s][i] = q[i + 1]
                BY <1>4, <1>5
            <4>2. \A a, b \in 1..Len(q) : a < b => q[a][2] < q[b][2]
                BY <1>2 DEF Numbered
            <4>3. q[1][2] < q[i + 1][2]
                BY <1>6, <4>1, <4>2
            <4> QED
                BY <4>1, <4>3
        <3>4. \A i \in 1..Len(wire[s]) : n < wire[s][i][2]
            BY <1>2, <1>6 DEF Numbered
        <3> QED
            BY <3>1, <3>2, <3>3, <3>4
    <2>2. CASE k \in 1..Len(inbox[d]) /\ inbox'[d][k] = inbox[d][k]
        <3>1. /\ inbox[d][k][2] <= sent[c]
              /\ \A i \in 1..Len(buf[c]) : inbox[d][k][2] < buf[c][i][2]
              /\ \A i \in 1..Len(wire[c]) : inbox[d][k][2] < wire[c][i][2]
            BY <2>2 DEF Answered
        <3>0. \A i \in 1..Len(buf'[s]) : i + 1 \in 1..Len(q) /\ buf'[s][i] = q[i + 1]
            BY <1>5
        <3>2. \A i \in 1..Len(buf'[c]) : inbox[d][k][2] < buf'[c][i][2]
            <4>1. CASE c # s
                BY <1>5, <3>1, <4>1
            <4>2. CASE c = s
                <5>1. \A i \in 1..Len(q) : inbox[d][k][2] < q[i][2]
                    BY <3>1, <4>2
                <5> QED
                    BY <3>0, <4>2, <5>1
            <4> QED
                BY <4>1, <4>2
        <3> QED
            BY <2>2, <3>1, <3>2
    <2> QED
        BY <1>9, <2>1, <2>2
<1>11. AnswersInOrder'
    <2> SUFFICES ASSUME NEW d \in Clients, NEW i \in 1..Len(inbox'[d]), NEW j \in 1..Len(inbox'[d]),
                        i < j, inbox'[d][i][1] = inbox'[d][j][1]
                 PROVE  inbox'[d][i][2] < inbox'[d][j][2]
        BY DEF AnswersInOrder
    <2>0. Len(inbox[d]) \in Nat
        BY DEF TypeOK, KernelTypes
    <2>1. CASE j \in 1..Len(inbox[d]) /\ inbox'[d][j] = inbox[d][j]
        <3>1. i \in 1..Len(inbox[d]) /\ inbox'[d][i] = inbox[d][i]
            BY <1>9, <2>0, <2>1
        <3> QED
            BY <2>1, <3>1 DEF AnswersInOrder
    <2>2. CASE j = Len(inbox[d]) + 1 /\ inbox'[d][j] = <<s, n>>
        <3>1. i \in 1..Len(inbox[d]) /\ inbox'[d][i] = inbox[d][i]
            BY <1>9, <2>0, <2>2
        <3>2. inbox[d][i][1] = s
            BY <2>2, <3>1
        <3>3. inbox[d][i][2] < n
            BY <1>2, <1>6, <3>1, <3>2 DEF Answered
        <3> QED
            BY <2>2, <3>1, <3>3
    <2> QED
        BY <1>9, <2>1, <2>2
<1> QED
    BY <1>7, <1>10, <1>11

LEMMA NextInOrder == ASSUME TypeOK, InOrder, [Next]_vars PROVE InOrder'
<1>1. ASSUME UNCHANGED <<buf, wire, inbox, sent>> PROVE InOrder'
    BY <1>1 DEF InOrder, Numbered, Answered, AnswersInOrder
<1>2. ASSUME NEW c \in Clients, Client(c) PROVE InOrder'
    <2>1. CASE ClientConnect(c) \/ ClientLeave(c)
        BY <1>1, <2>1 DEF ClientConnect, ClientLeave, sessionVars, historyVars
    <2> QED
        BY <1>2, <2>1, SendKeepsOrder DEF Client
<1>3. CASE SignalHandler \/ Main \/ UNCHANGED vars
    BY <1>1, <1>3 DEF SignalHandler, Main, Accept, Enqueue, MainStops, Join, vars, kernelVars, sessionVars,
                      historyVars
<1>4. ASSUME NEW w \in WorkerIds, Worker(w) PROVE InOrder'
    <2>1. CASE \/ Loop(w) \/ Adopt(w) \/ Adopted(w) \/ Wait(w) \/ HandleEvent(w) \/ RecvEnds(w)
               \/ Drained(w) \/ Drop(w) \/ TickStarts(w) \/ TickEnds(w) \/ Cleanup(w) \/ Stop(w)
        BY <1>1, <2>1 DEF Loop, Adopt, Adopted, Wait, HandleEvent, RecvEnds, Drained, Drop, TickStarts,
                          TickEnds, Cleanup, Stop, kernelVars, sessionVars, historyVars
    <2>2. ASSUME NEW t \in todo[w], \/ TimerRemoved(w, t) \/ BeatReturns(w, t) \/ BeatTimeout(w, t)
                                    \/ BeatSends(w, t) \/ BeatDangles(w, t)
          PROVE  InOrder'
        <3>1. UNCHANGED <<buf, wire, sent>>
            BY <2>2 DEF TimerRemoved, BeatReturns, BeatTimeout, BeatSends, BeatDangles, Due, historyVars
        <3>2. t[2] \in Clients
            BY DEF TypeOK, TimerTypes
        <3>3. BeatSends(w, t) => inbox' = inbox
            BY <3>2, SendEffect DEF BeatSends
        <3>4. inbox' = inbox
            BY <2>2, <3>3 DEF TimerRemoved, BeatReturns, BeatTimeout, BeatDangles
        <3> QED
            BY <1>1, <3>1, <3>4
    <2> QED
        BY <1>4, <2>1, <2>2, RecvKeepsOrder, PackageKeepsOrder DEF Worker
<1> QED
    BY <1>2, <1>3, <1>4 DEF Next

(* A client is answered in the order it asked, and no question twice.      *)
THEOREM AnsweredInOrder == Spec => []AnswersInOrder
<1>1. Init => InOrder
    <2> SUFFICES ASSUME Init PROVE InOrder
        OBVIOUS
    <2>1. \A c \in Clients : buf[c] = <<>> /\ wire[c] = <<>> /\ inbox[c] = <<>>
        BY DEF Init
    <2> QED
        BY <2>1 DEF InOrder, Numbered, Answered, AnswersInOrder
<1>2. IInv /\ InOrder /\ [Next]_vars => InOrder'
    BY NextInOrder DEF IInv
<1>3. InOrder => AnswersInOrder
    BY DEF InOrder
<1> QED
    BY <1>1, <1>2, <1>3, InitIInv, NextIInv, PTL DEF Spec

-----------------------------------------------------------------------------
(* Heartbeats of destroyed sessions *)

Single == \A c \in Clients : acks[c] <= 1

AckIn(q) == \E i \in 1..Len(q) : q[i][1] = "ack"
OnlyAck(q) == \A i, j \in 1..Len(q) : q[i][1] = "ack" /\ q[j][1] = "ack" => i = j
Untimed(c) == \A w \in WorkerIds : \A t \in timers[w] : t[2] # c

(* next_id_ gives no id of a timer twice. *)
TimerIds ==
    \A w \in WorkerIds :
        /\ todo[w] \subseteq timers[w]
        /\ \A t \in timers[w] : t[1] \in 1..(nextId[w] - 1)
        /\ \A t, u \in timers[w] : t[1] = u[1] => t = u

(* While an acknowledgement waits, its client has no timer yet.            *)
(* A client that acknowledges once has no timer before that package is read. *)
OneAck ==
    Single => \A c \in Clients :
        /\ OnlyAck(buf[c]) /\ OnlyAck(wire[c]) /\ ~(AckIn(buf[c]) /\ AckIn(wire[c]))
        /\ AckIn(buf[c]) \/ AckIn(wire[c]) => acks[c] = 1
        /\ acks[c] = 0 \/ AckIn(buf[c]) \/ AckIn(wire[c]) => Untimed(c)

(* A timer is removed, or is the one its running session knows.            *)
(* A timer is removed, or the one its running session knows. *)
Kept ==
    Single => \A w \in WorkerIds : \A t \in timers[w] :
        \/ t[1] \in removed[w]
        \/ Exists(w, t[2]) /\ up[t[2]] /\ timerOf[t[2]] = t[1]

Beats == TimerIds /\ OneAck /\ Kept /\ (Single => ~dangling)

LEMMA AckFacts ==
    ASSUME NEW q, q \in Seq(Kinds \X Nat), q # <<>>
    PROVE  /\ AckIn(Tail(q)) => AckIn(q)
           /\ OnlyAck(q) => OnlyAck(Tail(q))
           /\ Head(q)[1] = "ack" => AckIn(q)
           /\ OnlyAck(q) /\ Head(q)[1] = "ack" => ~AckIn(Tail(q))
<1>1. /\ Len(q) \in Nat \ {0} /\ Head(q) = q[1] /\ Len(Tail(q)) = Len(q) - 1
      /\ \A i \in 1..(Len(q) - 1) : Tail(q)[i] = q[i + 1]
    OBVIOUS
<1>2. \A i \in 1..Len(Tail(q)) : i + 1 \in 1..Len(q) /\ Tail(q)[i] = q[i + 1] /\ i + 1 # 1
    BY <1>1
<1>3. 1 \in 1..Len(q)
    BY <1>1
<1>4. AckIn(Tail(q)) => AckIn(q)
    BY <1>2 DEF AckIn
<1>5. Head(q)[1] = "ack" => AckIn(q)
    BY <1>1, <1>3 DEF AckIn
<1>6. ASSUME OnlyAck(q), Head(q)[1] = "ack", AckIn(Tail(q)) PROVE FALSE
    <2> PICK i \in 1..Len(Tail(q)) : Tail(q)[i][1] = "ack"
        BY <1>6 DEF AckIn
    <2>1. q[i + 1][1] = "ack" /\ q[1][1] = "ack" /\ i + 1 # 1 /\ i + 1 \in 1..Len(q)
        BY <1>1, <1>2, <1>6
    <2> QED
        BY <1>3, <1>6, <2>1 DEF OnlyAck
<1>7. ASSUME OnlyAck(q), NEW i \in 1..Len(Tail(q)), NEW j \in 1..Len(Tail(q)),
             Tail(q)[i][1] = "ack", Tail(q)[j][1] = "ack"
      PROVE  i = j
    <2>1. i + 1 = j + 1
        BY <1>2, <1>7 DEF OnlyAck
    <2> QED
        BY <2>1
<1>8. OnlyAck(q) => OnlyAck(Tail(q))
    BY <1>7 DEF OnlyAck
<1> QED
    BY <1>4, <1>5, <1>6, <1>8

(* A step that may close session s of worker w.                            *)
Shuts(w, s) ==
    /\ \A v \in WorkerIds : removed[v] \subseteq removed'[v]
    /\ \A c \in Clients :
          \/ up'[c] = up[c] /\ timerOf'[c] = timerOf[c]
          \/ c = s /\ (timerOf[s] # 0 => ~up[s] \/ timerOf[s] \in removed'[w])

LEMMA CloseShuts ==
    ASSUME TypeOK, NEW w \in WorkerIds, NEW s \in Clients,
           CloseSession(w, s) \/ UNCHANGED <<up, removed, timerOf>>
    PROVE  Shuts(w, s)
<1>1. CASE UNCHANGED <<up, removed, timerOf>>
    BY <1>1 DEF Shuts
<1>2. CASE ~up[s] /\ CloseSession(w, s)
    BY <1>2 DEF Shuts, CloseSession
<1>3. CASE up[s] /\ CloseSession(w, s)
    <2>1. /\ up' = [up EXCEPT ![s] = FALSE] /\ timerOf' = [timerOf EXCEPT ![s] = 0]
          /\ removed' = [removed EXCEPT ![w] = IF timerOf[s] = 0 THEN @ ELSE @ \cup {timerOf[s]}]
        BY <1>3 DEF CloseSession
    <2>2. \A v \in WorkerIds : removed[v] \subseteq removed'[v]
        BY <2>1 DEF TypeOK, TimerTypes
    <2>3. timerOf[s] # 0 => timerOf[s] \in removed'[w]
        BY <2>1 DEF TypeOK, TimerTypes
    <2>4. \A c \in Clients : c # s => up'[c] = up[c] /\ timerOf'[c] = timerOf[c]
        BY <2>1 DEF TypeOK, SessionTypes
    <2> QED
        BY <2>2, <2>3, <2>4 DEF Shuts
<1> QED
    BY <1>1, <1>2, <1>3

LEMMA ShutKeeps ==
    ASSUME TypeOK, Filed, TimerIds, Kept, NEW w \in WorkerIds, NEW s \in Clients, Exists(w, s), Shuts(w, s),
           UNCHANGED acks, \A v \in WorkerIds : timers'[v] \subseteq timers[v],
           \A v \in WorkerIds, c \in Clients : Exists(v, c) /\ up'[c] => Exists(v, c)'
    PROVE  Kept'
<1> SUFFICES ASSUME Single, NEW v \in WorkerIds, NEW t \in timers'[v], t[1] \notin removed'[v]
             PROVE  Exists(v, t[2])' /\ up'[t[2]] /\ timerOf'[t[2]] = t[1]
    BY DEF Kept, Single
<1>1. t \in timers[v] /\ t[1] \notin removed[v]
    BY DEF Shuts
<1>2. Exists(v, t[2]) /\ up[t[2]] /\ timerOf[t[2]] = t[1]
    BY <1>1 DEF Kept
<1>3. t[2] \in Clients /\ t[1] # 0
    BY <1>1 DEF TypeOK, TimerTypes, TimerIds
<1>4. up'[t[2]] = up[t[2]] /\ timerOf'[t[2]] = timerOf[t[2]]
    <2> SUFFICES ASSUME t[2] = s, timerOf[s] # 0 => ~up[s] \/ timerOf[s] \in removed'[w] PROVE FALSE
        BY <1>3 DEF Shuts
    <2>1. v = w
        BY <1>2, CountsAssumption DEF Exists, Filed
    <2> QED
        BY <1>2, <1>3, <2>1
<1> QED
    BY <1>2, <1>3, <1>4

LEMMA QueuesKeepOneAck ==
    ASSUME TypeOK, OneAck, UNCHANGED <<acks, wire>>, \A v \in WorkerIds : timers'[v] \subseteq timers[v],
           \A c \in Clients : buf'[c] = buf[c] \/ (buf[c] # <<>> /\ buf'[c] = Tail(buf[c]))
    PROVE  OneAck'
<1>1. \A c \in Clients : Untimed(c) => Untimed(c)'
    BY DEF Untimed
<1>2. \A c \in Clients : /\ AckIn(buf'[c]) => AckIn(buf[c])
                         /\ OnlyAck(buf[c]) => OnlyAck(buf'[c])
    <2> SUFFICES ASSUME NEW c \in Clients
                 PROVE  (AckIn(buf'[c]) => AckIn(buf[c])) /\ (OnlyAck(buf[c]) => OnlyAck(buf'[c]))
        OBVIOUS
    <2>1. buf[c] \in Seq(Kinds \X Nat)
        BY DEF TypeOK, SessionTypes
    <2> QED
        BY <2>1, AckFacts
<1> QED
    BY <1>1, <1>2 DEF OneAck, Single

(* A step that leaves the timers, the sessions and the queues alone.       *)
BeatVars == <<timers, todo, removed, nextId, dangling, acks, buf, wire, sessions, up, timerOf>>

LEMMA BeatsKept == ASSUME Beats, UNCHANGED BeatVars PROVE Beats'
BY DEF Beats, BeatVars, TimerIds, OneAck, Kept, Single, Untimed, Exists

LEMMA ClientBeats == ASSUME TypeOK, Beats, NEW c \in Clients, Client(c) PROVE Beats'
<1>1. CASE ClientConnect(c) \/ ClientLeave(c)
    BY <1>1, BeatsKept DEF ClientConnect, ClientLeave, BeatVars, pollVars, timerVars, sessionVars, historyVars
<1>2. CASE ClientSend(c)
    <2>1. UNCHANGED <<timers, todo, removed, nextId, dangling, buf, sessions, up, timerOf>>
        BY <1>2 DEF ClientSend, pollVars, timerVars, sessionVars
    <2> PICK kind \in Kinds : /\ wire' = [wire EXCEPT ![c] = Append(@, <<kind, sent[c] + 1>>)]
                              /\ acks' = IF kind = "ack" THEN [acks EXCEPT ![c] = @ + 1] ELSE acks
        BY <1>2 DEF ClientSend
    <2> DEFINE q == wire[c]
    <2>2. /\ \A d \in Clients : d # c => wire'[d] = wire[d] /\ acks'[d] = acks[d]
          /\ acks[c] \in Nat /\ acks'[c] = IF kind = "ack" THEN acks[c] + 1 ELSE acks[c]
        BY DEF TypeOK, KernelTypes
    <2>3. /\ Len(q) \in Nat /\ Len(wire'[c]) = Len(q) + 1
          /\ \A i \in 1..Len(q) : wire'[c][i] = q[i]
          /\ wire'[c][Len(q) + 1] = <<kind, sent[c] + 1>>
        <3>1. q \in Seq(Kinds \X Nat) /\ <<kind, sent[c] + 1>> \in Kinds \X Nat
            BY DEF TypeOK, KernelTypes
        <3>2. wire'[c] = Append(q, <<kind, sent[c] + 1>>)
            BY DEF TypeOK, KernelTypes
        <3> QED
            BY <3>1, <3>2, AppendProperties
    <2>4. \A i \in 1..Len(wire'[c]) : \/ i \in 1..Len(q) /\ wire'[c][i][1] = q[i][1]
                                      \/ i = Len(q) + 1 /\ wire'[c][i][1] = kind
        BY <2>3
    <2>5. Single' => Single
        <3> SUFFICES ASSUME Single', NEW d \in Clients PROVE acks[d] <= 1
            BY DEF Single
        <3>1. acks'[d] <= 1
            BY DEF Single
        <3> QED
            BY <2>2, <3>1
    <2>6. TimerIds' /\ Kept' /\ (Single' => ~dangling')
        BY <2>1, <2>5 DEF Beats, TimerIds, Kept, Exists
    <2>7. OneAck'
        <3> SUFFICES ASSUME Single', NEW d \in Clients
                     PROVE  /\ OnlyAck(buf[d]) /\ OnlyAck(wire'[d]) /\ ~(AckIn(buf[d]) /\ AckIn(wire'[d]))
                            /\ AckIn(buf[d]) \/ AckIn(wire'[d]) => acks'[d] = 1
                            /\ acks'[d] = 0 \/ AckIn(buf[d]) \/ AckIn(wire'[d]) => Untimed(d)
            BY <2>1 DEF OneAck, Untimed
        <3>1. Single /\ OneAck
            BY <2>5 DEF Beats
        <3>2. CASE d # c
            BY <2>2, <3>1, <3>2 DEF OneAck
        <3>3. CASE d = c /\ kind # "ack"
            <4>1. AckIn(wire'[c]) => AckIn(q)
                BY <2>4, <3>3 DEF AckIn
            <4>2. OnlyAck(q) => OnlyAck(wire'[c])
                BY <2>4, <3>3 DEF OnlyAck
            <4> QED
                BY <2>2, <3>1, <3>3, <4>1, <4>2 DEF OneAck
        <3>4. CASE d = c /\ kind = "ack"
            <4>1. acks[c] = 0 /\ acks'[c] = 1
                BY <2>2, <3>4 DEF Single
            <4>2. ~AckIn(q) /\ ~AckIn(buf[c]) /\ Untimed(c) /\ OnlyAck(buf[c])
                BY <3>1, <4>1 DEF OneAck
            <4>3. OnlyAck(wire'[c])
                BY <2>4, <4>2 DEF OnlyAck, AckIn
            <4> QED
                BY <3>4, <4>1, <4>2, <4>3
        <3> QED
            BY <3>2, <3>3, <3>4
    <2> QED
        BY <2>6, <2>7 DEF Beats
<1> QED
    BY <1>1, <1>2 DEF Client

LEMMA RecvBeats == ASSUME TypeOK, Beats, NEW w \in WorkerIds, Recv(w) PROVE Beats'
<1> PICK s : s = current[w]
    OBVIOUS
<1>1. s \in Clients
    BY DEF Recv, WorkerAt, TypeOK, PollTypes, HoldsMutex
<1> PICK n \in 1..Len(wire[s]) :
        /\ buf' = [buf EXCEPT ![s] = SubSeq(wire[s], 1, n)]
        /\ wire' = [wire EXCEPT ![s] = SubSeq(@, n + 1, Len(@))]
    BY DEF Recv
<1>2. UNCHANGED <<timers, todo, removed, nextId, dangling, acks, sessions, up, timerOf>>
    BY DEF Recv, timerVars, historyVars
<1> DEFINE q == wire[s]
<1>3. q \in Seq(Kinds \X Nat) /\ Len(q) \in Nat /\ n \in Nat
    BY <1>1 DEF TypeOK, KernelTypes
<1>4. /\ Len(SubSeq(q, 1, n)) = n /\ \A i \in 1..n : SubSeq(q, 1, n)[i] = q[i]
      /\ Len(SubSeq(q, n + 1, Len(q))) = Len(q) - n
      /\ \A i \in 1..(Len(q) - n) : SubSeq(q, n + 1, Len(q))[i] = q[n + i]
    BY <1>3
<1>5. /\ \A i \in 1..Len(buf'[s]) : i \in 1..Len(q) /\ i <= n /\ buf'[s][i] = q[i]
      /\ \A i \in 1..Len(wire'[s]) : n + i \in 1..Len(q) /\ n + i > n /\ wire'[s][i] = q[n + i]
      /\ \A c \in Clients : c # s => buf'[c] = buf[c] /\ wire'[c] = wire[c]
    <2>1. buf'[s] = SubSeq(q, 1, n) /\ wire'[s] = SubSeq(q, n + 1, Len(q))
        BY <1>1 DEF TypeOK, KernelTypes, SessionTypes
    <2>2. \A c \in Clients : c # s => buf'[c] = buf[c] /\ wire'[c] = wire[c]
        BY DEF TypeOK, KernelTypes, SessionTypes
    <2> QED
        BY <1>3, <1>4, <2>1, <2>2, SMTT(40)
<1>6. AckIn(buf'[s]) \/ AckIn(wire'[s]) => AckIn(q)
    <2>1. AckIn(buf'[s]) => AckIn(q)
        BY <1>5 DEF AckIn
    <2>2. ASSUME AckIn(wire'[s]) PROVE AckIn(q)
        <3> PICK i \in 1..Len(wire'[s]) : wire'[s][i][1] = "ack"
            BY <2>2 DEF AckIn
        <3>1. n + i \in 1..Len(q) /\ q[n + i][1] = "ack"
            BY <1>5
        <3> QED
            BY <3>1 DEF AckIn
    <2> QED
        BY <2>1, <2>2
<1>7. OnlyAck(q) => OnlyAck(buf'[s])
    <2>1. \A i \in 1..Len(buf'[s]) : i \in 1..Len(q) /\ buf'[s][i] = q[i]
        BY <1>5
    <2> QED
        BY <2>1 DEF OnlyAck
<1>8. OnlyAck(q) => OnlyAck(wire'[s])
    <2> SUFFICES ASSUME OnlyAck(q), NEW i \in 1..Len(wire'[s]), NEW j \in 1..Len(wire'[s]),
                        wire'[s][i][1] = "ack", wire'[s][j][1] = "ack"
                 PROVE  i = j
        BY DEF OnlyAck
    <2>1. n + i = n + j
        BY <1>5 DEF OnlyAck
    <2> QED
        BY <1>3, <2>1
<1>9. OnlyAck(q) => ~(AckIn(buf'[s]) /\ AckIn(wire'[s]))
    <2> SUFFICES ASSUME OnlyAck(q), NEW i \in 1..Len(buf'[s]), NEW j \in 1..Len(wire'[s]),
                        buf'[s][i][1] = "ack", wire'[s][j][1] = "ack"
                 PROVE  FALSE
        BY DEF AckIn
    <2>1. i \in 1..Len(q) /\ i <= n /\ q[i][1] = "ack"
        BY <1>5
    <2>2. n + j \in 1..Len(q) /\ n + j > n /\ q[n + j][1] = "ack"
        BY <1>5
    <2>3. i = n + j
        BY <2>1, <2>2 DEF OnlyAck
    <2> QED
        BY <1>3, <2>1, <2>2, <2>3
<1>10. TimerIds' /\ Kept' /\ (Single' => ~dangling')
    BY <1>2 DEF Beats, TimerIds, Kept, Exists, Single
<1>11. OneAck'
    <2> SUFFICES ASSUME Single, NEW c \in Clients
                 PROVE  /\ OnlyAck(buf'[c]) /\ OnlyAck(wire'[c]) /\ ~(AckIn(buf'[c]) /\ AckIn(wire'[c]))
                        /\ AckIn(buf'[c]) \/ AckIn(wire'[c]) => acks[c] = 1
                        /\ acks[c] = 0 \/ AckIn(buf'[c]) \/ AckIn(wire'[c]) => Untimed(c)
        BY <1>2 DEF OneAck, Untimed, Single
    <2>1. CASE c # s
        BY <1>5, <2>1 DEF Beats, OneAck
    <2>2. CASE c = s
        <3>1. OnlyAck(q) /\ (AckIn(q) => acks[s] = 1) /\ (acks[s] = 0 \/ AckIn(q) => Untimed(s))
            BY <1>1 DEF Beats, OneAck
        <3> QED
            BY <1>6, <1>7, <1>8, <1>9, <2>2, <3>1
    <2> QED
        BY <2>1, <2>2
<1> QED
    BY <1>10, <1>11 DEF Beats

LEMMA AdoptBeats == ASSUME TypeOK, Placed, Beats, NEW w \in WorkerIds, Adopt(w) PROVE Beats'
<1> PICK f, c : /\ f = Head(pending[w]) /\ c = owner[f]
                /\ \/ /\ c # Nobody
                      /\ sessions' = [sessions EXCEPT ![w][f] = c]
                      /\ up' = [up EXCEPT ![c] = TRUE]
                   \/ UNCHANGED <<sessions, up>>
    BY DEF Adopt
<1>1. UNCHANGED <<timers, todo, removed, nextId, dangling, acks, buf, wire, timerOf>>
    BY DEF Adopt, timerVars, historyVars
<1>2. f \in FdIds /\ OnTheWay(f)
    <2>1. pending[w] \in Seq(FdIds) /\ pending[w] # <<>>
        BY DEF Adopt, TypeOK, ThreadTypes
    <2>2. f = pending[w][1] /\ f \in FdIds /\ 1 \in 1..Len(pending[w])
        BY <2>1
    <2> QED
        BY <2>2 DEF OnTheWay, InQueue
<1>3. \A v \in WorkerIds, d \in Clients : Exists(v, d) /\ up[d] => Exists(v, d)' /\ up'[d]
    <2> SUFFICES ASSUME NEW v \in WorkerIds, NEW d \in Clients, NEW g \in FdIds, sessions[v][g] = d, up[d]
                 PROVE  Exists(v, d)' /\ up'[d]
        BY DEF Exists
    <2>1. g # f
        BY <1>2, CountsAssumption DEF Placed, NotServed
    <2>2. sessions'[v][g] = d
        BY <2>1 DEF TypeOK, PollTypes
    <2>3. up'[d]
        BY DEF TypeOK, SessionTypes
    <2> QED
        BY <2>2, <2>3 DEF Exists
<1>4. TimerIds' /\ OneAck' /\ (Single' => ~dangling')
    BY <1>1 DEF Beats, TimerIds, OneAck, Untimed, Single
<1>5. Kept'
    <2> SUFFICES ASSUME Single, NEW v \in WorkerIds, NEW t \in timers[v], t[1] \notin removed[v]
                 PROVE  Exists(v, t[2])' /\ up'[t[2]] /\ timerOf[t[2]] = t[1]
        BY <1>1 DEF Kept, Single
    <2>1. t[2] \in Clients
        BY DEF TypeOK, TimerTypes
    <2>2. Exists(v, t[2]) /\ up[t[2]] /\ timerOf[t[2]] = t[1]
        BY DEF Beats, Kept
    <2> QED
        BY <1>3, <2>1, <2>2
<1> QED
    BY <1>4, <1>5 DEF Beats

LEMMA PackageBeats ==
    ASSUME TypeOK, Placed, Beats, NEW w \in WorkerIds,
           HandleHandshake(w) \/ HandleAndAnswer(w) \/ HandleKick(w)
    PROVE  Beats'
<1> PICK s : s = current[w]
    OBVIOUS
<1>1. /\ UNCHANGED <<timers, todo, nextId, dangling, acks, wire, sessions>> /\ HoldsMutex(w)
      /\ buf[s] # <<>> /\ buf' = [buf EXCEPT ![s] = Tail(@)]
    BY DEF HandleHandshake, HandleAndAnswer, HandleKick, Package, WorkerAt, HoldsMutex, pollVars, historyVars
<1>2. s \in Clients /\ Exists(w, s) /\ Filed
    BY <1>1 DEF Placed, Reading, TypeOK, PollTypes
<1>3. Head(buf[s])[2] \in Nat
    <2>1. buf[s] \in Seq(Kinds \X Nat)
        BY <1>2 DEF TypeOK, SessionTypes
    <2>2. Head(buf[s]) \in Kinds \X Nat
        BY <1>1, <2>1
    <2> QED
        BY <2>2
<1>4. CloseSession(w, s) \/ UNCHANGED <<up, removed, timerOf>>
    <2>1. CASE HandleKick(w)
        BY <2>1 DEF HandleKick
    <2>2. CASE HandleHandshake(w) \/ HandleAndAnswer(w)
        <3>1. \E what \in Nat : Send(w, s, what)
            BY <1>3, <2>2 DEF HandleHandshake, HandleAndAnswer
        <3> QED
            BY <1>2, <3>1, SendEffect
    <2> QED
        BY <2>1, <2>2
<1>5. Kept'
    BY <1>1, <1>2, <1>4, CloseShuts, ShutKeeps DEF Beats, Exists
<1>6. OneAck'
    <2>1. \A c \in Clients : buf'[c] = buf[c] \/ (buf[c] # <<>> /\ buf'[c] = Tail(buf[c]))
        BY <1>1 DEF TypeOK, SessionTypes
    <2> QED
        BY <1>1, <2>1, QueuesKeepOneAck DEF Beats
<1>7. TimerIds' /\ (Single' => ~dangling')
    BY <1>1 DEF Beats, TimerIds, Single
<1> QED
    BY <1>5, <1>6, <1>7 DEF Beats

LEMMA AckBeats == ASSUME TypeOK, Placed, Beats, NEW w \in WorkerIds, HandleHandshakeAck(w) PROVE Beats'
<1> PICK s : s = current[w]
    OBVIOUS
<1> DEFINE n == nextId[w]
<1>1. /\ UNCHANGED <<todo, removed, dangling, acks, wire, sessions, up>> /\ HoldsMutex(w)
      /\ buf[s] # <<>> /\ buf' = [buf EXCEPT ![s] = Tail(@)] /\ Head(buf[s])[1] = "ack"
      /\ timers' = (IF up[s] THEN [timers EXCEPT ![w] = @ \cup {<<n, s>>}] ELSE timers)
      /\ timerOf' = [timerOf EXCEPT ![s] = n] /\ nextId' = [nextId EXCEPT ![w] = @ + 1]
    BY DEF HandleHandshakeAck, AddTimerTask, Package, WorkerAt, HoldsMutex, pollVars, historyVars
<1>2. s \in Clients /\ Exists(w, s)
    BY <1>1 DEF Placed, Reading, TypeOK, PollTypes
<1>3. /\ n \in Nat \ {0} /\ nextId'[w] = n + 1
      /\ \A v \in WorkerIds : v # w => nextId'[v] = nextId[v] /\ timers'[v] = timers[v]
      /\ timers'[w] = timers[w] \/ (up[s] /\ timers'[w] = timers[w] \cup {<<n, s>>})
      /\ \A v \in WorkerIds : timers[v] \in SUBSET (Nat \X Clients) /\ nextId[v] \in Nat
    BY <1>1 DEF TypeOK, TimerTypes
<1>4. \A v \in WorkerIds : \A t : t \in timers'[v] => t \in timers[v] \/ (v = w /\ up[s] /\ t = <<n, s>>)
    BY <1>3
<1>5. TimerIds'
    <2>1. \A v \in WorkerIds : todo'[v] \subseteq timers'[v]
        BY <1>1, <1>3 DEF Beats, TimerIds
    <2>2. ASSUME NEW v \in WorkerIds, NEW t \in timers'[v]
          PROVE  /\ t[1] \in 1..(nextId'[v] - 1)
                 /\ t[1] = n /\ v = w => t = <<n, s>>
        <3>1. CASE t \in timers[v]
            <4>1. t[1] \in 1..(nextId[v] - 1) /\ t[1] \in Nat
                BY <1>3, <3>1 DEF Beats, TimerIds
            <4> QED
                BY <1>3, <4>1
        <3>2. CASE v = w /\ t = <<n, s>>
            BY <1>3, <3>2
        <3> QED
            BY <1>4, <3>1, <3>2
    <2>3. \A v \in WorkerIds : \A t, u \in timers'[v] : t[1] = u[1] => t = u
        <3> SUFFICES ASSUME NEW v \in WorkerIds, NEW t \in timers'[v], NEW u \in timers'[v], t[1] = u[1]
                     PROVE  t = u
            OBVIOUS
        <3>1. CASE t \in timers[v] /\ u \in timers[v]
            BY <3>1 DEF Beats, TimerIds
        <3>2. CASE v = w /\ t[1] = n
            BY <2>2, <3>2
        <3>3. t = <<n, s>> \/ u = <<n, s>> => t[1] = n
            OBVIOUS
        <3> QED
            BY <1>4, <3>1, <3>2, <3>3
    <2> QED
        BY <2>1, <2>2, <2>3 DEF TimerIds
<1>6. buf[s] \in Seq(Kinds \X Nat) /\ buf'[s] = Tail(buf[s]) /\ \A c \in Clients : c # s => buf'[c] = buf[c]
    BY <1>1, <1>2 DEF TypeOK, SessionTypes
<1>7. Single => /\ AckIn(buf[s]) /\ Untimed(s) /\ acks[s] = 1 /\ ~AckIn(wire[s]) /\ OnlyAck(wire[s])
                /\ ~AckIn(buf'[s]) /\ OnlyAck(buf'[s])
    <2>1. AckIn(buf[s])
        BY <1>1, <1>6, AckFacts
    <2>2. Single => /\ Untimed(s) /\ acks[s] = 1 /\ ~AckIn(wire[s]) /\ OnlyAck(wire[s]) /\ OnlyAck(buf[s])
        BY <1>2, <2>1 DEF Beats, OneAck
    <2> QED
        BY <1>1, <1>6, <2>1, <2>2, AckFacts
<1>8. OneAck'
    <2> SUFFICES ASSUME Single, NEW c \in Clients
                 PROVE  /\ OnlyAck(buf'[c]) /\ OnlyAck(wire[c]) /\ ~(AckIn(buf'[c]) /\ AckIn(wire[c]))
                        /\ AckIn(buf'[c]) \/ AckIn(wire[c]) => acks[c] = 1
                        /\ acks[c] = 0 \/ AckIn(buf'[c]) \/ AckIn(wire[c]) => Untimed(c)'
        BY <1>1 DEF OneAck, Single
    <2>1. CASE c = s
        BY <1>7, <2>1
    <2>2. CASE c # s
        <3>1. Untimed(c) => Untimed(c)'
            BY <1>4, <2>2 DEF Untimed
        <3> QED
            BY <1>6, <2>2, <3>1 DEF Beats, OneAck
    <2> QED
        BY <2>1, <2>2
<1>9. Kept'
    <2> SUFFICES ASSUME Single, NEW v \in WorkerIds, NEW t \in timers'[v], t[1] \notin removed[v]
                 PROVE  Exists(v, t[2])' /\ up'[t[2]] /\ timerOf'[t[2]] = t[1]
        BY <1>1 DEF Kept, Single
    <2>1. CASE t \in timers[v]
        <3>1. Exists(v, t[2]) /\ up[t[2]] /\ timerOf[t[2]] = t[1] /\ t[2] # s /\ t[2] \in Clients
            BY <1>3, <1>7, <2>1 DEF Beats, Kept, Untimed
        <3>2. timerOf'[t[2]] = timerOf[t[2]]
            BY <1>1, <3>1 DEF TypeOK, SessionTypes
        <3> QED
            BY <1>1, <3>1, <3>2 DEF Exists
    <2>2. CASE v = w /\ up[s] /\ t = <<n, s>>
        <3>1. t[1] = n /\ t[2] = s /\ timerOf'[s] = n
            BY <1>1, <1>2, <2>2 DEF TypeOK, SessionTypes
        <3> QED
            BY <1>1, <1>2, <2>2, <3>1 DEF Exists
    <2> QED
        BY <1>4, <2>1, <2>2
<1> QED
    BY <1>1, <1>5, <1>8, <1>9 DEF Beats, Single

LEMMA ForgetBeats ==
    ASSUME TypeOK, Placed, Beats, NEW w \in WorkerIds, Drop(w) \/ Cleanup(w) PROVE Beats'
<1>1. UNCHANGED <<timers, todo, nextId, dangling, acks, buf, wire, fdOf>>
    BY DEF Drop, Cleanup, historyVars
<1>2. PICK s \in Clients, f \in FdIds :
        /\ Shuts(w, s) /\ Exists(w, s) /\ ~up'[s] /\ sessions[w][f] = s
        /\ sessions' = [sessions EXCEPT ![w][f] = Nobody]
    <2>1. CASE Drop(w)
        <3> PICK s : s = current[w]
            OBVIOUS
        <3>1. /\ HoldsMutex(w) /\ CloseSession(w, s)
              /\ sessions' = [sessions EXCEPT ![w][fdOf[s]] = Nobody]
            BY <2>1 DEF Drop, WorkerAt, HoldsMutex
        <3>2. s \in Clients /\ Exists(w, s) /\ Filed
            BY <3>1 DEF Placed, Reading, TypeOK, PollTypes
        <3>3. fdOf[s] \in FdIds /\ sessions[w][fdOf[s]] = s
            BY <3>2, ExistsFiled
        <3>4. Shuts(w, s) /\ ~up'[s]
            BY <3>1, <3>2, CloseShuts, CloseEffect
        <3> QED
            BY <3>1, <3>2, <3>3, <3>4
    <2>2. CASE Cleanup(w)
        <3> PICK f, s :
                /\ f \in FdIds
                /\ s = sessions[w][f] /\ s # Nobody
                /\ up' = [up EXCEPT ![s] = FALSE]
                /\ removed' = [removed EXCEPT ![w] = IF up[s] /\ timerOf[s] # 0 THEN @ \cup {timerOf[s]} ELSE @]
                /\ timerOf' = [timerOf EXCEPT ![s] = IF up[s] THEN 0 ELSE @]
                /\ sessions' = [sessions EXCEPT ![w][f] = Nobody]
            BY <2>2 DEF Cleanup
        <3>1. s \in Clients /\ Exists(w, s)
            BY DEF TypeOK, PollTypes, Exists
        <3>2. \A v \in WorkerIds : removed[v] \subseteq removed'[v]
            BY DEF TypeOK, TimerTypes
        <3>3. up[s] /\ timerOf[s] # 0 => timerOf[s] \in removed'[w]
            BY DEF TypeOK, TimerTypes
        <3>4. /\ \A c \in Clients : c # s => up'[c] = up[c] /\ timerOf'[c] = timerOf[c]
              /\ ~up'[s]
            BY <3>1 DEF TypeOK, SessionTypes
        <3>5. Shuts(w, s)
            BY <3>2, <3>3, <3>4 DEF Shuts
        <3> QED
            BY <3>1, <3>4, <3>5
    <2> QED
        BY <2>1, <2>2
<1>3. \A v \in WorkerIds, c \in Clients : Exists(v, c) /\ up'[c] => Exists(v, c)'
    <2> SUFFICES ASSUME NEW v \in WorkerIds, NEW c \in Clients, NEW g \in FdIds, sessions[v][g] = c, up'[c]
                 PROVE  Exists(v, c)'
        BY DEF Exists
    <2>1. ~(v = w /\ g = f)
        BY <1>2
    <2>2. sessions'[v][g] = c
        BY <1>2, <2>1 DEF TypeOK, PollTypes
    <2> QED
        BY <2>2 DEF Exists
<1>4. Filed
    BY DEF Placed
<1>5. Kept'
    BY <1>1, <1>2, <1>3, <1>4, ShutKeeps DEF Beats
<1>6. TimerIds' /\ OneAck' /\ (Single' => ~dangling')
    BY <1>1 DEF Beats, TimerIds, OneAck, Untimed, Single
<1> QED
    BY <1>5, <1>6 DEF Beats

(* The timer that is due is removed or resumes its coroutine.              *)
LEMMA TimerStepBeats ==
    ASSUME TypeOK, Placed, Beats, NEW w \in WorkerIds, NEW t \in todo[w],
           TimerRemoved(w, t) \/ BeatReturns(w, t) \/ BeatTimeout(w, t) \/ BeatSends(w, t) \/ BeatDangles(w, t)
    PROVE  Beats'
<1> DEFINE s == t[2]
<1>0. TimerIds /\ OneAck /\ Kept /\ Filed
    BY DEF Beats, Placed
<1>1. UNCHANGED <<buf, wire, sessions, acks, nextId>> /\ todo' = [todo EXCEPT ![w] = @ \ {t}]
    BY DEF TimerRemoved, BeatReturns, BeatTimeout, BeatSends, BeatDangles, Due, pollVars, historyVars
<1>2. s \in Clients /\ t \in timers[w]
    BY <1>0 DEF TypeOK, TimerTypes, TimerIds
<1>3. timers' = timers \/ timers' = [timers EXCEPT ![w] = @ \ {t}]
    BY DEF TimerRemoved, BeatReturns, BeatTimeout, BeatSends, BeatDangles
<1>4. /\ \A v \in WorkerIds : timers'[v] \subseteq timers[v] /\ timers[v] \ {t} \subseteq timers'[v]
      /\ \A v \in WorkerIds : v # w => timers'[v] = timers[v] /\ todo'[v] = todo[v]
      /\ todo'[w] = todo[w] \ {t}
    BY <1>1, <1>3 DEF TypeOK, TimerTypes
<1>5. TimerIds'
    BY <1>0, <1>1, <1>4 DEF TimerIds
<1>6. OneAck'
    BY <1>0, <1>1, <1>4, QueuesKeepOneAck
<1>7. Kept'
    <2>1. CASE TimerRemoved(w, t)
        <3>1. /\ timers' = [timers EXCEPT ![w] = @ \ {t}] /\ removed' = [removed EXCEPT ![w] = @ \ {t[1]}]
              /\ UNCHANGED <<up, timerOf>>
            BY <2>1 DEF TimerRemoved
        <3>2. /\ timers'[w] = timers[w] \ {t} /\ removed'[w] = removed[w] \ {t[1]}
              /\ \A v \in WorkerIds : v # w => removed'[v] = removed[v]
            BY <3>1 DEF TypeOK, TimerTypes
        <3> SUFFICES ASSUME Single, NEW v \in WorkerIds, NEW u \in timers'[v], u[1] \notin removed'[v]
                     PROVE  Exists(v, u[2]) /\ up[u[2]] /\ timerOf[u[2]] = u[1]
            BY <1>1, <3>1 DEF Kept, Single, Exists
        <3>3. u \in timers[v]
            BY <1>4
        <3>4. u[1] \notin removed[v]
            <4>1. CASE v # w
                BY <3>2, <4>1
            <4>2. CASE v = w
                <5>1. u # t
                    BY <3>2, <4>2
                <5>2. u[1] # t[1]
                    BY <1>0, <1>2, <3>3, <4>2, <5>1 DEF TimerIds
                <5> QED
                    BY <3>2, <4>2, <5>2
            <4> QED
                BY <4>1, <4>2
        <3> QED
            BY <1>0, <3>3, <3>4 DEF Kept
    <2>2. CASE BeatReturns(w, t) \/ BeatDangles(w, t)
        <3>1. UNCHANGED <<up, removed, timerOf>>
            BY <2>2 DEF BeatReturns, BeatDangles
        <3> QED
            BY <1>0, <1>1, <1>4, <3>1 DEF Kept, Single, Exists
    <2>3. CASE BeatTimeout(w, t) \/ BeatSends(w, t)
        <3>1. Exists(w, s)
            BY <2>3 DEF BeatTimeout, BeatSends
        <3>2. CloseSession(w, s) \/ UNCHANGED <<up, removed, timerOf>>
            BY <1>2, <2>3, SendEffect DEF BeatTimeout, BeatSends
        <3>3. Shuts(w, s)
            BY <1>2, <3>2, CloseShuts
        <3> QED
            BY <1>0, <1>1, <1>2, <1>4, <3>1, <3>3, ShutKeeps DEF Exists
    <2> QED
        BY <2>1, <2>2, <2>3
<1>8. Single' => ~dangling'
    <2>1. CASE BeatDangles(w, t)
        <3>1. t[1] \notin removed[w] /\ ~Exists(w, t[2])
            BY <2>1 DEF BeatDangles
        <3> QED
            BY <1>0, <1>1, <1>2, <3>1 DEF Kept, Single
    <2>2. CASE TimerRemoved(w, t) \/ BeatReturns(w, t) \/ BeatTimeout(w, t) \/ BeatSends(w, t)
        BY <1>1, <2>2 DEF TimerRemoved, BeatReturns, BeatTimeout, BeatSends, Beats, Single
    <2> QED
        BY <2>1, <2>2
<1> QED
    BY <1>5, <1>6, <1>7, <1>8 DEF Beats

LEMMA NextBeats == ASSUME IInv, Beats, [Next]_vars PROVE Beats'
<1>0. TypeOK /\ Placed
    BY DEF IInv
<1>1. CASE SignalHandler \/ Main \/ UNCHANGED vars
    BY <1>1, BeatsKept DEF SignalHandler, Main, Accept, Enqueue, MainStops, Join, vars, BeatVars, kernelVars,
                           pollVars, timerVars, sessionVars, historyVars
<1>2. ASSUME NEW w \in WorkerIds, Worker(w) PROVE Beats'
    <2>1. CASE \/ Loop(w) \/ Adopted(w) \/ Wait(w) \/ HandleEvent(w) \/ RecvEnds(w) \/ Drained(w)
               \/ TickEnds(w) \/ Stop(w)
        BY <2>1, BeatsKept DEF Loop, Adopted, Wait, HandleEvent, RecvEnds, Drained, TickEnds, Stop, BeatVars,
                               kernelVars, timerVars, sessionVars, historyVars
    <2>2. CASE TickStarts(w)
        <3>1. UNCHANGED <<timers, removed, nextId, dangling, acks, buf, wire, sessions, up, timerOf>>
            BY <2>2 DEF TickStarts, kernelVars, sessionVars, historyVars
        <3>2. \A v \in WorkerIds : todo'[v] = todo[v] \/ todo'[v] \subseteq timers[v]
            BY <2>2 DEF TickStarts, TypeOK, TimerTypes
        <3>3. TimerIds'
            BY <3>1, <3>2 DEF Beats, TimerIds
        <3>4. OneAck' /\ Kept' /\ (Single' => ~dangling')
            BY <3>1 DEF Beats, OneAck, Kept, Single, Untimed, Exists
        <3> QED
            BY <3>3, <3>4 DEF Beats
    <2>3. ASSUME NEW t \in todo[w], \/ TimerRemoved(w, t) \/ BeatReturns(w, t) \/ BeatTimeout(w, t)
                                    \/ BeatSends(w, t) \/ BeatDangles(w, t)
          PROVE  Beats'
        BY <1>0, <2>3, TimerStepBeats
    <2>4. CASE HandleHandshake(w) \/ HandleHandshakeAck(w) \/ HandleAndAnswer(w) \/ HandleKick(w)
        BY <1>0, <2>4, PackageBeats, AckBeats
    <2>5. CASE Adopt(w) \/ Recv(w) \/ Drop(w) \/ Cleanup(w)
        BY <1>0, <2>5, AdoptBeats, RecvBeats, ForgetBeats
    <2> QED
        BY <1>2, <2>1, <2>2, <2>3, <2>4, <2>5 DEF Worker
<1> QED
    BY <1>0, <1>1, <1>2, ClientBeats DEF Next

(* Only a client that acknowledges twice can make a coroutine outlive its  *)
(* session.                                                                *)
THEOREM BeatsStayAlive == Spec => []NoDanglingBeat
<1>1. Init => Beats
    <2> SUFFICES ASSUME Init PROVE Beats
        OBVIOUS
    <2>1. \A w \in WorkerIds : timers[w] = {} /\ todo[w] = {}
        BY DEF Init
    <2>2. \A c \in Clients : buf[c] = <<>> /\ wire[c] = <<>>
        BY DEF Init
    <2>3. ~dangling
        BY DEF Init
    <2>4. TimerIds /\ Kept
        BY <2>1 DEF TimerIds, Kept
    <2>5. OneAck
        BY <2>1, <2>2 DEF OneAck, OnlyAck, AckIn, Untimed
    <2> QED
        BY <2>3, <2>4, <2>5 DEF Beats
<1>2. IInv /\ Beats /\ [Next]_vars => Beats'
    BY NextBeats
<1>3. IInv /\ Beats => NoDanglingBeat
    <2> SUFFICES ASSUME IInv, Beats, dangling PROVE \E c \in Clients : acks[c] > 1
        BY DEF NoDanglingBeat
    <2>1. ~Single
        BY DEF Beats
    <2> QED
        BY <2>1 DEF Single, IInv, TypeOK
<1> QED
    BY <1>1, <1>2, <1>3, InitIInv, NextIInv, PTL DEF Spec

=============================================================================
