----------------------------- MODULE CppServer -----------------------------
(***************************************************************************)
(* The C++ echo server (echo/server-cpp): the main thread that accepts     *)
(* connections and hands them to the workers round robin, the workers with *)
(* their edge-triggered pollers, session maps and coroutine timers, and    *)
(* the sessions, which name their socket by its descriptor only.  The      *)
(* kernel gives a closed descriptor's number to the next connection.       *)
(*                                                                         *)
(* A session has the name of the client whose connection it was made for.  *)
(* Time is left out: a timer may be due, and a client late, at any tick.   *)
(***************************************************************************)
EXTENDS Naturals, Sequences, FiniteSets

CONSTANTS
    Clients,    \* one connection each
    Nobody,     \* no client
    Workers,    \* the number of worker threads, numbered from 1
    Fds,        \* the number of descriptors, which must be enough for the clients
    Kinds,      \* the packages a client may send
    MaxSent,    \* bound: packages a client sends
    SlowPeers   \* a socket buffer may be full when the server sends

ASSUME CountsAssumption ==
    /\ Nobody \notin Clients
    /\ Workers \in Nat \ {0} /\ Fds \in Nat \ {0} /\ MaxSent \in Nat
    /\ Kinds \subseteq {"handshake", "ack", "heartbeat", "request", "kick"}
    /\ SlowPeers \in BOOLEAN

VARIABLES
    running,    \* the global flag
    shouldStop, \* should_stop_ of the workers
    mainAt,     \* where the main thread is
    hand,       \* the descriptor main has accepted, 0 for none
    nextWorker, \* next_worker modulo the workers
    backlog,    \* connections not yet accepted
    owner,      \* kernel: the connection each descriptor stands for
    peer,       \* kernel: the client's end of each connection
    wire,       \* kernel: packages received and not read
    edge,       \* kernel: the epoll event not yet reported
    pending,    \* pending_connections_ of each worker
    sessions,   \* sessions_ of each worker
    at,         \* where each worker is
    events,     \* the events of its last poll it has not handled
    current,    \* the session it is reading
    timers,     \* timer_queue_ of its scheduler: timer ids and sessions
    todo,       \* the timers due at this tick
    removed,    \* removed_timers_ of its scheduler
    nextId,     \* next_id_ of its scheduler
    fdOf,       \* socket_fd_ of each session
    up,         \* running_ of each session
    state,      \* state_ of each session
    timerOf,    \* heartbeat_timer_id_ of each session, 0 for -1
    buf,        \* data_buf_ of each session
    killed,     \* SIGPIPE has ended the process
    sent,       \* history: packages sent by each client
    acks,       \* history: acknowledgements among them
    assigned,   \* history: the worker each connection was given to
    inbox,      \* history: the answers each client got: the session and the package answered
    stream,     \* history: whether each client got whole packages, or one cut and more after it
    strays,     \* history: workers that touched a connection of another
    dangling    \* history: a coroutine of a destroyed session was resumed

threadVars == <<running, shouldStop, mainAt, hand, nextWorker, backlog, pending, assigned>>
kernelVars == <<owner, peer, wire, edge, inbox, stream, killed, strays>>
pollVars == <<sessions, at, events, current>>
timerVars == <<timers, todo, removed, nextId, dangling>>
sessionVars == <<fdOf, up, state, timerOf, buf>>
historyVars == <<sent, acks>>
vars == <<threadVars, kernelVars, pollVars, timerVars, sessionVars, historyVars>>

WorkerIds == 1..Workers
FdIds == 1..Fds

Init ==
    /\ running = TRUE /\ shouldStop = FALSE
    /\ mainAt = "poll" /\ hand = 0 /\ nextWorker = 1 /\ backlog = <<>>
    /\ owner = [f \in FdIds |-> Nobody]
    /\ peer = [c \in Clients |-> "new"]
    /\ wire = [c \in Clients |-> <<>>]
    /\ edge = [c \in Clients |-> FALSE]
    /\ inbox = [c \in Clients |-> <<>>] /\ stream = [c \in Clients |-> "whole"]
    /\ pending = [w \in WorkerIds |-> <<>>]
    /\ sessions = [w \in WorkerIds |-> [f \in FdIds |-> Nobody]]
    /\ at = [w \in WorkerIds |-> "top"]
    /\ events = [w \in WorkerIds |-> {}]
    /\ current = [w \in WorkerIds |-> Nobody]
    /\ timers = [w \in WorkerIds |-> {}]
    /\ todo = [w \in WorkerIds |-> {}]
    /\ removed = [w \in WorkerIds |-> {}]
    /\ nextId = [w \in WorkerIds |-> 1]
    /\ fdOf = [c \in Clients |-> 0]
    /\ up = [c \in Clients |-> FALSE]
    /\ state = [c \in Clients |-> "Inited"]
    /\ timerOf = [c \in Clients |-> 0]
    /\ buf = [c \in Clients |-> <<>>]
    /\ killed = FALSE
    /\ sent = [c \in Clients |-> 0] /\ acks = [c \in Clients |-> 0]
    /\ assigned = [c \in Clients |-> 0]
    /\ strays = {} /\ dangling = FALSE

-----------------------------------------------------------------------------
(* The clients and the kernel. *)

ClientConnect(c) ==
    /\ peer[c] = "new" /\ running
    /\ peer' = [peer EXCEPT ![c] = "open"]
    /\ backlog' = Append(backlog, c)
    /\ UNCHANGED <<running, shouldStop, mainAt, hand, nextWorker, pending, assigned,
                   owner, wire, edge, inbox, stream, killed, strays,
                   pollVars, timerVars, sessionVars, historyVars>>

ClientSend(c) ==
    /\ peer[c] = "open" /\ sent[c] < MaxSent
    /\ \E kind \in Kinds :
         /\ wire' = [wire EXCEPT ![c] = Append(@, <<kind, sent[c] + 1>>)]
         /\ acks' = IF kind = "ack" THEN [acks EXCEPT ![c] = @ + 1] ELSE acks
    /\ sent' = [sent EXCEPT ![c] = @ + 1]
    /\ edge' = [edge EXCEPT ![c] = TRUE]
    /\ UNCHANGED <<threadVars, owner, peer, inbox, stream, killed, strays, pollVars, timerVars, sessionVars>>

(* The client closes its end in order ("fin") or aborts it ("reset"). *)
ClientLeave(c) ==
    /\ peer[c] = "open"
    /\ \E how \in {"fin", "reset"} : peer' = [peer EXCEPT ![c] = how]
    /\ edge' = [edge EXCEPT ![c] = TRUE]
    /\ UNCHANGED <<threadVars, owner, wire, inbox, stream, killed, strays,
                   pollVars, timerVars, sessionVars, historyVars>>

(* Worker w touches descriptor f, which may stand for a connection of     *)
(* another worker by now.                                                  *)
Touch(w, f) ==
    strays' = IF owner[f] # Nobody /\ assigned[owner[f]] # w
              THEN strays \cup {<<w, owner[f]>>} ELSE strays

-----------------------------------------------------------------------------
(* Session::close(): the first call takes effect. *)

(* Mutant: close() forgets the timer. *)
CloseKeepsTimer(w, s) ==
    /\ UNCHANGED removed
    /\ IF up[s]
       THEN /\ up' = [up EXCEPT ![s] = FALSE]
            /\ timerOf' = [timerOf EXCEPT ![s] = 0]
            /\ owner' = [owner EXCEPT ![fdOf[s]] = Nobody]
            /\ Touch(w, fdOf[s])
       ELSE UNCHANGED <<up, timerOf, owner, strays>>

CloseSession(w, s) ==
    IF up[s]
    THEN /\ up' = [up EXCEPT ![s] = FALSE]
         /\ removed' = [removed EXCEPT ![w] = IF timerOf[s] = 0 THEN @ ELSE @ \cup {timerOf[s]}]
         /\ timerOf' = [timerOf EXCEPT ![s] = 0]
         /\ owner' = [owner EXCEPT ![fdOf[s]] = Nobody]
         /\ Touch(w, fdOf[s])
    ELSE UNCHANGED <<up, removed, timerOf, owner, strays>>

ClosedState(s) == IF up'[s] THEN state[s] ELSE "Closed"

(***************************************************************************)
(* Session::send(): writes to whatever the descriptor stands for.  A full  *)
(* socket buffer drops the package or the rest of it.  A peer that has     *)
(* left takes the first package and answers it with a reset, after which   *)
(* writing raises SIGPIPE; an error closes the session.  what is the       *)
(* number of the package that is answered, 0 for a handshake or heartbeat. *)
(***************************************************************************)
Delivered(c, s, what) ==
    /\ inbox' = IF what = 0 THEN inbox ELSE [inbox EXCEPT ![c] = Append(@, <<s, what>>)]
    /\ stream' = [stream EXCEPT ![c] = IF @ = "whole" THEN "whole" ELSE "garbled"]

CutShort(c) ==
    /\ stream' = [stream EXCEPT ![c] = IF @ = "whole" THEN "cut" ELSE "garbled"]
    /\ UNCHANGED inbox

Send(w, s, what) ==
    LET f == fdOf[s]
        c == owner[f]
    IN
    \/ /\ c # Nobody /\ peer[c] = "open"
       /\ Touch(w, f)
       /\ \/ Delivered(c, s, what)
          \/ SlowPeers /\ UNCHANGED <<inbox, stream>>
          \/ SlowPeers /\ CutShort(c)
       /\ UNCHANGED <<peer, killed, up, removed, timerOf, owner>>
    \/ /\ c # Nobody /\ peer[c] \in {"fin", "pipe"}
       /\ Touch(w, f)
       /\ peer' = [peer EXCEPT ![c] = "pipe"]
       /\ killed' = (peer[c] = "pipe")
       /\ UNCHANGED <<inbox, stream, up, removed, timerOf, owner>>
    \/ /\ (c # Nobody => peer[c] = "reset")
       /\ CloseSession(w, s)
       /\ UNCHANGED <<peer, killed, inbox, stream>>

-----------------------------------------------------------------------------
(* main() *)

SignalHandler ==
    /\ running /\ ~killed
    /\ running' = FALSE /\ shouldStop' = TRUE /\ backlog' = <<>>
    /\ UNCHANGED <<mainAt, hand, nextWorker, pending, assigned, kernelVars, pollVars,
                   timerVars, sessionVars, historyVars>>

(* accept() returns the lowest free descriptor. *)
Accept ==
    /\ mainAt = "poll" /\ ~killed /\ running /\ backlog # <<>>
    /\ \E f \in FdIds :
         /\ owner[f] = Nobody /\ \A g \in 1..(f - 1) : owner[g] # Nobody
         /\ owner' = [owner EXCEPT ![f] = Head(backlog)]
         /\ hand' = f
    /\ backlog' = Tail(backlog)
    /\ mainAt' = "enqueue"
    /\ UNCHANGED <<running, shouldStop, nextWorker, pending, assigned, peer, wire, edge, inbox, stream,
                   killed, strays, pollVars, timerVars, sessionVars, historyVars>>

(* A worker holds its mutex while it handles an event. *)
HoldsMutex(w) == at[w] \in {"recv", "package", "drop"}

Enqueue ==
    /\ mainAt = "enqueue" /\ ~killed
    /\ ~HoldsMutex(nextWorker)
    /\ pending' = [pending EXCEPT ![nextWorker] = Append(@, hand)]
    /\ assigned' = [assigned EXCEPT ![owner[hand]] = nextWorker]
    /\ nextWorker' = (nextWorker % Workers) + 1
    /\ hand' = 0 /\ mainAt' = "poll"
    /\ UNCHANGED <<running, shouldStop, backlog, kernelVars, pollVars, timerVars,
                   sessionVars, historyVars>>

MainStops ==
    /\ mainAt = "poll" /\ ~killed /\ ~running
    /\ shouldStop' = TRUE
    /\ mainAt' = "join"
    /\ UNCHANGED <<running, hand, nextWorker, backlog, pending, assigned, kernelVars,
                   pollVars, timerVars, sessionVars, historyVars>>

Join ==
    /\ mainAt = "join" /\ ~killed
    /\ \A w \in WorkerIds : at[w] = "stopped"
    /\ mainAt' = "exit"
    /\ UNCHANGED <<running, shouldStop, hand, nextWorker, backlog, pending, assigned, kernelVars,
                   pollVars, timerVars, sessionVars, historyVars>>

Main == Accept \/ Enqueue \/ MainStops \/ Join

-----------------------------------------------------------------------------
(* WorkerThread::thread_func() *)

WorkerAt(w, here) == at[w] = here /\ ~killed
Goto(w, there) == at' = [at EXCEPT ![w] = there]

(* Mutant: a worker serves its sessions to their end. *)
LoopUntilIdle(w) ==
    /\ WorkerAt(w, "top")
    /\ Goto(w, IF running \/ ~shouldStop \/ \E f \in FdIds : sessions[w][f] # Nobody
               THEN "pending" ELSE "cleanup")
    /\ UNCHANGED <<threadVars, kernelVars, sessions, events, current, timerVars, sessionVars, historyVars>>

Loop(w) ==
    /\ WorkerAt(w, "top")
    /\ Goto(w, IF running \/ ~shouldStop THEN "pending" ELSE "cleanup")
    /\ UNCHANGED <<threadVars, kernelVars, sessions, events, current, timerVars, sessionVars, historyVars>>

(* Mutant: a descriptor the poller does not take stays open. *)
AdoptLeaks(w) ==
    /\ WorkerAt(w, "pending") /\ pending[w] # <<>>
    /\ pending' = [pending EXCEPT ![w] = Tail(@)]
    /\ LET f == Head(pending[w])
           c == owner[f]
       IN \/ /\ c # Nobody
             /\ sessions' = [sessions EXCEPT ![w][f] = c]
             /\ fdOf' = [fdOf EXCEPT ![c] = f]
             /\ up' = [up EXCEPT ![c] = TRUE]
             /\ edge' = [edge EXCEPT ![c] = wire[c] # <<>> \/ peer[c] # "open"]
             /\ UNCHANGED <<owner, strays>>
          \/ UNCHANGED <<owner, strays, sessions, fdOf, up, edge>>
    /\ UNCHANGED <<running, shouldStop, mainAt, hand, nextWorker, backlog, assigned, peer, wire,
                   inbox, stream, killed, at, events, current, timerVars, state, timerOf, buf, historyVars>>

(* One connection of pending_connections_ becomes a session; one that the  *)
(* poller does not take is closed.                                         *)
Adopt(w) ==
    /\ WorkerAt(w, "pending") /\ pending[w] # <<>>
    /\ pending' = [pending EXCEPT ![w] = Tail(@)]
    /\ LET f == Head(pending[w])
           c == owner[f]
       IN \/ /\ c # Nobody
             /\ sessions' = [sessions EXCEPT ![w][f] = c]
             /\ fdOf' = [fdOf EXCEPT ![c] = f]
             /\ up' = [up EXCEPT ![c] = TRUE]
             /\ edge' = [edge EXCEPT ![c] = wire[c] # <<>> \/ peer[c] # "open"]
             /\ UNCHANGED <<owner, strays>>
          \/ /\ owner' = [owner EXCEPT ![f] = Nobody]
             /\ Touch(w, f)
             /\ UNCHANGED <<sessions, fdOf, up, edge>>
    /\ UNCHANGED <<running, shouldStop, mainAt, hand, nextWorker, backlog, assigned, peer, wire,
                   inbox, stream, killed, at, events, current, timerVars, state, timerOf, buf, historyVars>>

Adopted(w) ==
    /\ WorkerAt(w, "pending") /\ pending[w] = <<>>
    /\ Goto(w, "wait")
    /\ UNCHANGED <<threadVars, kernelVars, sessions, events, current, timerVars, sessionVars, historyVars>>

(* The poller reports the edges of the descriptors it watches: those of    *)
(* this worker's sessions that are still open.                             *)
Watched(w) == {c \in Clients : \E f \in FdIds : sessions[w][f] = c /\ owner[f] = c}

Wait(w) ==
    /\ WorkerAt(w, "wait")
    /\ LET ready == {c \in Watched(w) : edge[c]} IN
         /\ events' = [events EXCEPT ![w] =
              {[fd |-> fdOf[c], error |-> peer[c] \in {"pipe", "reset"}] : c \in ready}]
         /\ edge' = [c \in Clients |-> edge[c] /\ c \notin ready]
    /\ Goto(w, "events")
    /\ UNCHANGED <<threadVars, owner, peer, wire, inbox, stream, killed, strays, sessions, current,
                   timerVars, sessionVars, historyVars>>

(* An event whose descriptor has no session is skipped. *)
HandleEvent(w) ==
    /\ WorkerAt(w, "events")
    /\ \E e \in events[w] :
         /\ events' = [events EXCEPT ![w] = @ \ {e}]
         /\ current' = [current EXCEPT ![w] = sessions[w][e.fd]]
         /\ Goto(w, CASE sessions[w][e.fd] = Nobody -> "events"
                      [] sessions[w][e.fd] # Nobody /\ e.error -> "drop"
                      [] OTHER -> "recv")
    /\ UNCHANGED <<threadVars, kernelVars, sessions, timerVars, sessionVars, historyVars>>

(* Session::handle_read(): reads until the session closes, the peer has    *)
(* left, or nothing is left to read.                                       *)
Recv(w) ==
    LET s == current[w] IN
    /\ WorkerAt(w, "recv") /\ up[s] /\ wire[s] # <<>>
    /\ \E n \in 1..Len(wire[s]) :
         /\ buf' = [buf EXCEPT ![s] = SubSeq(wire[s], 1, n)]
         /\ wire' = [wire EXCEPT ![s] = SubSeq(@, n + 1, Len(@))]
    /\ Goto(w, "package")
    /\ UNCHANGED <<threadVars, owner, peer, edge, inbox, stream, killed, strays, sessions, events, current,
                   timerVars, fdOf, up, state, timerOf, historyVars>>

RecvEnds(w) ==
    LET s == current[w] IN
    /\ WorkerAt(w, "recv") /\ (up[s] => wire[s] = <<>>)
    /\ Goto(w, IF up[s] /\ peer[s] = "open" THEN "events" ELSE "drop")
    /\ UNCHANGED <<threadVars, kernelVars, sessions, events, current, timerVars, sessionVars, historyVars>>

(* Mutant: one read per event. *)
DrainedOnce(w) ==
    /\ WorkerAt(w, "package") /\ buf[current[w]] = <<>>
    /\ Goto(w, "events")
    /\ UNCHANGED <<threadVars, kernelVars, sessions, events, current, timerVars, sessionVars, historyVars>>

Drained(w) ==
    /\ WorkerAt(w, "package") /\ buf[current[w]] = <<>>
    /\ Goto(w, "recv")
    /\ UNCHANGED <<threadVars, kernelVars, sessions, events, current, timerVars, sessionVars, historyVars>>

(* Mutant: a processed package stays in the buffer. *)
PackageKept(w, kinds) ==
    LET s == current[w] IN
    /\ WorkerAt(w, "package") /\ buf[s] # <<>> /\ Head(buf[s])[1] \in kinds
    /\ UNCHANGED <<buf, threadVars, wire, edge, pollVars, todo, dangling, fdOf, historyVars>>

(* Session::process_package(): the package is taken off the buffer once it *)
(* has been processed, whatever has become of the session.                 *)
Package(w, kinds) ==
    LET s == current[w] IN
    /\ WorkerAt(w, "package") /\ buf[s] # <<>> /\ Head(buf[s])[1] \in kinds
    /\ buf' = [buf EXCEPT ![s] = Tail(@)]
    /\ UNCHANGED <<threadVars, wire, edge, pollVars, todo, dangling, fdOf, historyVars>>

HandleHandshake(w) ==
    LET s == current[w] IN
    /\ Package(w, {"handshake"})
    /\ Send(w, s, 0)
    /\ state' = [state EXCEPT ![s] = "WaitAck"]
    /\ UNCHANGED <<timers, nextId>>

(* The coroutine runs up to its first wait when it is made; one made for a *)
(* closed session is done at once and leaves only its timer id.            *)
AddTimerTask(w, s) ==
    /\ timers' = IF up[s] THEN [timers EXCEPT ![w] = @ \cup {<<nextId[w], s>>}] ELSE timers
    /\ timerOf' = [timerOf EXCEPT ![s] = nextId[w]]
    /\ nextId' = [nextId EXCEPT ![w] = @ + 1]

HandleHandshakeAck(w) ==
    LET s == current[w] IN
    /\ Package(w, {"ack"})
    /\ state' = [state EXCEPT ![s] = "Working"]
    /\ AddTimerTask(w, s)
    /\ UNCHANGED <<owner, peer, inbox, stream, killed, strays, up, removed>>

(* handle_heartbeat(), and handle_data() with handle_request(). *)
HandleAndAnswer(w) ==
    LET s == current[w] IN
    /\ Package(w, {"heartbeat", "request"})
    /\ Send(w, s, Head(buf[s])[2])
    /\ state' = [state EXCEPT ![s] = ClosedState(s)]
    /\ UNCHANGED <<timers, nextId>>

HandleKick(w) ==
    LET s == current[w] IN
    /\ Package(w, {"kick"})
    /\ CloseSession(w, s)
    /\ state' = [state EXCEPT ![s] = IF up[s] THEN "Closed" ELSE @]
    /\ UNCHANGED <<peer, inbox, stream, killed, timers, nextId>>

(* The worker closes the session and forgets it. *)
Drop(w) ==
    LET s == current[w] IN
    /\ WorkerAt(w, "drop")
    /\ CloseSession(w, s)
    /\ state' = [state EXCEPT ![s] = IF up[s] THEN "Closed" ELSE @]
    /\ sessions' = [sessions EXCEPT ![w][fdOf[s]] = Nobody]
    /\ Goto(w, "events")
    /\ UNCHANGED <<threadVars, peer, wire, edge, inbox, stream, killed, events, current,
                   timers, todo, nextId, dangling, fdOf, buf, historyVars>>

-----------------------------------------------------------------------------
(* Scheduler::tick() *)

TickStarts(w) ==
    /\ WorkerAt(w, "events") /\ events[w] = {}
    /\ \E due \in SUBSET timers[w] : todo' = [todo EXCEPT ![w] = due]
    /\ Goto(w, "tick")
    /\ UNCHANGED <<threadVars, kernelVars, sessions, events, current, timers, removed, nextId,
                   dangling, sessionVars, historyVars>>

TickEnds(w) ==
    /\ WorkerAt(w, "tick") /\ todo[w] = {}
    /\ Goto(w, "top")
    /\ UNCHANGED <<threadVars, kernelVars, sessions, events, current, timerVars, sessionVars, historyVars>>

(* The next timer that is due. *)
Due(w, t) ==
    /\ WorkerAt(w, "tick") /\ t \in todo[w]
    /\ todo' = [todo EXCEPT ![w] = @ \ {t}]
    /\ UNCHANGED <<threadVars, wire, edge, pollVars, nextId, fdOf, buf, historyVars>>

TimerRemoved(w, t) ==
    /\ Due(w, t) /\ t[1] \in removed[w]
    /\ timers' = [timers EXCEPT ![w] = @ \ {t}]
    /\ removed' = [removed EXCEPT ![w] = @ \ {t[1]}]
    /\ UNCHANGED <<owner, peer, inbox, stream, killed, strays, dangling, up, state, timerOf>>

(* The session object lives as long as the map of its worker holds it. *)
Exists(w, s) == \E f \in FdIds : sessions[w][f] = s

(* Session::heartbeat_coroutine(), resumed: it returns when the session is *)
(* not working, closes it when the client is late, and otherwise sends a   *)
(* heartbeat and waits again unless that closed the session.               *)
BeatReturns(w, t) ==
    /\ Due(w, t) /\ t[1] \notin removed[w] /\ Exists(w, t[2])
    /\ state[t[2]] # "Working"
    /\ timers' = [timers EXCEPT ![w] = @ \ {t}]
    /\ UNCHANGED <<owner, peer, inbox, stream, killed, strays, removed, dangling, up, state, timerOf>>

BeatTimeout(w, t) ==
    /\ Due(w, t) /\ t[1] \notin removed[w] /\ Exists(w, t[2])
    /\ state[t[2]] = "Working"
    /\ CloseSession(w, t[2])
    /\ state' = [state EXCEPT ![t[2]] = IF up[t[2]] THEN "Closed" ELSE @]
    /\ timers' = [timers EXCEPT ![w] = @ \ {t}]
    /\ UNCHANGED <<peer, inbox, stream, killed, dangling>>

BeatSends(w, t) ==
    /\ Due(w, t) /\ t[1] \notin removed[w] /\ Exists(w, t[2])
    /\ state[t[2]] = "Working"
    /\ Send(w, t[2], 0)
    /\ state' = [state EXCEPT ![t[2]] = ClosedState(t[2])]
    /\ timers' = IF up'[t[2]] THEN timers ELSE [timers EXCEPT ![w] = @ \ {t}]
    /\ UNCHANGED dangling

BeatDangles(w, t) ==
    /\ Due(w, t) /\ t[1] \notin removed[w] /\ ~Exists(w, t[2])
    /\ dangling' = TRUE
    /\ timers' = [timers EXCEPT ![w] = @ \ {t}]
    /\ UNCHANGED <<owner, peer, inbox, stream, killed, strays, removed, up, state, timerOf>>

-----------------------------------------------------------------------------
(* The end of a worker: every session of its map is closed, and then the   *)
(* descriptor it is filed under once more.                                 *)
Cleanup(w) ==
    /\ WorkerAt(w, "cleanup")
    /\ \E f \in FdIds :
         LET s == sessions[w][f] IN
         /\ s # Nobody
         /\ Touch(w, f)
         /\ owner' = [owner EXCEPT ![f] = Nobody]
         /\ up' = [up EXCEPT ![s] = FALSE]
         /\ state' = [state EXCEPT ![s] = IF up[s] THEN "Closed" ELSE @]
         /\ removed' = [removed EXCEPT ![w] = IF up[s] /\ timerOf[s] # 0 THEN @ \cup {timerOf[s]} ELSE @]
         /\ timerOf' = [timerOf EXCEPT ![s] = IF up[s] THEN 0 ELSE @]
         /\ sessions' = [sessions EXCEPT ![w][f] = Nobody]
    /\ UNCHANGED <<threadVars, peer, wire, edge, inbox, stream, killed, at, events, current,
                   timers, todo, nextId, dangling, fdOf, buf, historyVars>>

Stop(w) ==
    /\ WorkerAt(w, "cleanup") /\ \A f \in FdIds : sessions[w][f] = Nobody
    /\ Goto(w, "stopped")
    /\ UNCHANGED <<threadVars, kernelVars, sessions, events, current, timerVars, sessionVars, historyVars>>

Worker(w) ==
    \/ Loop(w) \/ Adopt(w) \/ Adopted(w) \/ Wait(w) \/ HandleEvent(w)
    \/ Recv(w) \/ RecvEnds(w) \/ Drained(w)
    \/ HandleHandshake(w) \/ HandleHandshakeAck(w) \/ HandleAndAnswer(w) \/ HandleKick(w) \/ Drop(w)
    \/ TickStarts(w) \/ TickEnds(w)
    \/ (\E t \in todo[w] : TimerRemoved(w, t) \/ BeatReturns(w, t) \/ BeatTimeout(w, t)
                             \/ BeatSends(w, t) \/ BeatDangles(w, t))
    \/ Cleanup(w) \/ Stop(w)

Client(c) == ClientConnect(c) \/ ClientSend(c) \/ ClientLeave(c)

Next == (\E c \in Clients : Client(c)) \/ SignalHandler \/ Main \/ (\E w \in WorkerIds : Worker(w))

Spec == Init /\ [][Next]_vars

(* Every thread that can run does; clients and signals come as they like. *)
Fairness == WF_vars(Main) /\ \A w \in WorkerIds : WF_vars(Worker(w))

FairSpec == Spec /\ Fairness

-----------------------------------------------------------------------------
(* Properties *)

ThreadTypes ==
    /\ running \in BOOLEAN /\ shouldStop \in BOOLEAN /\ shouldStop # running
    /\ mainAt \in {"poll", "enqueue", "join", "exit"} /\ hand \in 0..Fds /\ nextWorker \in WorkerIds
    /\ backlog \in Seq(Clients) /\ pending \in [WorkerIds -> Seq(FdIds)]

KernelTypes ==
    /\ owner \in [FdIds -> Clients \cup {Nobody}]
    /\ peer \in [Clients -> {"new", "open", "fin", "pipe", "reset"}]
    /\ wire \in [Clients -> Seq(Kinds \X Nat)] /\ edge \in [Clients -> BOOLEAN]
    /\ inbox \in [Clients -> Seq(Clients \X Nat)]
    /\ stream \in [Clients -> {"whole", "cut", "garbled"}] /\ killed \in BOOLEAN

PollTypes ==
    /\ sessions \in [WorkerIds -> [FdIds -> Clients \cup {Nobody}]]
    /\ at \in [WorkerIds -> {"top", "pending", "wait", "events", "recv", "package", "drop", "tick",
                             "cleanup", "stopped"}]
    /\ events \in [WorkerIds -> SUBSET [fd : FdIds, error : BOOLEAN]]
    /\ current \in [WorkerIds -> Clients \cup {Nobody}]
    /\ \A w \in WorkerIds : HoldsMutex(w) => current[w] # Nobody

TimerTypes ==
    /\ timers \in [WorkerIds -> SUBSET (Nat \X Clients)] /\ todo \in [WorkerIds -> SUBSET (Nat \X Clients)]
    /\ removed \in [WorkerIds -> SUBSET Nat] /\ nextId \in [WorkerIds -> Nat \ {0}] /\ dangling \in BOOLEAN

SessionTypes ==
    /\ fdOf \in [Clients -> 0..Fds] /\ up \in [Clients -> BOOLEAN] /\ timerOf \in [Clients -> Nat]
    /\ state \in [Clients -> {"Inited", "WaitAck", "Working", "Closed"}]
    /\ buf \in [Clients -> Seq(Kinds \X Nat)]

(* Every variable keeps to the values the code can give it. *)
TypeOK ==
    /\ ThreadTypes /\ KernelTypes /\ PollTypes /\ TimerTypes /\ SessionTypes
    /\ sent \in [Clients -> Nat] /\ acks \in [Clients -> Nat]

(* While the server runs, an open connection is in exactly one place: in   *)
(* the hand of the main thread, in one worker's queue, or in one worker's  *)
(* map with a running session.  None is lost on the way between the        *)
(* threads, and no two workers serve the same one.                         *)
Homes(f) ==
    {<<"hand", f>> : x \in {1} \cap {y \in {1} : hand = f}}
    \cup {<<"pending", h>> : h \in {h \in WorkerIds \X (1..Fds) :
              h[2] <= Len(pending[h[1]]) /\ pending[h[1]][h[2]] = f}}
    \cup {<<"session", w>> : w \in {w \in WorkerIds : sessions[w][f] = owner[f] /\ up[owner[f]]}}

OneHome == running => \A f \in FdIds : owner[f] # Nobody => Cardinality(Homes(f)) = 1

(* The poller reports an edge once.  Whatever a running session has not    *)
(* read yet is still going to be reported, has been reported and is about  *)
(* to be handled, or is being read: no package waits for an event that     *)
(* will not come.                                                          *)
BeingRead(w, c) ==
    \/ edge[c]
    \/ \E e \in events[w] : e.fd = fdOf[c]
    \/ current[w] = c /\ at[w] \in {"recv", "package", "drop"}

NoLostWakeup ==
    \A w \in WorkerIds, c \in Clients :
        Exists(w, c) /\ up[c] /\ (wire[c] # <<>> \/ peer[c] # "open") => BeingRead(w, c)

(* A coroutine outlives its session only when a client has acknowledged    *)
(* more than once and the session forgot the first timer.                  *)
NoDanglingBeat == dangling => \E c \in Clients : acks[c] > 1

(* A client is answered in the order it asked and never twice, even when   *)
(* answers are lost to a full buffer.                                      *)
AnswersInOrder ==
    \A c \in Clients : \A i, j \in 1..Len(inbox[c]) :
        i < j /\ inbox[c][i][1] = inbox[c][j][1] => inbox[c][i][2] < inbox[c][j][2]

(* worker.hpp: each worker processes the connections assigned to it.       *)
OwnConnectionsOnly == strays = {}

(* A package that has reached a running session is read, or the session    *)
(* closes.                                                                 *)
PackagesAreRead ==
    \A c \in Clients : (up[c] /\ wire[c] # <<>>) ~> (wire[c] = <<>> \/ ~up[c] \/ killed)

(* After the signal every worker stops and main returns. *)
ShutsDown == ~running ~> (mainAt = "exit" \/ killed)

=============================================================================
