------------------------------ MODULE CppTimers ------------------------------
(***************************************************************************)
(* Time in one worker of the C++ echo server: Scheduler (coroutine.hpp)    *)
(* with its queue of timers, Session::heartbeat_coroutine() which waits in *)
(* it, and WorkerThread::thread_func() as far as it decides how long the   *)
(* poller sleeps.  CppServer has the same code without time.               *)
(*                                                                         *)
(* Instants are kept as distances from now, so a run may last for ever:    *)
(* left is what a timer's deadline is ahead, age how long the last package *)
(* of a client is ago.  Time passes only while the worker sleeps in its    *)
(* poller: what it does between two polls takes no time.                   *)
(***************************************************************************)
EXTENDS Integers, FiniteSets

CONSTANTS
    Sessions,   \* the connections this worker is given
    Timeout,    \* heartbeat_timeout_
    Retry,      \* the ten milliseconds after which tick() looks at a coroutine again
    Idle,       \* the longest sleep of the poller, one second
    MaxTimers   \* bound: timers ever made

ASSUME TimesAssumption ==
    /\ Timeout \in Nat /\ Retry \in Nat \ {0}
    /\ Idle \in Nat \ {0} /\ MaxTimers \in Nat

VARIABLES
    place,      \* where each session object is: not yet made, in sessions_, destroyed
    up,         \* running_
    state,      \* state_
    age,        \* now - last_heartbeat_, up to AgeCap
    timerOf,    \* heartbeat_timer_id_, 0 for -1
    queue,      \* timer_queue_
    removed,    \* removed_timers_
    nextId,     \* next_id_
    at,         \* where the worker is
    events,     \* the sessions of its last poll it has not handled
    reading,    \* the session whose packages it handles, in sequence
    sleep,      \* what is left of the poller's timeout
    twice       \* history: sessions that have acknowledged twice

sessionVars == <<place, up, state, age, timerOf>>
timerVars == <<queue, removed, nextId>>
workerVars == <<at, events, reading, sleep>>
vars == <<sessionVars, timerVars, workerVars, twice>>

AgeCap == Timeout + Retry + 1

(* left is the timer's deadline, and done says that its coroutine has      *)
(* returned.                                                               *)
Timer(id, s, left, done) == [id |-> id, session |-> s, left |-> left, done |-> done]

Init ==
    /\ place = [s \in Sessions |-> "new"]
    /\ up = [s \in Sessions |-> TRUE]
    /\ state = [s \in Sessions |-> "Inited"]
    /\ age = [s \in Sessions |-> AgeCap]
    /\ timerOf = [s \in Sessions |-> 0]
    /\ queue = {} /\ removed = {} /\ nextId = 1
    /\ at = "top" /\ events = {} /\ reading \in Sessions /\ sleep = 0
    /\ twice = {}

-----------------------------------------------------------------------------
(* The worker's loop *)

(* process_pending_connections() *)
Adopt(s) ==
    /\ at = "top" /\ place[s] = "new"
    /\ place' = [place EXCEPT ![s] = "map"]
    /\ UNCHANGED <<up, state, age, timerOf, timerVars, workerVars, twice>>

(* The timer at the top of the heap. *)
Tops == {t \in queue : \A u \in queue : t.left <= u.left}

(* Mutant of NextTimeout: the poller sleeps its full time whatever waits. *)
NextTimeoutIdle(n) == n = Idle

(* Scheduler::next_timeout(), and at most Idle of it. *)
NextTimeout(n) ==
    \/ queue = {} /\ n = Idle
    \/ \E t \in Tops : n = IF t.left < Idle THEN t.left ELSE Idle

Poll ==
    /\ at = "top"
    /\ \E n \in 0..Idle : NextTimeout(n) /\ sleep' = n
    /\ at' = "wait"
    /\ UNCHANGED <<events, reading, sessionVars, timerVars, twice>>

Less(n) == IF n = 0 THEN 0 ELSE n - 1

(* Time passes while the worker sleeps. *)
TimePasses ==
    /\ at = "wait" /\ sleep > 0
    /\ sleep' = sleep - 1
    /\ queue' = {[t EXCEPT !.left = Less(@)] : t \in queue}
    /\ age' = [s \in Sessions |-> IF age[s] < AgeCap THEN age[s] + 1 ELSE AgeCap]
    /\ UNCHANGED <<place, up, state, timerOf, removed, nextId, at, events, reading, twice>>

PollTimesOut ==
    /\ at = "wait" /\ sleep = 0
    /\ at' = "tick"
    /\ UNCHANGED <<events, reading, sleep, sessionVars, timerVars, twice>>

(* The poller reports some of the descriptors it watches: that of a        *)
(* session which has closed itself has left it.                            *)
PollReports ==
    /\ at = "wait"
    /\ events' \in SUBSET {s \in Sessions : place[s] = "map" /\ up[s]} /\ events' # {}
    /\ at' = "events"
    /\ UNCHANGED <<reading, sleep, sessionVars, timerVars, twice>>

HandleEvent(s) ==
    /\ at = "events" /\ s \in events
    /\ events' = events \ {s} /\ reading' = s /\ at' = "read"
    /\ UNCHANGED <<sleep, sessionVars, timerVars, twice>>

EventsEnd ==
    /\ at = "events" /\ events = {}
    /\ at' = "tick"
    /\ UNCHANGED <<events, reading, sleep, sessionVars, timerVars, twice>>

-----------------------------------------------------------------------------
(* Session, package by package *)

(* Session::close(): only the first call takes effect. *)
CloseSession(s) ==
    /\ up' = [up EXCEPT ![s] = FALSE]
    /\ removed' = IF up[s] /\ timerOf[s] # 0 THEN removed \cup {timerOf[s]} ELSE removed
    /\ timerOf' = IF up[s] THEN [timerOf EXCEPT ![s] = 0] ELSE timerOf

(* send() reaches the client, or fails and closes the session. *)
Send(s) == UNCHANGED <<up, removed, timerOf>> \/ CloseSession(s)

(* state_ after a call that may have closed the session. *)
ClosedState(s) == IF up[s] /\ ~up'[s] THEN [state EXCEPT ![s] = "Closed"] ELSE state

Package(s) ==
    /\ at = "read" /\ reading = s
    /\ UNCHANGED <<place, workerVars>>

HandleHandshake(s) ==
    /\ Package(s)
    /\ Send(s)
    /\ state' = [state EXCEPT ![s] = "WaitAck"]
    /\ UNCHANGED <<age, queue, nextId, twice>>

(* heartbeat_coroutine() runs up to its co_await, or to its end when the   *)
(* session is closed; add_timer_task() files it as due at once.            *)
AddTimerTask(s) ==
    /\ queue' = queue \cup {Timer(nextId, s, 0, ~up[s])}
    /\ nextId' = nextId + 1

HandleHandshakeAck(s) ==
    /\ Package(s) /\ nextId <= MaxTimers
    /\ state' = [state EXCEPT ![s] = "Working"]
    /\ age' = [age EXCEPT ![s] = 0]
    /\ AddTimerTask(s)
    /\ timerOf' = [timerOf EXCEPT ![s] = nextId]
    /\ twice' = IF up[s] /\ timerOf[s] # 0 THEN twice \cup {s} ELSE twice
    /\ UNCHANGED <<up, removed>>

(* handle_heartbeat(), and handle_data() whose request is answered. *)
HandleAndAnswer(s) ==
    /\ Package(s)
    /\ age' = [age EXCEPT ![s] = 0]
    /\ Send(s)
    /\ state' = ClosedState(s)
    /\ UNCHANGED <<queue, nextId, twice>>

HandleKick(s) ==
    /\ Package(s)
    /\ CloseSession(s)
    /\ state' = ClosedState(s)
    /\ UNCHANGED <<age, queue, nextId, twice>>

(* handle_read() returns: the session stays when it still runs and the     *)
(* client has not left, and is closed and destroyed otherwise.             *)
ReadReturns(s) ==
    /\ at = "read" /\ reading = s
    /\ at' = "events"
    /\ \/ up[s] /\ UNCHANGED sessionVars /\ UNCHANGED removed
       \/ /\ CloseSession(s)
          /\ state' = ClosedState(s)
          /\ place' = [place EXCEPT ![s] = "gone"]
          /\ UNCHANGED age
    /\ UNCHANGED <<events, reading, sleep, queue, nextId, twice>>

-----------------------------------------------------------------------------
(* Scheduler::tick(), one timer of the queue at a time.  The ready queue,  *)
(* which nothing in the program fills, is left out.                        *)

Pop(t) == at = "tick" /\ t \in Tops

(* A removed timer goes when it comes to the top, due or not. *)
DropRemoved(t) ==
    /\ Pop(t) /\ t.id \in removed
    /\ queue' = queue \ {t}
    /\ removed' = removed \ {t.id}
    /\ UNCHANGED <<nextId, sessionVars, workerVars, twice>>

Due(t) == Pop(t) /\ t.id \notin removed /\ t.left = 0

(* Mutant of DropDone: a task that has returned is put back. *)
DropDoneAgain(t) ==
    /\ Due(t) /\ t.done
    /\ queue' = (queue \ {t}) \cup {[t EXCEPT !.left = Retry]}
    /\ UNCHANGED <<removed, nextId, sessionVars, workerVars, twice>>

DropDone(t) ==
    /\ Due(t) /\ t.done
    /\ queue' = queue \ {t}
    /\ UNCHANGED <<removed, nextId, sessionVars, workerVars, twice>>

(* The coroutine goes on behind its co_await, however long it meant to     *)
(* wait: resuming a SleepAwaiter does not ask for its deadline again.      *)
Resume(t) ==
    /\ Due(t) /\ ~t.done /\ place[t.session] # "gone"
    /\ UNCHANGED <<place, age, nextId, workerVars, twice>>

(* The session the coroutine belongs to has been destroyed: what it reads  *)
(* there may make it go on or end.                                         *)
BeatDangles(t) ==
    /\ Due(t) /\ ~t.done /\ place[t.session] = "gone"
    /\ queue' = (queue \ {t}) \cup {[t EXCEPT !.left = Retry]} \/ queue' = queue \ {t}
    /\ UNCHANGED <<removed, nextId, sessionVars, workerVars, twice>>

(* It returns when the session is not Working... *)
BeatReturns(t) ==
    /\ Resume(t) /\ state[t.session] # "Working"
    /\ queue' = queue \ {t}
    /\ UNCHANGED <<up, state, timerOf, removed>>

(* ...closes the session when its client is late... *)
BeatTimeout(t) ==
    LET s == t.session IN
    /\ Resume(t) /\ state[s] = "Working" /\ age[s] > Timeout
    /\ CloseSession(s)
    /\ state' = ClosedState(s)
    /\ queue' = queue \ {t}

(* Mutant of BeatSends: tick() does not put it back. *)
BeatSendsOnce(t) ==
    LET s == t.session IN
    /\ Resume(t) /\ state[s] = "Working" /\ age[s] <= Timeout
    /\ Send(s)
    /\ state' = ClosedState(s)
    /\ queue' = queue \ {t}

(* ...and otherwise sends a heartbeat and waits again, unless that has     *)
(* closed the session.  Whatever it waits for, tick() puts it back for     *)
(* ten milliseconds.                                                       *)
BeatSends(t) ==
    LET s == t.session IN
    /\ Resume(t) /\ state[s] = "Working" /\ age[s] <= Timeout
    /\ Send(s)
    /\ state' = ClosedState(s)
    /\ queue' = (queue \ {t}) \cup
                 (IF up'[s] THEN {Timer(t.id, s, Retry, FALSE)} ELSE {})

TickEnds ==
    /\ at = "tick"
    /\ \A t \in Tops : t.id \notin removed /\ t.left > 0
    /\ at' = "top"
    /\ UNCHANGED <<events, reading, sleep, sessionVars, timerVars, twice>>

Tick ==
    \/ \E t \in queue : \/ DropRemoved(t) \/ DropDone(t)
                        \/ BeatReturns(t) \/ BeatTimeout(t) \/ BeatSends(t) \/ BeatDangles(t)
    \/ TickEnds

-----------------------------------------------------------------------------
Read == \E s \in Sessions :
    \/ HandleEvent(s) \/ HandleHandshake(s) \/ HandleHandshakeAck(s) \/ HandleAndAnswer(s) \/ HandleKick(s)
    \/ ReadReturns(s)

Next ==
    \/ \E s \in Sessions : Adopt(s)
    \/ Poll \/ TimePasses \/ PollTimesOut \/ PollReports \/ Read \/ EventsEnd \/ Tick

Spec == Init /\ [][Next]_vars

(* Time goes on however many packages come in, the worker's thread runs,   *)
(* and reads come to an end.                                               *)
Fairness ==
    /\ SF_vars(TimePasses) /\ WF_vars(Poll) /\ WF_vars(PollTimesOut) /\ WF_vars(EventsEnd) /\ WF_vars(Tick)
    /\ \A s \in Sessions : WF_vars(HandleEvent(s)) /\ WF_vars(ReadReturns(s))

FairSpec == Spec /\ Fairness

-----------------------------------------------------------------------------
(* Properties *)

(* Every variable keeps to the values the code can give it; no two timers  *)
(* have one id, and every id is one that next_id_ has given.               *)
TypeOK ==
    /\ place \in [Sessions -> {"new", "map", "gone"}]
    /\ up \in [Sessions -> BOOLEAN]
    /\ state \in [Sessions -> {"Inited", "WaitAck", "Working", "Closed"}]
    /\ age \in [Sessions -> 0..AgeCap]
    /\ nextId \in Nat \ {0}
    /\ timerOf \in [Sessions -> 0..(nextId - 1)] /\ removed \subseteq 1..(nextId - 1)
    /\ queue \subseteq [id : 1..(nextId - 1), session : Sessions, left : Nat, done : BOOLEAN]
    /\ \A t, u \in queue : t.id = u.id => t = u
    /\ at \in {"top", "wait", "events", "read", "tick"} /\ events \subseteq Sessions /\ reading \in Sessions /\ sleep \in 0..Idle
    /\ twice \subseteq Sessions

(* The timer of session s that will look at it. *)
Watches(t, s) == t.session = s /\ ~t.done /\ t.id \notin removed

(* The heartbeat of a session never gets lost: while it works a coroutine  *)
(* of its own waits in the queue, whatever packages come in what order,    *)
(* a handshake or an acknowledgement in the middle of the work included.   *)
WorkingIsWatched ==
    \A s \in Sessions : up[s] /\ state[s] = "Working" => \E t \in queue : Watches(t, s)

(* heartbeat_timeout_ is kept: a client that has been silent for longer is *)
(* cut off within one look of its coroutine, however long the poller could *)
(* have slept and however many other sessions and stale timers there are.  *)
LateIsClosed ==
    \A s \in Sessions : up[s] /\ state[s] = "Working" => age[s] <= Timeout + Retry

(* What a closed session leaves in the queue goes away, as long as it has  *)
(* not forgotten the timer of an earlier acknowledgement.                  *)
TimersEnd ==
    \A s \in Sessions : (~up[s] /\ s \notin twice) ~> \A t \in queue : t.session # s

=============================================================================
