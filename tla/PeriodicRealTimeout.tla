-------------------------- MODULE PeriodicRealTimeout --------------------------
(***************************************************************************)
(* src/events/PeriodicRealTimeout.cpp: a timer of the real time.  A worker *)
(* thread sleeps and queues a command; the main thread runs the command in *)
(* its event loop, and starts and cancels the timer.  An action of a       *)
(* thread ends where it may block (a mutex, the condition, the join) or    *)
(* where another thread can tell the difference.                           *)
(***************************************************************************)
EXTENDS CommandQueue, FiniteSets

CONSTANTS Worker,               \* the threads pthread_create() hands out
          CallbackCancels       \* periodically() may start and cancel the timer

ASSUME PeriodicRealTimeoutAssumption ==
    /\ Worker = Thread \ {Main}
    /\ CallbackCancels \in BOOLEAN

VARIABLES timerMutex,        \* the thread that holds PeriodicRealTimeout::mutex
          running,
          currentCommand,    \* NoCommand is the null command
          thread,            \* the worker created last
          signalled,         \* the main thread was signalled through dataRead
          cancelRequested,   \* pthread_cancel() was called for a worker
          worker,            \* where a worker is
          main,              \* where the main thread is
          starting,          \* cancelPeriodicRealTimeout() was called by start
          wanted             \* the user has started the timer and not cancelled it

timerVars == <<timerMutex, running, currentCommand, thread, signalled>>
vars == <<queueVars, timerVars, cancelRequested, worker, main, starting, wanted>>

WorkerAt == {"none", "started", "signal", "sleep", "lockTimer", "lockQueue"}

MainAt == {"free", "commands", "cancel", "dequeue", "join", "start", "wait"}

Init ==
    /\ QueueInit
    /\ timerMutex = NoThread
    /\ running = FALSE
    /\ currentCommand = NoCommand
    /\ thread = NoThread
    /\ signalled = FALSE
    /\ cancelRequested = [w \in Worker |-> FALSE]
    /\ worker = [w \in Worker |-> "none"]
    /\ main = "free"
    /\ starting = FALSE
    /\ wanted = FALSE

-------------------------------------------------------------------------------
(* The main thread: the commands before every event.                       *)

RunCommands ==
    /\ main = "free" /\ executing = NoCommand
    /\ RunLock
    /\ main' = "commands"
    /\ UNCHANGED <<timerVars, cancelRequested, worker, starting, wanted>>

(* PeriodicRealTimeoutCommand::operator() calls periodically().            *)
RunCommand ==
    /\ main = "commands"
    /\ RunNext
    /\ main' = "free"
    /\ UNCHANGED <<timerVars, cancelRequested, worker, starting, wanted>>

PeriodicallyReturns ==
    /\ main = "free"
    /\ RunReturns
    /\ main' = "commands"
    /\ UNCHANGED <<timerVars, cancelRequested, worker, starting, wanted>>

CommandsDone ==
    /\ main = "commands"
    /\ RunUnlock
    /\ main' = "free"
    /\ UNCHANGED <<timerVars, cancelRequested, worker, starting, wanted>>

(* The main thread: start and cancel, from an event or from periodically().*)

MayCall == main = "free" /\ (executing = NoCommand \/ CallbackCancels)

CallCancel ==
    /\ MayCall
    /\ main' = "cancel" /\ starting' = FALSE
    /\ UNCHANGED <<queueVars, timerVars, cancelRequested, worker, wanted>>

CallStart ==
    /\ MayCall
    /\ main' = "cancel" /\ starting' = TRUE
    /\ UNCHANGED <<queueVars, timerVars, cancelRequested, worker, wanted>>

(* cancelPeriodicRealTimeout() is left with the mutex free.                *)
Cancelled ==
    /\ timerMutex' = NoThread
    /\ main' = IF starting THEN "start" ELSE "free"
    /\ wanted' = FALSE

RequestCancel ==
    /\ cancelRequested' = [cancelRequested EXCEPT ![thread] = TRUE]
    /\ main' = "join"

(* fault: a command that is still queued is left to run                    *)
MustDequeue_Never(c) == c \in Command /\ FALSE

MustDequeue(c) == c # NoCommand /\ cmdState[c] = "Queued"

CancelLocked ==
    /\ main = "cancel" /\ timerMutex = NoThread
    /\ \/ /\ ~running
          /\ Cancelled
          /\ UNCHANGED cancelRequested
       \/ /\ running /\ MustDequeue(currentCommand)
          /\ timerMutex' = Main
          /\ main' = "dequeue"
          /\ UNCHANGED <<cancelRequested, wanted>>
       \/ /\ running /\ ~MustDequeue(currentCommand)
          /\ timerMutex' = Main
          /\ RequestCancel
          /\ UNCHANGED wanted
    /\ UNCHANGED <<queueVars, running, currentCommand, thread, signalled, worker, starting>>

DequeueLocked ==
    /\ main = "dequeue"
    /\ Dequeue(Main, currentCommand)
    /\ RequestCancel
    /\ UNCHANGED <<timerVars, worker, starting, wanted>>

Join ==
    /\ main = "join" /\ worker[thread] = "none"
    /\ running' = FALSE
    /\ currentCommand' = NoCommand
    /\ Cancelled
    /\ UNCHANGED <<queueVars, thread, signalled, cancelRequested, worker, starting>>

(* pthread_create(), and pthread_cond_wait() gives the mutex back.         *)
StartLocked ==
    /\ main = "start" /\ timerMutex = NoThread
    /\ \E w \in Worker :
          /\ worker[w] = "none"
          /\ worker' = [worker EXCEPT ![w] = "started"]
          /\ cancelRequested' = [cancelRequested EXCEPT ![w] = FALSE]
          /\ thread' = w
    /\ main' = "wait"
    /\ signalled' = FALSE
    /\ wanted' = TRUE
    /\ UNCHANGED <<queueVars, timerMutex, running, currentCommand, starting>>

Started ==
    /\ main = "wait" /\ timerMutex = NoThread
    /\ signalled
    /\ main' = "free"
    /\ UNCHANGED <<queueVars, timerVars, cancelRequested, worker, starting, wanted>>

-------------------------------------------------------------------------------
(* The worker.  It is cancelled only while it sleeps, since the rest of    *)
(* its loop runs with the cancellation disabled.                           *)

(* fault: the worker does not say that it runs                             *)
Announce_Silent(w) ==
    /\ worker[w] = "started" /\ timerMutex = NoThread
    /\ worker' = [worker EXCEPT ![w] = "signal"]
    /\ UNCHANGED <<queueVars, timerVars, cancelRequested, main, starting, wanted>>

Announce(w) ==
    /\ worker[w] = "started" /\ timerMutex = NoThread
    /\ running' = TRUE
    /\ worker' = [worker EXCEPT ![w] = "signal"]
    /\ UNCHANGED <<queueVars, timerMutex, currentCommand, thread, signalled,
                   cancelRequested, main, starting, wanted>>

Signal(w) ==
    /\ worker[w] = "signal"
    /\ signalled' = (signalled \/ main = "wait")
    /\ worker' = [worker EXCEPT ![w] = "sleep"]
    /\ UNCHANGED <<queueVars, timerMutex, running, currentCommand, thread,
                   cancelRequested, main, starting, wanted>>

CancelledAsleep(w) ==
    /\ worker[w] = "sleep" /\ cancelRequested[w]
    /\ worker' = [worker EXCEPT ![w] = "none"]
    /\ UNCHANGED <<queueVars, timerVars, cancelRequested, main, starting, wanted>>

(* nanosleep() and pthread_testcancel() are over, cancellation is disabled. *)
Elapse(w) ==
    /\ worker[w] = "sleep" /\ ~cancelRequested[w]
    /\ worker' = [worker EXCEPT ![w] = "lockTimer"]
    /\ UNCHANGED <<queueVars, timerVars, cancelRequested, main, starting, wanted>>

(* fault: the null command is forgotten, nothing is ever queued            *)
MayQueue_OnlyFinished(c) == c # NoCommand /\ cmdState[c] = "Finished"

MayQueue(c) == c = NoCommand \/ cmdState[c] = "Finished"

TimerLocked(w) ==
    /\ worker[w] = "lockTimer" /\ timerMutex = NoThread
    /\ IF MayQueue(currentCommand)
       THEN timerMutex' = w /\ worker' = [worker EXCEPT ![w] = "lockQueue"]
       ELSE worker' = [worker EXCEPT ![w] = "sleep"] /\ UNCHANGED timerMutex
    /\ UNCHANGED <<queueVars, running, currentCommand, thread, signalled,
                   cancelRequested, main, starting, wanted>>

(* A new command; its memory may be that of one nobody refers to.          *)
Unused(c) == c # currentCommand /\ c # executing /\ ~InList(queue, c)

QueueLocked(w) ==
    /\ worker[w] = "lockQueue"
    /\ \E c \in Command : Unused(c) /\ Queue(c) /\ currentCommand' = c
    /\ timerMutex' = NoThread
    /\ worker' = [worker EXCEPT ![w] = "sleep"]
    /\ UNCHANGED <<running, thread, signalled, cancelRequested, main, starting, wanted>>

MainStep == \/ RunCommands \/ RunCommand \/ PeriodicallyReturns \/ CommandsDone
            \/ CancelLocked \/ DequeueLocked \/ Join \/ StartLocked \/ Started

WorkerStep(w) == \/ Announce(w) \/ Signal(w) \/ CancelledAsleep(w) \/ Elapse(w)
                 \/ TimerLocked(w) \/ QueueLocked(w)

Next == CallCancel \/ CallStart \/ MainStep \/ \E w \in Worker : WorkerStep(w)

Spec == Init /\ [][Next]_vars

(* Both threads are scheduled, sleeps end, the event loop goes on, and a   *)
(* mutex that is free again and again is got some time.                    *)
Fairness ==
    /\ WF_vars(RunCommand) /\ WF_vars(PeriodicallyReturns) /\ WF_vars(CommandsDone)
    /\ WF_vars(Join) /\ SF_vars(RunCommands) /\ SF_vars(CancelLocked)
    /\ SF_vars(DequeueLocked) /\ SF_vars(StartLocked) /\ SF_vars(Started)
    /\ \A w \in Worker :
          /\ WF_vars(Signal(w)) /\ WF_vars(CancelledAsleep(w)) /\ WF_vars(Elapse(w))
          /\ SF_vars(Announce(w)) /\ SF_vars(TimerLocked(w)) /\ SF_vars(QueueLocked(w))

LiveSpec == Spec /\ Fairness

-------------------------------------------------------------------------------
Live(w) == worker[w] # "none"

TypeOK ==
    /\ queue \in Seq(Command)
    /\ cmdState \in [Command -> CmdState]
    /\ queueMutex \in Thread \cup {NoThread} /\ timerMutex \in Thread \cup {NoThread}
    /\ executing \in Command \cup {NoCommand}
    /\ currentCommand \in Command \cup {NoCommand}
    /\ itr \in Nat /\ (main = "commands" => itr <= Len(queue))
    /\ running \in BOOLEAN /\ signalled \in BOOLEAN
    /\ thread \in Worker \cup {NoThread}
    /\ cancelRequested \in [Worker -> BOOLEAN]
    /\ worker \in [Worker -> WorkerAt] /\ main \in MainAt
    /\ starting \in BOOLEAN /\ wanted \in BOOLEAN

(* "At any time there is only one valid timer" (PeriodicRealTimeout.hpp:87): *)
(* no second worker is started while one is alive.                         *)
OneWorker == Cardinality({w \in Worker : Live(w)}) <= 1

(* hasPeriodicRealTimeoutSet() says what the user asked for, right after   *)
(* start and cancel have returned and whenever it is asked.                *)
SetIffWanted == main = "free" => (running <=> wanted)

(* Once cancelPeriodicRealTimeout() has returned nothing of the timer is   *)
(* left that would call periodically(): no worker and no queued command.   *)
CancelledIsSilent ==
    ~wanted /\ main = "free" =>
        /\ \A w \in Worker : ~Live(w)
        /\ \A i \in 1 .. Len(queue) : cmdState[queue[i]] # "Queued"

(* The main thread may be slow: the timer never has more than one command  *)
(* waiting for it, whatever the period is.                                 *)
OneCommandWaits ==
    Cardinality({i \in 1 .. Len(queue) : cmdState[queue[i]] = "Queued"}) <= 1

(* There is one timer, it is set exactly if the user wants it, and it has  *)
(* one command waiting at most, whatever the main thread and the worker do *)
(* at the same time.                                                       *)
OneTimer == OneWorker /\ SetIffWanted /\ OneCommandWaits

(* A timer that was started fires, and fires again, until it is cancelled. *)
FiresAgain ==
    wanted ~> (executing # NoCommand \/ main \in {"cancel", "dequeue", "join"})

(* "If the timer has been set before, it will be silently cancelled"       *)
(* (PeriodicRealTimeout.hpp:86): start and cancel return.                  *)
CancelReturns == main = "cancel" ~> main = "free"
===============================================================================
