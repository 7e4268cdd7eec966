----------------------------- MODULE CommandQueue -----------------------------
(***************************************************************************)
(* src/events/scheduler/CommandQueue.cpp: the queue through which other    *)
(* threads hand commands to the main loop.  All operations take the same   *)
(* pthread mutex, which is not recursive; runCommands, called by the main  *)
(* thread before every event, keeps it while the commands run.             *)
(***************************************************************************)
EXTENDS Lists

CONSTANTS Command,     \* the objects queueCommand allocates
          NoCommand,
          Thread,      \* the threads that use the queue
          Main,        \* the thread of the main loop
          NoThread

ASSUME CommandQueueAssumption ==
    Main \in Thread /\ NoThread \notin Thread /\ NoCommand \notin Command

VARIABLES queue,       \* queue_
          cmdState,    \* Command::state_
          queueMutex,  \* the thread that holds mutex_
          itr,         \* runCommands: how many commands of queue_ it is through
          executing    \* the command whose operator() runs

queueVars == <<queue, cmdState, queueMutex, itr, executing>>

CmdState == {"NotSubmitted", "Queued", "Running", "Finished", "Canceled"}

QueueInit ==
    /\ queue = << >>
    /\ cmdState = [c \in Command |-> "NotSubmitted"]
    /\ queueMutex = NoThread
    /\ itr = 0
    /\ executing = NoCommand

-------------------------------------------------------------------------------
(* The operations of the queue, for a thread that finds the mutex free.    *)

Queue(c) ==
    /\ queueMutex = NoThread
    /\ queue' = Append(queue, c)
    /\ cmdState' = [cmdState EXCEPT ![c] = "Queued"]
    /\ UNCHANGED <<queueMutex, itr, executing>>

(* queue_.remove(): a command stands in the list once at most.             *)
Remove(c) ==
    /\ queue' = Without(queue, c)
    /\ cmdState' = [cmdState EXCEPT ![c] = "Canceled"]

(* What cannot be canceled makes dequeueCommand throw a CancelException    *)
(* with the mutex locked: the throws stand before the try.                 *)
Dequeue(t, c) ==
    /\ queueMutex = NoThread
    /\ IF cmdState[c] = "Queued"
       THEN Remove(c) /\ UNCHANGED queueMutex
       ELSE queueMutex' = t /\ UNCHANGED <<queue, cmdState>>
    /\ UNCHANGED <<itr, executing>>

(* fault: the iterator stays where the last run left it                    *)
RunLock_NotRewound ==
    /\ queueMutex = NoThread
    /\ queueMutex' = Main
    /\ UNCHANGED <<queue, cmdState, itr, executing>>

RunLock ==
    /\ queueMutex = NoThread
    /\ queueMutex' = Main
    /\ itr' = 0
    /\ UNCHANGED <<queue, cmdState, executing>>

Clear ==
    /\ queueMutex = NoThread
    /\ queue' = << >>
    /\ UNCHANGED <<cmdState, queueMutex, itr, executing>>

RunNext ==
    /\ executing = NoCommand /\ itr < Len(queue)
    /\ executing' = queue[itr + 1]
    /\ cmdState' = [cmdState EXCEPT ![queue[itr + 1]] = "Running"]
    /\ UNCHANGED <<queue, queueMutex, itr>>

RunReturns ==
    /\ executing # NoCommand
    /\ cmdState' = [cmdState EXCEPT ![executing] = "Finished"]
    /\ executing' = NoCommand
    /\ itr' = itr + 1
    /\ UNCHANGED <<queue, queueMutex>>

(* fault: the commands that ran stay in the queue                          *)
RunUnlock_NotCleared ==
    /\ executing = NoCommand /\ itr = Len(queue)
    /\ queueMutex' = NoThread
    /\ UNCHANGED <<queue, cmdState, itr, executing>>

RunUnlock ==
    /\ executing = NoCommand /\ itr = Len(queue)
    /\ queue' = << >>
    /\ queueMutex' = NoThread
    /\ UNCHANGED <<cmdState, itr, executing>>
===============================================================================
