-------------------------- MODULE CommandQueueThreads --------------------------
(***************************************************************************)
(* The threads that use CommandQueue: any of them queues commands and      *)
(* takes them back, the main thread runs and resets the queue between its  *)
(* events.  A command that runs does not use the queue itself.             *)
(***************************************************************************)
EXTENDS CommandQueue

VARIABLES calling,     \* the operation a thread has called and not returned from
          history      \* the commands queued, those that ran, those cleared away

threadsVars == <<queueVars, calling, history>>

Calls == [op : {"none", "queue", "dequeue", "reset", "run", "running"},
          command : Command \cup {NoCommand}]

NoCall == [op |-> "none", command |-> NoCommand]

ThreadsInit ==
    /\ QueueInit
    /\ calling = [t \in Thread |-> NoCall]
    /\ history = [queued |-> << >>, ran |-> << >>, cleared |-> {}]

Call(t, op, c) ==
    /\ calling[t] = NoCall
    /\ calling' = [calling EXCEPT ![t] = [op |-> op, command |-> c]]
    /\ UNCHANGED <<queueVars, history>>

Return(t) == calling' = [calling EXCEPT ![t] = NoCall]

CallQueue(t, c) == cmdState[c] = "NotSubmitted"
                   /\ (\A u \in Thread : calling[u].command # c)
                   /\ Call(t, "queue", c)

(* A handle is what queueCommand returned: that command was submitted.     *)
CallDequeue(t, c) == cmdState[c] # "NotSubmitted" /\ Call(t, "dequeue", c)

CallMain == \E op \in {"run", "reset"} : Call(Main, op, NoCommand)

DoQueue(t) ==
    /\ calling[t].op = "queue"
    /\ Queue(calling[t].command)
    /\ history' = [history EXCEPT !.queued = Append(@, calling[t].command)]
    /\ Return(t)

DoDequeue(t) ==
    /\ calling[t].op = "dequeue"
    /\ Dequeue(t, calling[t].command)
    /\ Return(t)
    /\ UNCHANGED history

DoReset ==
    /\ calling[Main].op = "reset"
    /\ Clear
    /\ history' = [history EXCEPT !.cleared =
          @ \cup {c \in Command : InList(queue, c)}]
    /\ Return(Main)

BeginRun ==
    /\ calling[Main].op = "run"
    /\ RunLock
    /\ calling' = [calling EXCEPT ![Main].op = "running"]
    /\ UNCHANGED history

DoRun ==
    /\ calling[Main].op = "running"
    /\ \/ /\ RunNext
          /\ history' = [history EXCEPT !.ran = Append(@, executing')]
          /\ UNCHANGED calling
       \/ RunReturns /\ UNCHANGED <<calling, history>>
       \/ RunUnlock /\ Return(Main) /\ UNCHANGED history

ThreadsNext ==
    \/ \E t \in Thread : \/ \E c \in Command : CallQueue(t, c) \/ CallDequeue(t, c)
                         \/ DoQueue(t) \/ DoDequeue(t)
    \/ CallMain \/ DoReset \/ BeginRun \/ DoRun

ThreadsSpec == ThreadsInit /\ [][ThreadsNext]_threadsVars

(* Every thread is scheduled, and a free mutex goes to each that waits.    *)
ThreadsLiveSpec ==
    /\ ThreadsSpec
    /\ SF_threadsVars(DoReset) /\ SF_threadsVars(BeginRun) /\ WF_threadsVars(DoRun)
    /\ \A t \in Thread : SF_threadsVars(DoQueue(t)) /\ SF_threadsVars(DoDequeue(t))

-------------------------------------------------------------------------------
ThreadsTypeOK ==
    /\ queue \in Seq(Command)
    /\ cmdState \in [Command -> CmdState]
    /\ queueMutex \in Thread \cup {NoThread}
    /\ itr \in Nat /\ (calling[Main].op = "running" => itr <= Len(queue))
    /\ executing \in Command \cup {NoCommand}
    /\ calling \in [Thread -> Calls]
    /\ history \in [queued : Seq(Command), ran : Seq(Command), cleared : SUBSET Command]

(* Whatever the threads do meanwhile, the commands run in the order they   *)
(* were queued in, each at most once, and what does not run was canceled.  *)
RunsInOrder ==
    /\ \A c \in Command : InList(history.ran, c) <=> cmdState[c] \in {"Running", "Finished"}
    /\ \A i, j \in 1 .. Len(history.ran) :
          i < j => Before(history.queued, history.ran[i], history.ran[j])
    /\ \A i, j \in 1 .. Len(history.queued) :
          history.queued[i] = history.queued[j] => i = j

(* The queue holds what was queued and neither canceled nor run nor        *)
(* cleared away; the commands of a run that is not over are still in it.   *)
QueueMatchesStates ==
    /\ \A c \in Command : cmdState[c] = "Queued" =>
          c \in history.cleared \/ InList(queue, c)
    /\ \A i \in 1 .. Len(queue) :
          \/ cmdState[queue[i]] = "Queued"
          \/ calling[Main].op = "running" /\ cmdState[queue[i]] \in {"Running", "Finished"}

(* What runs is what was queued: in that order, once, and nothing else is  *)
(* left in the queue by the operations of the other threads.               *)
RunsWhatIsQueued == RunsInOrder /\ QueueMatchesStates

(* "Thread safe command queue" (CommandQueue.hpp:41): every operation a    *)
(* thread calls returns, with an exception or without.                     *)
OperationsReturn == \A t \in Thread : calling[t] # NoCall ~> calling[t] = NoCall
===============================================================================
