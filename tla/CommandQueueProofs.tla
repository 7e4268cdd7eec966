--------------------------- MODULE CommandQueueProofs ---------------------------
(***************************************************************************)
(* The two users of the command queue.  CommandQueueThreads: the commands  *)
(* run in the order they were queued in, and the queue agrees with their   *)
(* states.  PeriodicRealTimeout: there is one timer, and silence once it   *)
(* was cancelled, whether periodically() uses the timer or not.  Both for  *)
(* any number of threads and commands.                                     *)
(***************************************************************************)
EXTENDS CommandQueueThreads, PeriodicRealTimeout, TLAPS, FiniteSetTheorems


-------------------------------------------------------------------------------
(* The threads that use the queue.                                         *)

Running == calling[Main].op = "running"

(* A command that a thread is about to queue is new and nobody else's. *)
CallsInv ==
    /\ \A t \in Thread : calling[t].op = "queue" =>
          calling[t].command \in Command /\ cmdState[calling[t].command] = "NotSubmitted"
    /\ \A t, u \in Thread :
          calling[t].op = "queue" /\ calling[u].op = "queue" /\ calling[t].command = calling[u].command
            => t = u
    /\ \A t \in Thread : calling[t].op = "dequeue" =>
          calling[t].command \in Command /\ cmdState[calling[t].command] # "NotSubmitted"
    /\ Running => queueMutex = Main
    /\ executing # NoCommand => Running /\ itr < Len(queue) /\ executing = queue[itr + 1]

(* runCommands has taken up the command at i. *)
TakenUp(i) == Running /\ (i <= itr \/ (i = itr + 1 /\ executing # NoCommand))

(* The queue is a part of what was queued, in that order. *)
QueueInv ==
    /\ Once(history.queued)
    /\ \A c \in Command : InList(history.queued, c) <=> cmdState[c] # "NotSubmitted"
    /\ Once(queue)
    /\ \A i, j \in 1 .. Len(queue) : i < j => Before(history.queued, queue[i], queue[j])
    /\ \A i \in 1 .. Len(queue) :
          IF TakenUp(i) THEN cmdState[queue[i]] \in {"Running", "Finished"}
                        ELSE cmdState[queue[i]] = "Queued"
    /\ \A c \in Command : cmdState[c] = "Queued" => c \in history.cleared \/ InList(queue, c)

(* What ran was queued before everything that waits. *)
RanInv ==
    /\ \A c \in Command : InList(history.ran, c) <=> cmdState[c] \in {"Running", "Finished"}
    /\ \A i, j \in 1 .. Len(history.ran) :
          i < j => Before(history.queued, history.ran[i], history.ran[j])
    /\ \A i \in 1 .. Len(history.ran), j \in 1 .. Len(queue) :
          ~TakenUp(j) => Before(history.queued, history.ran[i], queue[j])

ThreadsInv == ThreadsTypeOK /\ CallsInv /\ QueueInv /\ RanInv

-----------------------------------------------------------------------------
(* Taking a command out leaves the others, each once and in their order. *)
LEMMA WithoutFacts ==
  ASSUME NEW S, NEW s \in Seq(S), Once(s), NEW c
  PROVE  /\ Without(s, c) \in Seq(S) /\ Once(Without(s, c))
         /\ \A x : InList(Without(s, c), x) <=> InList(s, x) /\ x # c
         /\ \A i, j \in 1 .. Len(Without(s, c)) : i < j =>
              \E k, l \in 1 .. Len(s) :
                k < l /\ s[k] = Without(s, c)[i] /\ s[l] = Without(s, c)[j]
<1>1. CASE ~InList(s, c)
  BY <1>1 DEF Without, InList
<1>2. CASE InList(s, c)
  <2> DEFINE at == CHOOSE i \in 1 .. Len(s) : s[i] = c
             t == Without(s, c)
             back(i) == IF i < at THEN i ELSE i + 1
  <2>1. at \in 1 .. Len(s) /\ s[at] = c
    BY <1>2 DEF InList
  <2>2. t = [i \in 1 .. Len(s) - 1 |-> s[back(i)]]
    BY <1>2 DEF Without
  <2> HIDE DEF at, t
  <2>3. t \in Seq(S) /\ Len(t) = Len(s) - 1
    BY <2>1, <2>2
  <2>4. \A i \in 1 .. Len(t) : t[i] = s[back(i)] /\ back(i) \in 1 .. Len(s) /\ back(i) # at
    BY <2>1, <2>2, <2>3
  <2>5. Once(t)
    <3> SUFFICES ASSUME NEW i \in 1 .. Len(t), NEW j \in 1 .. Len(t), t[i] = t[j]
                 PROVE  i = j
      BY DEF Once
    <3>1. back(i) = back(j)
      BY <2>4 DEF Once
    <3> QED BY <2>1, <2>3, <3>1
  <2>6. ASSUME NEW x PROVE InList(t, x) <=> InList(s, x) /\ x # c
    <3>1. InList(t, x) => InList(s, x) /\ x # c
      BY <2>1, <2>4 DEF InList, Once
    <3>2. ASSUME NEW k \in 1 .. Len(s), s[k] = x, x # c PROVE InList(t, x)
      <4>1. k # at
        BY <2>1, <3>2
      <4>2. CASE k < at
        <5>1. k \in 1 .. Len(t) /\ back(k) = k
          BY <2>1, <2>3, <4>2
        <5> QED BY <2>4, <3>2, <5>1 DEF InList
      <4>3. CASE at < k
        <5>1. k - 1 \in 1 .. Len(t) /\ back(k - 1) = k
          BY <2>1, <2>3, <4>3
        <5> QED BY <2>4, <3>2, <5>1 DEF InList
      <4> QED BY <2>1, <4>1, <4>2, <4>3
    <3> QED BY <3>1, <3>2 DEF InList
  <2>7. ASSUME NEW i \in 1 .. Len(t), NEW j \in 1 .. Len(t), i < j
        PROVE  \E k, l \in 1 .. Len(s) : k < l /\ s[k] = t[i] /\ s[l] = t[j]
    <3>1. back(i) < back(j)
      BY <2>1, <2>3, <2>7
    <3> QED BY <2>4, <3>1
  <2> QED BY <2>3, <2>5, <2>6, <2>7 DEF t
<1> QED BY <1>1, <1>2

(* Queueing a command that is not in the list puts it behind the others. *)
LEMMA AppendFacts ==
  ASSUME NEW S, NEW s \in Seq(S), Once(s), NEW c \in S, ~InList(s, c)
  PROVE  /\ Append(s, c) \in Seq(S) /\ Once(Append(s, c))
         /\ \A x : InList(Append(s, c), x) <=> InList(s, x) \/ x = c
<1> DEFINE t == Append(s, c)
<1>1. t \in Seq(S) /\ Len(t) = Len(s) + 1
  OBVIOUS
<1>2. \A i \in 1 .. Len(t) : t[i] = IF i = Len(t) THEN c ELSE s[i]
  OBVIOUS
<1> HIDE DEF t
<1>3. Once(t)
  BY <1>1, <1>2 DEF Once, InList
<1>4. \A x : InList(t, x) <=> InList(s, x) \/ x = c
  BY <1>1, <1>2 DEF InList
<1> QED BY <1>1, <1>3, <1>4 DEF t

(* The order of a list stays what it was when a command is put behind it. *)
LEMMA BeforeAppend ==
  ASSUME NEW S, NEW s \in Seq(S), NEW e \in S
  PROVE  /\ \A c, d : Before(s, c, d) => Before(Append(s, e), c, d)
         /\ \A c : InList(s, c) => Before(Append(s, e), c, e)
<1> DEFINE t == Append(s, e)
<1>1. Len(t) = Len(s) + 1 /\ Len(s) \in Nat /\ t[Len(s) + 1] = e /\ \A i \in 1 .. Len(s) : t[i] = s[i]
  OBVIOUS
<1> HIDE DEF t
<1>2. \A c, d : Before(s, c, d) => Before(t, c, d)
  BY <1>1 DEF Before
<1>3. ASSUME NEW c, InList(s, c) PROVE Before(t, c, e)
  <2>1. PICK i \in 1 .. Len(s) : s[i] = c
    BY <1>3 DEF InList
  <2>2. i \in 1 .. Len(t) /\ Len(s) + 1 \in 1 .. Len(t) /\ i < Len(s) + 1
    BY <1>1
  <2> QED BY <1>1, <2>1, <2>2 DEF Before
<1> QED BY <1>2, <1>3 DEF t

LEMMA InitThreadsInv == ThreadsInit => ThreadsInv
<1> SUFFICES ASSUME ThreadsInit PROVE ThreadsInv
  OBVIOUS
<1> USE CommandQueueAssumption DEF ThreadsInit, QueueInit
<1>1. ThreadsTypeOK
  <2>1. queue \in Seq(Command)
        /\ history \in [queued : Seq(Command), ran : Seq(Command), cleared : SUBSET Command]
    OBVIOUS
  <2>2. cmdState \in [Command -> CmdState]
    BY DEF CmdState
  <2>3. calling \in [Thread -> Calls] /\ calling[Main].op # "running"
    BY DEF Calls, NoCall
  <2> QED BY <2>1, <2>2, <2>3 DEF ThreadsTypeOK
<1>2. \A t \in Thread : calling[t].op = "none"
  BY DEF NoCall
<1>3. CallsInv
  BY <1>2 DEF CallsInv, Running
<1>4. QueueInv /\ RanInv
  BY DEF QueueInv, RanInv, Once, InList
<1> QED BY <1>1, <1>3, <1>4 DEF ThreadsInv

(* A call that begins, and one that returns without having changed the queue. *)
LEMMA CallKeepsInv ==
  ASSUME ThreadsInv, Running' = Running, ThreadsTypeOK', CallsInv', UNCHANGED <<queueVars, history>>
  PROVE  ThreadsInv'
<1> USE DEF ThreadsInv, queueVars
<1>1. \A i : TakenUp(i)' <=> TakenUp(i)
  BY DEF TakenUp
<1>2. QueueInv'
  BY <1>1 DEF QueueInv, Once, Before, InList
<1>3. RanInv'
  BY <1>1 DEF RanInv, Before, InList
<1> QED BY <1>2, <1>3

LEMMA CallQueueKeepsInv ==
  ASSUME ThreadsInv, NEW t \in Thread, NEW c \in Command, CallQueue(t, c)
  PROVE  ThreadsInv'
<1> USE CommandQueueAssumption DEF ThreadsInv, CallQueue, Call, NoCall, queueVars
<1>1. ThreadsTypeOK'
  BY DEF ThreadsTypeOK, Calls
<1>2. Running' = Running
  BY DEF ThreadsTypeOK, Running
<1>3. CallsInv'
  BY <1>2 DEF ThreadsTypeOK, CallsInv
<1> QED BY <1>1, <1>2, <1>3, CallKeepsInv

LEMMA CallDequeueKeepsInv ==
  ASSUME ThreadsInv, NEW t \in Thread, NEW c \in Command, CallDequeue(t, c)
  PROVE  ThreadsInv'
<1> USE CommandQueueAssumption DEF ThreadsInv, CallDequeue, Call, NoCall, queueVars
<1>1. ThreadsTypeOK'
  BY DEF ThreadsTypeOK, Calls
<1>2. Running' = Running
  BY DEF ThreadsTypeOK, Running
<1>3. CallsInv'
  BY <1>2 DEF ThreadsTypeOK, CallsInv
<1> QED BY <1>1, <1>2, <1>3, CallKeepsInv

LEMMA CallMainKeepsInv ==
  ASSUME ThreadsInv, CallMain
  PROVE  ThreadsInv'
<1> USE CommandQueueAssumption DEF ThreadsInv, CallMain, Call, NoCall, queueVars
<1>1. ThreadsTypeOK'
  BY DEF ThreadsTypeOK, Calls
<1>2. Running' = Running
  BY DEF ThreadsTypeOK, Running
<1>3. CallsInv'
  BY <1>2 DEF ThreadsTypeOK, CallsInv
<1> QED BY <1>1, <1>2, <1>3, CallKeepsInv

(* The command goes behind all that were queued before. *)
LEMMA DoQueueKeepsInv ==
  ASSUME ThreadsInv, NEW t \in Thread, DoQueue(t)
  PROVE  ThreadsInv'
<1> DEFINE c == calling[t].command
<1> USE CommandQueueAssumption DEF ThreadsInv
<1>1. /\ c \in Command /\ cmdState[c] = "NotSubmitted" /\ calling[t].op = "queue"
      /\ ~Running /\ queueMutex = NoThread
      /\ queue' = Append(queue, c)
      /\ cmdState' = [cmdState EXCEPT ![c] = "Queued"]
      /\ calling' = [calling EXCEPT ![t] = NoCall]
      /\ UNCHANGED <<queueMutex, itr, executing>>
      /\ history'.queued = Append(history.queued, c)
      /\ history'.ran = history.ran /\ history'.cleared = history.cleared
      /\ history' \in [queued : Seq(Command), ran : Seq(Command), cleared : SUBSET Command]
  <2>1. /\ c \in Command /\ cmdState[c] = "NotSubmitted" /\ calling[t].op = "queue"
        /\ queueMutex = NoThread /\ ~Running
    BY DEF CallsInv, DoQueue, Queue
  <2>2. /\ queue' = Append(queue, c)
        /\ cmdState' = [cmdState EXCEPT ![c] = "Queued"]
        /\ calling' = [calling EXCEPT ![t] = NoCall]
        /\ UNCHANGED <<queueMutex, itr, executing>>
        /\ history' = [history EXCEPT !.queued = Append(history.queued, c)]
    BY DEF DoQueue, Queue, Return
  <2>3. history \in [queued : Seq(Command), ran : Seq(Command), cleared : SUBSET Command]
    BY DEF ThreadsTypeOK
  <2>4. Append(history.queued, c) \in Seq(Command)
    BY <2>1, <2>3
  <2> HIDE DEF c
  <2> QED BY <2>1, <2>2, <2>3, <2>4
<1>2. ~InList(queue, c) /\ ~InList(history.queued, c)
  BY <1>1 DEF QueueInv, InList, ThreadsTypeOK
<1>3. /\ queue \in Seq(Command) /\ queue' \in Seq(Command) /\ Once(queue')
      /\ \A x : InList(queue', x) <=> InList(queue, x) \/ x = c
  BY <1>1, <1>2, AppendFacts DEF ThreadsTypeOK, QueueInv
<1>4. /\ Once(history'.queued)
      /\ \A x : InList(history'.queued, x) <=> InList(history.queued, x) \/ x = c
  BY <1>1, <1>2, AppendFacts DEF ThreadsTypeOK, QueueInv
<1>5. /\ \A x, y : Before(history.queued, x, y) => Before(history'.queued, x, y)
      /\ \A x : InList(history.queued, x) => Before(history'.queued, x, c)
  BY <1>1, BeforeAppend DEF ThreadsTypeOK
<1>6. /\ Len(queue') = Len(queue) + 1 /\ queue'[Len(queue) + 1] = c
      /\ \A i \in 1 .. Len(queue) : queue'[i] = queue[i] /\ queue[i] \in Command /\ queue[i] # c
  BY <1>1, <1>2, <1>3 DEF InList
<1> HIDE DEF c
<1>7. calling'[t].op = "none" /\ ~Running' /\ \A u \in Thread : u # t => calling'[u] = calling[u]
  BY <1>1 DEF ThreadsTypeOK, Running, NoCall
<1>8. ThreadsTypeOK'
  BY <1>1, <1>3, <1>7 DEF ThreadsTypeOK, CmdState, Calls, NoCall, Running
<1>9. CallsInv'
  BY <1>1, <1>7 DEF ThreadsTypeOK, CallsInv, c
<1>10. \A i \in 1 .. Len(queue) : queue[i] \in Command /\ InList(history.queued, queue[i])
  BY <1>1, <1>6 DEF QueueInv, TakenUp
<1>11. QueueInv'
  <2>1. \A x \in Command : InList(history'.queued, x) <=> cmdState'[x] # "NotSubmitted"
    BY <1>1, <1>4 DEF QueueInv, ThreadsTypeOK
  <2>2. \A i, j \in 1 .. Len(queue') : i < j => Before(history'.queued, queue'[i], queue'[j])
    BY <1>3, <1>5, <1>6, <1>10 DEF QueueInv
  <2>3. \A i \in 1 .. Len(queue') : cmdState'[queue'[i]] = "Queued"
    BY <1>1, <1>3, <1>6 DEF QueueInv, ThreadsTypeOK, TakenUp
  <2>4. \A x \in Command : cmdState'[x] = "Queued" => x \in history'.cleared \/ InList(queue', x)
    BY <1>1, <1>3 DEF QueueInv, ThreadsTypeOK
  <2> QED BY <1>3, <1>4, <1>7, <2>1, <2>2, <2>3, <2>4 DEF QueueInv, TakenUp, InList, Before, Once
<1>12. RanInv'
  <2>1. \A i \in 1 .. Len(history.ran) : InList(history.queued, history.ran[i])
    <3> TAKE i \in 1 .. Len(history.ran)
    <3>1. history.ran[i] \in Command
      BY DEF ThreadsTypeOK
    <3>2. InList(history.ran, history.ran[i])
      BY DEF InList
    <3>3. cmdState[history.ran[i]] \in {"Running", "Finished"}
      BY <3>1, <3>2 DEF RanInv
    <3> QED BY <3>1, <3>3 DEF QueueInv
  <2>2. \A x \in Command : InList(history'.ran, x) <=> cmdState'[x] \in {"Running", "Finished"}
    BY <1>1 DEF RanInv, ThreadsTypeOK
  <2>3. \A i, j \in 1 .. Len(history'.ran) :
          i < j => Before(history'.queued, history'.ran[i], history'.ran[j])
    BY <1>1, <1>5 DEF RanInv
  <2>4. \A i \in 1 .. Len(history'.ran), j \in 1 .. Len(queue') :
          Before(history'.queued, history'.ran[i], queue'[j])
    BY <1>1, <1>3, <1>5, <1>6, <2>1 DEF RanInv, TakenUp
  <2>5. \A i \in 1 .. Len(history'.ran), j \in 1 .. Len(queue') :
          ~TakenUp(j)' => Before(history'.queued, history'.ran[i], queue'[j])
    BY <2>4
  <2>6. (\A x \in Command :
            InList(history.ran, x) <=> cmdState[x] \in {"Running", "Finished"})'
    BY <2>2 DEF InList
  <2>7. (\A i, j \in 1 .. Len(history.ran) :
            i < j => Before(history.queued, history.ran[i], history.ran[j]))'
    BY <2>3 DEF Before
  <2>8. (\A i \in 1 .. Len(history.ran), j \in 1 .. Len(queue) :
            ~TakenUp(j) => Before(history.queued, history.ran[i], queue[j]))'
    BY <2>5 DEF Before
  <2> QED BY <2>6, <2>7, <2>8 DEF RanInv
<1> QED BY <1>8, <1>9, <1>11, <1>12

(* The others stay in the queue, in their order; an exception changes no
   more than who holds the mutex. *)
LEMMA DoDequeueKeepsInv ==
  ASSUME ThreadsInv, NEW t \in Thread, DoDequeue(t)
  PROVE  ThreadsInv'
<1> DEFINE c == calling[t].command
<1> USE CommandQueueAssumption DEF ThreadsInv
<1>1. /\ c \in Command /\ cmdState[c] # "NotSubmitted" /\ calling[t].op = "dequeue"
      /\ queueMutex = NoThread /\ ~Running /\ executing = NoCommand
  BY DEF CallsInv, DoDequeue, Dequeue
<1>2. /\ calling' = [calling EXCEPT ![t] = NoCall]
      /\ UNCHANGED <<itr, executing, history>>
  BY DEF DoDequeue, Dequeue, Return
<1>3. \/ queueMutex' = t /\ UNCHANGED <<queue, cmdState>>
      \/ /\ cmdState[c] = "Queued" /\ queueMutex' = queueMutex
         /\ queue' = Without(queue, c)
         /\ cmdState' = [cmdState EXCEPT ![c] = "Canceled"]
  BY DEF DoDequeue, Dequeue, Remove
<1> HIDE DEF c
<1>4. calling'[t].op = "none" /\ ~Running' /\ \A u \in Thread : u # t => calling'[u] = calling[u]
  BY <1>1, <1>2 DEF ThreadsTypeOK, Running, NoCall
<1>5. CASE queueMutex' = t /\ UNCHANGED <<queue, cmdState>>
  <2>1. ThreadsTypeOK'
    BY <1>1, <1>2, <1>4, <1>5 DEF ThreadsTypeOK, Calls, NoCall, Running
  <2>2. CallsInv'
    BY <1>1, <1>2, <1>4, <1>5 DEF ThreadsTypeOK, CallsInv
  <2>3. \A i : ~TakenUp(i) /\ ~TakenUp(i)'
    BY <1>1, <1>4 DEF TakenUp
  <2>4. QueueInv'
    BY <1>2, <1>5, <2>3 DEF QueueInv, Once, Before, InList
  <2>5. RanInv'
    <3>1. \A x \in Command : InList(history'.ran, x) <=> cmdState'[x] \in {"Running", "Finished"}
      BY <1>2, <1>5 DEF RanInv
    <3>2. \A i, j \in 1 .. Len(history'.ran) :
            i < j => Before(history'.queued, history'.ran[i], history'.ran[j])
      BY <1>2 DEF RanInv
    <3>3. \A i \in 1 .. Len(history'.ran), j \in 1 .. Len(queue') :
            Before(history'.queued, history'.ran[i], queue'[j])
      BY <1>2, <1>5, <2>3 DEF RanInv
    <3> QED BY SMTT(20), <3>1, <3>2, <3>3 DEF RanInv, Before, InList
  <2> QED BY <2>1, <2>2, <2>4, <2>5
<1>6. CASE /\ cmdState[c] = "Queued" /\ queueMutex' = queueMutex
           /\ queue' = Without(queue, c)
           /\ cmdState' = [cmdState EXCEPT ![c] = "Canceled"]
  <2>1. /\ queue' \in Seq(Command) /\ Once(queue')
        /\ \A x : InList(queue', x) <=> InList(queue, x) /\ x # c
        /\ \A i, j \in 1 .. Len(queue') : i < j =>
             \E k, l \in 1 .. Len(queue) : k < l /\ queue[k] = queue'[i] /\ queue[l] = queue'[j]
    <3>1. queue \in Seq(Command) /\ Once(queue)
      BY DEF ThreadsTypeOK, QueueInv
    <3> DEFINE s == Without(queue, c)
    <3>2. /\ s \in Seq(Command) /\ Once(s)
          /\ \A x : InList(s, x) <=> InList(queue, x) /\ x # c
          /\ \A i, j \in 1 .. Len(s) : i < j =>
               \E k, l \in 1 .. Len(queue) : k < l /\ queue[k] = s[i] /\ queue[l] = s[j]
      BY <3>1, WithoutFacts
    <3>3. queue' = s
      BY <1>6
    <3> HIDE DEF s
    <3> QED BY <3>2, <3>3
  <2>2. \A i \in 1 .. Len(queue') :
          \E k \in 1 .. Len(queue) : queue[k] = queue'[i] /\ queue'[i] # c
    BY <2>1 DEF InList
  <2>3. ThreadsTypeOK'
    BY <1>1, <1>2, <1>4, <1>6, <2>1 DEF ThreadsTypeOK, CmdState, Calls, NoCall, Running
  <2>4. CallsInv'
    BY <1>1, <1>2, <1>4, <1>6 DEF ThreadsTypeOK, CallsInv
  <2>5. \A x \in Command : cmdState'[x] = IF x = c THEN "Canceled" ELSE cmdState[x]
    BY <1>1, <1>6 DEF ThreadsTypeOK
  <2>6. QueueInv'
    <3>1. ASSUME NEW i \in 1 .. Len(queue'), NEW j \in 1 .. Len(queue'), i < j
          PROVE  Before(history'.queued, queue'[i], queue'[j])
      <4>1. \A k, l \in 1 .. Len(queue) : k < l => Before(history.queued, queue[k], queue[l])
        BY DEF QueueInv
      <4>2. PICK k, l \in 1 .. Len(queue) : k < l /\ queue[k] = queue'[i] /\ queue[l] = queue'[j]
        BY <2>1, <3>1
      <4> QED BY <1>2, <4>1, <4>2
    <3>2. \A i \in 1 .. Len(queue') : cmdState'[queue'[i]] = "Queued"
      BY <1>1, <2>2, <2>5 DEF QueueInv, TakenUp, ThreadsTypeOK
    <3>3. \A x \in Command : cmdState'[x] = "Queued" => x \in history'.cleared \/ InList(queue', x)
      BY <1>2, <2>1, <2>5 DEF QueueInv
    <3>4. \A x \in Command : InList(history'.queued, x) <=> cmdState'[x] # "NotSubmitted"
      BY <1>1, <1>2, <2>5 DEF QueueInv
    <3>5. Once(history'.queued)
      BY <1>2 DEF QueueInv
    <3> QED BY <1>4, <2>1, <3>1, <3>2, <3>3, <3>4, <3>5 DEF QueueInv, TakenUp, Once, Before, InList
  <2>7. RanInv'
    <3>1. \A x \in Command : InList(history'.ran, x) <=> cmdState'[x] \in {"Running", "Finished"}
      BY <1>2, <1>6, <2>5 DEF RanInv
    <3>2. \A i, j \in 1 .. Len(history'.ran) :
            i < j => Before(history'.queued, history'.ran[i], history'.ran[j])
      BY <1>2 DEF RanInv
    <3>3. \A i \in 1 .. Len(history'.ran), j \in 1 .. Len(queue') :
            Before(history'.queued, history'.ran[i], queue'[j])
      BY <1>1, <1>2, <2>2 DEF RanInv, TakenUp
    <3> QED BY SMTT(20), <3>1, <3>2, <3>3 DEF RanInv, Before, InList
  <2> QED BY <2>3, <2>4, <2>6, <2>7
<1> QED BY <1>3, <1>5, <1>6

LEMMA DoResetKeepsInv ==
  ASSUME ThreadsInv, DoReset
  PROVE  ThreadsInv'
<1> USE CommandQueueAssumption DEF ThreadsInv
<1> DEFINE cleared == history.cleared \cup {c \in Command : InList(queue, c)}
<1>1. /\ calling[Main].op = "reset" /\ queue' = << >> /\ calling' = [calling EXCEPT ![Main] = NoCall]
      /\ UNCHANGED <<cmdState, queueMutex, itr, executing>>
      /\ history' = [history EXCEPT !.cleared = cleared]
  BY DEF DoReset, Clear, Return
<1>2. /\ history'.queued = history.queued /\ history'.ran = history.ran /\ history'.cleared = cleared
      /\ history' \in [queued : Seq(Command), ran : Seq(Command), cleared : SUBSET Command]
  BY <1>1 DEF ThreadsTypeOK
<1>3. /\ ~Running /\ executing = NoCommand
      /\ calling'[Main].op = "none" /\ ~Running' /\ \A u \in Thread : u # Main => calling'[u] = calling[u]
  BY <1>1 DEF ThreadsTypeOK, CallsInv, Running, NoCall
<1>4. ThreadsTypeOK'
  BY <1>1, <1>2, <1>3 DEF ThreadsTypeOK, Calls, NoCall, Running
<1>5. CallsInv'
  BY <1>1, <1>3 DEF ThreadsTypeOK, CallsInv
<1>6. QueueInv'
  <2>1. \A c \in Command : cmdState[c] = "Queued" => c \in cleared
    BY DEF QueueInv
  <2> QED BY <1>1, <1>2, <2>1 DEF QueueInv, Once, Before, InList
<1>7. RanInv'
  BY <1>1, <1>2 DEF RanInv, Before, InList
<1> QED BY <1>4, <1>5, <1>6, <1>7

LEMMA BeginRunKeepsInv ==
  ASSUME ThreadsInv, BeginRun
  PROVE  ThreadsInv'
<1> USE CommandQueueAssumption DEF ThreadsInv, BeginRun, RunLock
<1>1. ~Running /\ Running' /\ executing = NoCommand
      /\ \A u \in Thread : u # Main => calling'[u] = calling[u]
  BY DEF ThreadsTypeOK, CallsInv, Running
<1>2. ThreadsTypeOK'
  <2>1. calling' \in [Thread -> Calls]
    BY DEF ThreadsTypeOK, Calls
  <2>2. Len(queue) \in Nat
    BY DEF ThreadsTypeOK
  <2> QED BY <2>1, <2>2 DEF ThreadsTypeOK
<1>3. CallsInv'
  BY <1>1 DEF CallsInv, Running
<1>4. \A i \in 1 .. Len(queue) : ~TakenUp(i) /\ ~TakenUp(i)'
  BY <1>1 DEF TakenUp
<1>5. QueueInv'
  BY <1>4 DEF QueueInv, Once, Before, InList
<1>6. RanInv'
  BY <1>4 DEF RanInv, Before, InList
<1> QED BY <1>2, <1>3, <1>5, <1>6

(* The command that is taken up stood behind those that ran and before those
   that wait. *)
LEMMA RunNextKeepsInv ==
  ASSUME ThreadsInv, Running, RunNext, UNCHANGED calling,
         history' = [history EXCEPT !.ran = Append(@, executing')]
  PROVE  ThreadsInv'
<1> DEFINE c == queue[itr + 1]
<1> USE CommandQueueAssumption DEF ThreadsInv
<1>1. /\ itr + 1 \in 1 .. Len(queue) /\ c \in Command /\ executing = NoCommand /\ executing' = c
      /\ cmdState' = [cmdState EXCEPT ![c] = "Running"]
      /\ UNCHANGED <<queue, queueMutex, itr>> /\ Running'
  BY DEF ThreadsTypeOK, RunNext, Running
<1> HIDE DEF c
<1>2. c # NoCommand /\ c = queue[itr + 1]
  BY <1>1 DEF c
<1>3. /\ history'.queued = history.queued /\ history'.cleared = history.cleared
      /\ history'.ran = Append(history.ran, c)
      /\ history' \in [queued : Seq(Command), ran : Seq(Command), cleared : SUBSET Command]
  <2>1. history \in [queued : Seq(Command), ran : Seq(Command), cleared : SUBSET Command]
    BY DEF ThreadsTypeOK
  <2>2. history' = [history EXCEPT !.ran = Append(history.ran, c)]
    BY <1>1
  <2>3. Append(history.ran, c) \in Seq(Command)
    BY <1>1, <2>1
  <2> QED BY <2>1, <2>2, <2>3
<1>4. cmdState[c] = "Queued"
  BY <1>1, <1>2 DEF QueueInv, TakenUp, ThreadsTypeOK
<1>5. \A i \in 1 .. Len(queue) : TakenUp(i)' <=> TakenUp(i) \/ i = itr + 1
  BY <1>1, <1>2 DEF TakenUp, ThreadsTypeOK
<1>6. \A i \in 1 .. Len(queue) : queue[i] \in Command /\ (queue[i] = c => i = itr + 1)
  BY <1>1, <1>2 DEF QueueInv, Once, ThreadsTypeOK
<1>7. \A x \in Command : cmdState'[x] = IF x = c THEN "Running" ELSE cmdState[x]
  BY <1>1 DEF ThreadsTypeOK
<1>8. ThreadsTypeOK'
  BY <1>1, <1>3 DEF ThreadsTypeOK, CmdState, Running
<1>9. CallsInv'
  BY <1>1, <1>2, <1>4, <1>7 DEF ThreadsTypeOK, CallsInv
<1>10. QueueInv'
  <2>1. \A i \in 1 .. Len(queue) :
          IF TakenUp(i)' THEN cmdState'[queue[i]] \in {"Running", "Finished"}
                         ELSE cmdState'[queue[i]] = "Queued"
    BY <1>2, <1>5, <1>6, <1>7 DEF QueueInv
  <2>2. \A x \in Command : /\ cmdState'[x] = "Queued" => cmdState[x] = "Queued"
                           /\ cmdState'[x] # "NotSubmitted" <=> cmdState[x] # "NotSubmitted"
    BY <1>4, <1>7
  <2> QED BY <1>1, <1>3, <2>1, <2>2 DEF QueueInv, Once, Before, InList
<1>11. RanInv'
  <2> DEFINE ran == history.ran
             ranNow == history'.ran
  <2>1. /\ \A x : InList(ranNow, x) <=> InList(ran, x) \/ x = c
        /\ Len(ran) \in Nat /\ Len(ranNow) = Len(ran) + 1 /\ ranNow[Len(ran) + 1] = c
        /\ \A i \in 1 .. Len(ran) : ranNow[i] = ran[i]
    <3>1. ran \in Seq(Command) /\ ranNow = Append(ran, c)
      BY <1>3 DEF ThreadsTypeOK
    <3> HIDE DEF ran, ranNow
    <3>2. /\ Len(ran) \in Nat /\ Len(ranNow) = Len(ran) + 1 /\ ranNow[Len(ran) + 1] = c
          /\ \A i \in 1 .. Len(ran) : ranNow[i] = ran[i]
      BY <1>1, <3>1
    <3>3. \A x : InList(ranNow, x) <=> InList(ran, x) \/ x = c
      BY <3>2 DEF InList
    <3> QED BY <3>2, <3>3
  <2>2. \A x \in Command : InList(history'.ran, x) <=> cmdState'[x] \in {"Running", "Finished"}
    BY <1>7, <2>1 DEF RanInv
  <2>3. \A i \in 1 .. Len(history.ran) : Before(history.queued, history.ran[i], c)
    BY SMTT(20), <1>1, <1>2 DEF RanInv, TakenUp, ThreadsTypeOK
  <2>4. \A i, j \in 1 .. Len(history'.ran) :
          i < j => Before(history'.queued, history'.ran[i], history'.ran[j])
    BY <1>3, <2>1, <2>3 DEF RanInv
  <2>5. ASSUME NEW j \in 1 .. Len(queue), ~TakenUp(j)'
        PROVE  ~TakenUp(j) /\ Before(history.queued, c, queue[j])
    <3>1. ~TakenUp(j) /\ j # itr + 1
      BY <1>5, <2>5
    <3>2. itr + 1 < j
      BY <1>1, <3>1 DEF TakenUp, ThreadsTypeOK
    <3> QED BY <1>1, <1>2, <3>1, <3>2 DEF QueueInv
  <2>6. \A i \in 1 .. Len(history'.ran), j \in 1 .. Len(queue') :
          ~TakenUp(j)' => Before(history'.queued, history'.ran[i], queue'[j])
    BY <1>1, <1>3, <2>1, <2>5 DEF RanInv
  <2> QED BY <2>2, <2>4, <2>6 DEF RanInv, Before, InList
<1> QED BY <1>8, <1>9, <1>10, <1>11

LEMMA RunReturnsKeepsInv ==
  ASSUME ThreadsInv, Running, RunReturns, UNCHANGED <<calling, history>>
  PROVE  ThreadsInv'
<1> USE CommandQueueAssumption DEF ThreadsInv, RunReturns
<1>1. /\ itr + 1 \in 1 .. Len(queue) /\ executing = queue[itr + 1] /\ executing \in Command
      /\ Running'
  BY DEF ThreadsTypeOK, CallsInv, Running
<1>2. \A i \in 1 .. Len(queue) : TakenUp(i)' <=> TakenUp(i)
  BY <1>1 DEF TakenUp, ThreadsTypeOK
<1>3. cmdState[executing] \in {"Running", "Finished"}
  BY <1>1 DEF QueueInv, TakenUp
<1>4. \A x \in Command : cmdState'[x] = IF x = executing THEN "Finished" ELSE cmdState[x]
  BY <1>1 DEF ThreadsTypeOK
<1>5. ThreadsTypeOK'
  BY <1>1 DEF ThreadsTypeOK, CmdState, Running
<1>6. CallsInv'
  BY <1>1, <1>3, <1>4 DEF ThreadsTypeOK, CallsInv
<1>7. \A x \in Command :
        /\ cmdState'[x] = "Queued" <=> cmdState[x] = "Queued"
        /\ cmdState'[x] = "NotSubmitted" <=> cmdState[x] = "NotSubmitted"
        /\ cmdState'[x] \in {"Running", "Finished"} <=> cmdState[x] \in {"Running", "Finished"}
  BY <1>3, <1>4
<1>8. QueueInv'
  BY <1>2, <1>7 DEF ThreadsTypeOK, QueueInv, Once, Before, InList
<1>9. RanInv'
  <2>1. \A x \in Command : InList(history'.ran, x) <=> cmdState'[x] \in {"Running", "Finished"}
    BY <1>7 DEF RanInv
  <2>2. \A i \in 1 .. Len(history'.ran), j \in 1 .. Len(queue) :
          ~TakenUp(j)' => Before(history'.queued, history'.ran[i], queue[j])
    BY <1>2 DEF RanInv
  <2> QED BY <2>1, <2>2 DEF RanInv, Before, InList
<1> QED BY <1>5, <1>6, <1>8, <1>9

LEMMA RunUnlockKeepsInv ==
  ASSUME ThreadsInv, Running, RunUnlock, Return(Main), UNCHANGED history
  PROVE  ThreadsInv'
<1> USE CommandQueueAssumption DEF ThreadsInv, RunUnlock, Return
<1>1. /\ calling'[Main].op = "none" /\ ~Running'
      /\ \A u \in Thread : u # Main => calling'[u] = calling[u]
  BY DEF ThreadsTypeOK, Running, NoCall
<1>2. ThreadsTypeOK'
  BY <1>1 DEF ThreadsTypeOK, Calls, NoCall, Running
<1>3. CallsInv'
  BY <1>1 DEF ThreadsTypeOK, CallsInv
<1>4. QueueInv'
  <2>1. \A i \in 1 .. Len(queue) : cmdState[queue[i]] # "Queued"
    BY DEF QueueInv, TakenUp, ThreadsTypeOK
  <2>2. \A c \in Command : cmdState[c] = "Queued" => c \in history.cleared
    BY <2>1 DEF QueueInv, InList
  <2> QED BY <2>2 DEF QueueInv, Once, Before, InList
<1>5. RanInv'
  BY DEF RanInv, Before, InList
<1> QED BY <1>2, <1>3, <1>4, <1>5

(* Every step keeps the invariant. *)
LEMMA ThreadsStepKeepsInv ==
  ASSUME ThreadsInv, [ThreadsNext]_threadsVars
  PROVE  ThreadsInv'
<1>1. CASE DoRun
  BY <1>1, RunNextKeepsInv, RunReturnsKeepsInv, RunUnlockKeepsInv DEF DoRun, Running
<1>2. CASE UNCHANGED threadsVars
  <2>1. Running' = Running /\ ThreadsTypeOK' /\ CallsInv' /\ UNCHANGED <<queueVars, history>>
    BY <1>2 DEF threadsVars, queueVars, ThreadsInv, ThreadsTypeOK, CallsInv, Running
  <2> QED BY <2>1, CallKeepsInv
<1> QED BY <1>1, <1>2, CallQueueKeepsInv, CallDequeueKeepsInv, CallMainKeepsInv, DoQueueKeepsInv,
           DoDequeueKeepsInv, DoResetKeepsInv, BeginRunKeepsInv DEF ThreadsNext

-----------------------------------------------------------------------------
(* The invariant holds in every behaviour. *)
THEOREM ThreadsInvariant == ThreadsSpec => []ThreadsInv
<1>1. ThreadsInit => ThreadsInv
  BY InitThreadsInv
<1>2. ThreadsInv /\ [ThreadsNext]_threadsVars => ThreadsInv'
  BY ThreadsStepKeepsInv
<1> QED BY <1>1, <1>2, PTL DEF ThreadsSpec

(* The queue, the states of the commands and the calls have their types. *)
THEOREM ThreadsTypeCorrect == ThreadsSpec => []ThreadsTypeOK
<1>1. ThreadsInv => ThreadsTypeOK
  BY DEF ThreadsInv
<1> QED BY <1>1, ThreadsInvariant, PTL

(* What runs is what was queued, in that order and once, whatever the
   threads queue and take back at the same time. *)
THEOREM WhatIsQueuedRuns == ThreadsSpec => []RunsWhatIsQueued
<1>1. ThreadsInv => RunsWhatIsQueued
  <2> SUFFICES ASSUME ThreadsInv PROVE RunsWhatIsQueued
    OBVIOUS
  <2>1. RunsInOrder
    BY DEF ThreadsInv, QueueInv, RanInv, RunsInOrder, Once
  <2>2. QueueMatchesStates
    BY DEF ThreadsInv, QueueInv, QueueMatchesStates, TakenUp, Running
  <2> QED BY <2>1, <2>2 DEF RunsWhatIsQueued
<1> QED BY <1>1, ThreadsInvariant, PTL

-------------------------------------------------------------------------------
(* The timer of the real time.                                             *)

Working == {"sleep", "lockTimer", "lockQueue"}

(* The worker created last is the only one, and the main thread knows how  *)
(* far it is: in its loop whenever the timer is set, gone when it is not.  *)
WorkerInv ==
    /\ \A w \in Worker : Live(w) => w = thread
    /\ ~running /\ main # "wait" => \A w \in Worker : ~Live(w)
    /\ main = "start" => ~running /\ ~wanted
    /\ main = "wait" =>
          /\ wanted /\ thread \in Worker /\ ~cancelRequested[thread]
          /\ worker[thread] \in {"started", "signal"} \cup Working
          /\ running <=> worker[thread] # "started"
          /\ signalled => worker[thread] \in Working
    /\ main \notin {"start", "wait"} => (running <=> wanted)
    /\ running /\ main \notin {"start", "wait", "join"} =>
          thread \in Worker /\ ~cancelRequested[thread] /\ worker[thread] \in Working
    /\ main \in {"dequeue", "join"} => running
    /\ main = "join" =>
          thread \in Worker /\ cancelRequested[thread] /\ worker[thread] \in {"none", "sleep", "lockTimer"}

(* Who holds which mutex. *)
MutexInv ==
    /\ \A w \in Worker : timerMutex = w <=> worker[w] = "lockQueue"
    /\ timerMutex = Main <=> main \in {"dequeue", "join"}
    /\ queueMutex \in {NoThread, Main}
    /\ main = "commands" => queueMutex = Main /\ executing = NoCommand
    /\ executing # NoCommand =>
          main # "commands" /\ queueMutex = Main /\ itr < Len(queue) /\ executing = queue[itr + 1]

(* runCommands has taken up the command at i. *)
TakenByMain(i) == queueMutex = Main /\ (i <= itr \/ (i = itr + 1 /\ executing # NoCommand))

(* What waits in the queue is the current command, and only that. *)
WaitingInv ==
    /\ Once(queue)
    /\ \A i \in 1 .. Len(queue) : cmdState[queue[i]] = "Queued" => queue[i] = currentCommand
    /\ \A i \in 1 .. Len(queue) : TakenByMain(i) \/ cmdState[queue[i]] = "Queued"
    /\ ~running => currentCommand = NoCommand
    /\ main = "dequeue" => MustDequeue(currentCommand)
    /\ main = "join" => \A i \in 1 .. Len(queue) : cmdState[queue[i]] # "Queued"
    /\ \A w \in Worker : worker[w] = "lockQueue" => MayQueue(currentCommand)

TimerInv == TypeOK /\ WorkerInv /\ MutexInv /\ WaitingInv

LEMMA InitTimerInv == Init => TimerInv
<1> SUFFICES ASSUME Init PROVE TimerInv
  OBVIOUS
<1> USE PeriodicRealTimeoutAssumption, CommandQueueAssumption DEF Init, QueueInit
<1>1. TypeOK
  <2>1. queue \in Seq(Command)
    OBVIOUS
  <2>2. cmdState \in [Command -> CmdState]
    BY DEF CmdState
  <2>3. worker \in [Worker -> WorkerAt] /\ cancelRequested \in [Worker -> BOOLEAN]
    BY DEF WorkerAt
  <2>4. itr \in Nat /\ main \in MainAt /\ main # "commands"
    BY DEF MainAt
  <2> QED BY <2>1, <2>2, <2>3, <2>4 DEF TypeOK
<1>2. WorkerInv
  BY DEF WorkerInv, Live
<1>3. MutexInv
  BY DEF MutexInv
<1>4. WaitingInv
  BY DEF WaitingInv, Once
<1> QED BY <1>1, <1>2, <1>3, <1>4 DEF TimerInv

(* The main loop locks the queue. *)
LEMMA RunCommandsKeepsInv ==
  ASSUME TimerInv, RunCommands
  PROVE  TimerInv'
<1> USE PeriodicRealTimeoutAssumption, CommandQueueAssumption
    DEF TimerInv, RunCommands, RunLock, queueVars, timerVars
<1>1. TypeOK'
  BY DEF TypeOK, MainAt
<1>2. WorkerInv'
  BY DEF WorkerInv, Live
<1>3. MutexInv'
  BY DEF MutexInv
<1>4. WaitingInv'
  BY DEF WaitingInv, TakenByMain, MayQueue
<1> QED BY <1>1, <1>2, <1>3, <1>4

(* A command is taken up: it no longer waits. *)
LEMMA RunCommandKeepsInv ==
  ASSUME TimerInv, RunCommand
  PROVE  TimerInv'
<1> USE PeriodicRealTimeoutAssumption, CommandQueueAssumption
    DEF TimerInv, RunCommand, RunNext, queueVars, timerVars
<1>1. TypeOK'
  BY DEF TypeOK, CmdState, MainAt
<1>2. WorkerInv'
  BY DEF WorkerInv, Live
<1>3. MutexInv'
  BY DEF MutexInv
<1>4. WaitingInv'
  BY DEF TypeOK, MutexInv, WaitingInv, TakenByMain, MayQueue, Once
<1> QED BY <1>1, <1>2, <1>3, <1>4

(* The command that has run is behind the iterator. *)
LEMMA PeriodicallyReturnsKeepsInv ==
  ASSUME TimerInv, PeriodicallyReturns
  PROVE  TimerInv'
<1> USE PeriodicRealTimeoutAssumption, CommandQueueAssumption
    DEF TimerInv, PeriodicallyReturns, RunReturns, queueVars, timerVars
<1>1. TypeOK'
  BY DEF TypeOK, MutexInv, CmdState, MainAt
<1>2. WorkerInv'
  BY DEF WorkerInv, Live
<1>3. MutexInv'
  BY DEF MutexInv
<1>4. WaitingInv'
  BY DEF TypeOK, MutexInv, WaitingInv, TakenByMain, MayQueue, Once
<1> QED BY <1>1, <1>2, <1>3, <1>4

(* The queue is empty and its mutex free again. *)
LEMMA CommandsDoneKeepsInv ==
  ASSUME TimerInv, CommandsDone
  PROVE  TimerInv'
<1> USE PeriodicRealTimeoutAssumption, CommandQueueAssumption
    DEF TimerInv, CommandsDone, RunUnlock, queueVars, timerVars
<1>1. TypeOK'
  BY DEF TypeOK, MainAt
<1>2. WorkerInv'
  BY DEF WorkerInv, Live
<1>3. MutexInv'
  BY DEF MutexInv
<1>4. WaitingInv'
  BY DEF WaitingInv, MayQueue, Once
<1> QED BY <1>1, <1>2, <1>3, <1>4

(* periodically() or an event asks for a cancel. *)
LEMMA CallCancelKeepsInv ==
  ASSUME TimerInv, CallCancel
  PROVE  TimerInv'
<1> USE PeriodicRealTimeoutAssumption, CommandQueueAssumption
    DEF TimerInv, CallCancel, MayCall, queueVars, timerVars
<1>1. TypeOK'
  BY DEF TypeOK, MainAt
<1>2. WorkerInv'
  BY DEF WorkerInv, Live
<1>3. MutexInv'
  BY DEF MutexInv
<1>4. WaitingInv'
  BY DEF WaitingInv, TakenByMain, MayQueue
<1> QED BY <1>1, <1>2, <1>3, <1>4

(* A start cancels a timer that is set. *)
LEMMA CallStartKeepsInv ==
  ASSUME TimerInv, CallStart
  PROVE  TimerInv'
<1> USE PeriodicRealTimeoutAssumption, CommandQueueAssumption
    DEF TimerInv, CallStart, MayCall, queueVars, timerVars
<1>1. TypeOK'
  BY DEF TypeOK, MainAt
<1>2. WorkerInv'
  BY DEF WorkerInv, Live
<1>3. MutexInv'
  BY DEF MutexInv
<1>4. WaitingInv'
  BY DEF WaitingInv, TakenByMain, MayQueue
<1> QED BY <1>1, <1>2, <1>3, <1>4

(* A timer that is set is cancelled with its worker alive, one that is not is done. *)
LEMMA CancelLockedKeepsInv ==
  ASSUME TimerInv, CancelLocked
  PROVE  TimerInv'
<1> USE PeriodicRealTimeoutAssumption, CommandQueueAssumption
    DEF TimerInv, CancelLocked, Cancelled, RequestCancel, MustDequeue, queueVars, timerVars
<1>1. TypeOK'
  BY DEF TypeOK, MainAt
<1>2. WorkerInv'
  BY DEF TypeOK, WorkerInv, MutexInv, Live, Working
<1>3. MutexInv'
  BY DEF MutexInv
<1>4. WaitingInv'
  BY DEF TypeOK, WaitingInv, TakenByMain, MayQueue
<1> QED BY <1>1, <1>2, <1>3, <1>4

(* The command that is taken out was the only one that waited. *)
LEMMA DequeueLockedKeepsInv ==
  ASSUME TimerInv, DequeueLocked
  PROVE  TimerInv'
<1> USE PeriodicRealTimeoutAssumption, CommandQueueAssumption
    DEF TimerInv, DequeueLocked, RequestCancel, timerVars
<1>1. /\ currentCommand \in Command /\ cmdState[currentCommand] = "Queued"
      /\ queueMutex = NoThread /\ UNCHANGED <<queueMutex, itr, executing>>
      /\ queue' = Without(queue, currentCommand)
      /\ cmdState' = [cmdState EXCEPT ![currentCommand] = "Canceled"]
  BY DEF TypeOK, WaitingInv, MustDequeue, Dequeue, Remove
<1>2. queue' = << >>
  <2>1. queue \in Seq(Command) /\ Once(queue)
    BY DEF TypeOK, WaitingInv
  <2>2. \A i \in 1 .. Len(queue) : queue[i] = currentCommand
    BY <1>1 DEF WaitingInv, TakenByMain
  <2>3. Len(queue) = 0 \/ Len(queue) = 1
    <3>1. Len(queue) \in Nat
      BY <2>1
    <3>2. ASSUME 2 <= Len(queue) PROVE FALSE
      <4>1. 1 \in 1 .. Len(queue) /\ 2 \in 1 .. Len(queue)
        BY <3>1, <3>2
      <4>2. queue[1] = queue[2]
        BY <2>2, <4>1
      <4>3. 1 = 2
        BY <2>1, <4>1, <4>2 DEF Once
      <4> QED BY <4>3
    <3>3. \A n \in Nat : n = 0 \/ n = 1 \/ 2 <= n
      OBVIOUS
    <3> QED BY <3>1, <3>2, <3>3
  <2>4. CASE Len(queue) = 0
    BY <1>1, <2>1, <2>4 DEF Without, InList
  <2>5. CASE Len(queue) = 1
    <3>1. InList(queue, currentCommand)
      BY <2>2, <2>5 DEF InList
    <3> QED BY <1>1, <2>5, <3>1 DEF Without
  <2> QED BY <2>3, <2>4, <2>5
<1>3. TypeOK'
  <2>1. queue' \in Seq(Command) /\ cmdState' \in [Command -> CmdState]
    BY <1>1, <1>2 DEF TypeOK, CmdState
  <2> QED BY <1>1, <2>1 DEF TypeOK, MainAt
<1>4. WorkerInv'
  BY DEF TypeOK, WorkerInv, MutexInv, Live, Working
<1>5. MutexInv'
  BY <1>1 DEF MutexInv
<1>6. WaitingInv'
  BY <1>1, <1>2 DEF WaitingInv, MutexInv, Once
<1> QED BY <1>3, <1>4, <1>5, <1>6

(* The worker has ended: none is left. *)
LEMMA JoinKeepsInv ==
  ASSUME TimerInv, Join
  PROVE  TimerInv'
<1> USE PeriodicRealTimeoutAssumption, CommandQueueAssumption
    DEF TimerInv, Join, Cancelled, queueVars, timerVars
<1>1. TypeOK'
  BY DEF TypeOK, MainAt
<1>2. WorkerInv'
  BY DEF WorkerInv, Live
<1>3. MutexInv'
  BY DEF MutexInv
<1>4. WaitingInv'
  BY DEF WaitingInv, TakenByMain, MayQueue
<1> QED BY <1>1, <1>2, <1>3, <1>4

(* A worker is created when none is alive. *)
LEMMA StartLockedKeepsInv ==
  ASSUME TimerInv, StartLocked
  PROVE  TimerInv'
<1> USE PeriodicRealTimeoutAssumption, CommandQueueAssumption
    DEF TimerInv, StartLocked, queueVars, timerVars
<1>1. TypeOK'
  <2>1. worker' \in [Worker -> WorkerAt] /\ cancelRequested' \in [Worker -> BOOLEAN]
    BY DEF TypeOK, WorkerAt
  <2>2. main' = "wait" /\ thread' \in Worker /\ signalled' \in BOOLEAN /\ wanted' \in BOOLEAN
    OBVIOUS
  <2> QED BY <2>1, <2>2 DEF TypeOK, MainAt
<1>2. WorkerInv'
  BY DEF TypeOK, WorkerInv, Live
<1>3. MutexInv'
  BY DEF MutexInv
<1>4. WaitingInv'
  BY DEF WaitingInv, TakenByMain, MayQueue
<1> QED BY <1>1, <1>2, <1>3, <1>4

(* The main thread has got the signal. *)
LEMMA StartedKeepsInv ==
  ASSUME TimerInv, Started
  PROVE  TimerInv'
<1> USE PeriodicRealTimeoutAssumption, CommandQueueAssumption
    DEF TimerInv, Started, queueVars, timerVars
<1>1. TypeOK'
  BY DEF TypeOK, MainAt
<1>2. WorkerInv'
  BY DEF WorkerInv, Live, Working
<1>3. MutexInv'
  BY DEF MutexInv
<1>4. WaitingInv'
  BY DEF WaitingInv, TakenByMain, MayQueue
<1> QED BY <1>1, <1>2, <1>3, <1>4

(* The new worker sets running while the main thread waits. *)
LEMMA AnnounceKeepsInv ==
  ASSUME TimerInv, NEW w \in Worker, Announce(w)
  PROVE  TimerInv'
<1> USE PeriodicRealTimeoutAssumption, CommandQueueAssumption
    DEF TimerInv, Announce, queueVars, timerVars
<1>1. TypeOK'
  BY DEF TypeOK, WorkerAt
<1>2. WorkerInv'
  BY DEF TypeOK, WorkerInv, Live, Working
<1>3. MutexInv'
  BY DEF MutexInv
<1>4. WaitingInv'
  BY DEF WaitingInv, TakenByMain, MustDequeue, MayQueue
<1> QED BY <1>1, <1>2, <1>3, <1>4

(* The worker signals, and begins to sleep. *)
LEMMA SignalKeepsInv ==
  ASSUME TimerInv, NEW w \in Worker, Signal(w)
  PROVE  TimerInv'
<1> USE PeriodicRealTimeoutAssumption, CommandQueueAssumption
    DEF TimerInv, Signal, queueVars, timerVars
<1>1. TypeOK'
  BY DEF TypeOK, WorkerAt
<1>2. WorkerInv'
  BY DEF TypeOK, WorkerInv, Live, Working
<1>3. MutexInv'
  BY DEF MutexInv
<1>4. WaitingInv'
  BY DEF WaitingInv, TakenByMain, MustDequeue, MayQueue
<1> QED BY <1>1, <1>2, <1>3, <1>4

(* A worker that is asleep ends by the request of a cancel. *)
LEMMA CancelledAsleepKeepsInv ==
  ASSUME TimerInv, NEW w \in Worker, CancelledAsleep(w)
  PROVE  TimerInv'
<1> USE PeriodicRealTimeoutAssumption, CommandQueueAssumption
    DEF TimerInv, CancelledAsleep, queueVars, timerVars
<1>1. TypeOK'
  BY DEF TypeOK, WorkerAt
<1>2. WorkerInv'
  BY DEF WorkerInv, Live
<1>3. MutexInv'
  BY DEF MutexInv
<1>4. WaitingInv'
  BY DEF WaitingInv, TakenByMain, MustDequeue, MayQueue
<1> QED BY <1>1, <1>2, <1>3, <1>4

(* The sleep ends without a request to cancel. *)
LEMMA ElapseKeepsInv ==
  ASSUME TimerInv, NEW w \in Worker, Elapse(w)
  PROVE  TimerInv'
<1> USE PeriodicRealTimeoutAssumption, CommandQueueAssumption
    DEF TimerInv, Elapse, queueVars, timerVars
<1>1. TypeOK'
  BY DEF TypeOK, WorkerAt
<1>2. WorkerInv'
  BY DEF WorkerInv, Live, Working
<1>3. MutexInv'
  BY DEF MutexInv
<1>4. WaitingInv'
  BY DEF WaitingInv, TakenByMain, MustDequeue, MayQueue
<1> QED BY <1>1, <1>2, <1>3, <1>4

(* The worker gets the mutex only when no cancel holds it. *)
LEMMA TimerLockedKeepsInv ==
  ASSUME TimerInv, NEW w \in Worker, TimerLocked(w)
  PROVE  TimerInv'
<1> USE PeriodicRealTimeoutAssumption, CommandQueueAssumption
    DEF TimerInv, TimerLocked, queueVars, timerVars
<1>1. TypeOK'
  BY DEF TypeOK, WorkerAt
<1>2. WorkerInv'
  BY DEF TypeOK, WorkerInv, MutexInv, Live, Working
<1>3. MutexInv'
  BY DEF TypeOK, MutexInv
<1>4. WaitingInv'
  BY DEF TypeOK, WaitingInv, TakenByMain, MustDequeue, MayQueue
<1> QED BY <1>1, <1>2, <1>3, <1>4

(* No command waits when the worker queues its next one. *)
LEMMA QueueLockedKeepsInv ==
  ASSUME TimerInv, NEW w \in Worker, QueueLocked(w)
  PROVE  TimerInv'
<1> USE PeriodicRealTimeoutAssumption, CommandQueueAssumption
    DEF TimerInv, QueueLocked
<1>1. PICK c \in Command : Unused(c) /\ Queue(c) /\ currentCommand' = c
  OBVIOUS
<1>2. TypeOK'
  BY <1>1 DEF TypeOK, Queue, CmdState, WorkerAt
<1>3. WorkerInv'
  BY DEF WorkerInv, Live, Working
<1>4. MutexInv'
  BY <1>1 DEF TypeOK, MutexInv, Queue
<1>5. WaitingInv'
  <2>1. \A i \in 1 .. Len(queue) : FALSE
    BY <1>1 DEF TypeOK, WaitingInv, TakenByMain, Queue, MayQueue
  <2>2. /\ Len(queue') = 1 /\ queue'[1] = c
        /\ cmdState'[c] = "Queued" /\ executing' = NoCommand
    <3>1. queue \in Seq(Command) /\ Len(queue) = 0
      BY <2>1 DEF TypeOK
    <3>2. queue' = Append(queue, c) /\ cmdState'[c] = "Queued" /\ executing' = NoCommand
      BY <1>1 DEF TypeOK, Queue, MutexInv
    <3>3. Len(queue') = 1 /\ queue'[1] = c
      BY <3>1, <3>2
    <3> QED BY <3>2, <3>3
  <2>3. running' /\ main' \notin {"dequeue", "join"} /\ \A v \in Worker : worker'[v] # "lockQueue"
    BY DEF TypeOK, WorkerInv, MutexInv, Live
  <2> QED BY <1>1, <2>2, <2>3 DEF WaitingInv, Once
<1> QED BY <1>2, <1>3, <1>4, <1>5

(* Every step keeps the invariant. *)
LEMMA TimerStepKeepsInv ==
  ASSUME TimerInv, [Next]_vars
  PROVE  TimerInv'
<1>1. CASE MainStep
  BY <1>1, RunCommandsKeepsInv, RunCommandKeepsInv, PeriodicallyReturnsKeepsInv,
     CommandsDoneKeepsInv, CancelLockedKeepsInv, DequeueLockedKeepsInv, JoinKeepsInv,
     StartLockedKeepsInv, StartedKeepsInv DEF MainStep
<1>2. ASSUME NEW w \in Worker, WorkerStep(w) PROVE TimerInv'
  BY <1>2, AnnounceKeepsInv, SignalKeepsInv, CancelledAsleepKeepsInv, ElapseKeepsInv,
     TimerLockedKeepsInv, QueueLockedKeepsInv DEF WorkerStep
<1>3. CASE UNCHANGED vars
  BY <1>3 DEF vars, queueVars, timerVars, TimerInv, TypeOK, WorkerInv, MutexInv, WaitingInv,
              Live, TakenByMain, MustDequeue, MayQueue, Once
<1> QED BY <1>1, <1>2, <1>3, CallCancelKeepsInv, CallStartKeepsInv DEF Next

-----------------------------------------------------------------------------
(* The invariant holds in every behaviour. *)
THEOREM TimerInvariant == Spec => []TimerInv
<1>1. Init => TimerInv
  BY InitTimerInv
<1>2. TimerInv /\ [Next]_vars => TimerInv'
  BY TimerStepKeepsInv
<1> QED BY <1>1, <1>2, PTL DEF Spec

(* The variables of the two threads have their types. *)
THEOREM TimerTypeCorrect == Spec => []TypeOK
<1>1. TimerInv => TypeOK
  BY DEF TimerInv
<1> QED BY <1>1, TimerInvariant, PTL

(* A set whose elements are all the same has one element at most. *)
LEMMA AtMostOne ==
  ASSUME NEW S, \A x, y \in S : x = y
  PROVE  Cardinality(S) <= 1
<1>1. CASE S = {}
  BY <1>1, FS_EmptySet
<1>2. CASE \E x \in S : S = {x}
  BY <1>2, FS_Singleton
<1> QED BY <1>1, <1>2

(* "At any time there is only one valid timer": one worker, set exactly if
   the user wants it, with at most one command waiting for the main thread,
   whatever the two threads do at the same time. *)
THEOREM OneTimerAtATime == Spec => []OneTimer
<1>1. TimerInv => OneTimer
  <2> SUFFICES ASSUME TimerInv PROVE OneTimer
    OBVIOUS
  <2>1. OneWorker
    <3>1. \A v, w \in {u \in Worker : Live(u)} : v = w
      BY DEF TimerInv, WorkerInv
    <3> QED BY <3>1, AtMostOne DEF OneWorker
  <2>2. SetIffWanted
    BY DEF TimerInv, WorkerInv, SetIffWanted
  <2>3. OneCommandWaits
    <3>1. \A i, j \in {k \in 1 .. Len(queue) : cmdState[queue[k]] = "Queued"} : i = j
      BY DEF TimerInv, WaitingInv, Once
    <3> QED BY <3>1, AtMostOne DEF OneCommandWaits
  <2> QED BY <2>1, <2>2, <2>3 DEF OneTimer
<1> QED BY <1>1, TimerInvariant, PTL

(* Once the timer was cancelled no worker and no waiting command is left
   that would call periodically(). *)
THEOREM SilentOnceCancelled == Spec => []CancelledIsSilent
<1>1. TimerInv => CancelledIsSilent
  BY CommandQueueAssumption DEF TimerInv, TypeOK, WorkerInv, WaitingInv, CancelledIsSilent
<1> QED BY <1>1, TimerInvariant, PTL
===============================================================================
