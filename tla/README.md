# Formal models of the openWNS library

The openWNS library is the core of a simulator for wireless networks: an event
scheduler, a kit of functional units (FUs) from which protocol layers are put together,
and what a simulation needs around them (distributions, probes, configuration). This
directory holds TLA+ models of the parts whose behaviour depends on the order of things,
with the runs of the TLC model checker and the proofs of the TLAPS proof system. Paths
below are those of the repository, without the leading `src/src/`.

## 1. The system

### Components, their state and what makes them correct

| Component | State | Operations | What is hard | Correct when |
|---|---|---|---|---|
| ARQ units (`ldk/arq`) | numbers, frames not acknowledged, a waiting ACK, a resend timeout | `processOutgoing`, `processIncoming`, `onTimeout`, wakeup, suspend, delayed delivery | lost frames, timeouts at the wrong moment, a lower layer that refuses | what was accepted comes out above the partner in order, once, and in the end all of it; no `assure()` |
| `Delayed`, `SuspendSupport`, link handlers (`ldk`) | `inWakeup`, `suspending`, queues of calls | `tryToSend`, `doSuspend`, forwarded calls | nested calls between units | nothing sent that was not asked for, a suspend is answered once and is true |
| Event scheduler (`events/scheduler/Map.cpp`) | one list of events per time, an iterator, the time, a stop flag | schedule, cancel, stop, process one event, reset | the running event changes the list it is in | events in the order of time and of scheduling, none lost or repeated |
| Command queue (`events/scheduler/CommandQueue.cpp`) | a list, the state of each command, a mutex | queue, dequeue, run, reset | several threads, exceptions | commands in order, at most once, and every call returns |
| Real-time timer (`events/PeriodicRealTimeout.cpp`) | a worker thread, a mutex, a condition, the queued command | start, cancel, the worker's loop | thread cancellation, join, spurious wakeups | one worker, silence after a cancel, no deadlock |
| Simulation-time timers (`CanTimeout`, `PeriodicTimeout`, `MultipleTimeout`) | the pending event | set, cancel, expiry | set or cancelled in the callback | one pending event, none after a cancel |
| Buffers, dispatcher, flow gate, receptors (`ldk/buffer`, `ldk/multiplexer`, `ldk/FlowGate`, `RoundRobinReceptor`) | a list and its size, guards against nested wakeups, the status of the flows, a round | `sendData`, `wakeup`, open and close a flow | each call is made from within another; sizes that differ; flows that change while compounds wait | order within a flow, nobody refused is forgotten, every call returns |
| Segmenting queue (`scheduler/queue`) | SDUs, the bits sent of the first one, the overhead of the frame | put, get a segment of so many bits, a frame starts | fractions, several SDUs in a segment, headers paid in parts | every bit in exactly one segment, no segment larger than granted, the announced bits suffice |
| Reordering and reassembly (`ldk/sar`) | window edges, a timer, segments, a buffer | segment, timer expiry | gaps, late and repeated segments | segments in order and once, only whole SDUs, none lost without a reason |
| Hybrid ARQ (`ldk/harq`) | processes with a buffer, a send queue | transmit, ACK, NACK | feedback for a process that has moved on | one transmission per process |
| Frame configuration (`ldk/fcf`), FSM (`fsm`) | phases, states | start, finish, transitions | timers and nested signals | phases in sequence |
| Radio scheduler, probes, evaluation, distributions, geometry, configuration, logging | numerical or output state | | | not modelled, see the end |

Functional units call each other directly: `sendData` downwards, `onData` upwards,
`wakeup` upwards when a unit that refused (`isAccepting`, `hasAcceptor`) has room again.
All of that happens in the one thread of the event scheduler, so that an entry into a
unit runs to completion; what is concurrent is the network between the two peers, the
timers, and the threads that queue commands. The complete list, with the sources of each
component, is in `PROJECT.json`.

### Modules

| Module | Models | Built on |
|---|---|---|
| `Duplex` | the two peers of a link | |
| `ReliableLink` | what an ARQ unit promises to the layer above | `Duplex` |
| `StopAndWait` | `ldk/arq/StopAndWait.cpp` with `Delayed`, `ARQ`, `CanTimeout`, `SuspendSupport` | refines `ReliableLink` |
| `StopAndWaitProofs` | theorems about `StopAndWait` | `StopAndWait`, TLAPS |
| `GoBackN` | `ldk/arq/GoBackN.cpp` with the same base classes | refines `ReliableLink` |
| `GoBackNProofs` | theorems about `GoBackN` | `GoBackN`, TLAPS |
| `SelectiveRepeat` | `ldk/arq/SelectiveRepeat.cpp` with the same base classes | refines `ReliableLink` |
| `SelectiveRepeatProofs` | theorems about `SelectiveRepeat` | `SelectiveRepeat`, TLAPS |
| `StopAndWaitRC` | `ldk/arq/StopAndWaitRC.cpp` with `CanTimeout` | refines `ReliableLink` |
| `StopAndWaitRCProofs` | theorems about `StopAndWaitRC` | `StopAndWaitRC`, TLAPS |
| `SegmentingQueue` | one connection of `scheduler/queue/SegmentingQueue.cpp` and its `detail/InnerQueue.cpp` | |
| `ReorderingWindow` | `ldk/sar/reassembly/ReorderingWindow.cpp`, and its specification alone | |
| `ReassemblyBuffer` | `ldk/sar/reassembly/ReassemblyBuffer.cpp`, operators on the value of the buffer | |
| `SegAndConcat` | `ldk/sar/SegAndConcat.cpp`, both directions, with a network between them | the three modules above; implements the specification of `ReorderingWindow` |
| `SegAndConcatProofs` | theorems about the window, the sender, reassembly and the whole link | `SegAndConcat`, TLAPS |
| `FlowControl` | `ldk/buffer/Bounded.cpp`, `ldk/multiplexer/Dispatcher.cpp` (`ldk/Processor.hpp`), `ldk/RoundRobinReceptor.cpp` (`RoundRobin.hpp`), `ldk/FlowGate.cpp`, with their nested calls | |
| `FlowControlProofs` | theorems about the buffers, the nested calls and the rounds | `FlowControl`, TLAPS |
| `Lists` | lists from which something is taken out (`std::list::remove`), sums of lists | |
| `Calendar` | what an event scheduler promises to a simulation | |
| `EventScheduler` | `events/scheduler/Map.cpp` | `Lists`; refines `Calendar` |
| `EventSchedulerProofs` | theorems about `EventScheduler` | `EventScheduler`, TLAPS |
| `CommandQueue` | the operations of `events/scheduler/CommandQueue.cpp` | `Lists` |
| `CommandQueueThreads` | any threads that use the queue | `CommandQueue` |
| `PeriodicRealTimeout` | `events/PeriodicRealTimeout.cpp` and the main loop | `CommandQueue` |
| `CommandQueueProofs` | theorems about the threads and about the timer | `CommandQueueThreads`, `PeriodicRealTimeout`, TLAPS |
| `MC...` | the instances for TLC | |

Operators whose name has a second part after an underscore (`OnTimeout_NotMarked`) are
faulty variants of the definition of the first part. No specification uses them; each
names a bug that would break a property and so shows that the property says something
about the code.

## 2. The models and the code

### The ARQ units

One action is one entry into the unit, run to completion as the event scheduler does it:
`SendData` (`doSendData` and `processOutgoing`), `Receive...` (`doOnData` and a case of
`processIncoming`), `OnTimeout`, `Wakeup` (`doWakeup`), `Suspend` (`doSuspend`), and in
`GoBackN` and `SelectiveRepeat` `DelayDelivery` and `DeliverDelayed`. `ldk/Delayed.hpp`
ends each of them with `tryToSend()`, so each action ends with `TryToSend`: first the
waiting ACKs, then the data (`ARQ::hasSomethingToSend`), as long as the lower layer has
an acceptor, with the changes that `getACK` and `getData` make, the timeout included.
The handler passes the members as it has left them to `TryToSend`, which computes their
final values; that is how one step has the effect of several assignments. The upper
layer is woken at the end of `tryToSend()`; what it then sends is a `SendData` of its
own.

The network is a sequence of frames per direction. `Lose` drops its head, a full
sequence (`WireCap`) is a lower layer without an acceptor. The lower layers keep the
order; that is what the units rely on (their "can not happen" branches are reachable if
frames of one wire overtake each other). Resend timeouts have no duration: a pending one
may fire at any moment, which is every relation of the timeout to the delay of the
network. A failed `assure()` or a `throw` sets `failure` and stops the model;
`NoFailure` says that it is never set.

`accepted` and `delivered` record what crossed the interface to the upper layers. They
are history variables that no guard of the units reads, except for the bound `MaxFrames`
on the number of compounds.

`SequenceNumber` is a `long long` and the headers have an `int`; no number is reduced
modulo anything in these four units, so the models count in Nat.

`ReliableLink` has two actions: a peer accepts a compound if no more than `Window` are
under way, a peer hands up one or more of the compounds that its partner accepted, in
order. The refinement mapping is the identity on the two history variables. `Window` is
1 for stop-and-wait; for go-back-N it is twice `windowSize`, one window in transit and
one held by a receiver that delays its delivery; so it is for selective repeat, whose
receiver holds what came behind a gap.

`StopAndWaitRC` has two ports with a wire of their own each, so that data and
acknowledgements overtake each other; it does not use `Delayed`, and its wakeups are
`WakeupData` and `WakeupAck`. The unit can stop: when the resend timeout fires on a
closed data port it sets `sendNowData`, the late ACK of the compound leaves the flag
set, and the next wakeup sends a null compound or sets a timeout that is already set.
Both ends are values of `failure`; the liveness property of this unit is stated up to
them, the safety properties are not. `repeated` is a history variable for the property
`DuplicateACKFromDuplicateI` only.

`SelectiveRepeat` has the frames it may have to send again in two lists, `sentPDUs` and
`toRetransmit`. The time at which a frame was sent decides what a retransmission picks
(`prepareRetransmission`). The model keeps of the times what the code compares: whether
a frame was sent again (`sentAgain`), and, since `sentPDUs` is in the order of sending,
which initial part of it is old enough to be sent once more; how long that part is, is
any choice.

### Segmentation and reassembly

`SegAndConcat` composes the sender, the network and the receiver. The sender is either
the segmenting queue of the radio scheduler, whose segments the unit reassembles, or the
unit itself when `isSegmenting_` is set: it then cuts one SDU at a time into pieces of
`segmentSize_`. `PutSDU` is `put`, preceded by `isAccepting`; a queue with `isDropping`
swallows what does not fit. `Grant` is one `getHeadOfLinePDUSegment` for a number of
bits out of `Requests`: the loop of `InnerQueue::retrieve` is a recursive function with
one round per SDU of the queue (`Packed`). A segment is a record of its number, its two flags, the SDUs that
have a piece in it and its sizes in bits; what was sent stays in `segments`, so that a
segment on the wire, in the window or in the buffer is named by its number.
`processIncoming` hands a segment to the window, and whatever the window gives to its
reassemble signal goes through `onReorderedPDU`, one segment after the other within the
same step, as the signal is fired from within the call.

The network delivers in any order, may deliver twice and loses up to `Losses` segments.
It has one limit (`RoomFor`): no segment comes when another one a whole window ahead of
it has left. `ReorderingWindow` compares numbers within half of the number field and
would take such a segment for a new one; the configuration (`SAR.py` in `PyConfig`) asks
for a field that is long enough. The number itself is a `long` that is never reduced.

### Flow control

`FlowControl` is about calls that are made from within each other: `sendData` runs down
from buffer to buffer, `wakeup` runs up, and both change the buffers they run through
while an outer call is in the middle of its loop. `stack` holds the calls under way. A
step is one round of a loop: one `tryToSendOnce` that passes a compound on (`PassDown`,
`PassOut`), the wakeup at the end of `tryToSend` (`WakeSource`, `WakeDispatcher`) or its
absence (`tryToSendReturns`), the return from it, which resets `inWakeup`
(`WakeupReturns`), and one visit of the receptor's round (`WakeNext`, `RoundEnds`).
Things from outside (`Refill`, `OutsideWakesUp`, `openFlow`, `closeFlow`) happen when no
call is under way: the simulator has one thread. `currentSize` is the counter that the
code keeps beside the list; that the two agree is proved. The unit above a buffer sends
as long as it is accepted; the unit below the shared one takes some compounds, refuses,
and wakes when it accepts again, as every unit must. `unannounced` is a history variable
that no guard reads.

### The event scheduler

`events` is the map of lists of `events_`, `now` its iterator `nowItr_`. An event runs
from `ProcessOneEvent`, which searches the next list exactly as the loop at
`Map.cpp:143` does, to `EventDone`, which removes the front of the current list. In
between, the running callable may do whatever the interface allows: `ScheduleNow`,
`Schedule`, `Cancel`, `Stop`. The same actions when no event runs are the start-up code
before `start()` and the commands that `runCommands` runs before the search. `Cancel` of
an event that is not queued throws and changes nothing; it has no action. `Schedule`
requires a time that is not in the past: `scheduleDelay` cannot do otherwise, and what
`schedule` does with such a time is listed under the hazards.

`Calendar` keeps the set of pending events, each with its time and the number of its
submission, and runs the one that comes first by time and number. The refinement mapping
computes that set from the states of the events, the history of what was submitted
(`submitted`) and of what was lost with an erased list (`erased`), not from the order of
the lists; that the front of the list the search finds is the first of that set is what
the refinement shows.

### Threads

`CommandQueue` has one operator per operation of the class, each enabled when the mutex
is free and atomic in the section that holds it. `runCommands` keeps the mutex over many
commands and is split: `RunLock`, `RunNext`, `RunReturns`, `RunUnlock`.
`CommandQueueThreads` adds the threads, each with the call it is in.
`PeriodicRealTimeout` composes the queue with the main thread and the workers. An action
of a thread ends where it may block (mutex, condition variable, join) or where another
thread can tell the difference; `MainAt` and `WorkerAt` name these places. A cancelled
worker ends only where it sleeps or tests for the cancellation, since the rest of its
loop runs with the cancellation disabled.

## 3. The runs

| Run | Instance | Result |
|---|---|---|
| `saw` | compounds both ways (2 and 1), wires of 2, peer 1 is suspended | type, no failure, timer, clean suspend, refinement, all is handed up, every suspend is answered |
| `rc` | compounds both ways (2 and 1), wires of 2 | type, a compound is kept until it was handed up, always has a timeout or a wakeup to send it and no impossible branch is taken (`ActiveUntilDelivered`), refinement, all is handed up unless the unit stops |
| `gbn_safety` | window 2, 3 compounds one way, wires of 2 | type, no failure and the timer runs exactly while a frame is out, no frame forgotten or kept twice, refinement |
| `gbn_live` | window 2, 3 compounds, wires of 1 | all is handed up |
| `sr` | window 3, 3 compounds one way, wires of 2, with suspend requests and delayed delivery | type, what is not acknowledged is in exactly one list, clean suspend, refinement |
| `sar` | SDUs of 2, 1 and 1 bits, headers of 2 and 1 bits, requests of 2 or 6 bits, a window of 4, one loss; and the segmenting unit | type, no bit lost or sent twice, announced bits suffice, SDUs whole and once, segments in order, every SDU goes up or has lost a piece |
| `flow` | two flows with compounds of 1 and 2, all buffers of size 2 | type (no buffer too full, no guard left set), order, nobody waits in vain, every call returns |
| `flow_open` | as `flow` | `OpeningIsAnnounced` violated |
| `sched` | 3 events, times 0 to 2 | lists and clock agree and no event is listed twice, `Calendar` is refined, every event leaves the lists unless the scheduler is stopped |
| `cmd` | 2 threads, 3 commands | commands run in order, at most once, and queue and states agree |
| `prt` | 2 workers, 2 commands | one worker and one waiting command, silence after a cancel, the timer fires again and again |
| `prt_cancel` | no calls from `periodically()` | `CancelReturns` violated |

### Bounds

`MaxFrames` bounds the compounds of each upper layer, `WireCap` the frames in each
direction, `AckCap` the ACKs a go-back-N peer may have waiting when a frame arrives,
`MaxTime` the times of events. Three compounds are one more than the window of two, so
that windows close and move; a wire of two holds a frame with its repetition, or a data
frame and an ACK; in `saw` and `rc` both directions are in use, so that in `saw` ACKs
and data compete for the acceptor. Each port of `rc` has wires of its own, so that a
full data port does not close the other; a closed data port is what makes `sendNowData`
matter. Three events suffice for a list with a running event, one that it cancels or
adds, and one of a later time.

In `sar` a request of 2 bits is smaller than a header and an SDU, so that headers are
paid in parts and SDUs cut, and one of 6 bits holds several SDUs; with four segments the
window of 4 moves and drags `vrUR` along, and a second gap starts the timer again after
an expiry. In `flow` a compound of 2 fills a buffer that two of 1 also fill: a buffer
that is not full may still refuse. `Numbers` is one more than the compounds of a flow
that fit into its two buffers, so that a compound lost, repeated or out of order shows
in the numbers. `Backlog` and `Outlet` of 2 let each loop have a second round. In `sr` a
window of 3 lets an ACK and a frame come behind a gap while a third is sent.

Constraints cut the state space. `Numbered` lets the k-th compound be k: the units copy
compounds and never look into them, so that a run with other compounds is a renaming of
one with these. `NumberedSuspendedOnce` suspends the peer that sends more; the other one
is its equal. For go-back-N, `OneWay` leaves out that a peer which receives no compounds
delays its delivery and that one which sends none is suspended; neither changes what any
other action does. `sr` has the same constraint. In `gbn_live` the sender is not
suspended either: suspending does not change what is sent. The actions that the
constraints cut have no fairness, so that what is left of a liveness run are behaviours
of the specification. In `cmd` the commands are interchangeable, and the run has no
liveness property.

`CHECK_DEADLOCK FALSE` stands where the system really may stop: `start()` has returned
and nobody resets, all commands have been used, a unit of `rc` has stopped or sent all
its compounds, and the deadlocks of `PeriodicRealTimeout` that `prt_cancel` is about.

### Fairness

The ARQ units: a pending timeout is an event in the event scheduler and fires some time
(weak fairness of `OnTimeout`); the lower layer calls `wakeup` when it has room
(`Wakeup`); frames are lost, but not every copy of a frame that is sent again and again
(strong fairness of the receive actions). For go-back-N the latter is stated per kind of
frame, the expected one or another, since what is sent again is a series; and a delayed
delivery is resumed some time. Nothing is assumed of the upper layers, of losses, or of
suspend requests. The segments: a copy that is on its way arrives or is lost, and a
running reordering timer expires (weak fairness of both). The flow control: a call that
was made goes on (weak fairness of `Step`); nothing from outside is fair. The event
scheduler: the loop goes on and callables return. Threads: each is scheduled, a sleep
ends, and a mutex that is free again and again is obtained (strong fairness on the
actions that lock). The violations of `prt_cancel` and of
`CommandQueueThreads_returns.cfg` are found under this fairness: they are deadlocks, not
threads that are never scheduled.

### What TLC refutes

Two runs expect a violation:

* `flow_open`: `CompoundHandlerInterface.hpp:125` asks of every unit that it wakes the
  units above when it accepts again. `FlowGate::openFlow` does not: a compound that was
  refused stays until something else happens (`FlowGate.cpp:171`).
* `prt_cancel`: `cancelPeriodicRealTimeout` joins its worker with the mutex held that
  the worker waits for, its cancellation disabled (`PeriodicRealTimeout.cpp:93`).

Seven more configurations are kept beside the runs, each with one property that a text
of the repository states and TLC refutes within seconds:

| Configuration (module) | Property | What happens |
|---|---|---|
| `StopAndWait_null.cfg` (`MCStopAndWait`) | `SuccessHasCompound` | `StopAndWait.cpp:251` "this is the ACK we've been waiting for": the expected RR frame comes a second time, after a resend timeout that is too short, and the success of a null compound is reported |
| `StopAndWaitRC_ack.cfg` (`MCStopAndWaitRC`) | `DuplicateACKFromDuplicateI` | `StopAndWaitRC.cpp:226` "duplicate ACK (must be due to duplicate I)": the RR frame that answers the first copy carries the old `NR` (`:163`) and is ignored; every compound is sent at least twice and acknowledged only after a resend timeout |
| `GoBackN_stale.cfg` (`MCGoBackN`) | `SentAreUnacknowledged` | `GoBackN.hpp:285` "The packets sent but not acknowledged yet": acknowledged frames may stay in `sentPDUs` behind one that is not (`removeACKed` stops at the first one), and are sent again; nothing is delivered twice |
| `SelectiveRepeat_timer.cfg` (`MCSelectiveRepeat`) | `TimeoutWhileUnacknowledged` | `SelectiveRepeat.hpp:259` "Idle (no ACK) time after which sender enters retransmission state": the timeout fires while the lower layer refuses, so that the oldest frame waits in `toRetransmit`; its late ACK comes, and a younger frame stays in `sentPDUs` with no timeout pending. If it was lost, nothing sends it again until the upper layer sends another compound |
| `SegAndConcat_order.cfg` (`MCSegAndConcat`) | `DeliversInOrder` | `ReassemblyBuffer.cpp:206` puts an SDU that ends in the middle of a segment in front of those taken out of earlier segments; two SDUs that become whole by the same segment go up in the wrong order |
| `SegAndConcat_align.cfg` (`MCSegAndConcat`) | `SegmentsCarryEveryBit` | `InnerQueue.cpp:188` asserts that a segment is no larger than what was requested. With `byteAlignHeader`, the default headers of 8 and 12 bits, SDUs of 16 and 8 bits and a request of 44, the loop fills the 44 bits and the alignment at `:180` adds 4: the last SDU that fits in completely leaves no room for it. (`Scheduler.py:416` says the header becomes a multiple of 8; the code adds the header modulo 8, which is not what is missing to the next byte unless that is 0 or 4.) The option is off by default, and in the run `sar` |
| `CommandQueueThreads_returns.cfg` (`MCCommandQueueThreads`) | `OperationsReturn` | `CommandQueue.hpp:41` "Thread safe command queue": `dequeueCommand` throws with the mutex locked, and no later operation of any thread returns |

`GoBackN_more.cfg` checks two further properties of go-back-N that hold and follow from
those of the run `gbn_safety`: `InOrder` and `SuspendIsClean`.

Read off the code while modelling, without a run of its own: the comment on
`hasCapacity` (`ldk/Delayed.hpp:79`) says `processIncoming` where it is
`processOutgoing` that is never called; `Map::doReset` leaves `stop_` set although
`Interface.hpp:161` promises the initial state; the size that `GoBackN.cpp:77` requires
of sequence numbers is for numbers that wrap, and those of the code do not;
`PeriodicRealTimeout.cpp:69` waits for its condition without a loop, and the model
leaves out spurious wakeups; `GoBackN::onNAKFrame` never calls `trySuspend`;
`SegmentingQueue::resetQueue` restarts the numbers of the segments while the window of
the receiver goes on, so that the first segments after it are discarded; a round of
`RoundRobin` that visits all elements ends where it began, so that the unit that was
connected first is always served first (a test, `testWakeupTwoRounds`, expects it).

## 4. The proofs

`StopAndWaitProofs` proves about `StopAndWait`, for all `SDU`, `MaxFrames` and `WireCap`
that satisfy `StopAndWaitAssumption` (the frame counts are natural numbers, the wire
holds at least one frame, the null compound is no frame):

* `Invariant`: `Spec => []IInv`;
* `TypeCorrect`, `NeverFails`, `TimerAlwaysGuards`: the three invariants of the run
  `saw`;
* `DeliversInOrder`: what is handed up is an initial segment of what was accepted;
* `SuspendsCleanly`: the action property;
* `Refinement`: `Spec => Link!Spec`, every step of the units is a step of `ReliableLink`
  or leaves its variables unchanged.

`InOrder` is not inductive: it says nothing about the frames that are under way. `IInv`
adds what the code relies on. The receiver's `NR` is the number of compounds handed up,
the sender's `NS` the number accepted, and they differ by at most one; they are equal
whenever the sender has no compound. A frame under way has a number between the two, the
frames of a wire are sorted, an I frame carries the compound that was accepted under its
number, and an RR frame, on the wire or still waiting, is never ahead of the receiver's
`NR`. From this follow that neither "can not happen" branch can be taken and that the
compound of a frame with the expected number is the next one in `accepted`. The proof
that a step keeps `IInv` has a lemma per entry of the unit; all of them rest on one
lemma about `TryToSend`, which says what a wire looks like after an append at its end,
and on facts about sequences stated as lemmas of their own.

`StopAndWaitRCProofs` proves the same of `StopAndWaitRC`: `TypeCorrect`,
`KeptUntilDelivered` (the invariant `ActiveUntilDelivered`) and `Refinement`. The
argument differs where the code does. Data and acknowledgements overtake each other, so
that no order between the two wires can be used; and an RR frame carries `NR` as it was
before the frame it answers was counted. `Direction` therefore says of an RR frame, on
the wire or waiting, that its number is the sender's last one or the next one, and the
last one only while the sender waits for its acknowledgement. `TimerFits` says that an
idle unit has no timeout pending, unless it has stopped.

`GoBackNProofs` proves about `GoBackN`, for every window and every choice of the other
constants that `GoBackNAssumption` allows: `TypeCorrect`, `NeverFails`,
`TimerRunsIffOutstanding` and `UnacknowledgedIsKept` (the invariants of the run
`gbn_safety`), `DeliversInOrder`, `SuspendsCleanly` and `Refinement`. The inductive
invariant is one about numbers, lists and what is under way, per peer:

* `SenderInv`: the sender counts what it accepted; no two frames it holds (`sentPDUs`,
  `toRetransmit`, `activeCompound`) have the same number, each carries what was accepted
  under its number, and every number from the last acknowledged one on is among them.
  `Sound` states this of the members that a handler passes on to `TryToSend` rather than
  of the variables, so that one lemma about `TryToSend` serves all handlers. It does not
  say that the held numbers are unacknowledged: they need not be (`GoBackN_stale.cfg`).
* `WireInv`: a frame under way carries what was accepted under its number. No order of
  the I frames is kept, since a retransmission starts the series again; the receiver
  takes only the expected number.
* `RepliesInv`: an ACK counts what its sender had taken over. The counts of the replies
  under way and waiting ascend, none is below what the partner knows to be acknowledged
  nor above the receiver's `NR`. This is what makes a late NAK or ACK harmless: without
  the order of the replies an old NAK could follow a newer ACK and `removeACKed` would
  set the last acknowledged number back.
* `ReceiverInv`: what is held back while the delivery is delayed, at most a window, is
  what follows what was handed up, and both together are the frames taken over.

The rest of the proof is about lists: what the front and the rest of a list hold, and
that `removeACKed`, a loop over the front of a list, ends at a place as its definition
asks for, which exists by the well-foundedness of the natural numbers.

`SelectiveRepeatProofs` proves about `SelectiveRepeat`, for every window and every choice
of the other constants that its assumption allows: `TypeCorrect`, `UnacknowledgedIsKept`
(`KeepsUnacknowledged`, the invariant of the run `sr`), `SuspendsCleanly` and
`Refinement`. ACKs and frames come out of sequence, so that less can be said of their
order than for go-back-N and more of what each of them means:

* `SenderInv`: the frames held (`sentPDUs`, `toRetransmit`, `activeCompound`) are exactly
  those that are not acknowledged, each once and with the compound accepted under its
  number (`Keeps`); a pending timeout has a sent frame. The converse does not hold
  (`SelectiveRepeat_timer.cfg`), and nothing here needs it.
* `WireInv`: a frame under way carries what was accepted under its number and is not the
  one that still waits to be sent for the first time.
* `RepliesInv`: whatever is acknowledged, on the wire, waiting to be sent, kept by the
  partner in `receivedACKs` or counted in its `LA`, is held: handed up, or kept behind the gap
  of the receiver (`Holds`). Nothing that is held is ever given up again, hence no order
  of the ACKs is needed.
* `ReceiverInv`: what was handed up is an initial segment of what was accepted, and what
  is kept behind the gap has numbers beyond it.

Two loops need an argument of their own. `prepareRetransmission` and `removeACKed` walk
through a list (`WithNumbers`): what they find and what they leave are the frames with the
numbers asked for, in their order, once (by the least length for which the loop had no
result). The frame that fills a gap hands up the consecutive ones behind it: as many as
there are numbers without a gap (`Consecutive`), each in its place (`HandUpKeeps`). That
an empty window acknowledges everything, which `SuspendsCleanly` needs, follows from
`Keeps`: nothing held means nothing unacknowledged.

`EventSchedulerProofs` proves `TypeCorrect`, `ListsAlwaysAgree` (`ListsAgree`) and
`Refinement` (`Spec => Abstract!Spec`) for any events and times. `SchedulerInv` consists
of `ClockInv` (no list lies before the current one, the running event is at the front of
the current list and the loop runs), `ListsInv` (a list holds only events of its time
that are queued or running, in the order of submission) and `HistoryInv` (an event is
submitted once, and what is pending is listed). The refinement needs all three: the
event the search finds is the first of its list, hence the first submitted of that time;
its list is the first that is not empty, hence no pending event has an earlier time; and
a pending event that was in no list would be skipped for ever.

`SegAndConcatProofs` has four parts.

*The window.* `HandsOnInOrder`, for every size of the window and every network that is
not a whole window late (`Timely`). What makes it inductive: what is held back lies
between `vrUR` and `vrUH`, nothing below `vrUR` will be handed on again, and the timer
runs exactly while a number is missing. That the search for the next missing number ends
rests on the well-foundedness of the natural numbers. The window inside the whole link
takes only steps of that specification, since `RoomFor` keeps segments timely
(`LinkImplementsWindow`), and the link inherits the property (`LinkHandsOnInOrder`).

*The sender* (`SenderIsSound`), with `EveryBitIsCarried` (`SegmentsCarryEveryBit`) and
`AnnouncedIsGranted` (`AnnouncedBitsSuffice`). This part and the next two assume
`ByteAlign = FALSE`; with `byteAlignHeader` the run `align` refutes
`SegmentsCarryEveryBit`, so that the assumption cannot be dropped. All other constants
are arbitrary. `SenderInv` consists of

* `SenderTypes` and `SenderBits`: the front SDU is never sent as a whole and kept
  (`Contents`), the announced bits are the sizes of the queue without what was sent of
  its front, and together with the data of the segments they are the sizes of all SDUs
  put. Sums are those of a recursive function (`Total`); the lemmas say what it does when
  an element is appended, taken off the front or changed, each by a least
  counterexample;
* `SenderOrder`: the segments carry the SDUs in ascending order (`Chained`); an SDU in
  two segments is not completed by the first and does not begin the second; what waits,
  in the queue or as `senderPendingSegments`, follows all that was sent, and begins with
  the SDU within which the last segment ended.

A round of the loop of `retrieve` keeps the sum of what it packed and what is left
(`PackedBits`), takes SDUs from the front only (`PackedInOrder`) and, if the request was
for what is announced, leaves room for the rest of the queue and the extension headers
of all but its first SDU (`RoomLeft`); with as many rounds as SDUs this empties the
queue.

*The reassembly buffer.* `Run` says that the buffer holds consecutive segments, each of
them as it was sent, but for the first one, which may have lost SDUs at its front; and
that no SDU with a piece in the buffer has a piece in an earlier segment. `Up` says that
what went up was completed by a segment handed on before, that all its carriers had
entered the window, and that it precedes every SDU with a piece in the buffer: hence
nothing goes up twice. Each of the three branches of `getReassembledSegments` keeps
both (`RoundKeeps`), `insert` does (`InsertKeeps`, where `Beheaded` drops the end of an
SDU whose beginning is missing), and so does forgetting the buffer at a gap
(`EnteredKeeps`).

*The link.* `LinkInv` joins `SenderInv`, the window's invariant, `NetInv` (what is under
way is less than a window old) and `ReceiverInv` (`Run` and `Up` up to `vrUR`, and what
is held back has entered). A segment more at the sender does not spoil `Up`, because an
SDU that was completed is in no later segment; a call of the window hands its segments
on one by one, each at or after `vrUR`, so that `Run` and `Up` move on from `vrUR` to
`vrUR'` (`ReassembleKeeps`). From it follow `LinkTypeCorrect` (`TypeOK`) and
`DeliveredWhole` (`DeliveredWholeOnce`). That the SDUs go up in order is not claimed: the
code does not do that (`SegAndConcat_order.cfg`).

`FlowControlProofs` proves the invariants of the run `flow` (`TypeCorrect`,
`OrderIsKept`, `NobodyWaits`) for any number of flows, at least one, any sizes of
compounds and buffers and any order of connection, and beside them that the rounds of
the receptor are all alike (`RoundsAreAlike`) and never nested (`RoundsAreNotNested`).
The parts of the inductive invariant are

* `DataInv`: the size a buffer keeps is that of what it holds (`Sums`), and the numbers
  of a flow run on from the last one taken through the shared buffer and through the
  flow's own to the next one offered (`Placed`). Both are stated by the existence of a
  function on the places of the list that starts and ends as required, so that the
  proofs need no induction over lists;
* `RoundInv`: the place of the cursor follows from how many units a round has left, and
  the round is open exactly while the Dispatcher wakes;
* `StackInv`: a guard is set exactly while the call it guards is under way, which is
  there once at most, and a source that is woken sends before the wakeup returns
  (`Nested`);
* `LowerSettles`: the shared buffer can pass something on only while it is the one that
  runs;
* `WaitInv`: a flow that could pass its front on, or could as soon as the shared buffer
  has passed on what it holds (`MayTry`), will be asked to: a call that will do so is
  under way (`WillTry`). This is where the guards might do harm: a shared buffer that
  finds `inWakeup` set wakes nobody. It is in order because the wakeup that set the
  guard has its round still before it, or a unit of the round that runs now asks again
  before it ends;
* `SourceInv`: the same for the sources and the buffers below them.

With an empty stack nothing is under way, and the last three say that nobody waits in
vain.

`CommandQueueProofs` is about both users of the queue. The definitions of
`CommandQueueThreads` that have their like in `PeriodicRealTimeout` are therefore called
`ThreadsInit`, `ThreadsNext` and so on. It proves `ThreadsTypeCorrect` (`ThreadsTypeOK`)
and `WhatIsQueuedRuns` (`RunsWhatIsQueued`), order and bookkeeping, for any threads and
commands. It begins with what `queue_.remove()` and `push_back()` do to a
list in which every command stands once. `CallsInv`: a command about to be
queued is new and no other thread's. `QueueInv`: the list is a part of the order of
queueing and agrees with the states, where the command that `runCommands` has taken up
counts as gone. `RanInv`: what ran was queued before all that waits.

Of the timer it proves `TimerTypeCorrect` (`TypeOK`), `OneTimerAtATime` (`OneTimer`) and
`SilentOnceCancelled` (`CancelledIsSilent`), for any number of workers and commands. `WorkerInv` says where the one live worker may be for each place
of the main thread, `MutexInv` who holds which mutex, `WaitingInv` that what waits in
the queue is the current command and nothing else. `CancelledIsSilent` needs all three:
a worker can only queue a command while it holds the timer's mutex, and the cancel that
holds it has joined the worker before it lets go. The theorem is about every behaviour,
those that end in the deadlock of `prt_cancel` included.

Only model-checked are: liveness and the fairness it needs, which the prover has no
means for (of `SegAndConcat`, `EventuallyDelivered`). Every invariant and every
refinement that a passing run checks is also a theorem. No module has a RECURSIVE operator: what is recursive in the code is a
recursive function or a fold.

## 5. The plan

What is left, in this order:

1. `CumulativeACK`: its numbers do wrap (modulo the window), so this is where the
   relation of window and number range is at stake; then the `PiggyBacker` composed with
   `StopAndWait`.
2. `HARQ`: the processes of a sender and a receiver and the feedback that may come late.
3. `Timeouts`: `CanTimeout`, `PeriodicTimeout` and `MultipleTimeout` composed with
   `EventScheduler`, with timers that are set and cancelled from callbacks.
4. The way up of `FlowControl` (deliverers, `Dropping`), and flows that are created and
   destroyed.
5. The retransmission store and the queues of several connections of the radio
   scheduler.

## 6. What is not modelled

* Numerical code: distributions, evaluation, geometry, the radio scheduler's strategies,
  Markov chains. Their correctness is about floating-point values. They, with
  configuration, probes and the containers, are by far the largest part of the library.
* `SequentlyCallingLinkHandler`: commented out of the build (`config/libfiles.py`).
* `FlowSeparator`: it clones units per flow and holds no compound itself.
* Resetting a segmenting queue: what the receiver should do is not written down.
* Compounds that overtake each other between ARQ peers, and segments that come a whole
  window late: the units rely on lower layers that exclude it.
* Input and output: configuration, logging, probe output.
* The memory operations of the smart pointers. Their counter is not atomic and is shared
  between the worker and the main thread; the models treat pointers as values.
* Sizes of headers and compounds, counters for probes.
* The exceptions that end a simulation: after one the model stops.
