---------------------------- MODULE FlowControl ----------------------------
(***************************************************************************)
(* The flow control between functional units: one wns::ldk::buffer::Bounded *)
(* per flow on top of a wns::ldk::multiplexer::Dispatcher (Processor,       *)
(* RoundRobinReceptor), a wns::ldk::FlowGate, and another Bounded buffer    *)
(* that all flows share.                                                    *)
(*                                                                          *)
(*      source      source                                                  *)
(*        |           |                                                     *)
(*     Bounded     Bounded       the upper buffers, named by their flows    *)
(*         \         /                                                      *)
(*         Dispatcher            asks and passes on, holds nothing          *)
(*             |                                                            *)
(*          FlowGate                                                        *)
(*             |                                                            *)
(*          Bounded              Lower                                      *)
(*             |                                                            *)
(*           outside                                                        *)
(*                                                                          *)
(* sendData calls run down, wakeup calls run up, each from within the other *)
(* (SimpleLinkHandler passes them on at once).  The stack of calls that are *)
(* under way is a variable, and one step is one round of a loop of a call.  *)
(* A compound is [flow, number]; numbers count modulo Numbers.              *)
(***************************************************************************)
EXTENDS Integers, Sequences, FiniteSets, SequencesExt

CONSTANTS Flow, Lower,   \* names of the upper buffers, and of the shared one
          Order,         \* the flows in the order in which they were connected
          Length,        \* Length[f]: the size of a compound of flow f
          MaxSize,       \* MaxSize[b]: maxSize of buffer b
          Backlog,       \* bound: how many compounds a source holds at most
          Outlet,        \* bound: how many compounds the outside takes in a row
          Numbers        \* bound: the numbers of compounds, more than fit into two buffers

Buffer == Flow \union {Lower}

ASSUME FlowAssumption ==
  /\ Lower \notin Flow /\ Flow /= {}
  /\ Order \in Seq(Flow) /\ ToSet(Order) = Flow /\ Len(Order) = Cardinality(Flow)
ASSUME SizeAssumption ==
  /\ Length \in [Flow -> Nat \ {0}] /\ MaxSize \in [Buffer -> Nat \ {0}]
  /\ \A f \in Flow : MaxSize[f] + MaxSize[Lower] < Numbers
ASSUME BoundAssumption == {Backlog, Outlet} \subseteq Nat \ {0} /\ Numbers \in Nat

VARIABLES
  backlog,      \* backlog[f]: how many compounds wait in the source of f
  nextNumber,   \* the number of its next compound
  buffer,       \* buffer[b]: Bounded::buffer
  currentSize,  \* currentSize[b]: Bounded::currentSize, unsigned
  inWakeup,     \* inWakeup[b]: Bounded::inWakeup
  dispatching,  \* Processor::inWakeup of the Dispatcher
  recs,         \* the RoundRobin of its receptor: [first, cursor, countdown, inRound]
  flowStatus,   \* FlowGate::flowStatus: whether the flow is open
  unannounced,  \* the flows opened since the gate passed the last wakeup on
  outlet,       \* how many more compounds the outside takes
  taken,        \* taken[f]: the number after that of the last one it took
  stack         \* the calls under way, the running one first

sourceVars  == <<backlog, nextNumber>>
bufferVars  == <<buffer, currentSize>>
roundVars   == <<dispatching, recs>>
gateVars    == <<flowStatus, unannounced>>
outsideVars == <<outlet, taken>>
vars == <<sourceVars, bufferVars, inWakeup, roundVars, gateVars, outsideVars, stack>>

Calls == [call : {"send", "tryToSend", "woken"}, of : Buffer]
         \union [call : {"round"}, of : {Lower}]

Call(c, b) == [call |-> c, of |-> b]
Running(c, b) == stack /= <<>> /\ Head(stack) = Call(c, b)

Init ==
  /\ backlog = [f \in Flow |-> 0]
  /\ nextNumber = [f \in Flow |-> 0]
  /\ buffer = [b \in Buffer |-> <<>>]
  /\ currentSize = [b \in Buffer |-> 0]
  /\ inWakeup = [b \in Buffer |-> FALSE]
  /\ dispatching = FALSE
  /\ recs = [first |-> 0, cursor |-> 0, countdown |-> 0, inRound |-> FALSE]
  /\ flowStatus = [f \in Flow |-> TRUE]
  /\ unannounced = {}
  /\ outlet \in 0 .. Outlet
  /\ taken = [f \in Flow |-> 0]
  /\ stack = <<>>

-----------------------------------------------------------------------------
(* wns::RoundRobin, the container of the receptor.                         *)

(* fault: the cursor runs over the end                                      *)
advanceCursor_Beyond(cursor) == cursor + 1

advanceCursor(cursor) == (cursor + 1) % Len(Order)

startRound(r) == [r EXCEPT !.inRound = TRUE, !.countdown = Len(Order), !.cursor = r.first]

endRound(r) == [r EXCEPT !.inRound = FALSE, !.first = r.cursor]

hasNext(r) == r.countdown > 0

current(r) == Order[r.cursor + 1]

(* fault: the round is not counted down                                     *)
next_NotCounted(r) == [r EXCEPT !.cursor = advanceCursor(@)]

next(r) == [r EXCEPT !.countdown = @ - 1, !.cursor = advanceCursor(@)]

-----------------------------------------------------------------------------
(* Who accepts a compound of a flow.                                       *)

doIsAccepting(b, f) == currentSize[b] + Length[f] <= MaxSize[b]

\* The Dispatcher and the gate ask the unit below, an open gate at that.
hasAcceptor(b, f) ==
  IF b = Lower THEN outlet > 0 ELSE flowStatus[f] /\ doIsAccepting(Lower, f)

(* fault: a buffer wakes the unit above only when it is empty                *)
MayWake_Empty(b) == ~inWakeup[b] /\ buffer[b] = <<>>

MayWake(b) == ~inWakeup[b] /\ currentSize[b] < MaxSize[b]

-----------------------------------------------------------------------------
(* What happens to the units from outside, when no call is under way.      *)

\* The source of f gets another compound and offers what it has.
Refill(f) ==
  /\ stack = <<>>
  /\ backlog[f] < Backlog
  /\ backlog' = [backlog EXCEPT ![f] = @ + 1]
  /\ stack' = <<Call("send", f)>>
  /\ UNCHANGED <<nextNumber, bufferVars, inWakeup, roundVars, gateVars, outsideVars>>

\* The outside accepts again and wakes the buffer above it.
OutsideWakesUp ==
  /\ stack = <<>>
  /\ outlet = 0
  /\ outlet' \in 1 .. Outlet
  /\ stack' = <<Call("tryToSend", Lower)>>
  /\ UNCHANGED <<sourceVars, bufferVars, inWakeup, roundVars, gateVars, taken>>

openFlow(f) ==
  /\ stack = <<>>
  /\ ~flowStatus[f]
  /\ flowStatus' = [flowStatus EXCEPT ![f] = TRUE]
  /\ unannounced' = unannounced \union {f}
  /\ UNCHANGED <<sourceVars, bufferVars, inWakeup, roundVars, outsideVars, stack>>

closeFlow(f) ==
  /\ stack = <<>>
  /\ flowStatus[f]
  /\ flowStatus' = [flowStatus EXCEPT ![f] = FALSE]
  /\ UNCHANGED <<sourceVars, bufferVars, inWakeup, roundVars, unannounced, outsideVars, stack>>

-----------------------------------------------------------------------------
(* The calls.                                                              *)

\* The source sends as long as its buffer accepts.
SourceSends(f) ==
  /\ Running("send", f)
  /\ backlog[f] > 0 /\ doIsAccepting(f, f)
  /\ backlog' = [backlog EXCEPT ![f] = @ - 1]
  /\ nextNumber' = [nextNumber EXCEPT ![f] = (@ + 1) % Numbers]
  /\ buffer' = [buffer EXCEPT ![f] = Append(@, [flow |-> f, number |-> nextNumber[f]])]
  /\ currentSize' = [currentSize EXCEPT ![f] = @ + Length[f]]
  /\ stack' = <<Call("tryToSend", f)>> \o stack
  /\ UNCHANGED <<inWakeup, roundVars, gateVars, outsideVars>>

SourceReturns(f) ==
  /\ Running("send", f)
  /\ ~(backlog[f] > 0 /\ doIsAccepting(f, f))
  /\ stack' = Tail(stack)
  /\ UNCHANGED <<sourceVars, bufferVars, inWakeup, roundVars, gateVars, outsideVars>>

(* fault: the front is stored below before those that came earlier           *)
Stored_AtFront(b, c) == [buffer EXCEPT ![c.flow] = Tail(@), ![b] = <<c>> \o @]

\* The buffers after the front of an upper one went to buffer b.
Stored(b, c) == [buffer EXCEPT ![c.flow] = Tail(@), ![b] = Append(@, c)]

SendsOnce(b) == buffer[b] /= <<>> /\ hasAcceptor(b, Head(buffer[b]).flow)

\* An upper buffer passes its front through Dispatcher and gate to Lower,
\* whose doSendData stores it and tries to send.
PassDown(f) ==
  /\ Running("tryToSend", f)
  /\ SendsOnce(f)
  /\ LET c == Head(buffer[f])
     IN  /\ buffer' = Stored(Lower, c)
         /\ currentSize' = [currentSize EXCEPT ![f] = @ - Length[c.flow], ![Lower] = @ + Length[c.flow]]
  /\ stack' = <<Call("tryToSend", Lower)>> \o stack
  /\ UNCHANGED <<sourceVars, inWakeup, roundVars, gateVars, outsideVars>>

\* The outside takes the front of Lower; if it would accept another one, it
\* may wake Lower before it returns.
PassOut ==
  /\ Running("tryToSend", Lower)
  /\ SendsOnce(Lower)
  /\ LET c == Head(buffer[Lower])
     IN  /\ taken' = [taken EXCEPT ![c.flow] = (c.number + 1) % Numbers]
         /\ currentSize' = [currentSize EXCEPT ![Lower] = @ - Length[c.flow]]
  /\ buffer' = [buffer EXCEPT ![Lower] = Tail(@)]
  /\ outlet' = outlet - 1
  /\ \/ stack' = stack
     \/ outlet' > 0 /\ stack' = <<Call("tryToSend", Lower)>> \o stack
  /\ UNCHANGED <<sourceVars, inWakeup, roundVars, gateVars>>

\* Nothing more to send: an upper buffer with room wakes its source.
WakeSource(f) ==
  /\ Running("tryToSend", f)
  /\ ~SendsOnce(f)
  /\ MayWake(f)
  /\ inWakeup' = [inWakeup EXCEPT ![f] = TRUE]
  /\ stack' = <<Call("send", f), Call("woken", f)>> \o Tail(stack)
  /\ UNCHANGED <<sourceVars, bufferVars, roundVars, gateVars, outsideVars>>

\* Lower with room wakes the gate, which passes the call on to the Dispatcher.
WakeDispatcher ==
  /\ Running("tryToSend", Lower)
  /\ ~SendsOnce(Lower)
  /\ MayWake(Lower)
  /\ inWakeup' = [inWakeup EXCEPT ![Lower] = TRUE]
  /\ unannounced' = {}
  /\ IF dispatching
     THEN /\ stack' = <<Call("woken", Lower)>> \o Tail(stack)
          /\ UNCHANGED <<roundVars>>
     ELSE /\ stack' = <<Call("round", Lower), Call("woken", Lower)>> \o Tail(stack)
          /\ dispatching' = TRUE
          /\ recs' = startRound(recs)
  /\ UNCHANGED <<sourceVars, bufferVars, flowStatus, outsideVars>>

tryToSendReturns(b) ==
  /\ Running("tryToSend", b)
  /\ ~SendsOnce(b)
  /\ ~MayWake(b)
  /\ stack' = Tail(stack)
  /\ UNCHANGED <<sourceVars, bufferVars, inWakeup, roundVars, gateVars, outsideVars>>

WakeupReturns(b) ==
  /\ Running("woken", b)
  /\ inWakeup' = [inWakeup EXCEPT ![b] = FALSE]
  /\ stack' = Tail(stack)
  /\ UNCHANGED <<sourceVars, bufferVars, roundVars, gateVars, outsideVars>>

\* RoundRobinReceptor::wakeup: every upper buffer in turn.
WakeNext ==
  /\ Running("round", Lower)
  /\ hasNext(recs)
  /\ recs' = next(recs)
  /\ stack' = <<Call("tryToSend", current(recs))>> \o stack
  /\ UNCHANGED <<sourceVars, bufferVars, inWakeup, dispatching, gateVars, outsideVars>>

RoundEnds ==
  /\ Running("round", Lower)
  /\ ~hasNext(recs)
  /\ recs' = endRound(recs)
  /\ dispatching' = FALSE
  /\ stack' = Tail(stack)
  /\ UNCHANGED <<sourceVars, bufferVars, inWakeup, gateVars, outsideVars>>

-----------------------------------------------------------------------------
Outside == \/ OutsideWakesUp
           \/ \E f \in Flow : Refill(f) \/ openFlow(f) \/ closeFlow(f)

Step == \/ PassOut \/ WakeDispatcher \/ WakeNext \/ RoundEnds
        \/ \E f \in Flow : SourceSends(f) \/ SourceReturns(f) \/ PassDown(f) \/ WakeSource(f)
        \/ \E b \in Buffer : tryToSendReturns(b) \/ WakeupReturns(b)

Next == Outside \/ Step

\* A call that was made goes on.
Spec == Init /\ [][Next]_vars /\ WF_vars(Step)

-----------------------------------------------------------------------------
Compound == [flow : Flow, number : 0 .. Numbers - 1]

(* Types, no buffer beyond its size (the assure of doSendData), the round of
   the receptor open exactly while the Dispatcher wakes (the assures of
   RoundRobin), and no guard left set when no call is under way. *)
TypeOK ==
  /\ backlog \in [Flow -> 0 .. Backlog]
  /\ nextNumber \in [Flow -> 0 .. Numbers - 1] /\ taken \in [Flow -> 0 .. Numbers - 1]
  /\ buffer \in [Buffer -> Seq(Compound)]
  /\ currentSize \in [Buffer -> Nat] /\ \A b \in Buffer : currentSize[b] <= MaxSize[b]
  /\ inWakeup \in [Buffer -> BOOLEAN] /\ dispatching \in BOOLEAN
  /\ recs \in [first : 0 .. Len(Order) - 1, cursor : 0 .. Len(Order) - 1,
               countdown : 0 .. Len(Order), inRound : {dispatching}]
  /\ flowStatus \in [Flow -> BOOLEAN] /\ unannounced \subseteq Flow
  /\ outlet \in 0 .. Outlet
  /\ stack \in Seq(Calls)
  /\ stack = <<>> => ~dispatching /\ \A b \in Buffer : ~inWakeup[b]

(* Compounds of a flow leave in the order in which they came, none twice and
   none lost, although buffers are entered again from within their own calls:
   from the last one taken to the next one offered, the shared buffer and then
   the flow's own hold every number once, in order. *)
Between(f) == buffer[Lower] \o buffer[f]

Ahead(f, i) == Cardinality({j \in 1 .. i - 1 : Between(f)[j].flow = f})

KeepsOrder ==
  \A f \in Flow :
    /\ \A i \in 1 .. Len(Between(f)) : Between(f)[i].flow = f
         => Between(f)[i].number = (taken[f] + Ahead(f, i)) % Numbers
    /\ nextNumber[f] = (taken[f] + Ahead(f, Len(Between(f)) + 1)) % Numbers

(* Nobody waits in front of a unit that would accept: when the calls have
   returned, a buffer (or a source) that holds a compound was refused for a
   reason that still holds.  The one exception the code makes is a flow that
   was opened since. *)
Waits(b) == stack = <<>> /\ SendsOnce(b)

NobodyWaitsInVain ==
  /\ \A b \in Buffer : Waits(b) => b \in unannounced
  /\ stack = <<>> =>
       \A f \in Flow : backlog[f] > 0 => ~doIsAccepting(f, f)

(* Opening a flow makes the gate accept; the units above hear of it. *)
OpeningIsAnnounced == \A b \in Buffer : ~Waits(b)

(* The receptor wakes the units in the order in which they were connected,
   in every round again: a "round robin" that visits all of them ends where
   it began, and who was connected first is always served first. *)
EveryRoundAlike ==
  /\ recs.first = 0
  /\ hasNext(recs) => current(recs) = Order[Len(Order) - recs.countdown + 1]

(* The calls down and up, made from within each other, come to an end: no
   circle of wakeups, whatever the outside takes. *)
CallsReturn == stack /= <<>> ~> stack = <<>>
=============================================================================
