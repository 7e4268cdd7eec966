-------------------------- MODULE FlowControlProofs --------------------------
(***************************************************************************)
(* Proofs about the nested calls of FlowControl, for any number of flows,   *)
(* sizes of compounds and buffers, and whatever the outside does: the       *)
(* guards against nested wakeups and the rounds of the receptor agree with  *)
(* the calls under way, no buffer overflows, compounds keep their order,    *)
(* and nobody waits in front of a unit that would accept.                   *)
(***************************************************************************)
EXTENDS FlowControl, TLAPS, FiniteSetTheorems, SequenceTheorems, WellFoundedInduction

(* A round that has c units left has visited the others in their order; one
   that is over has turned the cursor once around.  The round is open exactly
   while the Dispatcher wakes, so that no round is started within another. *)
RoundType ==
  recs \in [first : {0}, cursor : Nat, countdown : 0 .. Len(Order), inRound : BOOLEAN]

RoundPlace == recs.cursor = IF recs.countdown = 0 THEN 0 ELSE Len(Order) - recs.countdown

RoundOpen == recs.inRound <=> dispatching

RoundInv == RoundType /\ RoundPlace /\ RoundOpen

(* The guards are set exactly while a call they guard is under way, and there
   is one such call at most.  The round is the wakeup of the shared buffer,
   and a source that is woken sends before the wakeup returns. *)
InStack(s, c) == \E i \in 1 .. Len(s) : s[i] = c

Guarded == {Call("woken", b) : b \in Buffer} \union {Call("round", Lower)}

Nested(s) ==
  /\ \A i, j \in 1 .. Len(s) : s[i] = s[j] /\ s[i] \in Guarded => i = j
  /\ \A i \in 1 .. Len(s) : s[i] = Call("round", Lower)
       => i < Len(s) /\ s[i + 1] = Call("woken", Lower)
  /\ \A i \in 2 .. Len(s), f \in Flow : s[i] = Call("woken", f) => s[i - 1] = Call("send", f)

StackInv ==
  /\ stack \in Seq(Calls)
  /\ inWakeup \in [Buffer -> BOOLEAN] /\ dispatching \in BOOLEAN
  /\ \A b \in Buffer : inWakeup[b] <=> InStack(stack, Call("woken", b))
  /\ dispatching <=> InStack(stack, Call("round", Lower))
  /\ Nested(stack)

-----------------------------------------------------------------------------
(* Calls and the stack.                                                    *)

LEMMA CallsApart ==
  /\ \A c, b, d, e : Call(c, b) = Call(d, e) => c = d /\ b = e
  /\ \A b \in Buffer : /\ Call("send", b) \in Calls /\ Call("tryToSend", b) \in Calls
                       /\ Call("woken", b) \in Calls
  /\ Call("round", Lower) \in Calls
<1>1. ASSUME NEW c, NEW b, NEW d, NEW e, Call(c, b) = Call(d, e) PROVE c = d /\ b = e
  <2>1. Call(c, b).call = Call(d, e).call /\ Call(c, b).of = Call(d, e).of
    BY <1>1
  <2> QED BY <2>1 DEF Call
<1> QED BY <1>1 DEF Calls, Call

LEMMA Places == Lower \in Buffer /\ Lower \notin Flow /\ (\A f \in Flow : f \in Buffer /\ f # Lower)
BY FlowAssumption DEF Buffer

LEMMA Push ==
  ASSUME NEW s \in Seq(Calls), NEW c \in Calls
  PROVE  /\ <<c>> \o s \in Seq(Calls) /\ Len(<<c>> \o s) = Len(s) + 1 /\ Len(s) \in Nat
         /\ (<<c>> \o s)[1] = c
         /\ \A i \in 2 .. Len(s) + 1 : (<<c>> \o s)[i] = s[i - 1]
         /\ \A x : InStack(<<c>> \o s, x) <=> x = c \/ InStack(s, x)
<1>1. /\ <<c>> \o s \in Seq(Calls) /\ Len(<<c>> \o s) = Len(s) + 1 /\ Len(s) \in Nat
      /\ (<<c>> \o s)[1] = c
  OBVIOUS
<1>2. \A i \in 2 .. Len(s) + 1 : (<<c>> \o s)[i] = s[i - 1]
  OBVIOUS
<1> DEFINE t == <<c>> \o s
<1> HIDE DEF t
<1>3. ASSUME NEW x PROVE InStack(t, x) <=> x = c \/ InStack(s, x)
  <2>0. /\ Len(t) = Len(s) + 1 /\ Len(s) \in Nat /\ t[1] = c
        /\ \A i \in 2 .. Len(s) + 1 : t[i] = s[i - 1]
    BY <1>1, <1>2 DEF t
  <2>1. ASSUME NEW i \in 1 .. Len(t), t[i] = x PROVE x = c \/ InStack(s, x)
    <3>1. CASE i = 1
      BY <2>0, <2>1, <3>1
    <3>2. CASE i > 1
      <4>1. i - 1 \in 1 .. Len(s) /\ s[i - 1] = x
        BY <2>0, <2>1, <3>2
      <4> QED BY <4>1 DEF InStack
    <3> QED BY <2>0, <3>1, <3>2
  <2>2. x = c => InStack(t, x)
    BY <2>0 DEF InStack
  <2>3. ASSUME NEW i \in 1 .. Len(s), s[i] = x PROVE InStack(t, x)
    <3>1. i + 1 \in 1 .. Len(t) /\ t[i + 1] = x
      BY <2>0, <2>3
    <3> QED BY <3>1 DEF InStack
  <2> QED BY <2>1, <2>2, <2>3 DEF InStack
<1> QED BY <1>1, <1>2, <1>3 DEF t

LEMMA Pop ==
  ASSUME NEW s \in Seq(Calls), s # <<>>
  PROVE  /\ Tail(s) \in Seq(Calls) /\ Len(Tail(s)) = Len(s) - 1 /\ Len(s) \in Nat \ {0}
         /\ Head(s) = s[1] /\ Head(s) \in Calls
         /\ \A i \in 1 .. Len(s) - 1 : Tail(s)[i] = s[i + 1]
         /\ \A x : InStack(s, x) <=> x = Head(s) \/ InStack(Tail(s), x)
<1>1. /\ Tail(s) \in Seq(Calls) /\ Len(Tail(s)) = Len(s) - 1 /\ Len(s) \in Nat \ {0}
      /\ Head(s) = s[1] /\ Head(s) \in Calls
  OBVIOUS
<1>2. \A i \in 1 .. Len(s) - 1 : Tail(s)[i] = s[i + 1]
  OBVIOUS
<1>3. s = <<Head(s)>> \o Tail(s)
  OBVIOUS
<1>4. \A x : InStack(<<Head(s)>> \o Tail(s), x) <=> x = Head(s) \/ InStack(Tail(s), x)
  BY <1>1, Push
<1> QED BY <1>1, <1>2, <1>3, <1>4

(* A call that returns leaves the others as they were. *)
LEMMA PopNested ==
  ASSUME NEW s \in Seq(Calls), s # <<>>, Nested(s)
  PROVE  /\ Nested(Tail(s))
         /\ Head(s) \in Guarded => ~InStack(Tail(s), Head(s))
<1> DEFINE t == Tail(s)
<1>1. /\ Len(t) = Len(s) - 1 /\ Len(s) \in Nat \ {0} /\ Head(s) = s[1]
      /\ \A i \in 1 .. Len(t) : t[i] = s[i + 1]
  BY Pop
<1> HIDE DEF t
<1>2. \A i, j \in 1 .. Len(t) : t[i] = t[j] /\ t[i] \in Guarded => i = j
  <2> SUFFICES ASSUME NEW i \in 1 .. Len(t), NEW j \in 1 .. Len(t), t[i] = t[j], t[i] \in Guarded
               PROVE  i = j
    OBVIOUS
  <2>1. i + 1 \in 1 .. Len(s) /\ j + 1 \in 1 .. Len(s) /\ s[i + 1] = s[j + 1] /\ s[i + 1] \in Guarded
    BY <1>1
  <2>2. i + 1 = j + 1
    BY <2>1 DEF Nested
  <2> QED BY <2>2
<1>3. \A i \in 1 .. Len(t) : t[i] = Call("round", Lower)
        => i < Len(t) /\ t[i + 1] = Call("woken", Lower)
  <2> SUFFICES ASSUME NEW i \in 1 .. Len(t), t[i] = Call("round", Lower)
               PROVE  i < Len(t) /\ t[i + 1] = Call("woken", Lower)
    OBVIOUS
  <2>1. i + 1 \in 1 .. Len(s) /\ s[i + 1] = Call("round", Lower)
    BY <1>1
  <2>2. i + 1 < Len(s) /\ s[i + 1 + 1] = Call("woken", Lower)
    BY <2>1 DEF Nested
  <2> QED BY <1>1, <2>2
<1>4. \A i \in 2 .. Len(t), f \in Flow : t[i] = Call("woken", f) => t[i - 1] = Call("send", f)
  <2> SUFFICES ASSUME NEW i \in 2 .. Len(t), NEW f \in Flow, t[i] = Call("woken", f)
               PROVE  t[i - 1] = Call("send", f)
    OBVIOUS
  <2>1. i + 1 \in 2 .. Len(s) /\ s[i + 1] = Call("woken", f) /\ i - 1 \in 1 .. Len(t)
    BY <1>1
  <2>2. s[(i + 1) - 1] = Call("send", f)
    BY <2>1 DEF Nested
  <2>3. t[i - 1] = s[(i - 1) + 1] /\ (i - 1) + 1 = (i + 1) - 1
    BY <1>1, <2>1
  <2> QED BY <2>2, <2>3
<1>5. ASSUME Head(s) \in Guarded, NEW i \in 1 .. Len(t), t[i] = Head(s) PROVE FALSE
  <2>1. i + 1 \in 1 .. Len(s) /\ s[i + 1] = s[1] /\ s[1] \in Guarded /\ 1 \in 1 .. Len(s)
    BY <1>1, <1>5
  <2>2. i + 1 = 1
    BY <2>1 DEF Nested
  <2> QED BY <2>2
<1>6. Nested(t)
  BY <1>2, <1>3, <1>4 DEF Nested
<1> QED BY <1>5, <1>6 DEF t, InStack

(* What is called from within a call that sends or makes a round. *)
LEMMA PushNested ==
  ASSUME NEW s \in Seq(Calls), Nested(s), NEW c \in Calls,
         c \in Guarded => ~InStack(s, c),
         c = Call("round", Lower) => s # <<>> /\ Head(s) = Call("woken", Lower),
         \A f \in Flow : s # <<>> /\ Head(s) = Call("woken", f) => c = Call("send", f)
  PROVE  Nested(<<c>> \o s)
<1> DEFINE t == <<c>> \o s
<1>1. /\ Len(t) = Len(s) + 1 /\ Len(s) \in Nat /\ t[1] = c
      /\ \A i \in 2 .. Len(t) : t[i] = s[i - 1]
  BY Push
<1>a. s # <<>> => Len(s) \in Nat \ {0} /\ Head(s) = s[1]
  BY Pop
<1> HIDE DEF t
<1>2. \A i, j \in 1 .. Len(t) : t[i] = t[j] /\ t[i] \in Guarded => i = j
  <2>1. ASSUME NEW i \in 2 .. Len(t), t[i] = c, c \in Guarded PROVE FALSE
    <3>1. i - 1 \in 1 .. Len(s) /\ s[i - 1] = c
      BY <1>1, <2>1
    <3> QED BY <2>1, <3>1 DEF InStack
  <2>2. ASSUME NEW i \in 2 .. Len(t), NEW j \in 2 .. Len(t), t[i] = t[j], t[i] \in Guarded
        PROVE  i = j
    <3>1. i - 1 \in 1 .. Len(s) /\ j - 1 \in 1 .. Len(s) /\ s[i - 1] = s[j - 1] /\ s[i - 1] \in Guarded
      BY <1>1, <2>2
    <3>2. i - 1 = j - 1
      BY <3>1 DEF Nested
    <3> QED BY <3>2
  <2> SUFFICES ASSUME NEW i \in 1 .. Len(t), NEW j \in 1 .. Len(t), t[i] = t[j], t[i] \in Guarded
               PROVE  i = j
    OBVIOUS
  <2>3. CASE i = 1 /\ j = 1
    BY <2>3
  <2>4. CASE i = 1 /\ j # 1
    <3>1. j \in 2 .. Len(t)
      BY <1>1, <2>4
    <3> QED BY <1>1, <2>1, <2>4, <3>1
  <2>5. CASE i # 1 /\ j = 1
    <3>1. i \in 2 .. Len(t)
      BY <1>1, <2>5
    <3> QED BY <1>1, <2>1, <2>5, <3>1
  <2>6. CASE i # 1 /\ j # 1
    <3>1. i \in 2 .. Len(t) /\ j \in 2 .. Len(t)
      BY <1>1, <2>6
    <3> QED BY <2>2, <3>1
  <2> QED BY <2>3, <2>4, <2>5, <2>6
<1>3. \A i \in 1 .. Len(t) : t[i] = Call("round", Lower)
        => i < Len(t) /\ t[i + 1] = Call("woken", Lower)
  <2> SUFFICES ASSUME NEW i \in 1 .. Len(t), t[i] = Call("round", Lower)
               PROVE  i < Len(t) /\ t[i + 1] = Call("woken", Lower)
    OBVIOUS
  <2>1. CASE i = 1
    <3>1. s # <<>> /\ s[1] = Call("woken", Lower)
      BY <1>1, <1>a, <2>1
    <3>2. 2 \in 2 .. Len(t)
      BY <1>1, <1>a, <3>1
    <3>3. t[2] = s[2 - 1]
      BY <1>1, <3>2
    <3> QED BY <2>1, <3>1, <3>2, <3>3, <1>1
  <2>2. CASE i # 1
    <3>1. i - 1 \in 1 .. Len(s) /\ s[i - 1] = Call("round", Lower)
      BY <1>1, <2>2
    <3>2. i - 1 < Len(s) /\ s[(i - 1) + 1] = Call("woken", Lower)
      BY <3>1 DEF Nested
    <3>3. i + 1 \in 2 .. Len(t)
      BY <1>1, <2>2, <3>2
    <3>4. t[i + 1] = s[(i + 1) - 1]
      BY <1>1, <3>3
    <3>5. (i + 1) - 1 = (i - 1) + 1 /\ i < Len(t)
      BY <1>1, <3>2
    <3> QED BY <3>2, <3>4, <3>5
  <2> QED BY <2>1, <2>2
<1>4. \A i \in 2 .. Len(t), f \in Flow : t[i] = Call("woken", f) => t[i - 1] = Call("send", f)
  <2> SUFFICES ASSUME NEW i \in 2 .. Len(t), NEW f \in Flow, t[i] = Call("woken", f)
               PROVE  t[i - 1] = Call("send", f)
    OBVIOUS
  <2>1. s[i - 1] = Call("woken", f) /\ i - 1 \in 1 .. Len(s)
    BY <1>1
  <2>2. CASE i = 2
    <3>1. s # <<>> /\ Head(s) = Call("woken", f)
      BY <1>a, <2>1, <2>2
    <3> QED BY <1>1, <2>2, <3>1
  <2>3. CASE i # 2
    <3>1. i - 1 \in 2 .. Len(s) /\ i - 1 \in 2 .. Len(t)
      BY <1>1, <2>1, <2>3
    <3>2. s[(i - 1) - 1] = Call("send", f)
      BY <2>1, <3>1 DEF Nested
    <3> QED BY <1>1, <3>1, <3>2
  <2> QED BY <2>2, <2>3
<1>5. Nested(t)
  BY <1>2, <1>3, <1>4 DEF Nested
<1> QED BY <1>5 DEF t

-----------------------------------------------------------------------------
(* The guards and the calls under way.                                     *)

LEMMA Unguarded ==
  \A b \in Buffer : Call("send", b) \notin Guarded /\ Call("tryToSend", b) \notin Guarded
BY CallsApart DEF Guarded

(* A call from outside, or from within one that sends or makes a round. *)
LEMMA CallNests ==
  ASSUME StackInv, NEW c \in Calls, c \notin Guarded,
         stack # <<>> => \A b \in Buffer : Head(stack) # Call("woken", b),
         stack' = <<c>> \o stack, UNCHANGED <<inWakeup, dispatching>>
  PROVE  StackInv'
<1>1. \A x : InStack(stack', x) <=> x = c \/ InStack(stack, x)
  BY Push DEF StackInv
<1>2. stack' \in Seq(Calls)
  BY Push DEF StackInv
<1>3. Nested(stack')
  <2>1. c # Call("round", Lower)
    BY DEF Guarded
  <2>2. \A f \in Flow : stack # <<>> /\ Head(stack) = Call("woken", f) => c = Call("send", f)
    BY Places
  <2> QED BY <2>1, <2>2, PushNested DEF StackInv
<1>4. \A b \in Buffer : c # Call("woken", b)
  BY DEF Guarded
<1>5. c # Call("round", Lower)
  BY DEF Guarded
<1> QED BY <1>1, <1>2, <1>3, <1>4, <1>5 DEF StackInv

LEMMA CallReturns ==
  ASSUME StackInv, stack # <<>>, Head(stack) \notin Guarded,
         stack' = Tail(stack), UNCHANGED <<inWakeup, dispatching>>
  PROVE  StackInv'
<1>1. \A x : InStack(stack, x) <=> x = Head(stack) \/ InStack(stack', x)
  BY Pop DEF StackInv
<1>2. stack' \in Seq(Calls)
  BY Pop DEF StackInv
<1>3. Nested(stack')
  BY PopNested DEF StackInv
<1>4. \A b \in Buffer : Head(stack) # Call("woken", b)
  BY DEF Guarded
<1>5. Head(stack) # Call("round", Lower)
  BY DEF Guarded
<1> QED BY <1>1, <1>2, <1>3, <1>4, <1>5 DEF StackInv

LEMMA Runs ==
  ASSUME NEW c, NEW b, Running(c, b)
  PROVE  /\ stack # <<>> /\ Head(stack) = Call(c, b)
         /\ \A d, e : d # c \/ e # b => Head(stack) # Call(d, e)
BY CallsApart DEF Running

(* Who tries to send was not called by the wakeup of a source. *)
LEMMA NotWokenBelow ==
  ASSUME NEW s \in Seq(Calls), s # <<>>, Nested(s), NEW b, Head(s) = Call("tryToSend", b),
         NEW g \in Flow, Tail(s) # <<>>
  PROVE  Head(Tail(s)) # Call("woken", g)
<1> DEFINE t == Tail(s)
<1>1. /\ t \in Seq(Calls) /\ Len(t) = Len(s) - 1 /\ Len(s) \in Nat /\ Head(s) = s[1]
      /\ \A i \in 1 .. Len(s) - 1 : t[i] = s[i + 1]
  BY Pop
<1>2. Len(t) \in Nat \ {0} /\ Head(t) = t[1]
  BY <1>1, Pop
<1> HIDE DEF t
<1>3. 1 \in 1 .. Len(s) - 1 /\ 2 \in 2 .. Len(s)
  BY <1>1, <1>2
<1>4. t[1] = s[2]
  BY <1>1, <1>3
<1>5. s[2] = Call("woken", g) => s[2 - 1] = Call("send", g)
  BY <1>3 DEF Nested
<1>6. s[2 - 1] # Call("send", g)
  BY <1>1, CallsApart
<1> QED BY <1>2, <1>4, <1>5, <1>6 DEF t

(* A buffer wakes the unit above it only when it is not in a wakeup. *)
LEMMA WakeSourceNests ==
  ASSUME StackInv, NEW f \in Flow, WakeSource(f)
  PROVE  StackInv'
<1> DEFINE w == Call("woken", f)
           s == Tail(stack)
           t == <<w>> \o s
<1>1. /\ f \in Buffer /\ stack # <<>> /\ Head(stack) = Call("tryToSend", f)
      /\ stack \in Seq(Calls) /\ Nested(stack) /\ ~inWakeup[f]
  BY Places, Runs DEF WakeSource, StackInv, MayWake
<1>2. w \in Calls /\ w \in Guarded /\ Call("send", f) \in Calls /\ Call("send", f) \notin Guarded
  BY <1>1, CallsApart, Unguarded DEF Guarded
<1>3. s \in Seq(Calls) /\ Nested(s) /\ (\A x : InStack(stack, x) <=> x = Head(stack) \/ InStack(s, x))
  BY <1>1, Pop, PopNested
<1>4. stack' = <<Call("send", f)>> \o t
  <2>1. stack' = <<Call("send", f), w>> \o s
    BY DEF WakeSource
  <2>2. <<Call("send", f), w>> \o s = <<Call("send", f)>> \o (<<w>> \o s)
    BY <1>2, <1>3
  <2> QED BY <2>1, <2>2
<1>5. ~InStack(s, w)
  BY <1>1, <1>3 DEF StackInv
<1>6. ASSUME NEW g \in Flow, s # <<>>, Head(s) = Call("woken", g) PROVE FALSE
  BY <1>1, <1>6, NotWokenBelow
<1>7. t \in Seq(Calls) /\ (\A x : InStack(t, x) <=> x = w \/ InStack(s, x))
      /\ t # <<>> /\ Head(t) = w
  <2>1. t \in Seq(Calls) /\ (\A x : InStack(t, x) <=> x = w \/ InStack(s, x))
    BY <1>2, <1>3, Push
  <2> QED BY <1>2, <1>3, <2>1
<1>8. w # Call("round", Lower)
  BY CallsApart
<1>9. Nested(t)
  <2>1. \A g \in Flow : s # <<>> /\ Head(s) = Call("woken", g) => w = Call("send", g)
    BY <1>6
  <2> QED BY <1>2, <1>3, <1>5, <1>8, <2>1, PushNested
<1> HIDE DEF s, t
<1>10. stack' \in Seq(Calls)
       /\ (\A x : InStack(stack', x) <=> x = Call("send", f) \/ InStack(t, x))
  BY <1>2, <1>4, <1>7, Push
<1>11. Nested(stack')
  <2>1. \A g \in Flow : t # <<>> /\ Head(t) = Call("woken", g) => Call("send", f) = Call("send", g)
    BY <1>7, CallsApart
  <2>2. Call("send", f) # Call("round", Lower)
    BY CallsApart
  <2> QED BY <1>2, <1>4, <1>7, <1>9, <2>1, <2>2, PushNested
<1>12. \A x : InStack(stack', x) \/ x = Call("tryToSend", f)
                <=> x \in {Call("send", f), w, Call("tryToSend", f)} \/ InStack(stack, x)
  BY <1>1, <1>3, <1>7, <1>10
<1>13. inWakeup' = [inWakeup EXCEPT ![f] = TRUE] /\ dispatching' = dispatching
  BY DEF WakeSource, roundVars
<1>14. ASSUME NEW b \in Buffer PROVE inWakeup'[b] <=> InStack(stack', Call("woken", b))
  <2>1. inWakeup \in [Buffer -> BOOLEAN] /\ (inWakeup[b] <=> InStack(stack, Call("woken", b)))
    BY DEF StackInv
  <2>2. Call("woken", b) # Call("send", f) /\ Call("woken", b) # Call("tryToSend", f)
    BY CallsApart
  <2>3. CASE b = f
    <3>1. InStack(stack', w) /\ inWakeup'[b] = TRUE
      BY <1>7, <1>10, <1>13, <2>1, <2>3
    <3> QED BY <2>3, <3>1
  <2>4. CASE b # f
    <3>1. Call("woken", b) # w
      BY <2>4, CallsApart
    <3>2. InStack(stack', Call("woken", b)) <=> InStack(stack, Call("woken", b))
      BY <1>12, <2>2, <3>1
    <3>3. inWakeup'[b] = inWakeup[b]
      BY <1>13, <2>1, <2>4
    <3> QED BY <2>1, <3>2, <3>3
  <2> QED BY <2>3, <2>4
<1>15. dispatching' <=> InStack(stack', Call("round", Lower))
  <2>1. Call("round", Lower) \notin {Call("send", f), w, Call("tryToSend", f)}
    BY CallsApart
  <2> QED BY <1>12, <1>13, <2>1 DEF StackInv
<1>16. inWakeup' \in [Buffer -> BOOLEAN] /\ dispatching' \in BOOLEAN
  BY <1>13 DEF StackInv
<1> QED BY <1>10, <1>11, <1>14, <1>15, <1>16 DEF StackInv

(* Whoever is in a round was woken by the shared buffer: a wakeup of it never
   finds the Dispatcher dispatching. *)
LEMMA RoundIsWakeup == StackInv /\ dispatching => inWakeup[Lower]
<1> SUFFICES ASSUME StackInv, dispatching PROVE inWakeup[Lower]
  OBVIOUS
<1>1. PICK i \in 1 .. Len(stack) : stack[i] = Call("round", Lower)
  BY DEF StackInv, InStack
<1>2. i < Len(stack) /\ stack[i + 1] = Call("woken", Lower)
  BY <1>1 DEF StackInv, Nested
<1>3. Len(stack) \in Nat
  BY DEF StackInv
<1>4. i + 1 \in 1 .. Len(stack)
  BY <1>2, <1>3
<1>5. InStack(stack, Call("woken", Lower))
  BY <1>2, <1>4 DEF InStack
<1> QED BY <1>5, Places DEF StackInv

LEMMA WakeDispatcherNests ==
  ASSUME StackInv, WakeDispatcher
  PROVE  StackInv' /\ stack' = <<Call("round", Lower), Call("woken", Lower)>> \o Tail(stack)
<1> DEFINE w == Call("woken", Lower)
           r == Call("round", Lower)
           s == Tail(stack)
           t == <<w>> \o s
<1>1. /\ Lower \in Buffer /\ stack # <<>> /\ Head(stack) = Call("tryToSend", Lower)
      /\ stack \in Seq(Calls) /\ Nested(stack) /\ ~inWakeup[Lower]
  BY Places, Runs DEF WakeDispatcher, StackInv, MayWake
<1>2. w \in Calls /\ w \in Guarded /\ r \in Calls /\ r \in Guarded
  BY <1>1, CallsApart DEF Guarded
<1>3. s \in Seq(Calls) /\ Nested(s) /\ (\A x : InStack(stack, x) <=> x = Head(stack) \/ InStack(s, x))
  BY <1>1, Pop, PopNested
<1>4. /\ ~dispatching /\ stack' = <<r, w>> \o s
      /\ inWakeup' = [inWakeup EXCEPT ![Lower] = TRUE] /\ dispatching' = TRUE
  BY <1>1, RoundIsWakeup DEF WakeDispatcher
<1>5. ~InStack(s, w) /\ ~InStack(s, r)
  BY <1>1, <1>3, <1>4 DEF StackInv
<1>6. ASSUME NEW g \in Flow, s # <<>>, Head(s) = Call("woken", g) PROVE FALSE
  BY <1>1, <1>6, NotWokenBelow
<1>7. t \in Seq(Calls) /\ (\A x : InStack(t, x) <=> x = w \/ InStack(s, x))
      /\ t # <<>> /\ Head(t) = w
  <2>1. t \in Seq(Calls) /\ (\A x : InStack(t, x) <=> x = w \/ InStack(s, x))
    BY <1>2, <1>3, Push
  <2> QED BY <1>2, <1>3, <2>1
<1>8. w # r
  BY CallsApart
<1>9. Nested(t)
  <2>1. \A g \in Flow : s # <<>> /\ Head(s) = Call("woken", g) => w = Call("send", g)
    BY <1>6
  <2> QED BY <1>2, <1>3, <1>5, <1>8, <2>1, PushNested
<1>10. stack' = <<r>> \o t
  BY <1>2, <1>3, <1>4
<1>11. stack' = <<Call("round", Lower), Call("woken", Lower)>> \o Tail(stack)
  BY <1>4
<1> HIDE DEF s, t
<1>12. stack' \in Seq(Calls) /\ (\A x : InStack(stack', x) <=> x = r \/ InStack(t, x))
  BY <1>2, <1>7, <1>10, Push
<1>13. Nested(stack')
  <2>1. \A g \in Flow : t # <<>> /\ Head(t) = Call("woken", g) => r = Call("send", g)
    BY <1>7, CallsApart, Places
  <2>2. ~InStack(t, r)
    BY <1>5, <1>7, <1>8
  <2> QED BY <1>2, <1>7, <1>9, <1>10, <2>1, <2>2, PushNested
<1>14. \A x : InStack(stack', x) \/ x = Call("tryToSend", Lower)
                <=> x \in {r, w, Call("tryToSend", Lower)} \/ InStack(stack, x)
  BY <1>1, <1>3, <1>7, <1>12
<1>15. ASSUME NEW b \in Buffer PROVE inWakeup'[b] <=> InStack(stack', Call("woken", b))
  <2>1. inWakeup \in [Buffer -> BOOLEAN] /\ (inWakeup[b] <=> InStack(stack, Call("woken", b)))
    BY DEF StackInv
  <2>2. Call("woken", b) # r /\ Call("woken", b) # Call("tryToSend", Lower)
    BY CallsApart
  <2>3. CASE b = Lower
    <3>1. InStack(stack', w) /\ inWakeup'[b] = TRUE
      BY <1>7, <1>12, <1>4, <2>1, <2>3
    <3> QED BY <2>3, <3>1
  <2>4. CASE b # Lower
    <3>1. Call("woken", b) # w
      BY <2>4, CallsApart
    <3>2. InStack(stack', Call("woken", b)) <=> InStack(stack, Call("woken", b))
      BY <1>14, <2>2, <3>1
    <3>3. inWakeup'[b] = inWakeup[b]
      BY <1>4, <2>1, <2>4
    <3> QED BY <2>1, <3>2, <3>3
  <2> QED BY <2>3, <2>4
<1>16. dispatching' <=> InStack(stack', Call("round", Lower))
  BY <1>4, <1>12
<1>17. inWakeup' \in [Buffer -> BOOLEAN] /\ dispatching' \in BOOLEAN
  BY <1>4 DEF StackInv
<1>18. StackInv'
  BY <1>12, <1>13, <1>15, <1>16, <1>17 DEF StackInv
<1> QED BY <1>11, <1>18

(* When the wakeup of the shared buffer returns, the round it was for is over. *)
LEMMA WakeupReturnNests ==
  ASSUME StackInv, NEW b \in Buffer, WakeupReturns(b)
  PROVE  StackInv' /\ (b = Lower => ~dispatching)
<1> DEFINE w == Call("woken", b)
<1>1. /\ stack # <<>> /\ Head(stack) = w /\ stack \in Seq(Calls) /\ Nested(stack) /\ w \in Guarded
      /\ stack' = Tail(stack) /\ inWakeup' = [inWakeup EXCEPT ![b] = FALSE]
      /\ dispatching' = dispatching
  BY Runs DEF WakeupReturns, StackInv, Guarded, roundVars
<1>2. stack' \in Seq(Calls) /\ (\A x : InStack(stack, x) <=> x = Head(stack) \/ InStack(stack', x))
  BY <1>1, Pop
<1>3. Nested(stack') /\ ~InStack(stack', w)
  BY <1>1, PopNested
<1>4. ASSUME NEW d \in Buffer PROVE inWakeup'[d] <=> InStack(stack', Call("woken", d))
  <2>1. inWakeup \in [Buffer -> BOOLEAN] /\ (inWakeup[d] <=> InStack(stack, Call("woken", d)))
    BY DEF StackInv
  <2>2. CASE d = b
    <3>1. inWakeup'[d] = FALSE
      BY <1>1, <2>1, <2>2
    <3> QED BY <1>3, <2>2, <3>1
  <2>3. CASE d # b
    <3>1. Call("woken", d) # w
      BY <2>3, CallsApart
    <3>2. inWakeup'[d] = inWakeup[d]
      BY <1>1, <2>1, <2>3
    <3> QED BY <1>1, <1>2, <2>1, <3>1, <3>2
  <2> QED BY <2>2, <2>3
<1>5. dispatching' <=> InStack(stack', Call("round", Lower))
  <2>1. Call("round", Lower) # w
    BY CallsApart
  <2> QED BY <1>1, <1>2, <2>1 DEF StackInv
<1>6. inWakeup' \in [Buffer -> BOOLEAN] /\ dispatching' \in BOOLEAN
  BY <1>1 DEF StackInv
<1>7. ASSUME b = Lower, dispatching PROVE FALSE
  <2>1. PICK i \in 1 .. Len(stack) : stack[i] = Call("round", Lower)
    BY <1>7 DEF StackInv, InStack
  <2>2. i < Len(stack) /\ stack[i + 1] = Call("woken", Lower)
    BY <1>1, <2>1 DEF Nested
  <2>3. Len(stack) \in Nat /\ Head(stack) = stack[1]
    BY <1>1, Pop
  <2>4. 1 \in 1 .. Len(stack) /\ i + 1 \in 1 .. Len(stack) /\ stack[1] = stack[i + 1] /\ stack[1] \in Guarded
    BY <1>1, <1>7, <2>2, <2>3
  <2>5. 1 = i + 1
    BY <1>1, <2>4 DEF Nested
  <2> QED BY <2>5
<1> QED BY <1>2, <1>3, <1>4, <1>5, <1>6, <1>7 DEF StackInv

LEMMA RoundEndNests ==
  ASSUME StackInv, RoundEnds
  PROVE  StackInv'
<1> DEFINE r == Call("round", Lower)
<1>1. /\ stack # <<>> /\ Head(stack) = r /\ stack \in Seq(Calls) /\ Nested(stack) /\ r \in Guarded
      /\ stack' = Tail(stack) /\ inWakeup' = inWakeup /\ dispatching' = FALSE
  BY Runs DEF RoundEnds, StackInv, Guarded
<1>2. stack' \in Seq(Calls) /\ (\A x : InStack(stack, x) <=> x = Head(stack) \/ InStack(stack', x))
  BY <1>1, Pop
<1>3. Nested(stack') /\ ~InStack(stack', r)
  BY <1>1, PopNested
<1>4. ASSUME NEW b \in Buffer PROVE inWakeup'[b] <=> InStack(stack', Call("woken", b))
  <2>1. Call("woken", b) # r
    BY CallsApart
  <2> QED BY <1>1, <1>2, <2>1 DEF StackInv
<1>5. inWakeup' \in [Buffer -> BOOLEAN] /\ dispatching' \in BOOLEAN
  BY <1>1 DEF StackInv
<1> QED BY <1>1, <1>2, <1>3, <1>4, <1>5 DEF StackInv

-----------------------------------------------------------------------------
(* What a buffer holds: rest[i] is the size of the compounds from the i-th on, *)
(* place[i] the number of the next compound of the flow f from there on.       *)

Sums(s, n) ==
  \E rest \in [1 .. Len(s) + 1 -> Nat] :
    /\ rest[1] = n /\ rest[Len(s) + 1] = 0
    /\ \A i \in 1 .. Len(s) : rest[i] = rest[i + 1] + Length[s[i].flow]

Number == 0 .. Numbers - 1

Succ(n) == (n + 1) % Numbers

Placed(s, f, first, last) ==
  \E place \in [1 .. Len(s) + 1 -> Number] :
    /\ place[1] = first /\ place[Len(s) + 1] = last
    /\ \A i \in 1 .. Len(s) :
         IF s[i].flow = f THEN s[i].number = place[i] /\ place[i + 1] = Succ(place[i])
                          ELSE place[i + 1] = place[i]

LEMMA Numerals ==
  /\ Numbers \in Nat /\ Numbers > 1
  /\ \A n \in Number : Succ(n) \in Number
  /\ \A f \in Flow : Length[f] \in Nat /\ Length[f] > 0
  /\ \A b \in Buffer : MaxSize[b] \in Nat /\ MaxSize[b] > 0
<1>1. (\A f \in Flow : Length[f] \in Nat /\ Length[f] > 0)
      /\ (\A b \in Buffer : MaxSize[b] \in Nat /\ MaxSize[b] > 0)
  BY SizeAssumption
<1>2. PICK f \in Flow : TRUE
  BY FlowAssumption
<1>3. Numbers \in Nat /\ MaxSize[f] + MaxSize[Lower] < Numbers
  BY <1>2, SizeAssumption, BoundAssumption
<1>4. Numbers > 1
  BY <1>1, <1>2, <1>3, Places
<1>5. \A n \in Number : Succ(n) \in Number
  BY <1>3, <1>4 DEF Succ, Number
<1> QED BY <1>1, <1>3, <1>4, <1>5

LEMMA CompoundShape ==
  /\ \A c \in Compound : c.flow \in Flow /\ c.number \in Number
                         /\ Length[c.flow] \in Nat /\ Length[c.flow] > 0
  /\ \A f \in Flow, n \in Number : [flow |-> f, number |-> n] \in Compound
BY Numerals DEF Compound, Number

LEMMA Appended ==
  ASSUME NEW s \in Seq(Compound), NEW c \in Compound
  PROVE  /\ Append(s, c) \in Seq(Compound) /\ Len(Append(s, c)) = Len(s) + 1 /\ Len(s) \in Nat
         /\ Append(s, c)[Len(s) + 1] = c /\ Append(s, c) # <<>>
         /\ \A i \in 1 .. Len(s) : Append(s, c)[i] = s[i] /\ s[i] \in Compound
OBVIOUS

LEMMA Removed ==
  ASSUME NEW s \in Seq(Compound), s # <<>>
  PROVE  /\ Tail(s) \in Seq(Compound) /\ Len(Tail(s)) = Len(s) - 1 /\ Len(s) \in Nat \ {0}
         /\ Head(s) = s[1] /\ Head(s) \in Compound
         /\ \A i \in 1 .. Len(s) - 1 : Tail(s)[i] = s[i + 1]
         /\ \A i \in 1 .. Len(s) : s[i] \in Compound
OBVIOUS

LEMMA SumsOfNothing ==
  /\ Sums(<<>>, 0)
  /\ \A n : Sums(<<>>, n) => n = 0
<1>1. Sums(<<>>, 0)
  <2> DEFINE rest == [i \in 1 .. Len(<<>>) + 1 |-> 0]
  <2>1. rest \in [1 .. Len(<<>>) + 1 -> Nat] /\ rest[1] = 0 /\ rest[Len(<<>>) + 1] = 0
    OBVIOUS
  <2>2. \A i \in 1 .. Len(<<>>) : FALSE
    OBVIOUS
  <2> HIDE DEF rest
  <2> QED BY <2>1, <2>2 DEF Sums
<1>2. ASSUME NEW n, Sums(<<>>, n) PROVE n = 0
  BY <1>2 DEF Sums
<1> QED BY <1>1, <1>2

LEMMA SumsAppend ==
  ASSUME NEW s \in Seq(Compound), NEW c \in Compound, NEW n, Sums(s, n)
  PROVE  n \in Nat /\ Sums(Append(s, c), n + Length[c.flow])
<1> DEFINE t == Append(s, c)
<1>1. /\ Len(t) = Len(s) + 1 /\ Len(s) \in Nat /\ t[Len(s) + 1] = c
      /\ \A i \in 1 .. Len(s) : t[i] = s[i] /\ s[i] \in Compound
  BY Appended
<1> HIDE DEF t
<1>2. PICK rest \in [1 .. Len(s) + 1 -> Nat] :
        /\ rest[1] = n /\ rest[Len(s) + 1] = 0
        /\ \A i \in 1 .. Len(s) : rest[i] = rest[i + 1] + Length[s[i].flow]
  BY DEF Sums
<1>3. Length[c.flow] \in Nat /\ n \in Nat
  BY <1>1, <1>2, CompoundShape
<1> DEFINE m == Length[c.flow]
           all == [i \in 1 .. Len(t) + 1 |-> IF i = Len(t) + 1 THEN 0 ELSE rest[i] + m]
<1>4. all \in [1 .. Len(t) + 1 -> Nat]
  <2>1. \A i \in 1 .. Len(t) + 1 : i # Len(t) + 1 => i \in 1 .. Len(s) + 1
    BY <1>1
  <2>2. m \in Nat
    BY <1>3
  <2>3. \A i \in 1 .. Len(t) + 1 : i # Len(t) + 1 => rest[i] + m \in Nat
    <3> HIDE DEF m
    <3> QED BY <1>2, <2>1, <2>2
  <2> QED BY <2>3
<1>5. all[1] = n + m /\ all[Len(t) + 1] = 0
  BY <1>1, <1>2
<1>6. ASSUME NEW i \in 1 .. Len(t) PROVE all[i] = all[i + 1] + Length[t[i].flow]
  <2>1. i \in 1 .. Len(t) + 1 /\ i + 1 \in 1 .. Len(t) + 1 /\ i # Len(t) + 1
    BY <1>1
  <2>2. all[i] = rest[i] + m
    BY <2>1
  <2>3. CASE i = Len(t)
    BY <1>1, <1>2, <1>3, <2>2, <2>3
  <2>4. CASE i # Len(t)
    <3>1. i \in 1 .. Len(s) /\ i + 1 \in 1 .. Len(s) + 1 /\ i + 1 # Len(t) + 1
      BY <1>1, <2>4
    <3>2. all[i + 1] = rest[i + 1] + m /\ t[i] = s[i] /\ s[i] \in Compound
      BY <1>1, <2>1, <3>1
    <3>3. rest[i + 1] \in Nat /\ Length[s[i].flow] \in Nat
          /\ rest[i] = rest[i + 1] + Length[s[i].flow]
      BY <1>2, <3>1, <3>2, CompoundShape
    <3> QED BY <1>3, <2>2, <3>2, <3>3
  <2> QED BY <2>3, <2>4
<1> HIDE DEF all
<1>7. Sums(t, n + m)
  BY <1>4, <1>5, <1>6 DEF Sums
<1> QED BY <1>3, <1>7 DEF t

LEMMA SumsTail ==
  ASSUME NEW s \in Seq(Compound), s # <<>>, NEW n, Sums(s, n)
  PROVE  n \in Nat /\ n - Length[Head(s).flow] \in Nat /\ Sums(Tail(s), n - Length[Head(s).flow])
<1> DEFINE t == Tail(s)
<1>1. /\ Len(t) = Len(s) - 1 /\ Len(s) \in Nat \ {0} /\ Head(s) = s[1]
      /\ \A i \in 1 .. Len(t) : t[i] = s[i + 1]
      /\ \A i \in 1 .. Len(s) : s[i] \in Compound
  BY Removed
<1> HIDE DEF t
<1>2. PICK rest \in [1 .. Len(s) + 1 -> Nat] :
        /\ rest[1] = n /\ rest[Len(s) + 1] = 0
        /\ \A i \in 1 .. Len(s) : rest[i] = rest[i + 1] + Length[s[i].flow]
  BY DEF Sums
<1> DEFINE m == Length[Head(s).flow]
           all == [i \in 1 .. Len(t) + 1 |-> rest[i + 1]]
<1>3. /\ 1 \in 1 .. Len(s) /\ 1 \in 1 .. Len(s) + 1 /\ 1 + 1 \in 1 .. Len(s) + 1
      /\ s[1] \in Compound
  BY <1>1
<1>4. m \in Nat /\ n \in Nat /\ rest[1 + 1] \in Nat /\ n = rest[1 + 1] + m
  BY <1>1, <1>2, <1>3, CompoundShape
<1>5. all \in [1 .. Len(t) + 1 -> Nat]
  <2>1. \A i \in 1 .. Len(t) + 1 : i + 1 \in 1 .. Len(s) + 1
    BY <1>1
  <2> QED BY <1>2, <2>1
<1>6. all[1] = n - m /\ all[Len(t) + 1] = 0
  <2>1. 1 \in 1 .. Len(t) + 1 /\ Len(t) + 1 \in 1 .. Len(t) + 1 /\ Len(t) + 1 + 1 = Len(s) + 1
    BY <1>1
  <2> QED BY <1>2, <1>4, <2>1
<1>7. ASSUME NEW i \in 1 .. Len(t) PROVE all[i] = all[i + 1] + Length[t[i].flow]
  <2>1. i \in 1 .. Len(t) + 1 /\ i + 1 \in 1 .. Len(t) + 1 /\ i + 1 \in 1 .. Len(s)
    BY <1>1
  <2>2. all[i] = rest[i + 1] /\ all[i + 1] = rest[(i + 1) + 1] /\ t[i] = s[i + 1]
    BY <1>1, <2>1
  <2>3. rest[i + 1] = rest[(i + 1) + 1] + Length[s[i + 1].flow]
    BY <1>2, <2>1
  <2> QED BY <2>2, <2>3
<1> HIDE DEF all
<1>8. Sums(t, n - m)
  BY <1>5, <1>6, <1>7 DEF Sums
<1>9. n - m \in Nat
  BY <1>4
<1> QED BY <1>4, <1>8, <1>9 DEF t

LEMMA PlacedNothing ==
  ASSUME NEW f, NEW n \in Number
  PROVE  Placed(<<>>, f, n, n)
<1> DEFINE place == [i \in 1 .. Len(<<>>) + 1 |-> n]
<1>1. place \in [1 .. Len(<<>>) + 1 -> Number] /\ place[1] = n /\ place[Len(<<>>) + 1] = n
  OBVIOUS
<1>2. \A i \in 1 .. Len(<<>>) : FALSE
  OBVIOUS
<1> HIDE DEF place
<1> QED BY <1>1, <1>2 DEF Placed

LEMMA PlacedAppend ==
  ASSUME NEW s \in Seq(Compound), NEW c \in Compound, NEW f, NEW x, NEW y, Placed(s, f, x, y),
         c.flow = f => c.number = y
  PROVE  Placed(Append(s, c), f, x, IF c.flow = f THEN Succ(y) ELSE y)
<1> DEFINE t == Append(s, c)
           z == IF c.flow = f THEN Succ(y) ELSE y
<1>1. /\ Len(t) = Len(s) + 1 /\ Len(s) \in Nat /\ t[Len(s) + 1] = c
      /\ \A i \in 1 .. Len(s) : t[i] = s[i]
  BY Appended
<1> HIDE DEF t
<1>2. PICK place \in [1 .. Len(s) + 1 -> Number] :
        /\ place[1] = x /\ place[Len(s) + 1] = y
        /\ \A i \in 1 .. Len(s) :
             IF s[i].flow = f THEN s[i].number = place[i] /\ place[i + 1] = Succ(place[i])
                              ELSE place[i + 1] = place[i]
  BY DEF Placed
<1> DEFINE all == [i \in 1 .. Len(t) + 1 |-> IF i = Len(t) + 1 THEN z ELSE place[i]]
<1>3. z \in Number
  BY <1>1, <1>2, Numerals
<1>4. all \in [1 .. Len(t) + 1 -> Number]
  <2>1. \A i \in 1 .. Len(t) + 1 : i # Len(t) + 1 => i \in 1 .. Len(s) + 1
    BY <1>1
  <2> HIDE DEF z
  <2> QED BY <1>2, <1>3, <2>1
<1>5. all[1] = x /\ all[Len(t) + 1] = z
  BY <1>1, <1>2
<1>6. ASSUME NEW i \in 1 .. Len(t)
      PROVE  IF t[i].flow = f THEN t[i].number = all[i] /\ all[i + 1] = Succ(all[i])
                              ELSE all[i + 1] = all[i]
  <2>1. i \in 1 .. Len(t) + 1 /\ i + 1 \in 1 .. Len(t) + 1 /\ i # Len(t) + 1 /\ all[i] = place[i]
    BY <1>1
  <2>2. CASE i = Len(t)
    <3>1. t[i] = c /\ all[i] = y /\ all[i + 1] = z
      BY <1>1, <1>2, <2>1, <2>2
    <3> QED BY <3>1
  <2>3. CASE i # Len(t)
    <3>1. i \in 1 .. Len(s) /\ i + 1 # Len(t) + 1
      BY <1>1, <2>3
    <3>2. all[i + 1] = place[i + 1] /\ t[i] = s[i]
      BY <1>1, <2>1, <3>1
    <3> QED BY <1>2, <2>1, <3>1, <3>2
  <2> QED BY <2>2, <2>3
<1> HIDE DEF all, z
<1>7. Placed(t, f, x, z)
  BY <1>4, <1>5, <1>6 DEF Placed
<1> QED BY <1>7 DEF t, z

LEMMA PlacedTail ==
  ASSUME NEW s \in Seq(Compound), s # <<>>, NEW f, NEW x, NEW y, Placed(s, f, x, y)
  PROVE  /\ x \in Number /\ y \in Number
         /\ Head(s).flow = f => Head(s).number = x
         /\ Placed(Tail(s), f, IF Head(s).flow = f THEN Succ(x) ELSE x, y)
<1> DEFINE t == Tail(s)
           z == IF Head(s).flow = f THEN Succ(x) ELSE x
<1>1. /\ Len(t) = Len(s) - 1 /\ Len(s) \in Nat \ {0} /\ Head(s) = s[1]
      /\ \A i \in 1 .. Len(t) : t[i] = s[i + 1]
  BY Removed
<1> HIDE DEF t
<1>2. PICK place \in [1 .. Len(s) + 1 -> Number] :
        /\ place[1] = x /\ place[Len(s) + 1] = y
        /\ \A i \in 1 .. Len(s) :
             IF s[i].flow = f THEN s[i].number = place[i] /\ place[i + 1] = Succ(place[i])
                              ELSE place[i + 1] = place[i]
  BY DEF Placed
<1> DEFINE all == [i \in 1 .. Len(t) + 1 |-> place[i + 1]]
<1>3. 1 \in 1 .. Len(s) /\ 1 \in 1 .. Len(s) + 1 /\ Len(s) + 1 \in 1 .. Len(s) + 1
  BY <1>1
<1>4. x \in Number /\ y \in Number /\ (Head(s).flow = f => Head(s).number = x) /\ place[1 + 1] = z
  BY <1>1, <1>2, <1>3
<1>5. all \in [1 .. Len(t) + 1 -> Number]
  <2>1. \A i \in 1 .. Len(t) + 1 : i + 1 \in 1 .. Len(s) + 1
    BY <1>1
  <2> QED BY <1>2, <2>1
<1>6. all[1] = z /\ all[Len(t) + 1] = y
  <2>1. 1 \in 1 .. Len(t) + 1 /\ Len(t) + 1 \in 1 .. Len(t) + 1 /\ Len(t) + 1 + 1 = Len(s) + 1
    BY <1>1
  <2> HIDE DEF z
  <2> QED BY <1>2, <1>4, <2>1
<1>7. ASSUME NEW i \in 1 .. Len(t)
      PROVE  IF t[i].flow = f THEN t[i].number = all[i] /\ all[i + 1] = Succ(all[i])
                              ELSE all[i + 1] = all[i]
  <2>1. i \in 1 .. Len(t) + 1 /\ i + 1 \in 1 .. Len(t) + 1 /\ i + 1 \in 1 .. Len(s)
    BY <1>1
  <2>2. all[i] = place[i + 1] /\ all[i + 1] = place[(i + 1) + 1] /\ t[i] = s[i + 1]
    BY <1>1, <2>1
  <2> QED BY <1>2, <2>1, <2>2
<1> HIDE DEF all, z
<1>8. Placed(t, f, z, y)
  BY <1>5, <1>6, <1>7 DEF Placed
<1> QED BY <1>4, <1>8 DEF t, z

-----------------------------------------------------------------------------
(* The numbers that the places count.                                      *)

Below == {p \in Nat \X Nat : p[1] < p[2]}

LEMMA BelowPair ==
  ASSUME NEW x \in Nat, NEW y \in Nat, <<y, x>> \notin Below
  PROVE  x <= y
<1>1. <<y, x>> \in Nat \X Nat
  OBVIOUS
<1>2. ~(y < x)
  BY <1>1, SMT DEF Below
<1> QED BY <1>2

LEMMA LeastExists ==
  ASSUME NEW T \in SUBSET Nat, T # {}
  PROVE  \E m \in T : \A k \in T : m <= k
<1>1. IsWellFoundedOn(Below, Nat)
  BY NatLessThanWellFounded, Zenon DEF OpToRel, Below
<1>2. \E x \in T : \A y \in T : <<y, x>> \notin Below
  BY <1>1, WFMin
<1> QED BY <1>2, BelowPair

LEMMA Remainder ==
  ASSUME NEW a \in Int, NEW q \in Int, NEW n \in Nat, n > 1, NEW r \in 0 .. n - 1, a = n * q + r
  PROVE  a % n = r
OBVIOUS

LEMMA NextRemainder ==
  ASSUME NEW a \in Nat, NEW n \in Nat, n > 1
  PROVE  ((a % n) + 1) % n = (a + 1) % n
<1> DEFINE q == a \div n
           r == a % n
<1>1. q \in Int /\ r \in 0 .. n - 1 /\ a = n * q + r
  OBVIOUS
<1> HIDE DEF q, r
<1>2. CASE r + 1 < n
  <2>1. r + 1 \in 0 .. n - 1 /\ a + 1 \in Int /\ a + 1 = n * q + (r + 1)
    BY <1>1, <1>2
  <2>2. (a + 1) % n = r + 1
    BY <1>1, <2>1, Remainder
  <2>3. (r + 1) % n = r + 1
    BY <1>1, <1>2
  <2> QED BY <2>2, <2>3 DEF r
<1>3. CASE r + 1 = n
  <2>1. n * (q + 1) = n * q + n
    BY <1>1
  <2>2. 0 \in 0 .. n - 1 /\ a + 1 \in Int /\ q + 1 \in Int /\ a + 1 = n * (q + 1) + 0
    BY <1>1, <1>3, <2>1
  <2>3. (a + 1) % n = 0
    BY <2>2, Remainder
  <2>4. (r + 1) % n = 0
    BY <1>1, <1>3
  <2> QED BY <2>3, <2>4 DEF r
<1> QED BY <1>1, <1>2, <1>3

(* How many compounds of the flow f stand before the i-th place. *)
Earlier(s, f, i) == {j \in 1 .. i - 1 : s[j].flow = f}

LEMMA EarlierCounts ==
  ASSUME NEW s \in Seq(Compound), NEW f, NEW i \in 1 .. Len(s)
  PROVE  /\ Cardinality(Earlier(s, f, i)) \in Nat
         /\ Cardinality(Earlier(s, f, i + 1))
              = Cardinality(Earlier(s, f, i)) + IF s[i].flow = f THEN 1 ELSE 0
<1>1. Len(s) \in Nat
  OBVIOUS
<1>2. IsFiniteSet(Earlier(s, f, i)) /\ i \notin Earlier(s, f, i)
  <2>1. IsFiniteSet(1 .. i - 1)
    BY <1>1, FS_Interval
  <2> QED BY <2>1, FS_Subset DEF Earlier
<1>3. Cardinality(Earlier(s, f, i)) \in Nat
  BY <1>2, FS_CardinalityType
<1>4. CASE s[i].flow = f
  <2>1. Earlier(s, f, i + 1) = Earlier(s, f, i) \union {i}
    BY <1>1, <1>4 DEF Earlier
  <2> QED BY <1>2, <1>3, <1>4, <2>1, FS_AddElement
<1>5. CASE s[i].flow # f
  <2>1. Earlier(s, f, i + 1) = Earlier(s, f, i)
    BY <1>1, <1>5 DEF Earlier
  <2> QED BY <1>3, <1>5, <2>1
<1> QED BY <1>3, <1>4, <1>5

LEMMA PlacesCount ==
  ASSUME NEW s \in Seq(Compound), NEW f, NEW x, NEW y, Placed(s, f, x, y)
  PROVE  /\ \A i \in 1 .. Len(s) : s[i].flow = f
              => s[i].number = (x + Cardinality(Earlier(s, f, i))) % Numbers
         /\ y = (x + Cardinality(Earlier(s, f, Len(s) + 1))) % Numbers
<1>1. Len(s) \in Nat
  OBVIOUS
<1>2. PICK place \in [1 .. Len(s) + 1 -> Number] :
        /\ place[1] = x /\ place[Len(s) + 1] = y
        /\ \A i \in 1 .. Len(s) :
             IF s[i].flow = f THEN s[i].number = place[i] /\ place[i + 1] = Succ(place[i])
                              ELSE place[i + 1] = place[i]
  BY DEF Placed
<1> DEFINE count(i) == Cardinality(Earlier(s, f, i))
           right(i) == count(i) \in Nat /\ place[i] = (x + count(i)) % Numbers
           wrong == {i \in 1 .. Len(s) + 1 : ~right(i)}
<1>3. x \in Number /\ Numbers \in Nat /\ Numbers > 1
  BY <1>1, <1>2, Numerals
<1>4. right(1)
  <2>1. Earlier(s, f, 1) = {}
    BY DEF Earlier
  <2>2. count(1) = 0
    BY <2>1, FS_EmptySet
  <2>3. (x + 0) % Numbers = x
    BY <1>3 DEF Number
  <2> QED BY <1>2, <2>2, <2>3
<1>5. ASSUME NEW i \in 1 .. Len(s), right(i) PROVE right(i + 1)
  <2>1. count(i) \in Nat /\ count(i + 1) = count(i) + IF s[i].flow = f THEN 1 ELSE 0
    BY EarlierCounts
  <2> HIDE DEF count
  <2>2. CASE s[i].flow = f
    <3>1. place[i + 1] = Succ(place[i]) /\ place[i] = (x + count(i)) % Numbers
      BY <1>2, <1>5, <2>2
    <3>2. x + count(i) \in Nat
      BY <1>3, <2>1 DEF Number
    <3>3. (((x + count(i)) % Numbers) + 1) % Numbers = ((x + count(i)) + 1) % Numbers
      BY <1>3, <3>2, NextRemainder
    <3>4. (x + count(i)) + 1 = x + count(i + 1) /\ count(i + 1) \in Nat
      BY <1>3, <2>1, <2>2, <3>2 DEF Number
    <3> QED BY <3>1, <3>3, <3>4 DEF Succ
  <2>3. CASE s[i].flow # f
    BY <1>2, <1>5, <2>1, <2>3
  <2> QED BY <2>2, <2>3
<1> HIDE DEF right
<1>6. wrong = {}
  <2> SUFFICES ASSUME wrong # {} PROVE FALSE
    OBVIOUS
  <2>1. wrong \in SUBSET Nat
    BY <1>1
  <2>2. PICK m \in wrong : \A k \in wrong : m <= k
    BY <2>1, LeastExists
  <2>3. m \in 1 .. Len(s) + 1 /\ m # 1 /\ ~right(m)
    BY <1>4, <2>2
  <2>4. m - 1 \in 1 .. Len(s) /\ (m - 1) + 1 = m
    BY <1>1, <2>3
  <2>5. ~right(m - 1)
    BY <1>5, <2>3, <2>4
  <2>6. m - 1 \in wrong
    BY <1>1, <2>4, <2>5
  <2> QED BY <1>1, <2>2, <2>3, <2>6
<1>7. \A i \in 1 .. Len(s) + 1 : place[i] = (x + Cardinality(Earlier(s, f, i))) % Numbers
  BY <1>6 DEF right
<1>8. \A i \in 1 .. Len(s) : s[i].flow = f
        => s[i].number = (x + Cardinality(Earlier(s, f, i))) % Numbers
  BY <1>1, <1>2, <1>7
<1>9. Len(s) + 1 \in 1 .. Len(s) + 1
  BY <1>1
<1> QED BY <1>2, <1>7, <1>8, <1>9

LEMMA PlacedConcat ==
  ASSUME NEW s \in Seq(Compound), NEW t \in Seq(Compound), NEW f, NEW x, NEW y, NEW z,
         Placed(s, f, x, y), Placed(t, f, y, z)
  PROVE  s \o t \in Seq(Compound) /\ Placed(s \o t, f, x, z)
<1> DEFINE u == s \o t
<1>1. /\ u \in Seq(Compound) /\ Len(u) = Len(s) + Len(t) /\ Len(s) \in Nat /\ Len(t) \in Nat
      /\ \A i \in 1 .. Len(u) : u[i] = IF i <= Len(s) THEN s[i] ELSE t[i - Len(s)]
  OBVIOUS
<1> HIDE DEF u
<1>2. PICK p \in [1 .. Len(s) + 1 -> Number] :
        /\ p[1] = x /\ p[Len(s) + 1] = y
        /\ \A i \in 1 .. Len(s) :
             IF s[i].flow = f THEN s[i].number = p[i] /\ p[i + 1] = Succ(p[i])
                              ELSE p[i + 1] = p[i]
  BY DEF Placed
<1>3. PICK q \in [1 .. Len(t) + 1 -> Number] :
        /\ q[1] = y /\ q[Len(t) + 1] = z
        /\ \A i \in 1 .. Len(t) :
             IF t[i].flow = f THEN t[i].number = q[i] /\ q[i + 1] = Succ(q[i])
                              ELSE q[i + 1] = q[i]
  BY DEF Placed
<1> DEFINE all == [i \in 1 .. Len(u) + 1 |-> IF i <= Len(s) THEN p[i] ELSE q[i - Len(s)]]
<1>4. all \in [1 .. Len(u) + 1 -> Number]
  <2>1. ASSUME NEW i \in 1 .. Len(u) + 1
        PROVE  IF i <= Len(s) THEN i \in 1 .. Len(s) + 1 ELSE i - Len(s) \in 1 .. Len(t) + 1
    BY <1>1
  <2> QED BY <1>2, <1>3, <2>1
<1>5. all[1] = x /\ all[Len(u) + 1] = z
  <2>1. 1 \in 1 .. Len(u) + 1 /\ Len(u) + 1 \in 1 .. Len(u) + 1
        /\ (Len(u) + 1) - Len(s) = Len(t) + 1 /\ ~(Len(u) + 1 <= Len(s))
    BY <1>1
  <2>2. all[Len(u) + 1] = z
    BY <1>3, <2>1
  <2>3. CASE Len(s) = 0
    BY <1>2, <1>3, <2>1, <2>3
  <2>4. CASE Len(s) # 0
    <3>1. 1 <= Len(s)
      BY <1>1, <2>4
    <3>2. all[1] = x
      BY <1>2, <2>1, <3>1
    <3> QED BY <2>2, <3>2
  <2> QED BY <2>2, <2>3, <2>4
<1>6. ASSUME NEW i \in 1 .. Len(u)
      PROVE  IF u[i].flow = f THEN u[i].number = all[i] /\ all[i + 1] = Succ(all[i])
                              ELSE all[i + 1] = all[i]
  <2>0. i \in 1 .. Len(u) + 1 /\ i + 1 \in 1 .. Len(u) + 1
    BY <1>1
  <2>1. CASE i < Len(s)
    <3>1. i \in 1 .. Len(s) /\ i <= Len(s) /\ i + 1 <= Len(s)
      BY <1>1, <2>1
    <3>2. u[i] = s[i] /\ all[i] = p[i] /\ all[i + 1] = p[i + 1]
      BY <1>1, <2>0, <3>1
    <3> QED BY <1>2, <3>1, <3>2
  <2>2. CASE i = Len(s)
    <3>1. i \in 1 .. Len(s) /\ i <= Len(s) /\ ~(i + 1 <= Len(s)) /\ (i + 1) - Len(s) = 1
      BY <1>1, <2>2
    <3>2. u[i] = s[i] /\ all[i] = p[i] /\ all[i + 1] = q[1] /\ q[1] = p[i + 1]
      BY <1>1, <1>2, <1>3, <2>0, <2>2, <3>1
    <3> QED BY <1>2, <3>1, <3>2
  <2>3. CASE i > Len(s)
    <3> DEFINE j == i - Len(s)
    <3>1. j \in 1 .. Len(t) /\ ~(i <= Len(s)) /\ ~(i + 1 <= Len(s)) /\ (i + 1) - Len(s) = j + 1
      BY <1>1, <2>3
    <3>2. u[i] = t[j] /\ all[i] = q[j] /\ all[i + 1] = q[j + 1]
      BY <1>1, <2>0, <3>1
    <3> HIDE DEF j, all
    <3> QED BY <1>3, <3>1, <3>2
  <2> QED BY <1>1, <2>1, <2>2, <2>3
<1> HIDE DEF all
<1>7. Placed(u, f, x, z)
  BY <1>4, <1>5, <1>6 DEF Placed
<1> QED BY <1>1, <1>7 DEF u

-----------------------------------------------------------------------------
(* The buffers.  What a buffer holds adds up to its size, and an upper one    *)
(* holds compounds of its own flow only.                                      *)
DataType ==
  /\ backlog \in [Flow -> 0 .. Backlog]
  /\ nextNumber \in [Flow -> Number] /\ taken \in [Flow -> Number]
  /\ buffer \in [Buffer -> Seq(Compound)] /\ currentSize \in [Buffer -> Nat]
  /\ flowStatus \in [Flow -> BOOLEAN] /\ unannounced \subseteq Flow
  /\ outlet \in 0 .. Outlet

BufferInv ==
  /\ \A b \in Buffer : Sums(buffer[b], currentSize[b]) /\ currentSize[b] <= MaxSize[b]
  /\ \A f \in Flow : \A i \in 1 .. Len(buffer[f]) : buffer[f][i].flow = f

(* The numbers run through the shared buffer and the flow's own. *)
OrderInv ==
  \A f \in Flow : \E n \in Number : /\ Placed(buffer[Lower], f, taken[f], n)
                                    /\ Placed(buffer[f], f, n, nextNumber[f])

DataInv == DataType /\ BufferInv /\ OrderInv

LEMMA InitData == Init => DataInv
<1> SUFFICES ASSUME Init PROVE DataInv
  OBVIOUS
<1>1. 0 \in Number
  BY Numerals DEF Number
<1>2. DataType
  <2>1. 0 \in 0 .. Backlog
    BY BoundAssumption
  <2>2. <<>> \in Seq(Compound)
    OBVIOUS
  <2> QED BY <1>1, <2>1, <2>2 DEF Init, DataType
<1>3. BufferInv
  <2>1. \A b \in Buffer : buffer[b] = <<>> /\ currentSize[b] = 0
    BY DEF Init
  <2>2. \A i \in 1 .. Len(<<>>) : FALSE
    OBVIOUS
  <2> QED BY <2>1, <2>2, SumsOfNothing, Numerals, Places DEF BufferInv
<1>4. OrderInv
  <2>1. ASSUME NEW f \in Flow
        PROVE  buffer[Lower] = <<>> /\ buffer[f] = <<>> /\ taken[f] = 0 /\ nextNumber[f] = 0
    BY Places DEF Init
  <2> QED BY <1>1, <2>1, PlacedNothing DEF OrderInv
<1> QED BY <1>2, <1>3, <1>4 DEF DataInv

(* A compound leaves its source with the next number. *)
LEMMA DataSourceSends ==
  ASSUME DataInv, NEW f \in Flow, SourceSends(f)
  PROVE  DataInv'
<1> DEFINE c == [flow |-> f, number |-> nextNumber[f]]
<1>1. /\ backlog[f] > 0 /\ currentSize[f] + Length[f] <= MaxSize[f]
      /\ backlog' = [backlog EXCEPT ![f] = @ - 1]
      /\ nextNumber' = [nextNumber EXCEPT ![f] = Succ(@)]
      /\ buffer' = [buffer EXCEPT ![f] = Append(@, c)]
      /\ currentSize' = [currentSize EXCEPT ![f] = @ + Length[f]]
      /\ UNCHANGED <<taken, outlet, flowStatus, unannounced>>
  BY DEF SourceSends, doIsAccepting, Succ, gateVars, outsideVars
<1>2. DataType /\ BufferInv /\ OrderInv
  BY DEF DataInv
<1>3. /\ f \in Buffer /\ c \in Compound /\ c.flow = f /\ c.number = nextNumber[f]
      /\ nextNumber[f] \in Number /\ Length[f] \in Nat
  BY <1>2, Places, CompoundShape, Numerals DEF DataType
<1> HIDE DEF c
<1>4. DataType'
  <2>1. backlog' \in [Flow -> 0 .. Backlog]
    BY <1>1, <1>2, BoundAssumption DEF DataType
  <2>2. nextNumber' \in [Flow -> Number]
    BY <1>1, <1>2, <1>3, Numerals DEF DataType
  <2>3. buffer' \in [Buffer -> Seq(Compound)]
    BY <1>1, <1>2, <1>3 DEF DataType
  <2>4. currentSize' \in [Buffer -> Nat]
    BY <1>1, <1>2, <1>3 DEF DataType
  <2> QED BY <1>1, <1>2, <2>1, <2>2, <2>3, <2>4 DEF DataType
<1>5. /\ buffer'[f] = Append(buffer[f], c) /\ currentSize'[f] = currentSize[f] + Length[f]
      /\ \A b \in Buffer : b # f => buffer'[b] = buffer[b] /\ currentSize'[b] = currentSize[b]
      /\ buffer[f] \in Seq(Compound)
  BY <1>1, <1>2, <1>3 DEF DataType
<1>6. BufferInv'
  <2>1. ASSUME NEW b \in Buffer
        PROVE  Sums(buffer'[b], currentSize'[b]) /\ currentSize'[b] <= MaxSize[b]
    <3>1. CASE b = f
      BY <1>1, <1>2, <1>3, <1>5, <3>1, SumsAppend DEF BufferInv
    <3>2. CASE b # f
      BY <1>2, <1>5, <3>2 DEF BufferInv
    <3> QED BY <3>1, <3>2
  <2>2. ASSUME NEW g \in Flow, NEW i \in 1 .. Len(buffer'[g]) PROVE buffer'[g][i].flow = g
    <3>1. CASE g = f
      <4>1. Len(buffer'[f]) = Len(buffer[f]) + 1 /\ Len(buffer[f]) \in Nat
            /\ buffer'[f][Len(buffer[f]) + 1] = c
            /\ \A j \in 1 .. Len(buffer[f]) : buffer'[f][j] = buffer[f][j]
        BY <1>3, <1>5, Appended
      <4>2. CASE i = Len(buffer[f]) + 1
        BY <1>3, <3>1, <4>1, <4>2
      <4>3. CASE i # Len(buffer[f]) + 1
        <5>1. i \in 1 .. Len(buffer[f])
          BY <2>2, <3>1, <4>1, <4>3
        <5> QED BY <1>2, <3>1, <4>1, <5>1 DEF BufferInv
      <4> QED BY <4>2, <4>3
    <3>2. CASE g # f
      <4>1. buffer'[g] = buffer[g]
        BY <1>5, <3>2, Places
      <4> QED BY <1>2, <2>2, <4>1 DEF BufferInv
    <3> QED BY <3>1, <3>2
  <2> QED BY <2>1, <2>2 DEF BufferInv
<1>7. OrderInv'
  <2>1. ASSUME NEW g \in Flow
        PROVE  \E n \in Number : /\ Placed(buffer'[Lower], g, taken'[g], n)
                                 /\ Placed(buffer'[g], g, n, nextNumber'[g])
    <3>1. PICK n \in Number : /\ Placed(buffer[Lower], g, taken[g], n)
                              /\ Placed(buffer[g], g, n, nextNumber[g])
      BY <1>2 DEF OrderInv
    <3>2. buffer'[Lower] = buffer[Lower] /\ taken'[g] = taken[g]
      BY <1>1, <1>5, Places
    <3>3. CASE g = f
      <4>1. nextNumber'[f] = Succ(nextNumber[f])
        BY <1>1, <1>2 DEF DataType
      <4>2. Placed(Append(buffer[f], c), f, n, Succ(nextNumber[f]))
        BY <1>3, <1>5, <3>1, <3>3, PlacedAppend
      <4> QED BY <1>5, <3>1, <3>2, <3>3, <4>1, <4>2
    <3>4. CASE g # f
      <4>1. buffer'[g] = buffer[g] /\ nextNumber'[g] = nextNumber[g]
        BY <1>1, <1>2, <1>5, <3>4, Places DEF DataType
      <4> QED BY <3>1, <3>2, <4>1
    <3> QED BY <3>3, <3>4
  <2> QED BY <2>1 DEF OrderInv
<1> QED BY <1>4, <1>6, <1>7 DEF DataInv

(* A compound goes from an upper buffer to the shared one. *)
LEMMA DataPassDown ==
  ASSUME DataInv, NEW f \in Flow, PassDown(f)
  PROVE  DataInv'
<1> DEFINE c == Head(buffer[f])
<1>1. DataType /\ BufferInv /\ OrderInv
  BY DEF DataInv
<1>2. /\ f \in Buffer /\ Lower \in Buffer /\ f # Lower
      /\ buffer[f] \in Seq(Compound) /\ buffer[Lower] \in Seq(Compound)
  BY <1>1, Places DEF DataType
<1>3. buffer[f] # <<>>
  BY DEF PassDown, SendsOnce
<1>4. /\ c \in Compound /\ c = buffer[f][1] /\ Len(buffer[f]) \in Nat \ {0}
      /\ Len(Tail(buffer[f])) = Len(buffer[f]) - 1 /\ Tail(buffer[f]) \in Seq(Compound)
      /\ \A i \in 1 .. Len(buffer[f]) - 1 : Tail(buffer[f])[i] = buffer[f][i + 1]
  BY <1>2, <1>3, Removed
<1>5. c.flow = f /\ Length[f] \in Nat
  <2>1. 1 \in 1 .. Len(buffer[f])
    BY <1>4
  <2> HIDE DEF c
  <2> QED BY <1>1, <1>4, <2>1, Numerals DEF BufferInv
<1>6. currentSize[Lower] + Length[f] <= MaxSize[Lower]
  BY <1>2, <1>5 DEF PassDown, SendsOnce, hasAcceptor, doIsAccepting
<1>7. /\ buffer' = [buffer EXCEPT ![c.flow] = Tail(@), ![Lower] = Append(@, c)]
      /\ currentSize' = [currentSize EXCEPT ![f] = @ - Length[c.flow], ![Lower] = @ + Length[c.flow]]
      /\ UNCHANGED <<backlog, nextNumber, taken, outlet, flowStatus, unannounced>>
  BY DEF PassDown, Stored, gateVars, outsideVars, sourceVars
<1> HIDE DEF c
<1>8. /\ buffer'[f] = Tail(buffer[f]) /\ buffer'[Lower] = Append(buffer[Lower], c)
      /\ \A b \in Buffer : b # f /\ b # Lower => buffer'[b] = buffer[b]
  BY <1>1, <1>2, <1>5, <1>7 DEF DataType
<1>9. /\ currentSize'[f] = currentSize[f] - Length[f]
      /\ currentSize'[Lower] = currentSize[Lower] + Length[f]
      /\ \A b \in Buffer : b # f /\ b # Lower => currentSize'[b] = currentSize[b]
  BY <1>1, <1>2, <1>5, <1>7 DEF DataType
<1>10. /\ currentSize[f] - Length[f] \in Nat /\ Sums(buffer'[f], currentSize'[f])
       /\ currentSize[f] \in Nat
  <2>1. Sums(buffer[f], currentSize[f])
    BY <1>1, <1>2 DEF BufferInv
  <2>2. currentSize[f] \in Nat /\ currentSize[f] - Length[c.flow] \in Nat
        /\ Sums(Tail(buffer[f]), currentSize[f] - Length[c.flow])
    BY <1>2, <1>3, <2>1, SumsTail DEF c
  <2> QED BY <1>5, <1>8, <1>9, <2>2
<1>11. currentSize[Lower] \in Nat /\ Sums(buffer'[Lower], currentSize'[Lower])
  <2>1. Sums(buffer[Lower], currentSize[Lower])
    BY <1>1, <1>2 DEF BufferInv
  <2> QED BY <1>2, <1>4, <1>5, <1>8, <1>9, <2>1, SumsAppend
<1>12. DataType'
  <2>1. buffer' \in [Buffer -> Seq(Compound)]
    <3>1. Append(buffer[Lower], c) \in Seq(Compound)
      BY <1>2, <1>4, Appended
    <3> QED BY <1>1, <1>2, <1>4, <1>5, <1>7, <3>1 DEF DataType
  <2>2. currentSize' \in [Buffer -> Nat]
    <3>1. currentSize[f] - Length[c.flow] \in Nat /\ currentSize[Lower] + Length[c.flow] \in Nat
      BY <1>5, <1>10, <1>11
    <3> QED BY <1>1, <1>2, <1>7, <3>1, Zenon DEF DataType
  <2> QED BY <1>1, <1>7, <2>1, <2>2 DEF DataType
<1>13. BufferInv'
  <2>1. ASSUME NEW b \in Buffer
        PROVE  Sums(buffer'[b], currentSize'[b]) /\ currentSize'[b] <= MaxSize[b]
    <3>1. CASE b = f
      <4>1. currentSize[f] <= MaxSize[f] /\ MaxSize[f] \in Nat
        BY <1>1, <1>2, Numerals DEF BufferInv
      <4> QED BY <1>5, <1>9, <1>10, <3>1, <4>1
    <3>2. CASE b = Lower
      BY <1>6, <1>9, <1>11, <3>2
    <3>3. CASE b # f /\ b # Lower
      BY <1>1, <1>8, <1>9, <3>3 DEF BufferInv
    <3> QED BY <3>1, <3>2, <3>3
  <2>2. ASSUME NEW g \in Flow, NEW i \in 1 .. Len(buffer'[g]) PROVE buffer'[g][i].flow = g
    <3>1. CASE g = f
      <4>0. buffer'[g] = Tail(buffer[f]) /\ i \in 1 .. Len(Tail(buffer[f]))
        BY <1>8, <2>2, <3>1
      <4>1. i + 1 \in 1 .. Len(buffer[f]) /\ buffer'[g][i] = buffer[f][i + 1]
        BY <1>4, <4>0
      <4> QED BY <1>1, <3>1, <4>1 DEF BufferInv
    <3>2. CASE g # f
      <4>1. buffer'[g] = buffer[g]
        BY <1>8, <3>2, Places
      <4> QED BY <1>1, <2>2, <4>1 DEF BufferInv
    <3> QED BY <3>1, <3>2
  <2> QED BY <2>1, <2>2 DEF BufferInv
<1>14. OrderInv'
  <2>1. ASSUME NEW g \in Flow
        PROVE  \E n \in Number : /\ Placed(buffer'[Lower], g, taken'[g], n)
                                 /\ Placed(buffer'[g], g, n, nextNumber'[g])
    <3>1. PICK n \in Number : /\ Placed(buffer[Lower], g, taken[g], n)
                              /\ Placed(buffer[g], g, n, nextNumber[g])
      BY <1>1 DEF OrderInv
    <3>2. taken'[g] = taken[g] /\ nextNumber'[g] = nextNumber[g]
      BY <1>7
    <3>3. CASE g = f
      <4>1. c.number = n /\ Placed(Tail(buffer[f]), f, Succ(n), nextNumber[f])
        BY <1>2, <1>3, <1>5, <3>1, <3>3, PlacedTail DEF c
      <4>2. Placed(Append(buffer[Lower], c), f, taken[f], Succ(n))
        BY <1>2, <1>4, <1>5, <3>1, <3>3, <4>1, PlacedAppend
      <4>3. Succ(n) \in Number
        BY Numerals
      <4> QED BY <1>8, <3>2, <3>3, <4>1, <4>2, <4>3
    <3>4. CASE g # f
      <4>1. Placed(Append(buffer[Lower], c), g, taken[g], n)
        BY <1>2, <1>4, <1>5, <3>1, <3>4, PlacedAppend
      <4>2. buffer'[g] = buffer[g]
        BY <1>8, <3>4, Places
      <4> QED BY <1>8, <3>1, <3>2, <4>1, <4>2
    <3> QED BY <3>3, <3>4
  <2> QED BY <2>1 DEF OrderInv
<1> QED BY <1>12, <1>13, <1>14 DEF DataInv

(* The outside takes the front of the shared buffer. *)
LEMMA DataPassOut ==
  ASSUME DataInv, PassOut
  PROVE  DataInv'
<1> DEFINE c == Head(buffer[Lower])
<1>1. DataType /\ BufferInv /\ OrderInv
  BY DEF DataInv
<1>2. Lower \in Buffer /\ buffer[Lower] \in Seq(Compound)
  BY <1>1, Places DEF DataType
<1>3. buffer[Lower] # <<>> /\ outlet > 0
  BY DEF PassOut, SendsOnce, hasAcceptor
<1>4. c \in Compound /\ Tail(buffer[Lower]) \in Seq(Compound)
  BY <1>2, <1>3, Removed
<1>5. c.flow \in Flow /\ c.number \in Number /\ Length[c.flow] \in Nat
  BY <1>4, CompoundShape
<1>6. /\ taken' = [taken EXCEPT ![c.flow] = Succ(c.number)]
      /\ currentSize' = [currentSize EXCEPT ![Lower] = @ - Length[c.flow]]
      /\ buffer' = [buffer EXCEPT ![Lower] = Tail(@)]
      /\ outlet' = outlet - 1
      /\ UNCHANGED <<backlog, nextNumber, flowStatus, unannounced>>
  BY DEF PassOut, Succ, gateVars, sourceVars
<1>7. /\ buffer'[Lower] = Tail(buffer[Lower]) /\ currentSize'[Lower] = currentSize[Lower] - Length[c.flow]
      /\ \A b \in Buffer : b # Lower => buffer'[b] = buffer[b] /\ currentSize'[b] = currentSize[b]
  BY <1>1, <1>2, <1>6 DEF DataType
<1>8. /\ currentSize[Lower] \in Nat /\ currentSize[Lower] - Length[c.flow] \in Nat
      /\ Sums(Tail(buffer[Lower]), currentSize[Lower] - Length[c.flow])
  <2>1. Sums(buffer[Lower], currentSize[Lower])
    BY <1>1, <1>2 DEF BufferInv
  <2> QED BY <1>2, <1>3, <2>1, SumsTail
<1>9. DataType'
  <2>1. taken' \in [Flow -> Number]
    <3>1. Succ(c.number) \in Number
      BY <1>5, Numerals
    <3> QED BY <1>1, <1>6, <3>1 DEF DataType
  <2>2. buffer' \in [Buffer -> Seq(Compound)] /\ currentSize' \in [Buffer -> Nat]
    BY <1>1, <1>4, <1>6, <1>8 DEF DataType
  <2>3. outlet' \in 0 .. Outlet
    BY <1>1, <1>3, <1>6, BoundAssumption DEF DataType
  <2> QED BY <1>1, <1>6, <2>1, <2>2, <2>3 DEF DataType
<1>10. BufferInv'
  <2>1. ASSUME NEW b \in Buffer
        PROVE  Sums(buffer'[b], currentSize'[b]) /\ currentSize'[b] <= MaxSize[b]
    <3>1. CASE b = Lower
      <4>1. currentSize[Lower] <= MaxSize[Lower] /\ MaxSize[Lower] \in Nat
        BY <1>1, <1>2, Numerals DEF BufferInv
      <4>2. currentSize[Lower] - Length[c.flow] <= MaxSize[Lower]
        BY <1>5, <1>8, <4>1
      <4> QED BY <1>7, <1>8, <3>1, <4>2
    <3>2. CASE b # Lower
      BY <1>1, <1>7, <3>2 DEF BufferInv
    <3> QED BY <3>1, <3>2
  <2>2. \A g \in Flow : buffer'[g] = buffer[g]
    BY <1>7, Places
  <2> QED BY <1>1, <2>1, <2>2 DEF BufferInv
<1>11. OrderInv'
  <2>1. ASSUME NEW g \in Flow
        PROVE  \E n \in Number : /\ Placed(buffer'[Lower], g, taken'[g], n)
                                 /\ Placed(buffer'[g], g, n, nextNumber'[g])
    <3>1. PICK n \in Number : /\ Placed(buffer[Lower], g, taken[g], n)
                              /\ Placed(buffer[g], g, n, nextNumber[g])
      BY <1>1 DEF OrderInv
    <3>2. buffer'[g] = buffer[g] /\ nextNumber'[g] = nextNumber[g]
      BY <1>6, <1>7, Places
    <3>3. CASE g = c.flow
      <4>1. c.number = taken[g] /\ Placed(Tail(buffer[Lower]), g, Succ(taken[g]), n)
        BY <1>2, <1>3, <3>1, <3>3, PlacedTail
      <4>2. taken'[g] = Succ(taken[g])
        BY <1>1, <1>6, <3>3, <4>1 DEF DataType
      <4> QED BY <1>7, <3>1, <3>2, <4>1, <4>2
    <3>4. CASE g # c.flow
      <4>1. Placed(Tail(buffer[Lower]), g, taken[g], n)
        BY <1>2, <1>3, <3>1, <3>4, PlacedTail
      <4>2. taken'[g] = taken[g]
        BY <1>1, <1>6, <3>4 DEF DataType
      <4> QED BY <1>7, <3>1, <3>2, <4>1, <4>2
    <3> QED BY <3>3, <3>4
  <2> QED BY <2>1 DEF OrderInv
<1> QED BY <1>9, <1>10, <1>11 DEF DataInv

(* No other step touches what the buffers hold. *)
LEMMA DataRest ==
  ASSUME DataInv, UNCHANGED <<nextNumber, taken, bufferVars>>,
         backlog' \in [Flow -> 0 .. Backlog], flowStatus' \in [Flow -> BOOLEAN],
         unannounced' \subseteq Flow, outlet' \in 0 .. Outlet
  PROVE  DataInv'
<1>1. buffer' = buffer /\ currentSize' = currentSize /\ nextNumber' = nextNumber /\ taken' = taken
  BY DEF bufferVars
<1>2. DataType'
  BY <1>1 DEF DataInv, DataType
<1>3. BufferInv'
  BY <1>1 DEF DataInv, BufferInv
<1>4. OrderInv'
  BY <1>1 DEF DataInv, OrderInv
<1> QED BY <1>2, <1>3, <1>4 DEF DataInv

-----------------------------------------------------------------------------
(* The rounds of the receptor.                                             *)

(* The cursor of RoundRobin.hpp stays within the container, and turns around
   at its end. *)
LEMMA Advance ==
  ASSUME NEW x \in Nat, x < Len(Order)
  PROVE  advanceCursor(x) = IF x + 1 = Len(Order) THEN 0 ELSE x + 1
<1>1. Len(Order) \in Nat
  BY FlowAssumption
<1>2. CASE x + 1 = Len(Order)
  BY <1>1, <1>2 DEF advanceCursor
<1>3. CASE x + 1 < Len(Order)
  BY <1>1, <1>3 DEF advanceCursor
<1> QED
  BY <1>1, <1>2, <1>3

(* Before the first wakeup the cursor stands at the first unit. *)
LEMMA InitRound == Init => RoundInv
<1>1. Len(Order) \in Nat
  BY FlowAssumption
<1> QED
  BY <1>1 DEF Init, RoundInv, RoundType, RoundPlace, RoundOpen

(* A wakeup of the shared buffer starts a round at the first unit, or finds
   the Dispatcher in one. *)
LEMMA WakeKeeps == RoundInv /\ WakeDispatcher => RoundInv'
<1>1. Len(Order) \in Nat
  BY FlowAssumption
<1> SUFFICES ASSUME RoundInv, WakeDispatcher PROVE RoundInv'
  OBVIOUS
<1>2. CASE dispatching
  BY <1>2 DEF WakeDispatcher, roundVars, RoundInv, RoundType, RoundPlace, RoundOpen
<1>3. CASE ~dispatching
  <2>1. recs' = startRound(recs) /\ dispatching' = TRUE
    BY <1>3 DEF WakeDispatcher
  <2>2. RoundType'
    <3>1. recs' = [first |-> 0, cursor |-> 0, countdown |-> Len(Order), inRound |-> TRUE]
      BY <2>1 DEF RoundInv, RoundType, startRound
    <3> QED
      BY <1>1, <3>1 DEF RoundType
  <2>3. RoundPlace'
    BY <1>1, <2>1 DEF RoundInv, RoundType, RoundPlace, startRound
  <2>4. RoundOpen'
    BY <2>1 DEF RoundInv, RoundType, RoundOpen, startRound
  <2> QED
    BY <2>2, <2>3, <2>4 DEF RoundInv
<1> QED
  BY <1>2, <1>3

(* One more unit is woken. *)
LEMMA NextKeeps == RoundInv /\ WakeNext => RoundInv'
<1> SUFFICES ASSUME RoundInv, WakeNext PROVE RoundInv'
  OBVIOUS
<1>1. /\ Len(Order) \in Nat
      /\ recs.countdown \in 1 .. Len(Order)
      /\ recs.cursor = Len(Order) - recs.countdown
  BY FlowAssumption DEF RoundInv, RoundType, RoundPlace, WakeNext, hasNext
<1>2. /\ recs' = [recs EXCEPT !.countdown = recs.countdown - 1,
                              !.cursor = advanceCursor(recs.cursor)]
      /\ dispatching' = dispatching
  BY DEF WakeNext, next
<1>3. advanceCursor(recs.cursor)
        = IF recs.cursor + 1 = Len(Order) THEN 0 ELSE recs.cursor + 1
  BY <1>1, Advance
<1>4. recs.cursor + 1 = Len(Order) <=> recs.countdown - 1 = 0
  BY <1>1
<1>5. advanceCursor(recs.cursor) \in Nat
  BY <1>1, <1>3
<1>6. RoundType'
  <2>1. recs' = [first |-> 0, cursor |-> advanceCursor(recs.cursor),
                 countdown |-> recs.countdown - 1, inRound |-> recs.inRound]
    BY <1>2 DEF RoundInv, RoundType
  <2>2. recs.countdown - 1 \in 0 .. Len(Order)
    BY <1>1
  <2>3. recs.inRound \in BOOLEAN
    BY DEF RoundInv, RoundType
  <2> QED
    BY <1>5, <2>1, <2>2, <2>3 DEF RoundType
<1>7. RoundPlace'
  BY <1>1, <1>2, <1>3, <1>4 DEF RoundInv, RoundType, RoundPlace
<1>8. RoundOpen'
  BY <1>2 DEF RoundInv, RoundType, RoundOpen
<1> QED
  BY <1>6, <1>7, <1>8 DEF RoundInv

(* After the last one the cursor is back where the round began. *)
LEMMA EndKeeps == RoundInv /\ RoundEnds => RoundInv'
<1> SUFFICES ASSUME RoundInv, RoundEnds PROVE RoundInv'
  OBVIOUS
<1>1. /\ Len(Order) \in Nat
      /\ recs' = endRound(recs)
      /\ dispatching' = FALSE
  BY FlowAssumption DEF RoundEnds
<1>2. recs.countdown = 0 /\ recs.cursor = 0
  BY <1>1 DEF RoundEnds, RoundInv, RoundType, RoundPlace, hasNext
<1>3. RoundType'
  BY <1>1, <1>2 DEF RoundInv, RoundType, endRound
<1>4. RoundPlace'
  BY <1>1, <1>2 DEF RoundInv, RoundType, RoundPlace, endRound
<1>5. RoundOpen'
  BY <1>1 DEF RoundInv, RoundType, RoundOpen, endRound
<1> QED
  BY <1>3, <1>4, <1>5 DEF RoundInv

LEMMA RoundKeeps == RoundInv /\ [Next]_vars => RoundInv'
<1> SUFFICES ASSUME RoundInv, [Next]_vars PROVE RoundInv'
  OBVIOUS
<1>1. CASE WakeDispatcher
  BY <1>1, WakeKeeps
<1>2. CASE WakeNext
  BY <1>2, NextKeeps
<1>3. CASE RoundEnds
  BY <1>3, EndKeeps
<1>4. CASE Outside
  BY <1>4 DEF Outside, OutsideWakesUp, Refill, openFlow, closeFlow, roundVars, RoundInv, RoundType, RoundPlace, RoundOpen
<1>5. CASE PassOut
  BY <1>5 DEF PassOut, roundVars, RoundInv, RoundType, RoundPlace, RoundOpen
<1>6. ASSUME NEW f \in Flow, SourceSends(f) \/ SourceReturns(f) \/ PassDown(f) \/ WakeSource(f)
      PROVE  RoundInv'
  BY <1>6 DEF SourceSends, SourceReturns, PassDown, WakeSource, roundVars, RoundInv, RoundType, RoundPlace, RoundOpen
<1>7. ASSUME NEW b \in Buffer, tryToSendReturns(b) \/ WakeupReturns(b)
      PROVE  RoundInv'
  BY <1>7 DEF tryToSendReturns, WakeupReturns, roundVars, RoundInv, RoundType, RoundPlace, RoundOpen
<1>8. CASE UNCHANGED vars
  BY <1>8 DEF vars, roundVars, RoundInv, RoundType, RoundPlace, RoundOpen
<1> QED
  BY <1>1, <1>2, <1>3, <1>4, <1>5, <1>6, <1>7, <1>8 DEF Next, Step

-----------------------------------------------------------------------------
(* Every step, of the stack and of the buffers.                            *)

(* What is under way stays so, but for the running call. *)
Stays == \A x : InStack(stack, x) => InStack(stack', x) \/ x = Head(stack)
AllStay == \A x : InStack(stack, x) => InStack(stack', x)

LEMMA PushStays ==
  ASSUME stack \in Seq(Calls), NEW c \in Calls, stack' = <<c>> \o stack
  PROVE  AllStay /\ InStack(stack', c)
BY Push DEF AllStay

LEMMA PopStays ==
  ASSUME stack \in Seq(Calls), stack # <<>>, stack' = Tail(stack)
  PROVE  Stays
BY Pop DEF Stays

LEMMA TwoInFront ==
  ASSUME NEW S, NEW s \in Seq(S), NEW c \in S, NEW d \in S
  PROVE  <<c, d>> \o s = <<c>> \o (<<d>> \o s)
<1>1. <<c>> \in Seq(S) /\ <<d>> \in Seq(S)
  OBVIOUS
<1>2. <<c, d>> = <<c>> \o <<d>>
  <2> DEFINE x == <<c, d>>
             y == <<c>> \o <<d>>
  <2>1. x \in Seq(S) /\ Len(x) = 2 /\ x[1] = c /\ x[2] = d
    OBVIOUS
  <2>2. y \in Seq(S) /\ Len(y) = 2 /\ y[1] = c /\ y[2] = d
    OBVIOUS
  <2> HIDE DEF x, y
  <2>3. \A i \in 1 .. Len(x) : x[i] = y[i]
    BY <2>1, <2>2
  <2>4. x = y
    BY <2>1, <2>2, <2>3, SeqEqual
  <2> QED BY <2>4 DEF x, y
<1> QED BY <1>1, <1>2, ConcatAssociative

LEMMA PushTwoStay ==
  ASSUME stack \in Seq(Calls), stack # <<>>, NEW c \in Calls, NEW d \in Calls,
         stack' = <<c, d>> \o Tail(stack)
  PROVE  Stays /\ InStack(stack', c)
<1>1. Tail(stack) \in Seq(Calls) /\ (\A x : InStack(stack, x) <=> x = Head(stack) \/ InStack(Tail(stack), x))
  BY Pop
<1>2. ASSUME NEW s \in Seq(Calls), stack' = <<c, d>> \o s, NEW t, t = <<d>> \o s
      PROVE  \A x : InStack(stack', x) <=> x = c \/ x = d \/ InStack(s, x)
  <2>1. t \in Seq(Calls) /\ stack' = <<c>> \o t
    <3>1. t \in Seq(Calls)
      BY <1>2, Push
    <3>2. <<c, d>> \o s = <<c>> \o (<<d>> \o s)
      BY <1>2, TwoInFront
    <3> QED BY <1>2, <3>1, <3>2
  <2>2. \A x : InStack(t, x) <=> x = d \/ InStack(s, x)
    BY <1>2, Push
  <2>3. \A x : InStack(<<c>> \o t, x) <=> x = c \/ InStack(t, x)
    BY <2>1, Push
  <2> QED BY <2>1, <2>2, <2>3
<1>3. \A x : InStack(stack', x) <=> x = c \/ x = d \/ InStack(Tail(stack), x)
  BY <1>1, <1>2
<1> QED BY <1>1, <1>3 DEF Stays

LEMMA NothingInStack == \A x : ~InStack(<<>>, x)
<1>1. \A i \in 1 .. Len(<<>>) : FALSE
  OBVIOUS
<1> QED BY <1>1 DEF InStack

LEMMA OneCall ==
  ASSUME NEW c \in Calls, stack = <<>>, stack' = <<c>>
  PROVE  stack \in Seq(Calls) /\ stack' = <<c>> \o stack
OBVIOUS

LEMMA CurrentIsFlow ==
  ASSUME RoundInv, hasNext(recs)
  PROVE  /\ current(recs) \in Flow
         /\ current(recs) = Order[Len(Order) - recs.countdown + 1]
         /\ recs.countdown \in 1 .. Len(Order) /\ Len(Order) \in Nat
<1>1. /\ Len(Order) \in Nat /\ Order \in Seq(Flow)
      /\ recs.countdown \in 1 .. Len(Order)
      /\ recs.cursor = Len(Order) - recs.countdown
  BY FlowAssumption DEF RoundInv, RoundType, RoundPlace, hasNext
<1>2. recs.cursor + 1 \in 1 .. Len(Order) /\ recs.cursor + 1 = Len(Order) - recs.countdown + 1
  BY <1>1
<1> HIDE FlowAssumption
<1>3. Order[recs.cursor + 1] \in Flow
  BY <1>1, <1>2
<1> QED BY <1>1, <1>2, <1>3 DEF current

LEMMA StackKeeps == StackInv /\ RoundInv /\ [Next]_vars => StackInv'
<1> SUFFICES ASSUME StackInv, RoundInv, [Next]_vars PROVE StackInv'
  OBVIOUS
<1>a. stack \in Seq(Calls)
  BY DEF StackInv
<1>1. ASSUME NEW f \in Flow, Refill(f) PROVE StackInv'
  <2>1. Call("send", f) \in Calls /\ Call("send", f) \notin Guarded
    BY CallsApart, Unguarded, Places
  <2>2. stack = <<>> /\ stack' = <<Call("send", f)>> /\ UNCHANGED <<inWakeup, dispatching>>
    BY <1>1 DEF Refill, roundVars
  <2>3. stack' = <<Call("send", f)>> \o stack
    BY <2>1, <2>2, OneCall
  <2> QED BY <2>1, <2>2, <2>3, CallNests
<1>2. CASE OutsideWakesUp
  <2>1. Call("tryToSend", Lower) \in Calls /\ Call("tryToSend", Lower) \notin Guarded
    BY CallsApart, Unguarded, Places
  <2>2. stack = <<>> /\ stack' = <<Call("tryToSend", Lower)>> /\ UNCHANGED <<inWakeup, dispatching>>
    BY <1>2 DEF OutsideWakesUp, roundVars
  <2>3. stack' = <<Call("tryToSend", Lower)>> \o stack
    BY <2>1, <2>2, OneCall
  <2> QED BY <2>1, <2>2, <2>3, CallNests
<1>3. ASSUME NEW f \in Flow, openFlow(f) \/ closeFlow(f) PROVE StackInv'
  BY <1>3 DEF openFlow, closeFlow, roundVars, StackInv
<1>4. ASSUME NEW f \in Flow, SourceSends(f) PROVE StackInv'
  <2>1. Call("tryToSend", f) \in Calls /\ Call("tryToSend", f) \notin Guarded
    BY CallsApart, Unguarded, Places
  <2>2. \A b : Head(stack) # Call("woken", b)
    BY <1>4, Runs DEF SourceSends
  <2>3. stack' = <<Call("tryToSend", f)>> \o stack /\ UNCHANGED <<inWakeup, dispatching>>
    BY <1>4 DEF SourceSends, roundVars
  <2> QED BY <2>1, <2>2, <2>3, CallNests
<1>5. ASSUME NEW f \in Flow, PassDown(f) PROVE StackInv'
  <2>1. Call("tryToSend", Lower) \in Calls /\ Call("tryToSend", Lower) \notin Guarded
    BY CallsApart, Unguarded, Places
  <2>2. \A b : Head(stack) # Call("woken", b)
    BY <1>5, Runs DEF PassDown
  <2>3. stack' = <<Call("tryToSend", Lower)>> \o stack /\ UNCHANGED <<inWakeup, dispatching>>
    BY <1>5 DEF PassDown, roundVars
  <2> QED BY <2>1, <2>2, <2>3, CallNests
<1>6. CASE PassOut
  <2>1. Call("tryToSend", Lower) \in Calls /\ Call("tryToSend", Lower) \notin Guarded
    BY CallsApart, Unguarded, Places
  <2>2. \A b : Head(stack) # Call("woken", b)
    BY <1>6, Runs DEF PassOut
  <2>3. UNCHANGED <<inWakeup, dispatching>>
    BY <1>6 DEF PassOut, roundVars
  <2>4. stack' = <<Call("tryToSend", Lower)>> \o stack \/ stack' = stack
    BY <1>6 DEF PassOut
  <2>5. CASE stack' = stack
    BY <2>3, <2>5 DEF StackInv
  <2> QED BY <2>1, <2>2, <2>3, <2>4, <2>5, CallNests
<1>7. ASSUME NEW c \in {"send", "tryToSend"}, NEW b \in Buffer, Running(c, b), stack' = Tail(stack),
             UNCHANGED <<inWakeup, dispatching>>
      PROVE  StackInv'
  <2>1. Head(stack) \notin Guarded /\ stack # <<>>
    BY <1>7, Unguarded DEF Running
  <2> QED BY <1>7, <2>1, CallReturns
<1>8. ASSUME NEW f \in Flow, SourceReturns(f) PROVE StackInv'
  BY <1>7, <1>8, Places DEF SourceReturns, roundVars
<1>9. ASSUME NEW b \in Buffer, tryToSendReturns(b) PROVE StackInv'
  BY <1>7, <1>9 DEF tryToSendReturns, roundVars
<1>10. CASE WakeNext
  <2> DEFINE c == Call("tryToSend", current(recs))
  <2>1. current(recs) \in Flow
    BY <1>10, CurrentIsFlow DEF WakeNext
  <2>2. c \in Calls /\ c \notin Guarded
    BY <2>1, CallsApart, Unguarded, Places
  <2>3. \A b : Head(stack) # Call("woken", b)
    BY <1>10, Runs DEF WakeNext
  <2>4. stack' = <<c>> \o stack /\ UNCHANGED <<inWakeup, dispatching>>
    BY <1>10 DEF WakeNext
  <2> QED BY <2>2, <2>3, <2>4, CallNests
<1>11. CASE UNCHANGED vars
  BY <1>11 DEF vars, roundVars, StackInv
<1> QED
  BY <1>1, <1>2, <1>3, <1>4, <1>5, <1>6, <1>8, <1>9, <1>10, <1>11, WakeSourceNests,
     WakeDispatcherNests, WakeupReturnNests, RoundEndNests DEF Next, Outside, Step

LEMMA InitStack == Init => StackInv
<1> SUFFICES ASSUME Init PROVE StackInv
  OBVIOUS
<1>1. stack = <<>> /\ dispatching = FALSE /\ inWakeup = [b \in Buffer |-> FALSE]
  BY DEF Init
<1>2. \A i \in 1 .. Len(<<>>) : FALSE
  OBVIOUS
<1>3. \A i \in 2 .. Len(<<>>) : FALSE
  OBVIOUS
<1>4. <<>> \in Seq(Calls)
  OBVIOUS
<1>5. Nested(<<>>)
  BY <1>2, <1>3 DEF Nested
<1> QED BY <1>1, <1>4, <1>5, NothingInStack DEF StackInv

LEMMA DataKeeps == DataInv /\ [Next]_vars => DataInv'
<1> SUFFICES ASSUME DataInv, [Next]_vars PROVE DataInv'
  OBVIOUS
<1>a. DataType
  BY DEF DataInv
<1>1. ASSUME NEW f \in Flow, Refill(f) PROVE DataInv'
  <2>1. backlog' \in [Flow -> 0 .. Backlog]
    BY <1>a, <1>1, BoundAssumption DEF Refill, DataType
  <2> QED BY <1>a, <1>1, <2>1, DataRest DEF Refill, DataType, gateVars, outsideVars
<1>2. CASE OutsideWakesUp
  <2>1. outlet' \in 0 .. Outlet
    BY <1>2, BoundAssumption DEF OutsideWakesUp
  <2> QED BY <1>a, <1>2, <2>1, DataRest DEF OutsideWakesUp, DataType, gateVars, sourceVars
<1>3. ASSUME NEW f \in Flow, openFlow(f) PROVE DataInv'
  <2>1. flowStatus' \in [Flow -> BOOLEAN] /\ unannounced' \subseteq Flow
    BY <1>a, <1>3 DEF openFlow, DataType
  <2> QED BY <1>a, <1>3, <2>1, DataRest DEF openFlow, DataType, outsideVars, sourceVars
<1>4. ASSUME NEW f \in Flow, closeFlow(f) PROVE DataInv'
  <2>1. flowStatus' \in [Flow -> BOOLEAN] /\ unannounced' \subseteq Flow
    BY <1>a, <1>4 DEF closeFlow, DataType
  <2> QED BY <1>a, <1>4, <2>1, DataRest DEF closeFlow, DataType, outsideVars, sourceVars
<1>5. CASE WakeDispatcher
  <2>1. UNCHANGED <<sourceVars, bufferVars, flowStatus, outsideVars>> /\ unannounced' = {}
    BY <1>5 DEF WakeDispatcher
  <2> QED BY <1>a, <2>1, DataRest DEF DataType, outsideVars, sourceVars
<1>6. ASSUME UNCHANGED <<sourceVars, bufferVars, gateVars, outsideVars>> PROVE DataInv'
  BY <1>a, <1>6, DataRest DEF DataType, outsideVars, sourceVars, gateVars
<1>7. CASE WakeNext \/ RoundEnds
  BY <1>6, <1>7 DEF WakeNext, RoundEnds
<1>8. ASSUME NEW f \in Flow, SourceReturns(f) \/ WakeSource(f) PROVE DataInv'
  BY <1>6, <1>8 DEF SourceReturns, WakeSource
<1>9. ASSUME NEW b \in Buffer, tryToSendReturns(b) \/ WakeupReturns(b) PROVE DataInv'
  BY <1>6, <1>9 DEF tryToSendReturns, WakeupReturns
<1>10. CASE UNCHANGED vars
  BY <1>6, <1>10 DEF vars
<1> QED
  BY <1>1, <1>2, <1>3, <1>4, <1>5, <1>7, <1>8, <1>9, <1>10, DataSourceSends, DataPassDown,
     DataPassOut DEF Next, Outside, Step

-----------------------------------------------------------------------------
(* Nobody waits in vain.                                                   *)

(* The shared buffer does not return before it has sent what it can. *)
LowerSettles == SendsOnce(Lower) => Running("tryToSend", Lower)

(* The round has not come to the buffer of f. *)
ToVisit(f) == \E k \in Len(Order) - recs.countdown + 1 .. Len(Order) : Order[k] = f

(* A call that is under way will have the buffer of f try to send: its own,
   the round of the receptor, or one of the shared buffer that ends with a
   round since it is not within one. *)
WillTry(f) ==
  \/ InStack(stack, Call("tryToSend", f))
  \/ dispatching /\ ToVisit(f)
  \/ ~inWakeup[Lower] /\ InStack(stack, Call("tryToSend", Lower))

(* The buffer of f can pass its front on, or could as soon as the shared
   buffer has passed on what it holds. *)
MayTry(f) ==
  /\ buffer[f] # <<>> /\ flowStatus[f]
  /\ doIsAccepting(Lower, f) \/ (outlet > 0 /\ Length[f] <= MaxSize[Lower])

WaitInv == \A f \in Flow : MayTry(f) => f \in unannounced \/ WillTry(f)

(* The source of f will be asked to send: it is, or its buffer tries to send
   and ends with a wakeup since it is not within one. *)
WillSend(f) ==
  \/ InStack(stack, Call("send", f))
  \/ ~inWakeup[f] /\ InStack(stack, Call("tryToSend", f))

MaySend(f) == backlog[f] > 0 /\ doIsAccepting(f, f)

SourceInv == \A f \in Flow : MaySend(f) => WillSend(f)

IInv == DataInv /\ RoundInv /\ StackInv /\ LowerSettles /\ WaitInv /\ SourceInv

LEMMA SendsOnceIs ==
  ASSUME DataInv
  PROVE  /\ SendsOnce(Lower) <=> buffer[Lower] # <<>> /\ outlet > 0
         /\ \A f \in Flow : SendsOnce(f) <=> buffer[f] # <<>> /\ flowStatus[f] /\ doIsAccepting(Lower, f)
<1>1. SendsOnce(Lower) <=> buffer[Lower] # <<>> /\ outlet > 0
  BY DEF SendsOnce, hasAcceptor
<1>2. ASSUME NEW f \in Flow, buffer[f] # <<>> PROVE Head(buffer[f]).flow = f
  <2>1. buffer[f] \in Seq(Compound)
    BY Places DEF DataInv, DataType
  <2>2. 1 \in 1 .. Len(buffer[f]) /\ Head(buffer[f]) = buffer[f][1]
    BY <1>2, <2>1, Removed
  <2> QED BY <2>2 DEF DataInv, BufferInv
<1>3. ASSUME NEW f \in Flow
      PROVE  SendsOnce(f) <=> buffer[f] # <<>> /\ flowStatus[f] /\ doIsAccepting(Lower, f)
  BY <1>2, Places DEF SendsOnce, hasAcceptor
<1> QED BY <1>1, <1>3

LEMMA Sizes ==
  ASSUME DataInv, NEW b \in Buffer
  PROVE  /\ currentSize[b] \in Nat /\ currentSize[b] <= MaxSize[b]
         /\ MaxSize[b] \in Nat /\ MaxSize[b] > 0
         /\ buffer[b] = <<>> => currentSize[b] = 0
<1>1. currentSize[b] \in Nat /\ currentSize[b] <= MaxSize[b] /\ Sums(buffer[b], currentSize[b])
  BY DEF DataInv, DataType, BufferInv
<1> QED BY <1>1, Numerals, SumsOfNothing

(* A buffer that has tried to send and is done has a reason to wait. *)
LEMMA Quiet ==
  ASSUME DataInv, LowerSettles, NEW f \in Flow, ~SendsOnce(f), ~Running("tryToSend", Lower)
  PROVE  ~MayTry(f)
<1> SUFFICES ASSUME MayTry(f) PROVE FALSE
  OBVIOUS
<1>1. ~doIsAccepting(Lower, f) /\ outlet > 0 /\ Length[f] <= MaxSize[Lower]
  BY SendsOnceIs DEF MayTry
<1>2. buffer[Lower] = <<>>
  BY <1>1, SendsOnceIs DEF LowerSettles
<1>3. currentSize[Lower] = 0
  BY <1>2, Sizes, Places
<1>4. Length[f] \in Nat
  BY Numerals
<1> QED BY <1>1, <1>3, <1>4 DEF doIsAccepting

(* A shared buffer that does not wake the Dispatcher is full. *)
LEMMA QuietLower ==
  ASSUME DataInv, NEW f \in Flow, ~SendsOnce(Lower), ~MayWake(Lower), ~inWakeup[Lower]
  PROVE  ~MayTry(f)
<1>1. /\ currentSize[Lower] \in Nat /\ MaxSize[Lower] \in Nat /\ MaxSize[Lower] > 0
      /\ buffer[Lower] = <<>> => currentSize[Lower] = 0
  BY Sizes, Places
<1>2. ~(currentSize[Lower] < MaxSize[Lower])
  BY DEF MayWake
<1>3. Length[f] \in Nat /\ Length[f] > 0
  BY Numerals
<1>4. ~doIsAccepting(Lower, f)
  BY <1>1, <1>2, <1>3 DEF doIsAccepting
<1>5. ~(outlet > 0)
  BY <1>1, <1>2, SendsOnceIs
<1> QED BY <1>4, <1>5 DEF MayTry

LEMMA SettlesKeeps == DataInv /\ StackInv /\ LowerSettles /\ [Next]_vars => LowerSettles'
<1> SUFFICES ASSUME DataInv, StackInv, LowerSettles, [Next]_vars PROVE LowerSettles'
  OBVIOUS
<1>a. SendsOnce(Lower)' <=> buffer'[Lower] # <<>> /\ outlet' > 0
  BY DataKeeps, SendsOnceIs DEF SendsOnce, hasAcceptor
<1>1. ASSUME ~SendsOnce(Lower), buffer'[Lower] = buffer[Lower], outlet' = outlet PROVE LowerSettles'
  BY <1>1, <1>a, SendsOnceIs DEF LowerSettles
<1>2. ASSUME ~Running("tryToSend", Lower), buffer'[Lower] = buffer[Lower], outlet' = outlet
      PROVE  LowerSettles'
  BY <1>1, <1>2 DEF LowerSettles
<1>3. ASSUME NEW f \in Flow, Refill(f) \/ openFlow(f) \/ closeFlow(f) PROVE LowerSettles'
  <2>1. ~Running("tryToSend", Lower)
    BY <1>3 DEF Refill, openFlow, closeFlow, Running
  <2> QED BY <1>2, <1>3, <2>1 DEF Refill, openFlow, closeFlow, bufferVars, outsideVars
<1>4. CASE OutsideWakesUp
  BY <1>4 DEF OutsideWakesUp, LowerSettles, Running
<1>5. ASSUME NEW f \in Flow, SourceSends(f) PROVE LowerSettles'
  <2>1. ~Running("tryToSend", Lower)
    BY <1>5, Runs DEF SourceSends, Running
  <2>2. buffer'[Lower] = buffer[Lower]
    BY <1>5, Places DEF SourceSends, DataInv, DataType
  <2> QED BY <1>2, <1>5, <2>1, <2>2 DEF SourceSends, outsideVars
<1>6. ASSUME NEW f \in Flow, SourceReturns(f) PROVE LowerSettles'
  <2>1. ~Running("tryToSend", Lower)
    BY <1>6, Runs DEF SourceReturns, Running
  <2> QED BY <1>2, <1>6, <2>1 DEF SourceReturns, bufferVars, outsideVars
<1>7. ASSUME NEW c \in Calls, stack \in Seq(Calls), stack' = <<c>> \o stack PROVE stack' # <<>> /\ Head(stack') = c
  BY <1>7
<1>8. ASSUME NEW f \in Flow, PassDown(f) PROVE LowerSettles'
  BY <1>7, <1>8, CallsApart, Places DEF StackInv, PassDown, LowerSettles, Running
<1>9. ASSUME PassOut PROVE LowerSettles'
  BY <1>7, <1>9, CallsApart, Places DEF StackInv, PassOut, LowerSettles, Running
<1>10. ASSUME NEW f \in Flow, WakeSource(f) PROVE LowerSettles'
  <2>1. ~Running("tryToSend", Lower)
    BY <1>10, Runs, Places DEF WakeSource, Running
  <2> QED BY <1>2, <1>10, <2>1 DEF WakeSource, bufferVars, outsideVars
<1>11. CASE WakeDispatcher
  BY <1>1, <1>11 DEF WakeDispatcher, bufferVars, outsideVars
<1>12. ASSUME NEW b \in Buffer, tryToSendReturns(b) PROVE LowerSettles'
  <2>1. ~SendsOnce(Lower) \/ ~Running("tryToSend", Lower)
    <3>1. CASE b = Lower
      BY <1>12, <3>1 DEF tryToSendReturns
    <3>2. CASE b # Lower
      BY <1>12, <3>2, Runs DEF tryToSendReturns, Running
    <3> QED BY <3>1, <3>2
  <2> QED BY <1>1, <1>2, <1>12, <2>1 DEF tryToSendReturns, bufferVars, outsideVars
<1>13. ASSUME NEW b \in Buffer, WakeupReturns(b) PROVE LowerSettles'
  <2>1. ~Running("tryToSend", Lower)
    BY <1>13, Runs DEF WakeupReturns, Running
  <2> QED BY <1>2, <1>13, <2>1 DEF WakeupReturns, bufferVars, outsideVars
<1>14. CASE WakeNext \/ RoundEnds
  <2>1. ~Running("tryToSend", Lower)
    BY <1>14, Runs DEF WakeNext, RoundEnds, Running
  <2> QED BY <1>2, <1>14, <2>1 DEF WakeNext, RoundEnds, bufferVars, outsideVars
<1>15. CASE UNCHANGED vars
  BY <1>15, <1>a, SendsOnceIs DEF vars, LowerSettles, Running, bufferVars, outsideVars
<1> QED
  BY <1>3, <1>4, <1>5, <1>6, <1>8, <1>9, <1>10, <1>11, <1>12, <1>13, <1>14, <1>15
  DEF Next, Outside, Step

(* A flow is waited for as before when no call that would serve it has gone. *)
LEMMA WaitKept ==
  ASSUME WaitInv, NEW f \in Flow,
         MayTry(f)' => MayTry(f),
         f \in unannounced => f \in unannounced',
         WillTry(f) => WillTry(f)'
  PROVE  MayTry(f)' => f \in unannounced' \/ WillTry(f)'
BY DEF WaitInv

(* The calls made or returned from leave the round as it is. *)
LEMMA WillTryKept ==
  ASSUME NEW f \in Flow, WillTry(f), UNCHANGED <<inWakeup, roundVars>>,
         InStack(stack, Call("tryToSend", f)) => InStack(stack', Call("tryToSend", f)),
         InStack(stack, Call("tryToSend", Lower)) => InStack(stack', Call("tryToSend", Lower))
  PROVE  WillTry(f)'
BY DEF WillTry, ToVisit, roundVars

LEMMA MayTryKept ==
  ASSUME NEW f \in Flow, UNCHANGED <<bufferVars, flowStatus, outlet>>
  PROVE  MayTry(f)' <=> MayTry(f)
BY DEF MayTry, doIsAccepting, bufferVars

(* A call other than one to try to send returns. *)
LEMMA StaysBut ==
  ASSUME Stays, NEW c, NEW b, Running(c, b), NEW d, NEW e, d # c \/ e # b,
         InStack(stack, Call(d, e))
  PROVE  InStack(stack', Call(d, e))
BY Runs DEF Stays

LEMMA WaitKeeps ==
  ASSUME DataInv, RoundInv, StackInv, LowerSettles, WaitInv, [Next]_vars
  PROVE  WaitInv'
<1> USE DEF WaitInv
<1>a. stack \in Seq(Calls)
  BY DEF StackInv
<1>b. DataInv' /\ StackInv' /\ RoundInv'
  BY DataKeeps, StackKeeps, RoundKeeps
<1>1. ASSUME NEW g \in Flow, Refill(g) PROVE WaitInv'
  <2>1. stack = <<>> /\ UNCHANGED <<bufferVars, flowStatus, unannounced, outlet, inWakeup, roundVars>>
    BY <1>1 DEF Refill, gateVars, outsideVars
  <2>2. \A x : ~InStack(stack, x)
    BY <2>1, NothingInStack
  <2> SUFFICES ASSUME NEW f \in Flow PROVE MayTry(f)' => f \in unannounced' \/ WillTry(f)'
    OBVIOUS
  <2> QED BY <2>1, <2>2, WaitKept, WillTryKept, MayTryKept
<1>2. CASE OutsideWakesUp
  <2>1. stack = <<>> /\ stack' = <<Call("tryToSend", Lower)>> /\ inWakeup' = inWakeup
    BY <1>2 DEF OutsideWakesUp
  <2>2. ~inWakeup[Lower]
    BY <2>1, NothingInStack, Places DEF StackInv
  <2>3. InStack(stack', Call("tryToSend", Lower))
    BY <2>1, OneCall, PushStays, CallsApart, Places
  <2> QED BY <2>1, <2>2, <2>3 DEF WillTry
<1>3. ASSUME NEW g \in Flow, openFlow(g) PROVE WaitInv'
  <2>1. /\ UNCHANGED <<bufferVars, outlet, inWakeup, roundVars, stack>>
        /\ flowStatus' = [flowStatus EXCEPT ![g] = TRUE]
        /\ unannounced' = unannounced \union {g}
    BY <1>3 DEF openFlow, outsideVars
  <2> SUFFICES ASSUME NEW f \in Flow, f # g PROVE MayTry(f)' => f \in unannounced' \/ WillTry(f)'
    BY <2>1
  <2>2. flowStatus'[f] = flowStatus[f]
    BY <2>1 DEF DataInv, DataType
  <2>3. MayTry(f)' <=> MayTry(f)
    BY <2>1, <2>2 DEF MayTry, doIsAccepting, bufferVars
  <2> QED BY <2>1, <2>3, WaitKept, WillTryKept
<1>4. ASSUME NEW g \in Flow, closeFlow(g) PROVE WaitInv'
  <2>1. /\ UNCHANGED <<bufferVars, outlet, inWakeup, roundVars, stack, unannounced>>
        /\ flowStatus' = [flowStatus EXCEPT ![g] = FALSE]
    BY <1>4 DEF closeFlow, outsideVars
  <2> SUFFICES ASSUME NEW f \in Flow PROVE MayTry(f)' => f \in unannounced' \/ WillTry(f)'
    OBVIOUS
  <2>2. flowStatus'[f] => flowStatus[f]
    BY <2>1 DEF DataInv, DataType
  <2>3. MayTry(f)' => MayTry(f)
    BY <2>1, <2>2 DEF MayTry, doIsAccepting, bufferVars
  <2> QED BY <2>1, <2>3, WaitKept, WillTryKept
<1>5. ASSUME NEW g \in Flow, SourceSends(g) PROVE WaitInv'
  <2>1. /\ stack' = <<Call("tryToSend", g)>> \o stack
        /\ UNCHANGED <<inWakeup, roundVars, flowStatus, unannounced, outlet>>
    BY <1>5 DEF SourceSends, gateVars, outsideVars
  <2>2. AllStay /\ InStack(stack', Call("tryToSend", g))
    BY <1>a, <2>1, PushStays, CallsApart, Places
  <2> SUFFICES ASSUME NEW f \in Flow PROVE MayTry(f)' => f \in unannounced' \/ WillTry(f)'
    OBVIOUS
  <2>3. CASE f = g
    BY <2>2, <2>3 DEF WillTry
  <2>4. CASE f # g
    <3>1. buffer'[f] = buffer[f] /\ currentSize'[Lower] = currentSize[Lower]
      BY <1>5, <2>4, Places DEF SourceSends, DataInv, DataType
    <3>2. MayTry(f)' <=> MayTry(f)
      BY <2>1, <3>1 DEF MayTry, doIsAccepting
    <3> QED BY <2>1, <2>2, <3>2, WaitKept, WillTryKept DEF AllStay
  <2> QED BY <2>3, <2>4
<1>6. ASSUME NEW g \in Flow, SourceReturns(g) PROVE WaitInv'
  <2>1. /\ Running("send", g) /\ stack # <<>> /\ stack' = Tail(stack)
        /\ UNCHANGED <<bufferVars, flowStatus, unannounced, outlet, inWakeup, roundVars>>
    BY <1>6 DEF SourceReturns, gateVars, outsideVars, Running
  <2>2. Stays
    BY <1>a, <2>1, PopStays
  <2> SUFFICES ASSUME NEW f \in Flow PROVE MayTry(f)' => f \in unannounced' \/ WillTry(f)'
    OBVIOUS
  <2> QED BY <2>1, <2>2, StaysBut, WaitKept, WillTryKept, MayTryKept
<1>7. ASSUME NEW g \in Flow, PassDown(g) PROVE WaitInv'
  <2>1. /\ stack' = <<Call("tryToSend", Lower)>> \o stack /\ Running("tryToSend", g)
        /\ UNCHANGED <<inWakeup, roundVars, flowStatus, unannounced, outlet>>
    BY <1>7 DEF PassDown, gateVars, outsideVars
  <2>2. AllStay
    BY <1>a, <2>1, PushStays, CallsApart, Places
  <2>3. InStack(stack, Call("tryToSend", g))
    BY <1>a, <2>1, Pop DEF Running
  <2> SUFFICES ASSUME NEW f \in Flow PROVE MayTry(f)' => f \in unannounced' \/ WillTry(f)'
    OBVIOUS
  <2>4. CASE f = g
    BY <2>2, <2>3, <2>4 DEF WillTry, AllStay
  <2>5. CASE f # g
    <3> DEFINE c == Head(buffer[g])
    <3>1. c \in Compound
      <4>1. buffer[g] \in Seq(Compound) /\ buffer[g] # <<>>
        BY <1>7, Places DEF PassDown, SendsOnce, DataInv, DataType
      <4> QED BY <4>1, Removed
    <3>2. /\ buffer' = [buffer EXCEPT ![c.flow] = Tail(@), ![Lower] = Append(@, c)]
          /\ currentSize' = [currentSize EXCEPT ![g] = @ - Length[c.flow], ![Lower] = @ + Length[c.flow]]
      BY <1>7 DEF PassDown, Stored
    <3>3. c.flow = g
      <4>1. buffer[g] \in Seq(Compound) /\ buffer[g] # <<>>
        BY <1>7, Places DEF PassDown, SendsOnce, DataInv, DataType
      <4>2. 1 \in 1 .. Len(buffer[g]) /\ c = buffer[g][1]
        BY <4>1, Removed
      <4> HIDE DEF c
      <4> QED BY <4>2 DEF DataInv, BufferInv
    <3> HIDE DEF c
    <3>4. buffer'[f] = buffer[f] /\ currentSize'[Lower] = currentSize[Lower] + Length[g]
      BY <2>5, <3>2, <3>3, Places DEF DataInv, DataType
    <3>5. currentSize[Lower] \in Nat /\ Length[g] \in Nat /\ Length[f] \in Nat /\ MaxSize[Lower] \in Nat
      BY Sizes, Numerals, Places
    <3>6. MayTry(f)' => MayTry(f)
      BY <2>1, <3>4, <3>5 DEF MayTry, doIsAccepting
    <3> QED BY <2>1, <2>2, <3>6, WaitKept, WillTryKept DEF AllStay
  <2> QED BY <2>4, <2>5
<1>8. CASE PassOut
  <2>1. /\ stack' = stack \/ stack' = <<Call("tryToSend", Lower)>> \o stack
        /\ UNCHANGED <<inWakeup, roundVars, flowStatus, unannounced>>
        /\ outlet > 0 /\ outlet' = outlet - 1
        /\ buffer' = [buffer EXCEPT ![Lower] = Tail(@)]
    BY <1>8, SendsOnceIs DEF PassOut, gateVars
  <2>2. AllStay
    BY <1>a, <2>1, PushStays, CallsApart, Places DEF AllStay
  <2> SUFFICES ASSUME NEW f \in Flow PROVE MayTry(f)' => f \in unannounced' \/ WillTry(f)'
    OBVIOUS
  <2>3. buffer'[f] = buffer[f]
    BY <2>1, Places DEF DataInv, DataType
  <2>4. currentSize'[Lower] \in Nat /\ Length[f] \in Nat /\ MaxSize[Lower] \in Nat
    BY <1>b, Numerals, Places DEF DataInv, DataType
  <2>5. MayTry(f)' => MayTry(f)
    <3> SUFFICES ASSUME MayTry(f)' PROVE MayTry(f)
      OBVIOUS
    <3>1. buffer'[f] # <<>> /\ flowStatus'[f]
          /\ (currentSize'[Lower] + Length[f] <= MaxSize[Lower] \/ Length[f] <= MaxSize[Lower])
      BY DEF MayTry, doIsAccepting
    <3>2. Length[f] <= MaxSize[Lower]
      BY <2>4, <3>1
    <3> QED BY <2>1, <2>3, <3>1, <3>2 DEF MayTry
  <2> QED BY <2>1, <2>2, <2>5, WaitKept, WillTryKept DEF AllStay
<1>9. ASSUME NEW g \in Flow, WakeSource(g) PROVE WaitInv'
  <2>1. /\ Running("tryToSend", g) /\ stack # <<>> /\ ~SendsOnce(g)
        /\ stack' = <<Call("send", g), Call("woken", g)>> \o Tail(stack)
        /\ UNCHANGED <<bufferVars, flowStatus, unannounced, outlet, roundVars>>
        /\ inWakeup' = [inWakeup EXCEPT ![g] = TRUE]
    BY <1>9 DEF WakeSource, gateVars, outsideVars, Running
  <2>2. Stays
    BY <1>a, <2>1, PushTwoStay, CallsApart, Places
  <2> SUFFICES ASSUME NEW f \in Flow PROVE MayTry(f)' => f \in unannounced' \/ WillTry(f)'
    OBVIOUS
  <2>3. MayTry(f)' <=> MayTry(f)
    BY <2>1, MayTryKept
  <2>4. CASE f = g
    <3>1. ~Running("tryToSend", Lower)
      BY <2>1, Runs, Places DEF Running
    <3> QED BY <2>1, <2>3, <2>4, <3>1, Quiet
  <2>5. CASE f # g
    <3>1. InStack(stack, Call("tryToSend", f)) => InStack(stack', Call("tryToSend", f))
      BY SMTT(20), <2>1, <2>2, <2>5, StaysBut
    <3>2. InStack(stack, Call("tryToSend", Lower)) => InStack(stack', Call("tryToSend", Lower))
      BY <2>1, <2>2, StaysBut, Places
    <3>3. inWakeup'[Lower] = inWakeup[Lower]
      BY <2>1, Places DEF StackInv
    <3>4. WillTry(f) => WillTry(f)'
      BY <2>1, <3>1, <3>2, <3>3 DEF WillTry, ToVisit, roundVars
    <3> QED BY <2>1, <2>3, <3>4, WaitKept
  <2> QED BY <2>4, <2>5
<1>10. CASE WakeDispatcher
  <2>1. dispatching' = TRUE /\ recs'.countdown = Len(Order)
    <3>1. ~dispatching
      BY <1>10, RoundIsWakeup DEF WakeDispatcher, MayWake
    <3>2. dispatching' = TRUE /\ recs' = startRound(recs)
      BY <1>10, <3>1 DEF WakeDispatcher
    <3> QED BY <3>2 DEF startRound, RoundInv, RoundType
  <2> SUFFICES ASSUME NEW f \in Flow PROVE ToVisit(f)'
    BY <2>1 DEF WillTry
  <2>2. PICK k \in 1 .. Len(Order) : Order[k] = f
    <3>1. f \in ToSet(Order) /\ Order \in Seq(Flow)
      BY FlowAssumption
    <3> QED BY <3>1 DEF ToSet
  <2>3. Len(Order) - recs'.countdown + 1 = 1
    <3>1. Len(Order) \in Nat
      BY FlowAssumption
    <3> QED BY <2>1, <3>1
  <2> QED BY <2>2, <2>3 DEF ToVisit
<1>11. ASSUME NEW b \in Buffer, tryToSendReturns(b) PROVE WaitInv'
  <2>1. /\ Running("tryToSend", b) /\ stack # <<>> /\ ~SendsOnce(b) /\ ~MayWake(b)
        /\ stack' = Tail(stack)
        /\ UNCHANGED <<bufferVars, flowStatus, unannounced, outlet, roundVars, inWakeup>>
    BY <1>11 DEF tryToSendReturns, gateVars, outsideVars, Running
  <2>2. Stays
    BY <1>a, <2>1, PopStays
  <2> SUFFICES ASSUME NEW f \in Flow PROVE MayTry(f)' => f \in unannounced' \/ WillTry(f)'
    OBVIOUS
  <2>3. MayTry(f)' <=> MayTry(f)
    BY <2>1, MayTryKept
  <2>4. CASE b = f
    <3>1. ~Running("tryToSend", Lower)
      BY <2>1, <2>4, Runs, Places DEF Running
    <3> QED BY <2>1, <2>3, <2>4, <3>1, Quiet
  <2>5. CASE b = Lower
    <3>1. InStack(stack, Call("tryToSend", f)) => InStack(stack', Call("tryToSend", f))
      BY <2>1, <2>2, <2>5, StaysBut, Places
    <3>2. CASE inWakeup[Lower]
      <4>1. WillTry(f) => WillTry(f)'
        BY <2>1, <3>1, <3>2 DEF WillTry, ToVisit, roundVars
      <4> QED BY <2>1, <2>3, <4>1, WaitKept
    <3>3. CASE ~inWakeup[Lower]
      BY <2>1, <2>3, <2>5, <3>3, QuietLower
    <3> QED BY <3>2, <3>3
  <2>6. CASE b # f /\ b # Lower
    <3>1. InStack(stack, Call("tryToSend", f)) => InStack(stack', Call("tryToSend", f))
      BY <2>1, <2>2, <2>6, StaysBut
    <3>2. InStack(stack, Call("tryToSend", Lower)) => InStack(stack', Call("tryToSend", Lower))
      BY <2>1, <2>2, <2>6, StaysBut
    <3> QED BY <2>1, <2>3, <3>1, <3>2, WaitKept, WillTryKept
  <2> QED BY <2>4, <2>5, <2>6
<1>12. ASSUME NEW b \in Buffer, WakeupReturns(b) PROVE WaitInv'
  <2>1. /\ Running("woken", b) /\ stack # <<>> /\ stack' = Tail(stack)
        /\ UNCHANGED <<bufferVars, flowStatus, unannounced, outlet, roundVars>>
        /\ inWakeup' = [inWakeup EXCEPT ![b] = FALSE]
    BY <1>12 DEF WakeupReturns, gateVars, outsideVars, Running
  <2>2. Stays
    BY <1>a, <2>1, PopStays
  <2> SUFFICES ASSUME NEW f \in Flow PROVE MayTry(f)' => f \in unannounced' \/ WillTry(f)'
    OBVIOUS
  <2>3. \A d : InStack(stack, Call("tryToSend", d)) => InStack(stack', Call("tryToSend", d))
    BY <2>1, <2>2, StaysBut
  <2>4. ~inWakeup[Lower] => ~inWakeup'[Lower]
    BY <2>1, Places DEF StackInv
  <2>5. WillTry(f) => WillTry(f)'
    BY <2>1, <2>3, <2>4 DEF WillTry, ToVisit, roundVars
  <2> QED BY <2>1, <2>5, WaitKept, MayTryKept
<1>13. CASE WakeNext
  <2> DEFINE g == current(recs)
  <2>1. /\ stack' = <<Call("tryToSend", g)>> \o stack /\ hasNext(recs) /\ recs' = next(recs)
        /\ UNCHANGED <<bufferVars, flowStatus, unannounced, outlet, inWakeup, dispatching>>
    BY <1>13 DEF WakeNext, gateVars, outsideVars
  <2>2. /\ g \in Flow /\ g = Order[Len(Order) - recs.countdown + 1]
        /\ recs.countdown \in 1 .. Len(Order) /\ Len(Order) \in Nat
    BY <2>1, CurrentIsFlow
  <2>3. recs'.countdown = recs.countdown - 1
    BY <2>1 DEF next, RoundInv, RoundType
  <2> HIDE DEF g
  <2>4. AllStay /\ InStack(stack', Call("tryToSend", g))
    BY <1>a, <2>1, <2>2, PushStays, CallsApart, Places
  <2> SUFFICES ASSUME NEW f \in Flow PROVE MayTry(f)' => f \in unannounced' \/ WillTry(f)'
    OBVIOUS
  <2>5. CASE f = g
    BY <2>4, <2>5 DEF WillTry
  <2>6. CASE f # g
    <3>1. ToVisit(f) => ToVisit(f)'
      <4> SUFFICES ASSUME NEW k \in Len(Order) - recs.countdown + 1 .. Len(Order), Order[k] = f
                   PROVE  k \in Len(Order) - recs'.countdown + 1 .. Len(Order)
        BY DEF ToVisit
      <4>1. k # Len(Order) - recs.countdown + 1
        BY <2>2, <2>6
      <4> QED BY <2>2, <2>3, <4>1
    <3>2. WillTry(f) => WillTry(f)'
      BY <2>1, <2>4, <3>1 DEF WillTry, AllStay
    <3> QED BY <2>1, <3>2, WaitKept, MayTryKept
  <2> QED BY <2>5, <2>6
<1>14. CASE RoundEnds
  <2>1. /\ Running("round", Lower) /\ stack # <<>> /\ stack' = Tail(stack) /\ ~hasNext(recs)
        /\ UNCHANGED <<bufferVars, flowStatus, unannounced, outlet, inWakeup>>
    BY <1>14 DEF RoundEnds, gateVars, outsideVars, Running
  <2>2. Stays
    BY <1>a, <2>1, PopStays
  <2> SUFFICES ASSUME NEW f \in Flow PROVE MayTry(f)' => f \in unannounced' \/ WillTry(f)'
    OBVIOUS
  <2>3. \A d : InStack(stack, Call("tryToSend", d)) => InStack(stack', Call("tryToSend", d))
    BY <2>1, <2>2, StaysBut
  <2>4. ~ToVisit(f)
    <3>1. Len(Order) \in Nat /\ recs.countdown = 0
      BY <2>1, FlowAssumption DEF RoundInv, RoundType, hasNext
    <3> QED BY <3>1 DEF ToVisit
  <2>5. WillTry(f) => WillTry(f)'
    BY <2>1, <2>3, <2>4 DEF WillTry
  <2> QED BY <2>1, <2>5, WaitKept, MayTryKept
<1>15. CASE UNCHANGED vars
  BY <1>15 DEF vars, bufferVars, gateVars, outsideVars, roundVars, MayTry, doIsAccepting, WillTry, ToVisit
<1> QED
  BY <1>1, <1>2, <1>3, <1>4, <1>5, <1>6, <1>7, <1>8, <1>9, <1>10, <1>11, <1>12, <1>13, <1>14, <1>15
  DEF Next, Outside, Step

(* A source that was woken sends before the wakeup returns. *)
LEMMA WokenSends ==
  ASSUME StackInv, NEW f \in Flow, inWakeup[f], stack # <<>>, Head(stack) # Call("woken", f)
  PROVE  InStack(stack, Call("send", f))
<1>1. stack \in Seq(Calls) /\ Nested(stack) /\ f \in Buffer
  BY Places DEF StackInv
<1>2. Head(stack) = stack[1] /\ Len(stack) \in Nat
  BY <1>1, Pop
<1>3. PICK i \in 1 .. Len(stack) : stack[i] = Call("woken", f)
  BY <1>1 DEF StackInv, InStack
<1>4. i # 1
  BY <1>2, <1>3
<1>5. i \in 2 .. Len(stack) /\ i - 1 \in 1 .. Len(stack)
  BY <1>2, <1>4
<1>6. stack[i - 1] = Call("send", f)
  BY <1>1, <1>3, <1>5 DEF Nested
<1> QED BY <1>5, <1>6 DEF InStack

LEMMA SendKept ==
  ASSUME SourceInv, NEW f \in Flow,
         MaySend(f)' => MaySend(f),
         inWakeup'[f] => inWakeup[f],
         InStack(stack, Call("send", f)) => InStack(stack', Call("send", f)),
         InStack(stack, Call("tryToSend", f)) => InStack(stack', Call("tryToSend", f))
  PROVE  MaySend(f)' => WillSend(f)'
BY DEF SourceInv, WillSend

LEMMA MaySendKept ==
  ASSUME NEW f \in Flow, backlog'[f] = backlog[f], currentSize'[f] = currentSize[f]
  PROVE  MaySend(f)' <=> MaySend(f)
BY DEF MaySend, doIsAccepting

LEMMA SourceKeeps ==
  ASSUME DataInv, RoundInv, StackInv, SourceInv, [Next]_vars
  PROVE  SourceInv'
<1> SUFFICES ASSUME NEW f \in Flow PROVE MaySend(f)' => WillSend(f)'
  BY DEF SourceInv
<1>a. stack \in Seq(Calls) /\ f \in Buffer /\ f # Lower /\ Lower \in Buffer /\ inWakeup \in [Buffer -> BOOLEAN]
  BY Places DEF StackInv
<1>b. ASSUME stack = <<>> PROVE ~MaySend(f)
  BY <1>b, NothingInStack DEF SourceInv, WillSend
<1>1. ASSUME NEW g \in Flow, Refill(g) PROVE MaySend(f)' => WillSend(f)'
  <2>1. stack = <<>> /\ stack' = <<Call("send", g)>> /\ currentSize' = currentSize
        /\ backlog' = [backlog EXCEPT ![g] = @ + 1]
    BY <1>1 DEF Refill, bufferVars
  <2>2. CASE f = g
    <3>1. InStack(stack', Call("send", f))
      BY <1>a, <2>1, <2>2, OneCall, PushStays, CallsApart
    <3> QED BY <3>1 DEF WillSend
  <2>3. CASE f # g
    <3>1. backlog'[f] = backlog[f]
      BY <2>1, <2>3 DEF DataInv, DataType
    <3> QED BY <1>b, <2>1, <3>1, MaySendKept
  <2> QED BY <2>2, <2>3
<1>2. CASE OutsideWakesUp
  <2>1. stack = <<>> /\ UNCHANGED <<sourceVars, bufferVars>>
    BY <1>2 DEF OutsideWakesUp
  <2> QED BY <1>b, <2>1, MaySendKept DEF sourceVars, bufferVars
<1>3. ASSUME NEW g \in Flow, openFlow(g) \/ closeFlow(g) PROVE MaySend(f)' => WillSend(f)'
  <2>1. UNCHANGED <<sourceVars, bufferVars, inWakeup, stack>>
    BY <1>3 DEF openFlow, closeFlow
  <2> QED BY <2>1, MaySendKept, SendKept DEF sourceVars, bufferVars
<1>4. ASSUME NEW g \in Flow, SourceSends(g) PROVE MaySend(f)' => WillSend(f)'
  <2>1. /\ Running("send", g) /\ stack' = <<Call("tryToSend", g)>> \o stack /\ inWakeup' = inWakeup
        /\ backlog' = [backlog EXCEPT ![g] = @ - 1]
        /\ currentSize' = [currentSize EXCEPT ![g] = @ + Length[g]]
    BY <1>4 DEF SourceSends
  <2>2. AllStay
    BY <1>a, <2>1, PushStays, CallsApart, Places
  <2>3. CASE f = g
    <3>1. InStack(stack, Call("send", f))
      BY <1>a, <2>1, <2>3, Pop DEF Running
    <3> QED BY <2>2, <3>1 DEF AllStay, WillSend
  <2>4. CASE f # g
    <3>1. backlog'[f] = backlog[f] /\ currentSize'[f] = currentSize[f]
      BY <1>a, <2>1, <2>4 DEF DataInv, DataType
    <3> QED BY <2>1, <2>2, <3>1, MaySendKept, SendKept DEF AllStay
  <2> QED BY <2>3, <2>4
<1>5. ASSUME NEW g \in Flow, SourceReturns(g) PROVE MaySend(f)' => WillSend(f)'
  <2>1. /\ Running("send", g) /\ stack # <<>> /\ stack' = Tail(stack) /\ ~MaySend(g)
        /\ UNCHANGED <<backlog, currentSize, inWakeup>>
    BY <1>5 DEF SourceReturns, Running, MaySend, sourceVars, bufferVars
  <2>2. Stays
    BY <1>a, <2>1, PopStays
  <2>3. MaySend(f)' <=> MaySend(f)
    BY <2>1, MaySendKept
  <2>4. CASE f = g
    BY <2>1, <2>3, <2>4
  <2>5. CASE f # g
    BY <2>1, <2>2, <2>3, <2>5, StaysBut, SendKept
  <2> QED BY <2>4, <2>5
<1>6. ASSUME NEW g \in Flow, PassDown(g) PROVE MaySend(f)' => WillSend(f)'
  <2>1. /\ Running("tryToSend", g) /\ stack' = <<Call("tryToSend", Lower)>> \o stack
        /\ UNCHANGED <<backlog, inWakeup>>
    BY <1>6 DEF PassDown, sourceVars
  <2>2. AllStay
    BY <1>a, <2>1, PushStays, CallsApart
  <2>3. CASE f = g
    <3>1. InStack(stack, Call("tryToSend", f))
      BY <1>a, <2>1, <2>3, Pop DEF Running
    <3>2. CASE inWakeup[f]
      <4>1. stack # <<>> /\ Head(stack) # Call("woken", f)
        BY <2>1, Runs
      <4>2. InStack(stack, Call("send", f))
        BY <3>2, <4>1, WokenSends
      <4> QED BY <2>2, <4>2 DEF AllStay, WillSend
    <3>3. CASE ~inWakeup[f]
      BY <2>1, <2>2, <3>1, <3>3 DEF AllStay, WillSend
    <3> QED BY <3>2, <3>3
  <2>4. CASE f # g
    <3>1. currentSize'[f] = currentSize[f]
      BY <1>6, <1>a, <2>4 DEF PassDown, DataInv, DataType
    <3> QED BY <2>1, <2>2, <3>1, MaySendKept, SendKept DEF AllStay
  <2> QED BY <2>3, <2>4
<1>7. CASE PassOut
  <2>1. /\ stack' = stack \/ stack' = <<Call("tryToSend", Lower)>> \o stack
        /\ UNCHANGED <<backlog, inWakeup>>
    BY <1>7 DEF PassOut, sourceVars
  <2>2. AllStay
    BY <1>a, <2>1, PushStays, CallsApart DEF AllStay
  <2>3. currentSize'[f] = currentSize[f]
    BY <1>7, <1>a DEF PassOut, DataInv, DataType
  <2> QED BY <2>1, <2>2, <2>3, MaySendKept, SendKept DEF AllStay
<1>8. ASSUME NEW g \in Flow, WakeSource(g) PROVE MaySend(f)' => WillSend(f)'
  <2>1. /\ Running("tryToSend", g) /\ stack # <<>>
        /\ stack' = <<Call("send", g), Call("woken", g)>> \o Tail(stack)
        /\ inWakeup' = [inWakeup EXCEPT ![g] = TRUE]
        /\ UNCHANGED <<backlog, currentSize>>
    BY <1>8 DEF WakeSource, Running, sourceVars, bufferVars
  <2>2. Stays /\ InStack(stack', Call("send", g))
    BY <1>a, <2>1, PushTwoStay, CallsApart, Places
  <2>3. CASE f = g
    BY <2>2, <2>3 DEF WillSend
  <2>4. CASE f # g
    <3>1. inWakeup'[f] = inWakeup[f]
      BY <1>a, <2>1, <2>4
    <3> QED BY <2>1, <2>2, <2>4, <3>1, StaysBut, MaySendKept, SendKept
  <2> QED BY <2>3, <2>4
<1>9. CASE WakeDispatcher
  <2>1. /\ Running("tryToSend", Lower) /\ stack # <<>>
        /\ inWakeup' = [inWakeup EXCEPT ![Lower] = TRUE]
        /\ UNCHANGED <<backlog, currentSize>>
    BY <1>9 DEF WakeDispatcher, Running, sourceVars, bufferVars
  <2>2. stack' = <<Call("round", Lower), Call("woken", Lower)>> \o Tail(stack)
    BY <1>9, RoundIsWakeup DEF WakeDispatcher, MayWake
  <2>3. Stays
    BY <1>a, <2>1, <2>2, PushTwoStay, CallsApart
  <2>4. inWakeup'[f] = inWakeup[f]
    BY <1>a, <2>1
  <2> QED BY <1>a, <2>1, <2>3, <2>4, StaysBut, MaySendKept, SendKept
<1>10. ASSUME NEW b \in Buffer, tryToSendReturns(b) PROVE MaySend(f)' => WillSend(f)'
  <2>1. /\ Running("tryToSend", b) /\ stack # <<>> /\ stack' = Tail(stack) /\ ~MayWake(b)
        /\ UNCHANGED <<backlog, currentSize, inWakeup>>
    BY <1>10 DEF tryToSendReturns, Running, sourceVars, bufferVars
  <2>2. Stays
    BY <1>a, <2>1, PopStays
  <2>3. MaySend(f)' <=> MaySend(f)
    BY <2>1, MaySendKept
  <2>4. CASE b # f
    BY <2>1, <2>2, <2>3, <2>4, StaysBut, SendKept
  <2>5. CASE b = f /\ inWakeup[f]
    <3>1. Head(stack) # Call("woken", f)
      BY <2>1, Runs
    <3>2. InStack(stack, Call("send", f))
      BY <2>1, <2>5, <3>1, WokenSends
    <3>3. InStack(stack', Call("send", f))
      BY <2>1, <2>2, <3>2, StaysBut
    <3> QED BY <3>3 DEF WillSend
  <2>6. CASE b = f /\ ~inWakeup[f]
    <3>1. ~(currentSize[f] < MaxSize[f])
      BY <2>1, <2>6 DEF MayWake
    <3>2. currentSize[f] \in Nat /\ MaxSize[f] \in Nat /\ Length[f] \in Nat /\ Length[f] > 0
      BY <1>a, Sizes, Numerals
    <3>3. ~MaySend(f)
      BY <3>1, <3>2 DEF MaySend, doIsAccepting
    <3> QED BY <2>3, <3>3
  <2> QED BY <2>4, <2>5, <2>6
<1>11. ASSUME NEW b \in Buffer, WakeupReturns(b) PROVE MaySend(f)' => WillSend(f)'
  <2>1. /\ Running("woken", b) /\ stack # <<>> /\ stack' = Tail(stack)
        /\ inWakeup' = [inWakeup EXCEPT ![b] = FALSE]
        /\ UNCHANGED <<backlog, currentSize>>
    BY <1>11 DEF WakeupReturns, Running, sourceVars, bufferVars
  <2>2. Stays
    BY <1>a, <2>1, PopStays
  <2>3. inWakeup'[f] => inWakeup[f]
    BY <1>a, <2>1
  <2> QED BY <2>1, <2>2, <2>3, StaysBut, MaySendKept, SendKept
<1>12. CASE WakeNext
  <2>1. stack' = <<Call("tryToSend", current(recs))>> \o stack
        /\ UNCHANGED <<backlog, currentSize, inWakeup>>
    BY <1>12 DEF WakeNext, sourceVars, bufferVars
  <2>2. current(recs) \in Flow
    BY <1>12, CurrentIsFlow DEF WakeNext
  <2>3. AllStay
    BY <1>a, <2>1, <2>2, PushStays, CallsApart, Places
  <2> QED BY <2>1, <2>3, MaySendKept, SendKept DEF AllStay
<1>13. CASE RoundEnds
  <2>1. /\ Running("round", Lower) /\ stack # <<>> /\ stack' = Tail(stack)
        /\ UNCHANGED <<backlog, currentSize, inWakeup>>
    BY <1>13 DEF RoundEnds, Running, sourceVars, bufferVars
  <2>2. Stays
    BY <1>a, <2>1, PopStays
  <2> QED BY <2>1, <2>2, StaysBut, MaySendKept, SendKept
<1>14. CASE UNCHANGED vars
  BY <1>14, MaySendKept, SendKept DEF vars, sourceVars, bufferVars
<1> QED
  BY <1>1, <1>2, <1>3, <1>4, <1>5, <1>6, <1>7, <1>8, <1>9, <1>10, <1>11, <1>12, <1>13, <1>14
  DEF Next, Outside, Step

-----------------------------------------------------------------------------
(* The theorems.                                                           *)

LEMMA InitInv == Init => IInv
<1> SUFFICES ASSUME Init PROVE IInv
  OBVIOUS
<1>1. DataInv /\ RoundInv /\ StackInv
  BY InitData, InitRound, InitStack
<1>2. /\ buffer = [b \in Buffer |-> <<>>] /\ backlog = [f \in Flow |-> 0]
  BY DEF Init
<1>3. LowerSettles
  BY <1>2, Places DEF LowerSettles, SendsOnce
<1>4. WaitInv
  BY <1>2, Places DEF WaitInv, MayTry
<1>5. SourceInv
  BY <1>2 DEF SourceInv, MaySend
<1> QED BY <1>1, <1>3, <1>4, <1>5 DEF IInv

(* In every state that the program reaches, the conditions above hold. *)
THEOREM Invariant == Spec => []IInv
<1>1. IInv /\ [Next]_vars => IInv'
  BY DataKeeps, RoundKeeps, StackKeeps, SettlesKeeps, WaitKeeps, SourceKeeps DEF IInv
<1> QED BY <1>1, InitInv, PTL DEF Spec

(* The types, no buffer above its size, and the guards of the wakeups and of
   the round set only while a call is under way, for any number of flows. *)
THEOREM TypeCorrect == Spec => []TypeOK
<1>1. IInv => TypeOK
  <2> SUFFICES ASSUME IInv PROVE TypeOK
    OBVIOUS
  <2>1. DataType /\ (\A b \in Buffer : currentSize[b] <= MaxSize[b])
    BY DEF IInv, DataInv, BufferInv
  <2>2. Len(Order) \in Nat /\ Len(Order) > 0
    <3>1. PICK f \in Flow : TRUE
      BY FlowAssumption
    <3>2. Order \in Seq(Flow) /\ f \in ToSet(Order)
      BY <3>1, FlowAssumption
    <3>3. PICK k \in DOMAIN Order : Order[k] = f
      BY <3>2 DEF ToSet
    <3> QED BY <3>2, <3>3
  <2>3. recs \in [first : 0 .. Len(Order) - 1, cursor : 0 .. Len(Order) - 1,
                  countdown : 0 .. Len(Order), inRound : {dispatching}]
    <3>1. /\ RoundType /\ RoundPlace /\ RoundOpen /\ dispatching \in BOOLEAN
      BY DEF IInv, RoundInv, StackInv
    <3>2. /\ recs = [first |-> recs.first, cursor |-> recs.cursor,
                     countdown |-> recs.countdown, inRound |-> recs.inRound]
          /\ recs.first = 0 /\ recs.countdown \in 0 .. Len(Order) /\ recs.inRound \in BOOLEAN
      BY <3>1 DEF RoundType
    <3>3. recs.cursor \in 0 .. Len(Order) - 1
      BY <2>2, <3>1, <3>2 DEF RoundPlace
    <3>4. recs.inRound = dispatching
      BY <3>1, <3>2 DEF RoundOpen
    <3>5. 0 \in 0 .. Len(Order) - 1
      BY <2>2
    <3> QED BY <3>2, <3>3, <3>4, <3>5
  <2>4. /\ stack \in Seq(Calls) /\ inWakeup \in [Buffer -> BOOLEAN] /\ dispatching \in BOOLEAN
        /\ stack = <<>> => ~dispatching /\ \A b \in Buffer : ~inWakeup[b]
    BY NothingInStack DEF IInv, StackInv
  <2> QED BY <2>1, <2>3, <2>4 DEF TypeOK, DataType, Number
<1> QED BY <1>1, Invariant, PTL

(* However the calls nest, a flow's compounds are taken in the order in which
   they were offered, every one of them once. *)
THEOREM OrderIsKept == Spec => []KeepsOrder
<1>1. IInv => KeepsOrder
  <2> SUFFICES ASSUME IInv, NEW f \in Flow
               PROVE  /\ \A i \in 1 .. Len(Between(f)) : Between(f)[i].flow = f
                           => Between(f)[i].number = (taken[f] + Ahead(f, i)) % Numbers
                      /\ nextNumber[f] = (taken[f] + Ahead(f, Len(Between(f)) + 1)) % Numbers
    BY DEF KeepsOrder
  <2>1. buffer[Lower] \in Seq(Compound) /\ buffer[f] \in Seq(Compound)
    BY Places DEF IInv, DataInv, DataType
  <2>2. PICK n \in Number : /\ Placed(buffer[Lower], f, taken[f], n)
                            /\ Placed(buffer[f], f, n, nextNumber[f])
    BY DEF IInv, DataInv, OrderInv
  <2>3. Between(f) \in Seq(Compound) /\ Placed(Between(f), f, taken[f], nextNumber[f])
    BY <2>1, <2>2, PlacedConcat DEF Between
  <2>4. \A i : Ahead(f, i) = Cardinality(Earlier(Between(f), f, i))
    BY DEF Ahead, Earlier
  <2> QED BY <2>3, <2>4, PlacesCount
<1> QED BY <1>1, Invariant, PTL

(* When the calls have returned, whoever holds a compound was refused for a
   reason that still holds, or is a flow that was opened since. *)
THEOREM NobodyWaits == Spec => []NobodyWaitsInVain
<1>1. IInv => NobodyWaitsInVain
  <2> SUFFICES ASSUME IInv, stack = <<>>
               PROVE  /\ \A b \in Buffer : SendsOnce(b) => b \in unannounced
                      /\ \A f \in Flow : ~MaySend(f)
    BY DEF NobodyWaitsInVain, Waits, MaySend
  <2>1. \A x : ~InStack(stack, x)
    BY NothingInStack
  <2>2. ~SendsOnce(Lower)
    BY DEF IInv, LowerSettles, Running
  <2>3. ~dispatching
    BY <2>1 DEF IInv, StackInv
  <2>4. ASSUME NEW f \in Flow, SendsOnce(f) PROVE f \in unannounced
    <3>1. MayTry(f)
      BY <2>4, SendsOnceIs DEF IInv, MayTry
    <3> QED BY <2>1, <2>3, <3>1 DEF IInv, WaitInv, WillTry
  <2>5. ASSUME NEW f \in Flow PROVE ~MaySend(f)
    BY <2>1 DEF IInv, SourceInv, WillSend
  <2> QED BY <2>2, <2>4, <2>5 DEF Buffer
<1> QED BY <1>1, Invariant, PTL

(* For any number of units above it, the receptor wakes them in the order in
   which they were connected, and starts every round with the same one. *)
THEOREM RoundsAreAlike == Spec => []EveryRoundAlike
<1>1. RoundInv => EveryRoundAlike
  BY CurrentIsFlow DEF EveryRoundAlike, RoundInv, RoundType
<1> QED BY <1>1, Invariant, PTL DEF IInv

(* The asserts of RoundRobin.hpp hold: a round is started only when none is
   open, since the receptor is in a round exactly while the guard of the
   Dispatcher is set. *)
THEOREM RoundsAreNotNested == Spec => [](recs.inRound <=> dispatching)
<1>1. IInv => (recs.inRound <=> dispatching)
  BY DEF IInv, RoundInv, RoundOpen
<1> QED BY <1>1, Invariant, PTL

=============================================================================
