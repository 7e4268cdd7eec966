------------------------- MODULE EventSchedulerProofs -------------------------
(***************************************************************************)
(* The lists of the event scheduler agree with its clock and with what was *)
(* scheduled, and it runs the events in the order of a calendar, for any   *)
(* number of events and times.                                             *)
(***************************************************************************)
EXTENDS EventScheduler, TLAPS, FiniteSetTheorems, WellFoundedInduction

(* The current list is the earliest, that of the current time while the    *)
(* loop runs, and the event that runs is at its front.                     *)
ClockInv ==
    /\ \A t \in DOMAIN events : now <= t
    /\ ~returned => now = simTime
    /\ \A e \in Event : state[e] = "Running" =>
          ~returned /\ events[now] # << >> /\ Head(events[now]) = e

(* What the list of the time t holds. *)
HoldsRightly(t) ==
    /\ \A i \in 1 .. Len(events[t]) :
          /\ scheduled[events[t][i]] = t
          /\ state[events[t][i]] \in {"Queued", "Running"}
          /\ events[t][i] \notin erased
    /\ \A i, j \in 1 .. Len(events[t]) :
          i < j => Before(submitted, events[t][i], events[t][j])

ListsInv == \A t \in DOMAIN events : HoldsRightly(t)

(* Every event is submitted once, and listed until it runs or is taken out. *)
HistoryInv ==
    /\ Once(submitted)
    /\ \A e \in Event : InList(submitted, e) <=> state[e] # "NotSubmitted"
    /\ \A e \in erased : state[e] # "NotSubmitted"
    /\ \A e \in Event : IsPending(e) => Listed(e)

SchedulerInv == TypeOK /\ ClockInv /\ ListsInv /\ HistoryInv

-----------------------------------------------------------------------------
(* Lists.                                                                  *)

(* Taking an event out of a list leaves the others, in their order. *)
LEMMA WithoutFacts ==
  ASSUME NEW S, NEW s \in Seq(S), Once(s), NEW c
  PROVE  /\ Without(s, c) \in Seq(S)
         /\ \A x : InList(Without(s, c), x) <=> InList(s, x) /\ x # c
         /\ \A i, j \in 1 .. Len(Without(s, c)) : i < j =>
              \E k, l \in 1 .. Len(s) :
                k < l /\ s[k] = Without(s, c)[i] /\ s[l] = Without(s, c)[j]
<1>1. CASE ~InList(s, c)
  BY <1>1 DEF Without, InList
<1>2. CASE InList(s, c)
  <2> DEFINE at == CHOOSE i \in 1 .. Len(s) : s[i] = c
             t == Without(s, c)
             back(i) == IF i < at THEN i ELSE i + 1
  <2>1. at \in 1 .. Len(s) /\ s[at] = c
    BY <1>2 DEF InList
  <2>2. t = [i \in 1 .. Len(s) - 1 |-> s[back(i)]]
    BY <1>2 DEF Without
  <2> HIDE DEF at, t
  <2>3. t \in Seq(S) /\ Len(t) = Len(s) - 1
    BY <2>1, <2>2
  <2>4. \A i \in 1 .. Len(t) : t[i] = s[back(i)] /\ back(i) \in 1 .. Len(s) /\ back(i) # at
    BY <2>1, <2>2, <2>3
  <2>5. ASSUME NEW x PROVE InList(t, x) <=> InList(s, x) /\ x # c
    <3>1. InList(t, x) => InList(s, x) /\ x # c
      BY <2>1, <2>4 DEF InList, Once
    <3>2. ASSUME NEW k \in 1 .. Len(s), s[k] = x, x # c PROVE InList(t, x)
      <4>1. k # at
        BY <2>1, <3>2
      <4>2. CASE k < at
        <5>1. k \in 1 .. Len(t) /\ back(k) = k
          BY <2>1, <2>3, <4>2
        <5> QED BY <2>4, <3>2, <5>1 DEF InList
      <4>3. CASE at < k
        <5>1. k - 1 \in 1 .. Len(t) /\ back(k - 1) = k
          BY <2>1, <2>3, <4>3
        <5> QED BY <2>4, <3>2, <5>1 DEF InList
      <4> QED BY <2>1, <4>1, <4>2, <4>3
    <3> QED BY <3>1, <3>2 DEF InList
  <2>6. ASSUME NEW i \in 1 .. Len(t), NEW j \in 1 .. Len(t), i < j
        PROVE  \E k, l \in 1 .. Len(s) : k < l /\ s[k] = t[i] /\ s[l] = t[j]
    <3>1. back(i) < back(j)
      BY <2>1, <2>3, <2>6
    <3> QED BY <2>4, <3>1
  <2> QED BY <2>3, <2>5, <2>6 DEF t
<1> QED BY <1>1, <1>2

(* An event behind a list: the others stand where they stood, before it. *)
LEMMA AppendFacts ==
  ASSUME NEW S, NEW s \in Seq(S), NEW c \in S
  PROVE  /\ Append(s, c) \in Seq(S) /\ Len(Append(s, c)) = Len(s) + 1
         /\ Append(s, c)[Len(s) + 1] = c
         /\ \A i \in 1 .. Len(s) : Append(s, c)[i] = s[i] /\ s[i] \in S
         /\ \A x : InList(Append(s, c), x) <=> InList(s, x) \/ x = c
         /\ \A x, y : Before(s, x, y) => Before(Append(s, c), x, y)
         /\ \A x : InList(s, x) => Before(Append(s, c), x, c)
         /\ Once(s) /\ ~InList(s, c) => Once(Append(s, c))
<1> DEFINE t == Append(s, c)
<1>1. /\ t \in Seq(S) /\ Len(t) = Len(s) + 1 /\ Len(s) \in Nat /\ t[Len(s) + 1] = c
      /\ \A i \in 1 .. Len(s) : t[i] = s[i] /\ s[i] \in S
  OBVIOUS
<1> HIDE DEF t
<1>2. \A x : InList(t, x) <=> InList(s, x) \/ x = c
  <2>1. \A i \in 1 .. Len(t) : i \in 1 .. Len(s) \/ i = Len(s) + 1
    BY <1>1
  <2>2. \A i \in 1 .. Len(s) : i \in 1 .. Len(t)
    BY <1>1
  <2>3. Len(s) + 1 \in 1 .. Len(t)
    BY <1>1
  <2> QED BY <1>1, <2>1, <2>2, <2>3 DEF InList
<1>3. \A x, y : Before(s, x, y) => Before(t, x, y)
  BY <1>1 DEF Before
<1>4. ASSUME NEW i \in 1 .. Len(s) PROVE Before(t, s[i], c)
  <2>1. i \in 1 .. Len(t) /\ Len(s) + 1 \in 1 .. Len(t) /\ i < Len(s) + 1
    BY <1>1
  <2> QED BY <1>1, <2>1 DEF Before
<1>5. Once(s) /\ ~InList(s, c) => Once(t)
  BY <1>1 DEF Once, InList
<1>6. \A x : InList(s, x) => Before(t, x, c)
  BY <1>4 DEF InList
<1> QED BY <1>1, <1>2, <1>3, <1>5, <1>6 DEF t

(* In a list without repetitions no event stands before itself. *)
LEMMA BeforeIsStrict ==
  ASSUME NEW S, NEW s \in Seq(S), Once(s), NEW k \in 1 .. Len(s), NEW l \in 1 .. Len(s),
         Before(s, s[k], s[l])
  PROVE  k < l
BY DEF Before, Once

-----------------------------------------------------------------------------
(* Times.                                                                  *)

Lower == {p \in Nat \X Nat : p[1] < p[2]}

LEMMA LowerPair ==
  ASSUME NEW x \in Nat, NEW y \in Nat, <<y, x>> \notin Lower
  PROVE  x <= y
<1>1. <<y, x>> \in Nat \X Nat
  OBVIOUS
<1>2. ~(y < x)
  BY <1>1, SMT DEF Lower
<1> QED BY <1>2

(* A set of times has an earliest one. *)
LEMMA LeastExists ==
  ASSUME NEW T \in SUBSET Nat, T # {}
  PROVE  Least(T) \in T /\ \A u \in T : Least(T) <= u
<1>1. IsWellFoundedOn(Lower, Nat)
  BY NatLessThanWellFounded, Zenon DEF OpToRel, Lower
<1>2. \E x \in T : \A y \in T : <<y, x>> \notin Lower
  BY <1>1, WFMin
<1>3. \E x \in T : \A y \in T : x <= y
  BY <1>2, LowerPair
<1> QED BY <1>3 DEF Least

(* A bounded one has a last one. *)
LEMMA LastExists ==
  ASSUME NEW T \in SUBSET (0 .. MaxTime), T # {}
  PROVE  Last(T) \in T /\ \A u \in T : u <= Last(T)
<1> USE EventSchedulerAssumption
<1> DEFINE Bound == {m \in Nat : \A u \in T : u <= m}
           m == Least(Bound)
<1>1. MaxTime \in Bound
  OBVIOUS
<1>2. m \in Bound /\ \A k \in Bound : m <= k
  BY <1>1, LeastExists
<1> HIDE DEF m
<1>3. m \in T
  <2> SUFFICES ASSUME m \notin T PROVE FALSE
    OBVIOUS
  <2>1. PICK t \in T : TRUE
    OBVIOUS
  <2>2. m \in Nat /\ \A u \in T : u \in Nat /\ u <= m
    BY <1>2
  <2>3. \A u \in T : u <= m - 1
    BY <2>2
  <2>4. m - 1 \in Nat
    BY <2>1, <2>2, <2>3
  <2>5. m - 1 \in Bound
    BY <2>3, <2>4
  <2> HIDE DEF Bound
  <2> QED BY <1>2, <2>2, <2>5
<1>4. \E t \in T : \A u \in T : u <= t
  BY <1>2, <1>3
<1> QED BY <1>4 DEF Last

(* The search for the next list ends with the earliest one that has an
   event, or with the last one when none has. *)
LEMMA NextTimeFacts ==
  ASSUME SchedulerInv
  PROVE  /\ NextTime \in DOMAIN events /\ now <= NextTime
         /\ \A t \in DOMAIN events : t < NextTime => events[t] = << >>
         /\ events[NextTime] = << >> => \A t \in DOMAIN events : events[t] = << >>
<1> USE EventSchedulerAssumption
<1> DEFINE T == DOMAIN events
           later == T \ {Least(T)}
           found == {t \in later : events[t] # << >> \/ t = Last(later)}
<1>1. T \in SUBSET (0 .. MaxTime) /\ T \in SUBSET Nat /\ now \in T /\ \A t \in T : now <= t
  BY DEF SchedulerInv, TypeOK, ClockInv
<1>2. Least(T) = now
  <2>1. Least(T) \in T /\ \A u \in T : Least(T) <= u
    BY <1>1, LeastExists
  <2> QED BY <1>1, <2>1
<1>3. NextTime = IF events[now] # << >> \/ later = {} THEN now ELSE Least(found)
  BY DEF NextTime
<1> HIDE DEF later
<1>4. later = T \ {now}
  BY <1>2 DEF later
<1> HIDE DEF T
<1>5. CASE events[now] # << >> \/ later = {}
  BY <1>1, <1>3, <1>4, <1>5 DEF T
<1>6. CASE events[now] = << >> /\ later # {}
  <2>1. Last(later) \in later /\ \A u \in later : u <= Last(later)
    BY <1>1, <1>4, <1>6, LastExists
  <2>2. Last(later) \in found /\ found \in SUBSET Nat
    BY <1>1, <1>4, <2>1
  <2> DEFINE n == Least(found)
  <2>3. n \in found /\ \A u \in found : n <= u
    BY <2>2, LeastExists
  <2>4. NextTime = n
    BY <1>3, <1>6
  <2> HIDE DEF n
  <2>5. n \in later /\ (events[n] # << >> \/ n = Last(later))
    BY <2>3
  <2>6. ASSUME NEW t \in later, t < n PROVE events[t] = << >>
    <3>1. t \in Nat /\ n \in Nat
      BY <1>1, <1>4, <2>5
    <3>2. t \notin found
      BY <2>3, <2>6, <3>1
    <3> QED BY <3>2
  <2>7. ASSUME events[n] = << >>, NEW t \in later PROVE events[t] = << >>
    <3>1. t \in Nat /\ n \in Nat /\ t <= n
      BY <1>1, <1>4, <2>1, <2>5, <2>7
    <3>2. t < n \/ t = n
      BY <3>1
    <3> QED BY <2>6, <2>7, <3>2
  <2> QED BY <1>1, <1>4, <1>6, <2>4, <2>5, <2>6, <2>7 DEF T
<1> QED BY <1>5, <1>6

-----------------------------------------------------------------------------
(* What the invariant says about single events.                            *)

(* A list holds no event twice, and only events that were submitted. *)
LEMMA ListFacts ==
  ASSUME SchedulerInv, NEW t \in DOMAIN events
  PROVE  /\ events[t] \in Seq(Event) /\ Once(events[t]) /\ t \in 0 .. MaxTime
         /\ \A x : InList(events[t], x) =>
              /\ x \in Event /\ x \notin erased /\ scheduled[x] = t
              /\ state[x] \in {"Queued", "Running"} /\ InList(submitted, x)
<1> USE DEF SchedulerInv
<1>1. events[t] \in Seq(Event) /\ submitted \in Seq(Event) /\ t \in 0 .. MaxTime
  BY DEF TypeOK
<1>2. HoldsRightly(t) /\ Once(submitted)
  BY DEF ListsInv, HistoryInv
<1>3. Once(events[t])
  <2> SUFFICES ASSUME NEW i \in 1 .. Len(events[t]), NEW j \in 1 .. Len(events[t]), i < j,
                      events[t][i] = events[t][j]
               PROVE  FALSE
    BY <1>1 DEF Once
  <2>1. PICK k, l \in 1 .. Len(submitted) :
           k < l /\ submitted[k] = events[t][i] /\ submitted[l] = events[t][j]
    BY <1>2 DEF HoldsRightly, Before
  <2> QED BY <1>2, <2>1 DEF Once
<1>4. ASSUME NEW i \in 1 .. Len(events[t])
      PROVE  /\ events[t][i] \in Event /\ events[t][i] \notin erased
             /\ scheduled[events[t][i]] = t /\ state[events[t][i]] \in {"Queued", "Running"}
             /\ InList(submitted, events[t][i])
  BY <1>1, <1>2 DEF HoldsRightly, HistoryInv
<1> QED BY <1>1, <1>3, <1>4 DEF InList

LEMMA InitSchedulerInv == Init => SchedulerInv
<1> SUFFICES ASSUME Init PROVE SchedulerInv
  OBVIOUS
<1> USE EventSchedulerAssumption DEF Init
<1>1. TypeOK
  BY DEF TypeOK, State
<1>2. ClockInv
  BY DEF ClockInv
<1>3. ListsInv
  BY DEF ListsInv, HoldsRightly
<1>4. HistoryInv
  BY DEF HistoryInv, Once, InList, IsPending
<1> QED BY <1>1, <1>2, <1>3, <1>4 DEF SchedulerInv

(* The list of the time at gets the event at its end. *)
LEMMA InsertedFacts ==
  ASSUME SchedulerInv, NEW e \in Event, NEW at \in 0 .. MaxTime, ~InList(submitted, e)
  PROVE  /\ DOMAIN Inserted(e, at) = DOMAIN events \cup {at}
         /\ \A t \in DOMAIN events : t # at => Inserted(e, at)[t] = events[t]
         /\ at \in DOMAIN events => Inserted(e, at)[at] = Append(events[at], e)
         /\ at \notin DOMAIN events => Inserted(e, at)[at] = <<e>>
BY DEF Inserted

(* Scheduling, whether for now or for later. *)
LEMMA SubmittedKeepsInv ==
  ASSUME SchedulerInv, NEW e \in Event, NEW at \in 0 .. MaxTime, at >= simTime,
         Submitted(e, at), events' = Inserted(e, at)
  PROVE  SchedulerInv'
<1> USE EventSchedulerAssumption DEF SchedulerInv
<1> DEFINE D == DOMAIN events
           old == IF at \in D THEN events[at] ELSE << >>
<1>1. /\ ~returned /\ state[e] = "NotSubmitted"
      /\ scheduled' = [scheduled EXCEPT ![e] = at]
      /\ state' = [state EXCEPT ![e] = "Queued"]
      /\ submitted' = Append(submitted, e)
      /\ UNCHANGED <<simTime, now, stop, returned, erased>>
  BY DEF Submitted
<1>2. /\ submitted \in Seq(Event) /\ Once(submitted) /\ ~InList(submitted, e) /\ e \notin erased
      /\ now \in D /\ now = simTime /\ simTime \in 0 .. MaxTime
      /\ erased \subseteq Event
  BY <1>1 DEF TypeOK, ClockInv, HistoryInv
<1>3. /\ submitted' \in Seq(Event) /\ Once(submitted')
      /\ \A x : InList(submitted', x) <=> InList(submitted, x) \/ x = e
      /\ \A x, y : Before(submitted, x, y) => Before(submitted', x, y)
      /\ \A x : InList(submitted, x) => Before(submitted', x, e)
  BY <1>1, <1>2, AppendFacts
<1>4. /\ \A x \in Event : x # e => scheduled'[x] = scheduled[x] /\ state'[x] = state[x]
      /\ scheduled'[e] = at /\ state'[e] = "Queued"
  BY <1>1 DEF TypeOK
<1>5. /\ DOMAIN events' = D \cup {at}
      /\ \A t \in D : t # at => events'[t] = events[t]
      /\ events'[at] = Append(old, e)
  <2>1. <<e>> = Append(<< >>, e)
    OBVIOUS
  <2> QED BY <1>2, <2>1, InsertedFacts
<1>6. old \in Seq(Event) /\ \A x : InList(old, x) => at \in D /\ InList(events[at], x)
  BY ListFacts DEF InList
<1> HIDE DEF D, old
<1>7. /\ events'[at] \in Seq(Event) /\ Len(events'[at]) = Len(old) + 1
      /\ events'[at][Len(old) + 1] = e
      /\ \A i \in 1 .. Len(old) : events'[at][i] = old[i]
      /\ \A x : InList(events'[at], x) <=> InList(old, x) \/ x = e
  BY <1>5, <1>6, AppendFacts
<1>8. TypeOK'
  BY <1>1, <1>2, <1>3, <1>5, <1>7 DEF TypeOK, State, D
<1>9. ClockInv'
  <2>1. \A t \in DOMAIN events' : now <= t
    BY <1>2, <1>5 DEF ClockInv, D
  <2>2. ASSUME NEW x \in Event, state'[x] = "Running"
        PROVE  events'[now] # << >> /\ Head(events'[now]) = x
    <3>1. events[now] # << >> /\ Head(events[now]) = x
      BY <1>4, <2>2 DEF ClockInv
    <3>2. CASE now # at
      BY <1>2, <1>5, <3>1, <3>2
    <3>3. CASE now = at
      <4>1. old = events[now]
        BY <1>2, <3>3 DEF old
      <4>2. Len(old) \in Nat /\ Len(old) # 0 /\ old[1] = x
        BY <1>6, <3>1, <4>1
      <4> QED BY <1>7, <3>3, <4>2
    <3> QED BY <3>2, <3>3
  <2> QED BY <1>1, <1>2, <2>1, <2>2 DEF ClockInv
<1>10. ListsInv'
  <2>1. ASSUME NEW t \in D, t # at PROVE HoldsRightly(t)'
    <3>1. events'[t] = events[t] /\ erased' = erased
      BY <1>1, <1>5, <2>1
    <3>2. ASSUME NEW i \in 1 .. Len(events[t])
          PROVE  scheduled'[events[t][i]] = t /\ state'[events[t][i]] \in {"Queued", "Running"}
                 /\ events[t][i] \notin erased
      <4>1. InList(events[t], events[t][i])
        BY DEF InList
      <4>2. /\ events[t][i] \in Event /\ events[t][i] # e /\ events[t][i] \notin erased
            /\ scheduled[events[t][i]] = t /\ state[events[t][i]] \in {"Queued", "Running"}
        BY <1>1, <4>1, ListFacts DEF D
      <4> QED BY <1>4, <4>2
    <3>3. \A i, j \in 1 .. Len(events[t]) : i < j => Before(submitted', events[t][i], events[t][j])
      BY <1>3 DEF ListsInv, HoldsRightly, D
    <3> QED BY <3>1, <3>2, <3>3 DEF HoldsRightly
  <2>2. HoldsRightly(at)'
    <3>1. ASSUME NEW i \in 1 .. Len(old)
          PROVE  /\ scheduled'[old[i]] = at /\ state'[old[i]] \in {"Queued", "Running"}
                 /\ old[i] \notin erased /\ InList(submitted, old[i])
      <4>1. at \in D /\ InList(events[at], old[i])
        BY <1>6 DEF InList
      <4>2. /\ old[i] \in Event /\ old[i] # e /\ old[i] \notin erased
            /\ scheduled[old[i]] = at /\ state[old[i]] \in {"Queued", "Running"}
            /\ InList(submitted, old[i])
        BY <1>1, <4>1, ListFacts DEF D
      <4> QED BY <1>4, <4>2
    <3>2. ASSUME NEW i \in 1 .. Len(old), NEW j \in 1 .. Len(old), i < j
          PROVE  Before(submitted', old[i], old[j])
      <4>1. at \in D /\ old = events[at]
        BY DEF old
      <4>2. Before(submitted, old[i], old[j])
        BY <3>2, <4>1 DEF ListsInv, HoldsRightly, D
      <4> QED BY <1>3, <4>2
    <3>3. Len(old) \in Nat /\ erased' = erased
      BY <1>1, <1>6
    <3>4. ASSUME NEW i \in 1 .. Len(events'[at]), NEW j \in 1 .. Len(events'[at]), i < j
          PROVE  Before(submitted', events'[at][i], events'[at][j])
      <4>1. i \in 1 .. Len(old) /\ (j \in 1 .. Len(old) \/ j = Len(old) + 1)
        BY <1>7, <3>3, <3>4
      <4> QED BY <1>3, <1>7, <3>1, <3>2, <3>4, <4>1
    <3>5. ASSUME NEW i \in 1 .. Len(events'[at])
          PROVE  /\ scheduled'[events'[at][i]] = at /\ state'[events'[at][i]] \in {"Queued", "Running"}
                 /\ events'[at][i] \notin erased
      <4>1. i \in 1 .. Len(old) \/ i = Len(old) + 1
        BY <1>7, <3>3
      <4> QED BY SMTT(20), <1>2, <1>4, <1>7, <3>1, <4>1
    <3> QED BY <3>3, <3>4, <3>5 DEF HoldsRightly
  <2> QED BY <1>5, <2>1, <2>2 DEF ListsInv
<1>11. HistoryInv'
  <2>1. \A x \in Event : InList(submitted', x) <=> state'[x] # "NotSubmitted"
    BY <1>3, <1>4 DEF HistoryInv
  <2>2. \A x \in erased' : state'[x] # "NotSubmitted"
    BY <1>1, <1>2, <1>4 DEF HistoryInv
  <2>3. ASSUME NEW x \in Event, IsPending(x)' PROVE Listed(x)'
    <3>1. CASE x = e
      BY <1>5, <1>7, <3>1 DEF Listed
    <3>2. CASE x # e
      <4>1. IsPending(x)
        BY <1>1, <1>4, <2>3, <3>2 DEF IsPending
      <4>2. PICK t \in D : InList(events[t], x)
        BY <4>1 DEF HistoryInv, Listed, D
      <4>3. CASE t # at
        BY <1>5, <4>2, <4>3 DEF Listed
      <4>4. CASE t = at
        <5>1. InList(old, x)
          BY <4>2, <4>4 DEF old
        <5> QED BY <1>5, <1>7, <5>1 DEF Listed
      <4> QED BY <4>3, <4>4
    <3> QED BY <3>1, <3>2
  <2> QED BY <1>3, <2>1, <2>2, <2>3 DEF HistoryInv
<1> QED BY <1>8, <1>9, <1>10, <1>11

(* Cancelling takes the event out of its list, and no other one; the event
   that runs stays at the front. *)
LEMMA CancelKeepsInv ==
  ASSUME SchedulerInv, NEW e \in Event, Cancel(e)
  PROVE  SchedulerInv'
<1> USE DEF SchedulerInv
<1>1. /\ ~returned /\ state[e] = "Queued"
      /\ state' = [state EXCEPT ![e] = "Canceled"]
      /\ events' = [t \in DOMAIN events |-> Without(events[t], e)]
      /\ UNCHANGED <<simTime, now, stop, scheduled, returned, submitted, erased>>
  BY DEF Cancel
<1>2. ASSUME NEW t \in DOMAIN events
      PROVE  /\ events'[t] \in Seq(Event)
             /\ \A x : InList(events'[t], x) <=> InList(events[t], x) /\ x # e
             /\ \A i, j \in 1 .. Len(events'[t]) : i < j =>
                  \E k, l \in 1 .. Len(events[t]) :
                    k < l /\ events[t][k] = events'[t][i] /\ events[t][l] = events'[t][j]
  <2>1. events[t] \in Seq(Event) /\ Once(events[t]) /\ events'[t] = Without(events[t], e)
    BY <1>1, ListFacts
  <2> QED BY <2>1, WithoutFacts
<1>3. /\ state'[e] = "Canceled"
      /\ \A x \in Event : x # e => state'[x] = state[x]
  BY <1>1 DEF TypeOK
<1>4. TypeOK'
  BY <1>1, <1>2 DEF TypeOK, State
<1>5. ClockInv'
  <2>1. ASSUME NEW x \in Event, state'[x] = "Running"
        PROVE  ~returned /\ events'[now] # << >> /\ Head(events'[now]) = x
    <3>1. x # e /\ state[x] = "Running"
      BY <1>3, <2>1
    <3>2. now \in DOMAIN events /\ events[now] # << >> /\ Head(events[now]) = x
      BY <3>1 DEF TypeOK, ClockInv
    <3>3. events[now] \in Seq(Event) /\ Once(events[now])
      BY <3>2, ListFacts
    <3>4. 1 \in 1 .. Len(events[now]) /\ events[now][1] = x
      BY <3>2, <3>3
    <3>5. InList(events'[now], x)
      <4>1. InList(events[now], x)
        BY <3>4 DEF InList
      <4> QED BY <1>2, <3>1, <3>2, <4>1
    <3>6. PICK k \in 1 .. Len(events'[now]) : events'[now][k] = x
      BY <3>5 DEF InList
    <3>7. k = 1
      <4> SUFFICES ASSUME k # 1 PROVE FALSE
        OBVIOUS
      <4>1. 1 \in 1 .. Len(events'[now]) /\ 1 < k
        BY <1>2, <3>2
      <4>2. PICK a, b \in 1 .. Len(events[now]) :
               a < b /\ events[now][a] = events'[now][1] /\ events[now][b] = x
        <5>1. \A i, j \in 1 .. Len(events'[now]) : i < j =>
                 \E a, b \in 1 .. Len(events[now]) :
                   a < b /\ events[now][a] = events'[now][i] /\ events[now][b] = events'[now][j]
          BY <1>2, <3>2
        <5> QED BY SMTT(20), <3>6, <4>1, <5>1
      <4>3. b = 1
        BY <3>3, <3>4, <4>2 DEF Once
      <4> QED BY <4>2, <4>3
    <3> QED BY <1>1, <1>2, <3>2, <3>6, <3>7
  <2> QED BY <1>1, <2>1 DEF ClockInv
<1>6. ListsInv'
  <2>1. ASSUME NEW t \in DOMAIN events PROVE HoldsRightly(t)'
    <3>1. ASSUME NEW i \in 1 .. Len(events'[t])
          PROVE  /\ scheduled'[events'[t][i]] = t /\ state'[events'[t][i]] \in {"Queued", "Running"}
                 /\ events'[t][i] \notin erased'
      <4>1. InList(events[t], events'[t][i]) /\ events'[t][i] # e
        BY <1>2 DEF InList
      <4> QED BY <1>1, <1>3, <4>1, ListFacts
    <3>2. ASSUME NEW i \in 1 .. Len(events'[t]), NEW j \in 1 .. Len(events'[t]), i < j
          PROVE  Before(submitted', events'[t][i], events'[t][j])
      <4>1. PICK k, l \in 1 .. Len(events[t]) :
               k < l /\ events[t][k] = events'[t][i] /\ events[t][l] = events'[t][j]
        BY <1>2, <3>2
      <4>2. Before(submitted, events[t][k], events[t][l])
        BY <4>1 DEF ListsInv, HoldsRightly
      <4> QED BY <1>1, <4>1, <4>2
    <3> QED BY <3>1, <3>2 DEF HoldsRightly
  <2> QED BY <1>1, <2>1 DEF ListsInv
<1>7. HistoryInv'
  <2>1. \A x \in Event : InList(submitted', x) <=> state'[x] # "NotSubmitted"
    BY <1>1, <1>3 DEF HistoryInv
  <2>2. \A x \in erased' : state'[x] # "NotSubmitted"
    BY <1>1, <1>3 DEF TypeOK, HistoryInv
  <2>3. ASSUME NEW x \in Event, IsPending(x)' PROVE Listed(x)'
    <3>1. x # e /\ IsPending(x)
      BY <1>1, <1>3, <2>3 DEF IsPending
    <3> QED BY <1>1, <1>2, <3>1 DEF HistoryInv, Listed
  <2>4. Once(submitted')
    BY <1>1 DEF HistoryInv
  <2> QED BY <2>1, <2>2, <2>3, <2>4 DEF HistoryInv
<1> QED BY <1>4, <1>5, <1>6, <1>7

(* What a turn of the loop changes, as far as the invariant goes. *)
LEMMA ProcessOneEventFacts ==
  ASSUME SchedulerInv, ProcessOneEvent
  PROVE  /\ ~returned /\ now' \in DOMAIN events /\ now <= now'
         /\ DOMAIN events' = {t \in DOMAIN events : t >= now'}
         /\ \A t \in DOMAIN events' : events'[t] = events[t]
         /\ \A t \in DOMAIN events : t \notin DOMAIN events' => events[t] = << >>
         /\ events[now'] = << >> => \A t \in DOMAIN events : events[t] = << >>
         /\ \/ returned' = TRUE /\ UNCHANGED <<simTime, state>>
            \/ LET e == Head(events[now'])
               IN  /\ events[now'] # << >> /\ MayRun(e) /\ scheduled[e] = now'
                   /\ e \in Event /\ state[e] = "Queued" /\ e \notin erased
                   /\ simTime' = now' /\ state' = [state EXCEPT ![e] = "Running"]
                   /\ returned' = returned
         /\ UNCHANGED <<stop, scheduled, submitted, erased>>
<1> USE EventSchedulerAssumption
<1>1. /\ now' = NextTime /\ ~returned /\ Idle /\ UNCHANGED <<stop, scheduled, submitted, erased>>
      /\ events' = [t \in {u \in DOMAIN events : now = now' \/ u >= now'} |-> events[t]]
      /\ IF events[now'] # << >> /\ MayRun(Head(events[now']))
         THEN /\ simTime' = scheduled[Head(events[now'])]
              /\ state' = [state EXCEPT ![Head(events[now'])] = "Running"]
              /\ UNCHANGED returned
         ELSE returned' = TRUE /\ UNCHANGED <<simTime, state>>
  BY DEF ProcessOneEvent
<1>2. /\ now' \in DOMAIN events /\ now <= now'
      /\ \A t \in DOMAIN events : t < now' => events[t] = << >>
      /\ events[now'] = << >> => \A t \in DOMAIN events : events[t] = << >>
  BY <1>1, NextTimeFacts
<1>3. DOMAIN events \subseteq 0 .. MaxTime /\ \A t \in DOMAIN events : now <= t
  BY DEF SchedulerInv, TypeOK, ClockInv
<1>4. /\ DOMAIN events' = {t \in DOMAIN events : t >= now'}
      /\ \A t \in DOMAIN events' : events'[t] = events[t]
      /\ \A t \in DOMAIN events : t \notin DOMAIN events' => events[t] = << >>
  <2>1. DOMAIN events' = {u \in DOMAIN events : now = now' \/ u >= now'}
    BY <1>1
  <2>2. \A u \in DOMAIN events : (now = now' \/ u >= now') <=> u >= now'
    BY <1>2, <1>3
  <2>3. \A u \in DOMAIN events : u >= now' \/ u < now'
    BY <1>2, <1>3
  <2> QED BY <1>1, <1>2, <2>1, <2>2, <2>3
<1>5. ASSUME events[now'] # << >>
      PROVE  LET e == Head(events[now'])
             IN  /\ scheduled[e] = now' /\ e \in Event /\ state[e] = "Queued" /\ e \notin erased
  <2>1. events[now'] \in Seq(Event)
    BY <1>2, ListFacts
  <2>2. InList(events[now'], Head(events[now']))
    BY <1>5, <2>1 DEF InList
  <2> QED BY <1>1, <1>2, <2>2, ListFacts DEF Idle
<1> QED BY <1>1, <1>2, <1>4, <1>5

(* The lists that are erased are empty, and the event that runs next is the
   first of the earliest list that is not. *)
LEMMA ProcessOneEventKeepsInv ==
  ASSUME SchedulerInv, ProcessOneEvent
  PROVE  SchedulerInv'
<1> USE EventSchedulerAssumption DEF SchedulerInv
<1>1. /\ ~returned /\ now' \in DOMAIN events
      /\ DOMAIN events' = {t \in DOMAIN events : t >= now'}
      /\ \A t \in DOMAIN events' : events'[t] = events[t]
      /\ \A t \in DOMAIN events : t \notin DOMAIN events' => events[t] = << >>
      /\ UNCHANGED <<stop, scheduled, submitted, erased>>
  BY ProcessOneEventFacts
<1>2. DOMAIN events \subseteq 0 .. MaxTime /\ now' \in DOMAIN events'
  BY <1>1 DEF TypeOK
<1>3. \/ returned' = TRUE /\ UNCHANGED <<simTime, state>>
      \/ \E e \in Event :
            /\ events[now'] # << >> /\ e = Head(events[now'])
            /\ state[e] = "Queued" /\ simTime' = now' /\ returned' = returned
            /\ state' = [state EXCEPT ![e] = "Running"]
  BY ProcessOneEventFacts
<1>4. Idle
  BY DEF ProcessOneEvent
<1>5. \A x \in Event : state'[x] = state[x] \/ (state[x] = "Queued" /\ state'[x] = "Running")
  BY <1>3 DEF TypeOK
<1>6. TypeOK'
  <2>1. returned' \in BOOLEAN /\ simTime' \in 0 .. MaxTime /\ state' \in [Event -> State]
    BY <1>1, <1>2, <1>3 DEF TypeOK, State
  <2> QED BY <1>1, <1>2, <2>1 DEF TypeOK
<1>7. ClockInv'
  BY <1>1, <1>2, <1>3, <1>4 DEF TypeOK, ClockInv, Idle
<1>8. ListsInv'
  <2>1. ASSUME NEW t \in DOMAIN events' PROVE HoldsRightly(t)'
    <3>1. t \in DOMAIN events /\ events'[t] = events[t]
      BY <1>1
    <3>2. ASSUME NEW i \in 1 .. Len(events[t])
          PROVE  state'[events[t][i]] \in {"Queued", "Running"} /\ events[t][i] \in Event
      BY <1>5, <3>1, ListFacts DEF InList
    <3> QED BY <1>1, <3>1, <3>2 DEF ListsInv, HoldsRightly
  <2> QED BY <2>1 DEF ListsInv
<1>9. HistoryInv'
  <2>1. \A x \in Event : InList(submitted', x) <=> state'[x] # "NotSubmitted"
    BY <1>1, <1>5 DEF HistoryInv
  <2>2. \A x \in erased' : state'[x] # "NotSubmitted"
    BY <1>1, <1>5 DEF TypeOK, HistoryInv
  <2>3. ASSUME NEW x \in Event, IsPending(x)' PROVE Listed(x)'
    <3>1. IsPending(x)
      BY <1>1, <1>5, <2>3 DEF IsPending
    <3>2. PICK t \in DOMAIN events : InList(events[t], x)
      BY <3>1 DEF HistoryInv, Listed
    <3>3. events[t] # << >>
      BY <3>2 DEF InList
    <3> QED BY <1>1, <3>2, <3>3 DEF Listed
  <2> QED BY <1>1, <2>1, <2>2, <2>3 DEF HistoryInv
<1> QED BY <1>6, <1>7, <1>8, <1>9

(* The event that has run is the one that is removed. *)
LEMMA EventDoneKeepsInv ==
  ASSUME SchedulerInv, NEW e \in Event, EventDone(e)
  PROVE  SchedulerInv'
<1> USE DEF SchedulerInv
<1>1. /\ state[e] = "Running"
      /\ state' = [state EXCEPT ![e] = "Finished"]
      /\ events' = [events EXCEPT ![now] = Tail(@)]
      /\ UNCHANGED <<simTime, now, stop, scheduled, returned, submitted, erased>>
  BY DEF EventDone
<1>2. now \in DOMAIN events /\ events[now] # << >> /\ Head(events[now]) = e
  BY <1>1 DEF TypeOK, ClockInv
<1>3. events[now] \in Seq(Event) /\ Once(events[now])
  BY <1>2, ListFacts
<1>4. /\ DOMAIN events' = DOMAIN events
      /\ \A t \in DOMAIN events : t # now => events'[t] = events[t]
      /\ events'[now] \in Seq(Event)
      /\ Len(events[now]) \in Nat \ {0} /\ Len(events'[now]) = Len(events[now]) - 1
      /\ \A i \in 1 .. Len(events'[now]) : events'[now][i] = events[now][i + 1]
      /\ events[now][1] = e
  BY <1>1, <1>2, <1>3
<1>5. ASSUME NEW i \in 1 .. Len(events'[now])
      PROVE  events'[now][i] # e /\ i + 1 \in 1 .. Len(events[now])
  BY <1>3, <1>4 DEF Once
<1>6. /\ state'[e] = "Finished" /\ \A x \in Event : x # e => state'[x] = state[x]
      /\ \A x \in Event : state'[x] # "Running"
  BY <1>1, <1>2 DEF TypeOK, ClockInv
<1>7. TypeOK'
  BY <1>1, <1>4 DEF TypeOK, State
<1>8. ClockInv'
  BY <1>1, <1>4, <1>6 DEF ClockInv
<1>9. ListsInv'
  <2>1. ASSUME NEW t \in DOMAIN events, t # now PROVE HoldsRightly(t)'
    <3>1. events'[t] = events[t]
      BY <1>4, <2>1
    <3>2. ASSUME NEW i \in 1 .. Len(events[t]) PROVE state'[events[t][i]] \in {"Queued", "Running"}
      <4>1. InList(events[t], events[t][i]) /\ InList(events[now], e)
        BY <1>4 DEF InList
      <4>2. events[t][i] \in Event /\ scheduled[events[t][i]] = t /\ scheduled[e] = now
            /\ state[events[t][i]] \in {"Queued", "Running"}
        BY <1>2, <4>1, ListFacts
      <4> QED BY <1>6, <2>1, <4>2
    <3> QED BY <1>1, <3>1, <3>2 DEF ListsInv, HoldsRightly
  <2>2. HoldsRightly(now)'
    <3>1. ASSUME NEW i \in 1 .. Len(events'[now])
          PROVE  /\ scheduled'[events'[now][i]] = now' /\ events'[now][i] \notin erased'
                 /\ state'[events'[now][i]] \in {"Queued", "Running"}
      <4>1. InList(events[now], events'[now][i])
        BY <1>4, <1>5 DEF InList
      <4>2. /\ events'[now][i] \in Event /\ scheduled[events'[now][i]] = now
            /\ events'[now][i] \notin erased /\ state[events'[now][i]] \in {"Queued", "Running"}
        BY <1>2, <4>1, ListFacts
      <4> QED BY <1>1, <1>5, <1>6, <4>2
    <3>2. ASSUME NEW i \in 1 .. Len(events'[now]), NEW j \in 1 .. Len(events'[now]), i < j
          PROVE  Before(submitted', events'[now][i], events'[now][j])
      <4>1. i + 1 \in 1 .. Len(events[now]) /\ j + 1 \in 1 .. Len(events[now]) /\ i + 1 < j + 1
        BY <1>4, <3>2
      <4>2. Before(submitted, events[now][i + 1], events[now][j + 1])
        BY <1>2, <4>1 DEF ListsInv, HoldsRightly
      <4> QED BY <1>1, <1>4, <4>2
    <3> QED BY <1>1, <3>1, <3>2 DEF HoldsRightly
  <2> QED BY <1>1, <1>4, <2>1, <2>2 DEF ListsInv
<1>10. HistoryInv'
  <2>1. \A x \in Event : InList(submitted', x) <=> state'[x] # "NotSubmitted"
    BY <1>1, <1>6 DEF HistoryInv
  <2>2. \A x \in erased' : state'[x] # "NotSubmitted"
    BY <1>1, <1>6 DEF TypeOK, HistoryInv
  <2>3. ASSUME NEW x \in Event, IsPending(x)' PROVE Listed(x)'
    <3>1. x # e /\ IsPending(x)
      BY <1>1, <1>6, <2>3 DEF IsPending
    <3>2. PICK t \in DOMAIN events : InList(events[t], x)
      BY <3>1 DEF HistoryInv, Listed
    <3>3. CASE t # now
      BY <1>4, <3>2, <3>3 DEF Listed
    <3>4. CASE t = now
      <4>1. PICK k \in 1 .. Len(events[now]) : events[now][k] = x
        BY <3>2, <3>4 DEF InList
      <4>2. k # 1
        BY <1>4, <3>1, <4>1
      <4>3. k - 1 \in 1 .. Len(events'[now]) /\ (k - 1) + 1 = k
        BY <1>4, <4>2
      <4>4. InList(events'[now], x)
        BY <1>4, <4>1, <4>3 DEF InList
      <4> QED BY <1>2, <1>4, <4>4 DEF Listed
    <3> QED BY <3>3, <3>4
  <2> QED BY <1>1, <2>1, <2>2, <2>3 DEF HistoryInv
<1> QED BY <1>7, <1>8, <1>9, <1>10

(* What the lists held is taken out, what is submitted from now on is new. *)
LEMMA ResetKeepsInv ==
  ASSUME SchedulerInv, Reset
  PROVE  SchedulerInv'
<1> USE EventSchedulerAssumption DEF SchedulerInv, Reset
<1>1. DOMAIN events' = {0} /\ events'[0] = << >>
  OBVIOUS
<1>2. \A x \in Event : state[x] # "Running"
  BY DEF ClockInv
<1>3. TypeOK'
  <2>1. \A t \in DOMAIN events' : events'[t] \in Seq(Event)
    BY <1>1
  <2>2. now' \in DOMAIN events' /\ DOMAIN events' \subseteq 0 .. MaxTime /\ simTime' \in 0 .. MaxTime
    BY <1>1
  <2> QED BY <2>1, <2>2 DEF TypeOK
<1>4. ClockInv'
  BY <1>1, <1>2 DEF ClockInv
<1>5. ListsInv'
  BY <1>1 DEF ListsInv, HoldsRightly
<1>6. \A x \in Event : Listed(x) => state[x] # "NotSubmitted"
  BY ListFacts DEF Listed
<1>7. HistoryInv'
  BY <1>6 DEF HistoryInv, IsPending
<1> QED BY <1>3, <1>4, <1>5, <1>7

LEMMA StepKeepsInv ==
  ASSUME SchedulerInv, [Next]_vars
  PROVE  SchedulerInv'
<1> USE EventSchedulerAssumption
<1>1. ASSUME NEW e \in Event, ScheduleNow(e) PROVE SchedulerInv'
  <2>1. /\ now \in DOMAIN events /\ now = simTime /\ simTime \in 0 .. MaxTime
        /\ Submitted(e, simTime) /\ events' = [events EXCEPT ![now] = Append(@, e)]
    BY <1>1 DEF SchedulerInv, TypeOK, ClockInv, ScheduleNow, Submitted
  <2>2. events' = Inserted(e, simTime)
    BY <2>1 DEF Inserted
  <2> QED BY <2>1, <2>2, SubmittedKeepsInv
<1>2. ASSUME NEW e \in Event, NEW at \in 0 .. MaxTime, Schedule(e, at) PROVE SchedulerInv'
  BY <1>2, SubmittedKeepsInv DEF Schedule
<1>3. CASE Stop
  <2>1. TypeOK'
    BY <1>3 DEF Stop, SchedulerInv, TypeOK
  <2>2. ClockInv'
    BY <1>3 DEF Stop, SchedulerInv, ClockInv
  <2>3. ListsInv' /\ HistoryInv'
    BY <1>3 DEF Stop, SchedulerInv, ListsInv, HoldsRightly, HistoryInv, IsPending, Listed
  <2> QED BY <2>1, <2>2, <2>3 DEF SchedulerInv
<1>4. CASE UNCHANGED vars
  BY <1>4 DEF vars, SchedulerInv, TypeOK, ClockInv, ListsInv, HoldsRightly, HistoryInv, IsPending,
              Listed
<1> QED BY <1>1, <1>2, <1>3, <1>4, CancelKeepsInv, EventDoneKeepsInv, ProcessOneEventKeepsInv,
           ResetKeepsInv DEF Next

-----------------------------------------------------------------------------
(* The invariant holds in every behaviour. *)
THEOREM Invariant == Spec => []SchedulerInv
<1>1. Init => SchedulerInv
  BY InitSchedulerInv
<1>2. SchedulerInv /\ [Next]_vars => SchedulerInv'
  BY StepKeepsInv
<1> QED BY <1>1, <1>2, PTL DEF Spec

(* The clock, the lists and the states of the events have their types. *)
THEOREM TypeCorrect == Spec => []TypeOK
<1>1. SchedulerInv => TypeOK
  BY DEF SchedulerInv
<1> QED BY <1>1, Invariant, PTL

(* A set whose elements are all the same has one element at most. *)
LEMMA AtMostOne ==
  ASSUME NEW S, \A x, y \in S : x = y
  PROVE  Cardinality(S) <= 1
<1>1. CASE S = {}
  BY <1>1, FS_EmptySet
<1>2. CASE \E x \in S : S = {x}
  BY <1>2, FS_Singleton
<1> QED BY <1>1, <1>2

(* pop_front removes the event that has run, whatever its callable did to the
   lists, and each event that waits stands once, in the list of its time. *)
THEOREM ListsAlwaysAgree == Spec => []ListsAgree
<1>1. SchedulerInv => CurrentListIsNow
  BY EventSchedulerAssumption DEF SchedulerInv, TypeOK, ClockInv, CurrentListIsNow
<1>2. ASSUME SchedulerInv PROVE EachListedOnce
  <2> SUFFICES ASSUME NEW e \in Event
               PROVE  LET places == {p \in (DOMAIN events) \X (1 .. Len(submitted)) :
                                       p[2] <= Len(events[p[1]]) /\ events[p[1]][p[2]] = e}
                      IN  /\ Cardinality(places) <= 1
                          /\ \A p \in places : p[1] = scheduled[e] /\ state[e] \in {"Queued", "Running"}
                          /\ state[e] = "Queued" /\ e \notin erased => Listed(e)
    BY DEF EachListedOnce
  <2> DEFINE places == {p \in (DOMAIN events) \X (1 .. Len(submitted)) :
                          p[2] <= Len(events[p[1]]) /\ events[p[1]][p[2]] = e}
  <2>1. ASSUME NEW p \in places
        PROVE  /\ p = <<scheduled[e], p[2]>> /\ scheduled[e] \in DOMAIN events
               /\ p[2] \in 1 .. Len(events[scheduled[e]])
               /\ events[scheduled[e]][p[2]] = e /\ state[e] \in {"Queued", "Running"}
    <3>1. p[1] \in DOMAIN events /\ p[2] \in 1 .. Len(submitted) /\ p = <<p[1], p[2]>>
      OBVIOUS
    <3>2. events[p[1]] \in Seq(Event) /\ submitted \in Seq(Event)
      BY <1>2, <3>1, ListFacts DEF SchedulerInv, TypeOK
    <3>3. p[2] \in 1 .. Len(events[p[1]]) /\ events[p[1]][p[2]] = e
      BY <3>1, <3>2
    <3>4. InList(events[p[1]], e)
      BY <3>3 DEF InList
    <3>5. p[1] = scheduled[e] /\ state[e] \in {"Queued", "Running"}
      BY <1>2, <3>1, <3>4, ListFacts
    <3> QED BY <3>1, <3>3, <3>5
  <2>2. \A p, q \in places : p = q
    <3> SUFFICES ASSUME NEW p \in places, NEW q \in places PROVE p = q
      OBVIOUS
    <3>1. scheduled[e] \in DOMAIN events /\ Once(events[scheduled[e]])
      BY <1>2, <2>1, ListFacts
    <3>2. p[2] = q[2]
      BY <2>1, <3>1 DEF Once
    <3> QED BY <2>1, <3>2
  <2>3. state[e] = "Queued" /\ e \notin erased => Listed(e)
    BY <1>2 DEF SchedulerInv, HistoryInv, IsPending
  <2>4. \A p \in places : p[1] = scheduled[e] /\ state[e] \in {"Queued", "Running"}
    BY <2>1
  <2>5. Cardinality(places) <= 1
    BY <2>2, AtMostOne
  <2> QED BY <2>3, <2>4, <2>5
<1> QED BY <1>1, <1>2, Invariant, PTL DEF ListsAgree

-----------------------------------------------------------------------------
(* The calendar.                                                           *)

Submissions == 1 .. Len(submitted)

LEMMA PendingFacts ==
  /\ \A r : r \in Pending <=> \E n \in Submissions : IsPending(submitted[n]) /\ r = Entry(n)
  /\ \A n : Entry(n).event = submitted[n] /\ Entry(n).time = scheduled[submitted[n]] /\ Entry(n).nr = n
BY DEF Pending, Entry, Submissions

(* Nothing is submitted, and the same events stay pending. *)
LEMMA PendingStays ==
  ASSUME SchedulerInv, UNCHANGED <<submitted, scheduled>>,
         \A x \in Event : IsPending(x)' <=> IsPending(x)
  PROVE  Pending' = Pending
<1>1. submitted \in Seq(Event) /\ submitted' = submitted /\ scheduled' = scheduled
  BY DEF SchedulerInv, TypeOK
<1>2. \A n \in Submissions : IsPending(submitted[n])' <=> IsPending(submitted[n])
  BY <1>1 DEF Submissions, IsPending
<1>3. {m \in 1 .. Len(submitted) : IsPending(submitted[m])}' = {m \in 1 .. Len(submitted) : IsPending(submitted[m])}
  BY <1>1, <1>2 DEF Submissions
<1> QED BY <1>1, <1>3 DEF Pending, Entry

(* One event is no longer pending. *)
LEMMA PendingLeaves ==
  ASSUME SchedulerInv, UNCHANGED <<submitted, scheduled>>,
         NEW k \in Submissions, IsPending(submitted[k]),
         \A x \in Event : IsPending(x)' <=> IsPending(x) /\ x # submitted[k]
  PROVE  Entry(k) \in Pending /\ Pending' = Pending \ {Entry(k)}
<1>1. submitted \in Seq(Event) /\ Once(submitted) /\ submitted' = submitted /\ scheduled' = scheduled
  BY DEF SchedulerInv, TypeOK, HistoryInv
<1>2. \A n \in Submissions : IsPending(submitted[n])' <=> IsPending(submitted[n]) /\ n # k
  BY <1>1 DEF Submissions, IsPending, Once
<1>3. \A n : Entry(n)' = Entry(n)
  BY <1>1 DEF Entry
<1>4. \A r : r \in Pending' <=> \E n \in Submissions : IsPending(submitted[n])' /\ r = Entry(n)
  BY <1>1, <1>3 DEF Pending, Submissions, Entry
<1>5. \A n \in Submissions : Entry(n) = Entry(k) => n = k
  BY PendingFacts
<1> QED BY <1>2, <1>4, <1>5, PendingFacts

(* A new entry, with a number that no other has. *)
LEMMA SubmittedIsSubmit ==
  ASSUME SchedulerInv, NEW e \in Event, NEW at \in 0 .. MaxTime, at >= simTime, Submitted(e, at)
  PROVE  Abstract!Submit(e, at)
<1>1. /\ submitted \in Seq(Event) /\ ~InList(submitted, e) /\ e \notin erased
      /\ scheduled' = [scheduled EXCEPT ![e] = at] /\ state' = [state EXCEPT ![e] = "Queued"]
      /\ submitted' = Append(submitted, e) /\ UNCHANGED <<simTime, stop, erased>>
  BY DEF SchedulerInv, TypeOK, HistoryInv, Submitted
<1>0. PICK new \in Nat : new = Len(submitted) + 1
  BY <1>1
<1> DEFINE r0 == [event |-> e, time |-> at, nr |-> new]
<1>2. /\ Len(submitted') = new /\ submitted'[new] = e /\ Len(submitted) \in Nat
      /\ \A n \in Submissions : submitted'[n] = submitted[n] /\ submitted[n] \in Event /\ submitted[n] # e
  BY <1>0, <1>1 DEF Submissions, InList
<1>3. \A x \in Event : x # e => scheduled'[x] = scheduled[x] /\ (IsPending(x)' <=> IsPending(x))
  BY <1>1 DEF SchedulerInv, TypeOK, IsPending
<1>4. scheduled'[e] = at /\ state'[e] = "Queued" /\ e \notin erased'
  BY <1>1 DEF SchedulerInv, TypeOK
<1>5. \A r : r \in Pending' <=> \E n \in 1 .. new : IsPending(submitted[n])' /\ r = Entry(n)'
  BY <1>2 DEF Pending
<1>6. \A n \in Submissions : /\ IsPending(submitted[n])' <=> IsPending(submitted[n])
                            /\ Entry(n)' = Entry(n) /\ n \in 1 .. new
  BY <1>0, <1>2, <1>3 DEF Entry, IsPending, Submissions
<1>7. IsPending(submitted[new])' /\ Entry(new)' = r0 /\ new \in 1 .. new
  BY <1>0, <1>1, <1>2, <1>4 DEF Entry, IsPending
<1>8. \A n \in 1 .. new : n = new \/ n \in Submissions
  BY <1>0, <1>2 DEF Submissions
<1> HIDE DEF r0
<1>9. Pending' = Pending \cup {r0}
  <2>1. \A r : r \in Pending' => r \in Pending \cup {r0}
    BY <1>5, <1>6, <1>7, <1>8, PendingFacts
  <2>2. \A r : r \in Pending \cup {r0} => r \in Pending'
    BY <1>5, <1>6, <1>7, PendingFacts
  <2> QED BY <2>1, <2>2
<1> QED BY <1>0, <1>1, <1>2, <1>9 DEF Abstract!Submit, r0

(* A cancelled event leaves the calendar, unless a reset had erased it. *)
LEMMA CancelIsWithdraw ==
  ASSUME SchedulerInv, NEW e \in Event, Cancel(e)
  PROVE  Abstract!Withdraw(e) \/ UNCHANGED Abstract!vars
<1>1. /\ state[e] = "Queued" /\ state' = [state EXCEPT ![e] = "Canceled"]
      /\ UNCHANGED <<simTime, stop, scheduled, submitted, erased>>
  BY DEF Cancel
<1>2. \A x \in Event : IsPending(x)' <=> IsPending(x) /\ x # e
  BY <1>1 DEF SchedulerInv, TypeOK, IsPending
<1>3. PICK k \in Submissions : submitted[k] = e
  BY <1>1 DEF SchedulerInv, HistoryInv, InList, Submissions
<1>4. CASE IsPending(e)
  <2>1. Entry(k) \in Pending /\ Pending' = Pending \ {Entry(k)}
    BY <1>1, <1>2, <1>3, <1>4, PendingLeaves
  <2>2. Entry(k).event = e
    BY <1>3, PendingFacts
  <2> QED BY <1>1, <2>1, <2>2 DEF Abstract!Withdraw
<1>5. CASE ~IsPending(e)
  <2>1. Pending' = Pending
    BY <1>1, <1>2, <1>5, PendingStays
  <2> QED BY <1>1, <2>1 DEF Abstract!vars
<1> QED BY <1>4, <1>5

(* The event at the front of the earliest list precedes all that are pending. *)
LEMMA ProcessOneEventIsRunNext ==
  ASSUME SchedulerInv, ProcessOneEvent
  PROVE  Abstract!RunNext \/ UNCHANGED Abstract!vars
<1> USE EventSchedulerAssumption
<1>1. /\ ~returned /\ now' \in DOMAIN events
      /\ DOMAIN events' = {t \in DOMAIN events : t >= now'}
      /\ \A t \in DOMAIN events : t \notin DOMAIN events' => events[t] = << >>
      /\ UNCHANGED <<stop, scheduled, submitted, erased>>
      /\ \/ returned' = TRUE /\ UNCHANGED <<simTime, state>>
         \/ LET e == Head(events[now'])
            IN  /\ events[now'] # << >> /\ MayRun(e) /\ scheduled[e] = now'
                /\ e \in Event /\ state[e] = "Queued" /\ e \notin erased
                /\ simTime' = now' /\ state' = [state EXCEPT ![e] = "Running"]
                /\ returned' = returned
  BY ProcessOneEventFacts
<1>2. CASE UNCHANGED <<simTime, state>>
  <2>1. Pending' = Pending
    BY <1>1, <1>2, PendingStays DEF IsPending
  <2> QED BY <1>1, <1>2, <2>1 DEF Abstract!vars
<1>3. ASSUME NEW e, e = Head(events[now']),
             events[now'] # << >>, MayRun(e), scheduled[e] = now',
             e \in Event, state[e] = "Queued", e \notin erased,
             simTime' = now', state' = [state EXCEPT ![e] = "Running"]
      PROVE  Abstract!RunNext
  <2>1. /\ submitted \in Seq(Event) /\ Once(submitted) /\ now' \in 0 .. MaxTime
        /\ simTime \in 0 .. MaxTime /\ events[now'] \in Seq(Event)
        /\ scheduled \in [Event -> 0 .. MaxTime] /\ state \in [Event -> State]
    BY <1>1 DEF SchedulerInv, TypeOK, HistoryInv
  <2>2. PICK k \in Submissions : submitted[k] = e
    BY <1>3 DEF SchedulerInv, HistoryInv, InList, Submissions
  <2>3. IsPending(e) /\ \A x \in Event : IsPending(x)' <=> IsPending(x) /\ x # e
    BY <1>1, <1>3, <2>1 DEF IsPending
  <2>4. Entry(k) \in Pending /\ Pending' = Pending \ {Entry(k)}
    BY <1>1, <2>2, <2>3, PendingLeaves
  <2>5. Entry(k).time = now' /\ Entry(k).nr = k
    BY <1>3, <2>2, PendingFacts
  <2>6. stop => now' = simTime
    BY <1>1, <1>3, <2>1, ProcessOneEventFacts DEF MayRun, SchedulerInv, TypeOK, ClockInv
  <2>7. ASSUME NEW n \in Submissions, IsPending(submitted[n]), n # k
        PROVE  Abstract!Precedes(Entry(k), Entry(n))
    <3> DEFINE x == submitted[n]
    <3>1. x \in Event /\ Entry(n).time = scheduled[x] /\ Entry(n).nr = n
      BY <2>1, PendingFacts DEF Submissions
    <3> HIDE DEF x
    <3>2. PICK t \in DOMAIN events : InList(events[t], x)
      BY <2>7, <3>1 DEF SchedulerInv, HistoryInv, Listed, x
    <3>3. scheduled[x] = t /\ t \in 0 .. MaxTime /\ events[t] # << >>
      BY <3>2, ListFacts DEF InList
    <3>4. t >= now'
      BY <1>1, <3>3
    <3>5. CASE t > now'
      BY <2>1, <2>5, <3>1, <3>3, <3>5 DEF Abstract!Precedes
    <3>6. CASE t = now'
      <4>1. PICK i \in 1 .. Len(events[t]) : events[t][i] = x
        BY <3>2 DEF InList
      <4>2. 1 \in 1 .. Len(events[t]) /\ events[t][1] = e
        BY <1>3, <2>1, <3>6
      <4>3. i # 1
        BY <2>1, <2>2, <2>7, <4>1, <4>2 DEF x, Once, Submissions
      <4>4. Before(submitted, e, x)
        BY <4>1, <4>2, <4>3 DEF SchedulerInv, ListsInv, HoldsRightly
      <4>5. k < n
        BY <2>1, <2>2, <4>4, BeforeIsStrict DEF x, Submissions
      <4> QED BY <2>5, <3>1, <3>3, <3>6, <4>5 DEF Abstract!Precedes
    <3> QED BY <2>1, <3>3, <3>4, <3>5, <3>6
  <2>8. \A y \in Pending \ {Entry(k)} : Abstract!Precedes(Entry(k), y)
    BY <2>7, PendingFacts
  <2>9. stop => Entry(k).time = simTime
    BY <2>5, <2>6
  <2> QED BY <1>1, <1>3, <2>4, <2>5, <2>8, <2>9 DEF Abstract!RunNext
<1> QED BY <1>1, <1>2, <1>3

(* A reset clears the calendar. *)
LEMMA ResetIsClear ==
  ASSUME SchedulerInv, Reset
  PROVE  Abstract!Clear
<1>1. \A x \in Event : ~IsPending(x)'
  BY DEF SchedulerInv, HistoryInv, Reset, IsPending
<1>2. submitted' = submitted /\ submitted \in Seq(Event)
  BY DEF SchedulerInv, TypeOK, Reset
<1>3. \A n \in 1 .. Len(submitted') : ~IsPending(submitted[n])'
  BY <1>1, <1>2 DEF IsPending
<1>4. Pending' = {}
  BY <1>3 DEF Pending
<1> QED BY <1>4 DEF Abstract!Clear, Reset

LEMMA StepRefines ==
  ASSUME SchedulerInv, [Next]_vars
  PROVE  [Abstract!Next]_(Abstract!vars)
<1>1. ASSUME NEW e \in Event, ScheduleNow(e) PROVE Abstract!Next
  <2>1. simTime \in 0 .. MaxTime
    BY DEF SchedulerInv, TypeOK
  <2>2. Abstract!Submit(e, simTime)
    BY <1>1, <2>1, SubmittedIsSubmit DEF ScheduleNow
  <2> QED BY <2>1, <2>2 DEF Abstract!Next
<1>2. ASSUME NEW e \in Event, NEW at \in 0 .. MaxTime, Schedule(e, at) PROVE Abstract!Next
  BY <1>2, SubmittedIsSubmit DEF Schedule, Abstract!Next
<1>3. ASSUME NEW e \in Event, Cancel(e) PROVE [Abstract!Next]_(Abstract!vars)
  BY <1>3, CancelIsWithdraw DEF Abstract!Next
<1>4. ASSUME NEW e \in Event, EventDone(e) PROVE UNCHANGED Abstract!vars
  <2>1. \A x \in Event : IsPending(x)' <=> IsPending(x)
    BY <1>4 DEF EventDone, IsPending, SchedulerInv, TypeOK
  <2>2. Pending' = Pending
    BY <1>4, <2>1, PendingStays DEF EventDone
  <2> QED BY <1>4, <2>2 DEF EventDone, Abstract!vars
<1>5. CASE Stop
  <2>1. Pending' = Pending
    BY <1>5, PendingStays DEF Stop, IsPending
  <2> QED BY <1>5, <2>1 DEF Stop, Abstract!Next, Abstract!Halt
<1>6. CASE ProcessOneEvent
  BY <1>6, ProcessOneEventIsRunNext DEF Abstract!Next
<1>7. CASE Reset
  BY <1>7, ResetIsClear DEF Abstract!Next
<1>8. CASE UNCHANGED vars
  <2>1. Pending' = Pending
    BY <1>8, PendingStays DEF vars, IsPending
  <2> QED BY <1>8, <2>1 DEF vars, Abstract!vars
<1> QED BY <1>1, <1>2, <1>3, <1>4, <1>5, <1>6, <1>7, <1>8 DEF Next

(* The scheduler implements the calendar: events run by their times, those
   of one time in the order they were scheduled in, cancelled ones never. *)
THEOREM Refinement == Spec => ImplementsCalendar
<1>1. Init => Abstract!Init
  BY DEF Init, Abstract!Init, Pending
<1>2. SchedulerInv /\ [Next]_vars => [Abstract!Next]_(Abstract!vars)
  BY StepRefines
<1> QED BY <1>1, <1>2, Invariant, PTL DEF Spec, ImplementsCalendar, Abstract!Spec

===============================================================================
