---------------------------- MODULE EventScheduler ----------------------------
(***************************************************************************)
(* src/events/scheduler/Map.cpp: the event scheduler, one list of events   *)
(* per time, and start(), the loop that runs them.  An event runs between  *)
(* ProcessOneEvent and EventDone; what its callable does to the scheduler  *)
(* (and what startup code or a queued command does between two events) are *)
(* the actions ScheduleNow, Schedule, Cancel and Stop.                     *)
(***************************************************************************)
EXTENDS Lists, FiniteSets

CONSTANTS Event,     \* the events the program creates, each scheduled once
          MaxTime    \* bound: times are 0 .. MaxTime

ASSUME EventSchedulerAssumption == MaxTime \in Nat

VARIABLES simTime,     \* simTime_
          events,      \* events_: the list of events of each time it has
          now,         \* nowItr_: the time whose list is being worked off
          stop,        \* stop_
          state,       \* Event::state_
          scheduled,   \* Event::scheduled_
          returned,    \* start() has returned
          submitted,   \* history: all events in the order they were scheduled
          erased       \* history: the events that a reset took out of the lists

vars == <<simTime, events, now, stop, state, scheduled, returned, submitted, erased>>

State == {"NotSubmitted", "Queued", "Running", "Finished", "Canceled"}

Init ==
    /\ simTime = 0
    /\ events = [t \in {0} |-> << >>]
    /\ now = 0
    /\ stop = FALSE
    /\ state = [e \in Event |-> "NotSubmitted"]
    /\ scheduled = [e \in Event |-> 0]
    /\ returned = FALSE
    /\ submitted = << >>
    /\ erased = {}

-------------------------------------------------------------------------------
Least(T) == CHOOSE t \in T : \A u \in T : t <= u
Last(T)  == CHOOSE t \in T : \A u \in T : u <= t

Listed(e) == \E t \in DOMAIN events : InList(events[t], e)

Idle == \A e \in Event : state[e] # "Running"

Submitted(e, at) ==
    /\ ~returned /\ state[e] = "NotSubmitted"
    /\ scheduled' = [scheduled EXCEPT ![e] = at]
    /\ state' = [state EXCEPT ![e] = "Queued"]
    /\ submitted' = Append(submitted, e)
    /\ UNCHANGED <<simTime, now, stop, returned, erased>>

ScheduleNow(e) ==
    /\ Submitted(e, simTime)
    /\ events' = [events EXCEPT ![now] = Append(@, e)]

(* fault: the list of the time is replaced, not prolonged                  *)
Inserted_Replaced(e, at) ==
    [t \in DOMAIN events \cup {at} |-> IF t = at THEN <<e>> ELSE events[t]]

(* fault: an event overtakes those that were scheduled for its time before *)
Inserted_AtFront(e, at) ==
    [t \in DOMAIN events \cup {at} |->
        IF t # at THEN events[t]
        ELSE IF at \in DOMAIN events THEN <<e>> \o events[at] ELSE <<e>>]

Inserted(e, at) ==
    [t \in DOMAIN events \cup {at} |->
        IF t # at THEN events[t]
        ELSE IF at \in DOMAIN events THEN Append(events[at], e) ELSE <<e>>]

(* scheduleDelay and schedule, with a time that is not in the past.        *)
Schedule(e, at) ==
    /\ at >= simTime
    /\ Submitted(e, at)
    /\ events' = Inserted(e, at)

(* An event that is not queued makes cancel throw and change nothing.      *)
Cancel(e) ==
    /\ ~returned /\ state[e] = "Queued"
    /\ state' = [state EXCEPT ![e] = "Canceled"]
    /\ events' = [t \in DOMAIN events |-> Without(events[t], e)]
    /\ UNCHANGED <<simTime, now, stop, scheduled, returned, submitted, erased>>

(* Any event may stop the scheduler, and so does the handler of the signal *)
(* that says that the CPU time is used up (CPUTimeExhaustedHandler.cpp).   *)
Stop ==
    /\ ~returned
    /\ stop' = TRUE
    /\ UNCHANGED <<simTime, events, now, state, scheduled, returned, submitted, erased>>

(* fault: only one list is erased, the next one is not looked at           *)
NextTime_OneStep ==
    LET later == DOMAIN events \ {Least(DOMAIN events)}
    IN  IF events[now] # << >> \/ later = {} THEN now ELSE Least(later)

(* The search loop of doProcessOneEvent: the time whose list is tried in   *)
(* the end.  It erases the earliest list until it finds one with an event. *)
NextTime ==
    LET later == DOMAIN events \ {Least(DOMAIN events)}
    IN  IF events[now] # << >> \/ later = {} THEN now
        ELSE Least({t \in later : events[t] # << >> \/ t = Last(later)})

MayRun(e) == scheduled[e] > simTime => ~stop

(* fault: the iterator is not set to the first list that is left           *)
ProcessOneEvent_StaleIterator ==
    /\ ~returned /\ Idle
    /\ events' = [t \in {u \in DOMAIN events : now = NextTime \/ u >= NextTime} |-> events[t]]
    /\ UNCHANGED <<simTime, now, state, returned, stop, scheduled, submitted, erased>>

ProcessOneEvent ==
    LET list == events[NextTime]
        e    == Head(list)
    IN  /\ ~returned /\ Idle
        /\ now' = NextTime
        /\ events' = [t \in {u \in DOMAIN events : now = NextTime \/ u >= NextTime}
                         |-> events[t]]
        /\ IF list # << >> /\ MayRun(e)
           THEN /\ simTime' = scheduled[e]
                /\ state' = [state EXCEPT ![e] = "Running"]
                /\ UNCHANGED returned
           ELSE /\ returned' = TRUE
                /\ UNCHANGED <<simTime, state>>
        /\ UNCHANGED <<stop, scheduled, submitted, erased>>

(* The callable has returned: the front of the list is removed.            *)
EventDone(e) ==
    /\ state[e] = "Running"
    /\ state' = [state EXCEPT ![e] = "Finished"]
    /\ events' = [events EXCEPT ![now] = Tail(@)]
    /\ UNCHANGED <<simTime, now, stop, scheduled, returned, submitted, erased>>

(* reset() and then start() again, as the tests do it.                     *)
Reset ==
    /\ returned
    /\ events' = [t \in {0} |-> << >>]
    /\ now' = 0
    /\ simTime' = 0
    /\ returned' = FALSE
    /\ erased' = erased \cup {e \in Event : Listed(e)}
    /\ UNCHANGED <<stop, state, scheduled, submitted>>

Next ==
    \/ \E e \in Event :
          \/ ScheduleNow(e) \/ Cancel(e) \/ EventDone(e)
          \/ \E at \in 0 .. MaxTime : Schedule(e, at)
    \/ Stop \/ ProcessOneEvent \/ Reset

Spec == Init /\ [][Next]_vars

(* The loop of start() goes on, and every callable returns.                *)
LiveSpec ==
    /\ Spec
    /\ WF_vars(ProcessOneEvent)
    /\ \A e \in Event : WF_vars(EventDone(e))

-------------------------------------------------------------------------------
TypeOK ==
    /\ simTime \in 0 .. MaxTime
    /\ DOMAIN events \subseteq 0 .. MaxTime
    /\ \A t \in DOMAIN events : events[t] \in Seq(Event)
    /\ now \in DOMAIN events
    /\ stop \in BOOLEAN /\ returned \in BOOLEAN
    /\ state \in [Event -> State]
    /\ scheduled \in [Event -> 0 .. MaxTime]
    /\ submitted \in Seq(Event)
    /\ erased \subseteq Event

(* The current list is the earliest one, it is the list of the current     *)
(* time until start() has returned, and the event whose callable runs is   *)
(* at its front, so that pop_front (Map.cpp:182) removes that event,       *)
(* whatever the callable scheduled or cancelled meanwhile.                 *)
CurrentListIsNow ==
    /\ \A t \in DOMAIN events : now <= t
    /\ ~returned /\ events[now] # << >> => now >= simTime
    /\ \A e \in Event : state[e] = "Running" =>
          now = simTime /\ events[now] # << >> /\ Head(events[now]) = e

(* No event is in the lists twice or in a list that is not that of its     *)
(* time, and none that still waits for its time has fallen out of them.    *)
EachListedOnce ==
    \A e \in Event :
        LET places == {p \in (DOMAIN events) \X (1 .. Len(submitted)) :
                          p[2] <= Len(events[p[1]]) /\ events[p[1]][p[2]] = e}
        IN  /\ Cardinality(places) <= 1
            /\ \A p \in places : p[1] = scheduled[e] /\ state[e] \in {"Queued", "Running"}
            /\ state[e] = "Queued" /\ e \notin erased => Listed(e)

(* The lists agree with the clock and with what was scheduled: nothing is  *)
(* lost, doubled or removed in the place of the event that runs.           *)
ListsAgree == CurrentListIsNow /\ EachListedOnce

(* Every event in the lists leaves them, unless the scheduler is stopped.  *)
EveryEventLeaves == \A e \in Event : Listed(e) ~> (~Listed(e) \/ stop)

(* What is pending, as its submitter sees it: the events that were neither *)
(* run nor cancelled nor erased, with their times and their places in the  *)
(* order of scheduling.                                                    *)
Entry(n) == [event |-> submitted[n], time |-> scheduled[submitted[n]], nr |-> n]

IsPending(e) == state[e] = "Queued" /\ e \notin erased

Pending == {Entry(n) : n \in {m \in 1 .. Len(submitted) : IsPending(submitted[m])}}

Abstract == INSTANCE Calendar WITH Time <- 0 .. MaxTime, clock <- simTime, pending <- Pending,
                                   count <- Len(submitted), halted <- stop

(* The lists run the events in the order of a calendar: by time, then by   *)
(* the order of scheduling, cancelled events never, whatever the callables *)
(* schedule and cancel while they run.                                     *)
ImplementsCalendar == Abstract!Spec
===============================================================================
