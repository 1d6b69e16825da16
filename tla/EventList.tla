----------------------------- MODULE EventList ------------------------------
(***************************************************************************)
(* The event list of one timeline of S3F and the two threads that use it:  *)
(* the timeline, which looks at the next event, lets its containers catch  *)
(* up, takes the event and runs it (sync_window in base/api/timeline.cc),  *)
(* and the thread of the LXC manager, which injects what the containers    *)
(* have sent (serial_session.cc, entity.cc).  Each access to the list      *)
(* (base/time/stl-eventlist.h) and to the clock is a lock section of its   *)
(* own.  Timelines leaves the injections out: there the list has one user. *)
(***************************************************************************)
EXTENDS Integers, Sequences

CONSTANTS
  FirstTimes,  \* when the first event of the timeline may be
  Delays,      \* for how long its processes wait
  WindowSize,
  Horizon,     \* bound: the upper edge of the last window
  MaxEvents    \* bound: events in all

VARIABLES
  events,     \* evtList: each event with its number and time
  nxtEvt,     \* nxt_evt
  time,       \* __time
  stopBefore, \* __stop_before
  pc,         \* where the timeline's thread is
  elapsed,    \* how far the containers of the timeline have advanced
  manager,    \* where the manager's thread is, and what it has computed
  made,       \* events so far
  ran         \* history: the numbers of the events that were run

listVars == <<events, nxtEvt, time, stopBefore, pc, elapsed, manager, made, ran>>
timelineVars == <<nxtEvt, time, stopBefore, pc, elapsed, ran>>

Event(nr, t) == [nr |-> nr, time |-> t]
Idle == [at |-> "poll", delay |-> 0, time |-> 0]

\* What top and pop refer to; the queue has the earliest event on top, and an
\* event as early as that one does not take its place.
Before(e, f) == e.time < f.time \/ (e.time = f.time /\ e.nr < f.nr)
First == CHOOSE e \in events : \A f \in events \ {e} : Before(e, f)

ListInit ==
  /\ \E first \in FirstTimes : events = {Event(1, first)}
  /\ made = 1
  /\ nxtEvt = Event(0, 0) /\ time = 0 /\ elapsed = 0
  /\ stopBefore = WindowSize /\ pc = "look"
  /\ manager = Idle /\ ran = <<>>

-----------------------------------------------------------------------------
(* The timeline.                                                           *)

Goes(from, to) == pc = from /\ pc' = to

\* empty_lockless and top_lockless in one section.
Look ==
  \/ /\ Goes("look", "end") /\ events = {}
     /\ UNCHANGED <<events, nxtEvt, time, stopBefore, elapsed, manager, made, ran>>
  \/ /\ Goes("look", "advance") /\ events # {}
     /\ nxtEvt' = First
     /\ UNCHANGED <<events, time, stopBefore, elapsed, manager, made, ran>>

\* advanceLXCsOnTimeline: true if a container had to advance.
MustAdvance == nxtEvt.time <= stopBefore /\ elapsed < nxtEvt.time

AdvanceLXCs ==
  /\ MustAdvance /\ Goes("advance", "look")
  /\ elapsed' = nxtEvt.time
  /\ UNCHANGED <<events, nxtEvt, time, stopBefore, manager, made, ran>>

Advanced ==
  /\ ~MustAdvance /\ Goes("advance", "top")
  /\ UNCHANGED <<events, nxtEvt, time, stopBefore, elapsed, manager, made, ran>>

TopEvent ==
  /\ Goes("top", IF First.time < stopBefore THEN "pop" ELSE "end")
  /\ nxtEvt' = First
  /\ UNCHANGED <<events, time, stopBefore, elapsed, manager, made, ran>>

PopEvent ==
  /\ Goes("pop", "set")
  /\ events' = events \ {First}
  /\ UNCHANGED <<nxtEvt, time, stopBefore, elapsed, manager, made, ran>>

SetTime ==
  /\ Goes("set", "run")
  /\ time' = nxtEvt.time
  /\ UNCHANGED <<events, nxtEvt, stopBefore, elapsed, manager, made, ran>>

\* The process that an event wakes waits again, or does not.
RunEvent ==
  /\ Goes("run", "look")
  /\ ran' = Append(ran, nxtEvt.nr)
  /\ \/ UNCHANGED <<events, made>>
     \/ /\ made < MaxEvents /\ made' = made + 1
        /\ \E d \in Delays : events' = events \cup {Event(made', time + d)}
  /\ UNCHANGED <<nxtEvt, time, stopBefore, elapsed, manager>>

\* The timeline is at the end of its window and enters the next one.
EndWindow ==
  /\ Goes("end", IF stopBefore < Horizon THEN "look" ELSE "done")
  /\ time' = stopBefore - 1
  /\ stopBefore' = stopBefore + WindowSize
  /\ UNCHANGED <<events, nxtEvt, elapsed, manager, made, ran>>

-----------------------------------------------------------------------------
(* The manager.  What a container has sent at a time it has reached is to  *)
(* be handled then, or now if that is in the past: the clock is read for   *)
(* the delay, read again to add it, and then the event is pushed.          *)

Inject ==
  /\ manager = Idle /\ made < MaxEvents
  /\ \E incoming \in 0 .. elapsed :
       manager' = [manager EXCEPT !.at = "wait", !.delay = IF incoming > time THEN incoming - time ELSE 0]
  /\ UNCHANGED <<events, timelineVars, made>>

WaitFor ==
  /\ manager.at = "wait"
  /\ manager' = [manager EXCEPT !.at = "push", !.time = time + manager.delay]
  /\ UNCHANGED <<events, timelineVars, made>>

Schedule ==
  /\ manager.at = "push" /\ made < MaxEvents
  /\ manager' = Idle
  /\ made' = made + 1
  /\ events' = events \cup {Event(made', manager.time)}
  /\ UNCHANGED timelineVars

ListNext ==
  \/ Look \/ AdvanceLXCs \/ Advanced \/ TopEvent \/ PopEvent \/ SetTime \/ RunEvent \/ EndWindow
  \/ Inject \/ WaitFor \/ Schedule

ListSpec == ListInit /\ [][ListNext]_listVars

-----------------------------------------------------------------------------
(* Properties.                                                             *)

Events(s) == {s[i] : i \in DOMAIN s}

\* timeline.cc 513-516: the locks of the list keep an event that is injected while
\* the timeline runs from doing harm.  Every event is in the list or has been run,
\* and none was run twice or is to be.
EventsRunOnce ==
  pc = "look" =>
    /\ \A i, j \in DOMAIN ran : ran[i] = ran[j] => i = j
    /\ Events(ran) \cup {e.nr : e \in events} = 1 .. made
    /\ Events(ran) \cap {e.nr : e \in events} = {}

\* The clock of a timeline does not go back: no event is injected into its past.
ClockGoesOn == [][time' >= time]_listVars
=============================================================================
