----------------------------- MODULE Timelines ------------------------------
(* The parallel kernel of S3F (base/api/timeline.cc, interface.cc,            *)
(* outchannel.cc): one thread per timeline, each with its own event list.     *)
(* The threads agree on a window by a min-reduction guarded by a mutex and a  *)
(* barrier, execute their events below its upper edge at the same time, and   *)
(* hand events to each other in two ways: a delivery beyond the window waits  *)
(* in the target's window list, one inside it goes over a channel with a      *)
(* delay below the window size, by an appointment the target waits for.       *)
(* The manager's threads inject nothing here: then a timeline alone uses its  *)
(* list, and its accesses to it make one step.  Injections are in EventList.  *)
EXTENDS Integers, Sequences, FiniteSets, FiniteSetsExt, Bags

CONSTANTS
  Timeline, OutChannels, WriteDelays, WaitDelays,   \* as in Simulation
  FirstTimeouts,   \* when the process of a timeline first waits for, at init
  Plans,           \* the sequences of epochs the control thread may advance by
  MaxActs          \* bound: the writes and waits of the processes, in all

Crossing(c) == DOMAIN c.transfer \ {c.owner}

\* No delay is negative; mapto refuses a mapping to another timeline that takes
\* no time (outchannel.cc 188).
ASSUME TimelinesAssumption ==
  /\ IsFiniteSet(Timeline) /\ Cardinality(Timeline) > 1
  /\ \E c \in OutChannels : Crossing(c) # {}
  /\ \A c \in OutChannels :
       /\ c.owner \in Timeline /\ c.minWrite \in Nat
       /\ DOMAIN c.transfer \subseteq Timeline /\ \A j \in DOMAIN c.transfer : c.transfer[j] \in Nat
       /\ \A j \in Crossing(c) : c.minWrite + c.transfer[j] > 0
  /\ WriteDelays \subseteq Nat /\ WaitDelays \subseteq Nat /\ FirstTimeouts \subseteq Nat
  /\ Plans \subseteq Seq(Nat)

VARIABLES
  events,       \* __events of each timeline
  windowList,   \* __window_list of each timeline
  outAppt,      \* __out_appt[j].events of each timeline
  inAppt,       \* __in_appt[j].appointment of each timeline
  time,         \* __time of each timeline
  pc,           \* where each timeline's thread is
  partner,      \* the timeline a wait for an appointment is about
  bottom,       \* bottom_barrier_min_value
  prevBottom,   \* prev_bottom_barrier_min_value
  offered,      \* this_window or offered_min_value of each thread
  stopBefore,   \* __stop_before, the same in every thread of a window
  epochEnd,     \* the interface's stop_before
  clock,        \* the control thread's __clock
  plan,         \* the epochs still to advance by
  acts,         \* bound: the writes and waits so far
  dropped       \* whether a write was not performed for a target

kernelVars == <<events, windowList, outAppt, inAppt, time, pc, partner, bottom, prevBottom,
                offered, stopBefore, epochEnd, clock, plan, acts, dropped>>
barrierVars == <<bottom, prevBottom, offered, stopBefore, epochEnd, clock, plan>>

(***************************************************************************)
(* The delays that InitModel computes.                                     *)
(***************************************************************************)
Larger(x, y) == IF x < y THEN y ELSE x
Smaller(x, y) == IF x < y THEN x ELSE y

ChannelsOf(i) == {c \in OutChannels : c.owner = i}
DelaysTo(i, j) == {c.minWrite + c.transfer[j] : c \in {o \in ChannelsOf(i) : j \in Crossing(o)}}
CrossDelays(i) == UNION {DelaysTo(i, j) : j \in Timeline}

WindowSize ==
  Cardinality(Timeline) * CHOOSE d \in UNION {CrossDelays(i) : i \in Timeline} :
                            \A f \in UNION {CrossDelays(i) : i \in Timeline} : d <= f

\* __min_sync_cross_timeline_delay: the least delay that is not below the
\* window size.
MinSync(i) ==
  LET long == {d \in CrossDelays(i) : d >= WindowSize}
  IN  IF long = {} THEN -1 ELSE Min(long)

\* A faulty lookahead: that of the writes across windows counts.
LookaheadOfSlowest(i, j) == IF DelaysTo(i, j) = {} THEN -1 ELSE Larger(Min(DelaysTo(i, j)), MinSync(i))

Lookahead(i, j) == IF DelaysTo(i, j) = {} THEN -1 ELSE Min(DelaysTo(i, j))

Meets(i, j) == Lookahead(i, j) # -1 /\ Lookahead(i, j) < WindowSize

Asynchronous(c, j) == c.minWrite + c.transfer[j] < WindowSize

(***************************************************************************)
(* Events.  user_pri maps the default priority to 0, the key of an         *)
(* activation; the process an activation starts keeps its own number.      *)
(***************************************************************************)
Event(t, k, j) == [time |-> t, kind |-> k, peer |-> j]
Key(e) == CASE e.kind \in {"activate", "timeout"} -> 0
            [] e.kind = "exec" -> 1
            [] e.kind = "make" -> 2
            [] e.kind = "wait" -> 3
Before(e, f) == e.time < f.time \/ (e.time = f.time /\ Key(e) < Key(f))

Added(bag, e) == bag (+) SetToBag({e})

Firsts(i) == {e \in BagToSet(events[i]) : \A f \in BagToSet(events[i]) : ~Before(f, e)}

KernelInit ==
  /\ \E first \in [Timeline -> FirstTimeouts] :
       events = [i \in Timeline |->
         SetToBag({Event(first[i], "timeout", i)}
                  \cup {Event(Lookahead(i, j), "make", j) : j \in {k \in Timeline : Meets(i, k)}}
                  \cup {Event(Lookahead(j, i), "wait", j) : j \in {k \in Timeline : Meets(k, i)}})]
  /\ windowList = [i \in Timeline |-> EmptyBag]
  /\ outAppt = [i \in Timeline |-> [j \in Timeline |-> EmptyBag]]
  /\ inAppt = [i \in Timeline |-> [j \in Timeline |-> -1]]
  /\ time = [i \in Timeline |-> 0]
  /\ pc = [i \in Timeline |-> "idle"]
  /\ partner = [i \in Timeline |-> i]
  /\ bottom = -1 /\ prevBottom = -1
  /\ offered = [i \in Timeline |-> 0]
  /\ stopBefore = 0 /\ epochEnd = 0 /\ clock = 0
  /\ plan \in Plans
  /\ acts = 0 /\ dropped = FALSE

(***************************************************************************)
(* The control thread and the barriers.                                    *)
(***************************************************************************)
Together(l) == \A i \in Timeline : pc[i] = l

Advance ==
  /\ Together("idle") /\ plan # <<>>
  /\ epochEnd' = clock + Head(plan) /\ plan' = Tail(plan)
  /\ pc' = [i \in Timeline |->
              IF \E j \in Timeline : epochEnd' <= time[j] + 1 THEN "exited" ELSE "collect"]
  /\ UNCHANGED <<events, windowList, outAppt, inAppt, time, partner, bottom, prevBottom,
                 offered, stopBefore, clock, acts, dropped>>

\* A thread takes the events other timelines left for it and offers the upper
\* edge it can bear to the min-reduction.
Bearable(i, list) ==
  LET next == IF list = EmptyBag THEN -1 ELSE Min({e.time : e \in BagToSet(list)})
      from == Larger(time[i], next)
  IN  IF next < 0 \/ MinSync(i) < 0 THEN from + WindowSize ELSE from + MinSync(i)

Reduced(edge) == IF bottom = prevBottom \/ bottom > edge THEN edge ELSE bottom

Offer(i) ==
  /\ pc[i] = "collect"
  /\ events' = [events EXCEPT ![i] = events[i] (+) windowList[i]]
  /\ windowList' = [windowList EXCEPT ![i] = EmptyBag]
  /\ offered' = [offered EXCEPT ![i] = Bearable(i, events'[i])]
  /\ bottom' = Reduced(offered'[i])
  /\ pc' = [pc EXCEPT ![i] = "offered"]
  /\ UNCHANGED <<outAppt, inAppt, time, partner, prevBottom, stopBefore, epochEnd, clock, plan,
                 acts, dropped>>

BottomBarrier ==
  /\ Together("offered")
  /\ prevBottom' = bottom
  /\ stopBefore' = Smaller(bottom, epochEnd)
  /\ pc' = [i \in Timeline |-> "run"]
  /\ UNCHANGED <<events, windowList, outAppt, inAppt, time, partner, bottom, offered, epochEnd,
                 clock, plan, acts, dropped>>

EndWindow(i) ==
  /\ pc[i] = "run"
  /\ \A e \in BagToSet(events[i]) : e.time >= stopBefore
  /\ time' = [time EXCEPT ![i] = stopBefore - 1]
  /\ pc' = [pc EXCEPT ![i] = "ended"]
  /\ UNCHANGED <<events, windowList, outAppt, inAppt, partner, barrierVars, acts, dropped>>

TopBarrier ==
  /\ Together("ended") /\ stopBefore < epochEnd
  /\ pc' = [i \in Timeline |-> "collect"]
  /\ UNCHANGED <<events, windowList, outAppt, inAppt, time, partner, barrierVars, acts, dropped>>

WindowBarrier ==
  /\ Together("ended") /\ stopBefore >= epochEnd
  /\ pc' = [i \in Timeline |-> "idle"]
  /\ clock' = epochEnd
  /\ UNCHANGED <<events, windowList, outAppt, inAppt, time, partner, bottom, prevBottom, offered,
                 stopBefore, epochEnd, plan, acts, dropped>>

(***************************************************************************)
(* The events of a window.                                                 *)
(***************************************************************************)
\* top_lockless, top and pop: the same event, unless one is injected meanwhile.
Taken(i, e, kinds) ==
  /\ pc[i] = "run"
  /\ e \in Firsts(i) /\ e.time < stopBefore
  /\ e.kind \in kinds
  /\ time' = [time EXCEPT ![i] = e.time]

Without(i, e) == events[i] (-) SetToBag({e})

Activate(i, e) ==
  /\ Taken(i, e, {"activate"})
  /\ events' = [events EXCEPT ![i] = Added(Without(i, e), Event(e.time, "exec", i))]
  /\ UNCHANGED <<windowList, outAppt, inAppt, pc, partner, barrierVars, acts, dropped>>

RunQuietly(i, e) ==
  /\ Taken(i, e, {"exec", "timeout"})
  /\ events' = [events EXCEPT ![i] = Without(i, e)]
  /\ UNCHANGED <<windowList, outAppt, inAppt, pc, partner, barrierVars, acts, dropped>>

RunAndWait(i, e) ==
  /\ acts < MaxActs
  /\ Taken(i, e, {"exec", "timeout"})
  /\ \E d \in WaitDelays :
       events' = [events EXCEPT ![i] = Added(Without(i, e), Event(e.time + d, "timeout", i))]
  /\ acts' = acts + 1
  /\ UNCHANGED <<windowList, outAppt, inAppt, pc, partner, barrierVars, dropped>>

\* OutChannel::write and Timeline::schedule: where the delivery to each target
\* goes, or that it is not performed.
Route(c, j, t) ==
  CASE j = c.owner -> "own"
    [] j # c.owner /\ stopBefore <= t -> "window"
    [] j # c.owner /\ stopBefore > t /\ Asynchronous(c, j) -> "appointment"
    [] OTHER -> "dropped"

RunAndWrite(i, e) ==
  /\ acts < MaxActs
  /\ Taken(i, e, {"exec", "timeout"})
  /\ \E c \in ChannelsOf(i), d \in WriteDelays :
       LET at(j) == e.time + d + c.transfer[j] + c.minWrite
           sent(bag, j, route) ==
             IF j \in DOMAIN c.transfer /\ Route(c, j, at(j)) = route
             THEN Added(bag, Event(at(j), "activate", j)) ELSE bag
       IN  /\ events' = [events EXCEPT ![i] = sent(Without(i, e), i, "own")]
           /\ windowList' = [j \in Timeline |-> sent(windowList[j], j, "window")]
           /\ outAppt' = [outAppt EXCEPT ![i] =
                [j \in Timeline |-> sent(outAppt[i][j], j, "appointment")]]
           /\ dropped' = (dropped \/ \E j \in DOMAIN c.transfer : Route(c, j, at(j)) = "dropped")
  /\ acts' = acts + 1
  /\ UNCHANGED <<inAppt, pc, partner, barrierVars>>

\* A faulty appointment: the timeline that waits is not signalled.
MakeApptQuietly(i, e) ==
  /\ Taken(i, e, {"make"})
  /\ LET next == e.time + Lookahead(i, e.peer)
     IN  /\ inAppt' = [inAppt EXCEPT ![e.peer][i] = next]
         /\ events' = [events EXCEPT ![i] = Added(Without(i, e), Event(next, "make", e.peer))]
  /\ UNCHANGED <<windowList, outAppt, pc, partner, barrierVars, acts, dropped>>

\* The next appointment is written before the thread sends anything later, and
\* the timeline that waits for it is signalled.
MakeAppt(i, e) ==
  /\ Taken(i, e, {"make"})
  /\ LET next == e.time + Lookahead(i, e.peer)
     IN  /\ inAppt' = [inAppt EXCEPT ![e.peer][i] = next]
         /\ events' = [events EXCEPT ![i] = Added(Without(i, e), Event(next, "make", e.peer))]
  /\ pc' = [pc EXCEPT ![e.peer] = IF @ = "blocked" /\ partner[e.peer] = i THEN "renew" ELSE @]
  /\ UNCHANGED <<windowList, outAppt, partner, barrierVars, acts, dropped>>

WaitAppt(i, e) ==
  /\ Taken(i, e, {"wait"})
  /\ events' = [events EXCEPT ![i] = Without(i, e)]
  /\ partner' = [partner EXCEPT ![i] = e.peer]
  /\ pc' = [pc EXCEPT ![i] = IF e.time < inAppt[i][e.peer] THEN "renew" ELSE "blocked"]
  /\ UNCHANGED <<windowList, outAppt, inAppt, barrierVars, acts, dropped>>

\* The next wait is scheduled for the appointment as it is now, and only then
\* are the events taken that the partner has left.
RenewAppt(i) ==
  /\ pc[i] = "renew"
  /\ events' = [events EXCEPT ![i] = Added(@, Event(inAppt[i][partner[i]], "wait", partner[i]))]
  /\ pc' = [pc EXCEPT ![i] = "fetch"]
  /\ UNCHANGED <<windowList, outAppt, inAppt, time, partner, barrierVars, acts, dropped>>

Fetch(i) ==
  /\ pc[i] = "fetch"
  /\ events' = [events EXCEPT ![i] = @ (+) outAppt[partner[i]][i]]
  /\ outAppt' = [outAppt EXCEPT ![partner[i]][i] = EmptyBag]
  /\ pc' = [pc EXCEPT ![i] = "run"]
  /\ partner' = [partner EXCEPT ![i] = i]
  /\ UNCHANGED <<windowList, inAppt, time, barrierVars, acts, dropped>>

Step(i) ==
  \/ Offer(i) \/ EndWindow(i) \/ RenewAppt(i) \/ Fetch(i)
  \/ \E e \in Firsts(i) :
       Activate(i, e) \/ RunQuietly(i, e) \/ RunAndWait(i, e) \/ RunAndWrite(i, e)
       \/ MakeAppt(i, e) \/ WaitAppt(i, e)

Barrier == BottomBarrier \/ TopBarrier \/ WindowBarrier

KernelNext == Advance \/ Barrier \/ \E i \in Timeline : Step(i)

\* Every thread keeps running, and a barrier opens once all have arrived.
KernelFairness ==
  WF_kernelVars(Advance) /\ WF_kernelVars(Barrier) /\ \A i \in Timeline : WF_kernelVars(Step(i))

KernelSpec == KernelInit /\ [][KernelNext]_kernelVars /\ KernelFairness

(***************************************************************************)
(* The abstract simulation: what is pending for a timeline is in its list, *)
(* in its window list or with a partner it has not met yet.                *)
(***************************************************************************)
IsWork(e) == e.kind \in {"activate", "exec", "timeout"}
InFlight(j) ==
  FoldSet(LAMBDA i, bag : bag (+) outAppt[i][j], windowList[j], Timeline)
Plain(bag) == [f \in {[time |-> e.time, kind |-> e.kind] : e \in {g \in BagToSet(bag) : IsWork(g)}} |->
                 bag[CHOOSE e \in BagToSet(bag) : e.time = f.time /\ e.kind = f.kind]]

Sim == INSTANCE Simulation WITH
  now <- time,
  pending <- [j \in Timeline |-> Plain(events[j] (+) InFlight(j))]

\* No event is late: neither one that is in the list of its timeline nor one
\* that another timeline has left for it lies before the clock of the timeline
\* (Timeline::simulate sets its clock to the time of whatever event is first).
NothingLate == \A j \in Timeline :
  /\ \A e \in BagToSet(events[j]) \cup BagToSet(windowList[j]) : e.time >= time[j]
  /\ \A i \in Timeline : \A e \in BagToSet(outAppt[i][j]) : e.time >= time[j]

\* No step makes an event late, and no clock goes back.
ClocksAdvance == [][NothingLate' /\ \A i \in Timeline : time'[i] >= time[i]]_kernelVars

\* Windows, barriers and appointments implement the plain simulation: every
\* timeline executes all its events, each one once, in the order of their
\* times, whichever timeline they come from, as long as no event is injected from
\* outside the timelines (timeline.cc 491-956, outchannel.cc 90-150).
InTimeOrder == Sim!SimulationSpec /\ ClocksAdvance

\* A write that respects the minimum delay of its channel is delivered to every
\* target (outchannel.cc 60-90: "Any write done where the per-write delay is at
\* least as large as the minimum declared at construction will deliver").
WritesDelivered == ~dropped

\* Every epoch the control thread asks for comes to its end: no timeline waits
\* for an appointment that is never made (timeline.cc 682-800).
EpochsEnd == <>(plan = <<>> /\ (Together("idle") \/ Together("exited")))
=============================================================================
