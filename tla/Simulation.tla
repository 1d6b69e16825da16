----------------------------- MODULE Simulation -----------------------------
(* What the S3F kernel promises, whatever its windows, barriers and           *)
(* appointments do: each timeline executes the pending event with its least   *)
(* time, every event that execution creates becomes pending, none is lost or  *)
(* executed twice, and a timeline's clock never passes an event that is still *)
(* to come.                                                                   *)
EXTENDS Integers, Bags

CONSTANTS
  Timeline,        \* the timelines, one thread each
  OutChannels,     \* [owner |-> timeline, minWrite |-> delay, transfer |-> [timelines mapped to -> delay]]
  WriteDelays,     \* the delays a write asks for on top of the channel's own
  WaitDelays       \* the delays a process asks waitFor for

VARIABLES now, pending

simulationVars == <<now, pending>>

At(t, k) == [time |-> t, kind |-> k]

None == [j \in Timeline |-> EmptyBag]

Deliveries(c, t, d) ==
  [j \in Timeline |-> IF j \in DOMAIN c.transfer
                      THEN SetToBag({At(t + d + c.transfer[j] + c.minWrite, "activate")})
                      ELSE EmptyBag]

Timeouts(i, t, d) == [None EXCEPT ![i] = SetToBag({At(t + d, "timeout")})]

\* What a process body of timeline i may create at time t.
Created(i, t) ==
  {None}
  \cup {Deliveries(c, t, d) : c \in {o \in OutChannels : o.owner = i}, d \in WriteDelays}
  \cup {Timeouts(i, t, d) : d \in WaitDelays}

Consequences(i, e) ==
  IF e.kind = "activate" THEN {[None EXCEPT ![i] = SetToBag({At(e.time, "exec")})]}
                         ELSE Created(i, e.time)

IsNext(i, e) == \A f \in BagToSet(pending[i]) : e.time <= f.time

Execute(i, e) ==
  /\ e.time >= now[i]
  /\ IsNext(i, e)
  /\ now' = [now EXCEPT ![i] = e.time]
  /\ \E new \in Consequences(i, e) :
       /\ \A j \in Timeline : \A f \in BagToSet(new[j]) : f.time >= now'[j]
       /\ pending' = [j \in Timeline |->
            (IF j = i THEN pending[j] (-) SetToBag({e}) ELSE pending[j]) (+) new[j]]

\* A clock moves on without an event, never past one that is pending.
Pass(i) ==
  /\ now' = [now EXCEPT ![i] = now'[i]]
  /\ now'[i] >= now[i]
  /\ \A e \in BagToSet(pending[i]) : e.time >= now'[i]
  /\ UNCHANGED pending

SimulationInit ==
  /\ now = [i \in Timeline |-> 0]
  /\ \A i \in Timeline : IsABag(pending[i])

SimulationNext ==
  \E i \in Timeline : Pass(i) \/ \E e \in BagToSet(pending[i]) : Execute(i, e)

SimulationSpec == SimulationInit /\ [][SimulationNext]_simulationVars
=============================================================================
