----------------------------- MODULE MCSimulator ----------------------------
(***************************************************************************)
(* The modules of the network simulator for TLC: the serial line between   *)
(* two containers and the parallel kernel.  They share nothing here: in a  *)
(* behaviour only the one in focus moves, the other stays in one initial   *)
(* state.                                                                  *)
(***************************************************************************)
EXTENDS SerialLine, Timelines, TLC

CONSTANT Focus   \* the modules that are explored: "line", "kernel"

VARIABLE focus

\* Two containers; the first one writes more than both buffers hold.  Each is
\* on a timeline of its own, or both are on one.
MCPartner == "a" :> "b" @@ "b" :> "a"
MCTotal == "a" :> 5 @@ "b" :> 2
MCApart == "a" :> 1 @@ "b" :> 2
MCFirstApart == 1 :> "a" @@ 2 :> "b"
MCTogether == "a" :> 1 @@ "b" :> 1
MCFirstTogether == 1 :> "a"

\* Three timelines: a and b meet by appointment, b and c write across windows,
\* and a's one channel reaches b early and c late.
MCChannels ==
  {[owner |-> "a", minWrite |-> 1, transfer |-> [b |-> 0, c |-> 4]],
   [owner |-> "b", minWrite |-> 0, transfer |-> [a |-> 2, c |-> 3]],
   [owner |-> "c", minWrite |-> 1, transfer |-> [a |-> 2, c |-> 1]]}

\* Only c bounds the windows, and c has few events.
MCSlowChannels ==
  {[owner |-> "a", minWrite |-> 0, transfer |-> [b |-> 1, c |-> 9]],
   [owner |-> "b", minWrite |-> 0, transfer |-> [c |-> 9]],
   [owner |-> "c", minWrite |-> 0, transfer |-> [a |-> 3]]}

MCOneEpoch == {<<7>>, <<1>>}
MCTwoEpochs == {<<4, 8>>}

KernelAtRest ==
    /\ events = [i \in Timeline |-> EmptyBag]
    /\ windowList = [i \in Timeline |-> EmptyBag]
    /\ outAppt = [i \in Timeline |-> [j \in Timeline |-> EmptyBag]]
    /\ inAppt = [i \in Timeline |-> [j \in Timeline |-> -1]]
    /\ time = [i \in Timeline |-> 0]
    /\ pc = [i \in Timeline |-> "idle"] /\ partner = [i \in Timeline |-> i]
    /\ bottom = -1 /\ prevBottom = -1 /\ offered = [i \in Timeline |-> 0]
    /\ stopBefore = 0 /\ epochEnd = 0 /\ clock = 0
    /\ plan = <<>> /\ acts = 0 /\ dropped = FALSE

MCInit ==
    /\ focus \in Focus
    /\ Init
    /\ IF focus = "kernel" THEN KernelInit ELSE KernelAtRest

MCNext ==
    /\ UNCHANGED focus
    /\ IF focus = "line"   THEN Next       ELSE UNCHANGED vars
    /\ IF focus = "kernel" THEN KernelNext ELSE UNCHANGED kernelVars

\* The fairness of the module in focus.
MCFairness ==
    /\ \A h \in Host :
          /\ WF_vars(focus = "line" /\ Link(h))
          /\ WF_vars(focus = "line" /\ WriteStore(h))
          /\ WF_vars(focus = "line" /\ \E count \in ReadCounts : Read(h, count))
          /\ WF_vars(focus = "line" /\ Inject(h))
          /\ WF_vars(focus = "line" /\ Pop(h))
    /\ WF_kernelVars(focus = "kernel" /\ Advance)
    /\ WF_kernelVars(focus = "kernel" /\ Barrier)
    /\ \A i \in Timeline : WF_kernelVars(focus = "kernel" /\ Step(i))

MCSpec == MCInit /\ [][MCNext]_<<focus, vars, kernelVars>> /\ MCFairness
=============================================================================
