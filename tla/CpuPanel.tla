------------------------------ MODULE CpuPanel ------------------------------
(***************************************************************************)
(* The control panel of the GUI (gui/cpuwidget.py): its two buttons, the   *)
(* state it shows, and its handlers.  They call one another, the client    *)
(* (coreclient/client.py, gui/awlsimclient.py) and, whenever the state     *)
(* shown changes or a message box is up, the event loop, in which the      *)
(* timer for core messages may fire.                                       *)
(***************************************************************************)
EXTENDS Naturals, Sequences

CONSTANTS
  Links,     \* servers to connect to: "FORK", one spawned here, "ONLINE", another
  Doings,    \* what the user does: "online", "run", "load", "single", "upload"
  Failures,  \* why the core stops: "EXCEPTION", "STOP", "SHUTDOWN"; "call": a call fails
  MaxDoings, MaxFailures  \* bounds

ASSUME PanelAssumption ==
  /\ Links \subseteq {"FORK", "ONLINE"} /\ Doings \subseteq {"online", "run", "load", "single", "upload"}
  /\ Failures \subseteq {"EXCEPTION", "STOP", "SHUTDOWN", "call"}

VARIABLES
  onlineBtn, runBtn,  \* pressed?
  panel,              \* RunState.state
  timers,             \* the message timer runs
  mode,               \* of the client, which is connected unless OFFLINE
  core, inbox,        \* run state of the core, messages not yet received
  stack,              \* the active handlers, the innermost first
  ok,                 \* what the last handler returned
  doings, failures    \* so far

panelVars == <<onlineBtn, runBtn, panel, timers, mode, core, inbox, stack, ok, doings, failures>>

-----------------------------------------------------------------------------
(* The handlers, statement by statement.                                   *)

RunHandlers ==   \* __run; runOnly: nothing is to be done first
  [run       |-> <<<<"press">>, <<"goOnline">>, <<"unlessOnline", "giveUp">>, <<"ifForked", "loadOnly">>,
                   <<"unlessOk", "giveUp">>, <<"goto", "runOnly">>>>,
   runOnly   |-> <<<<"press">>, <<"call", "run">>, <<"do", "upload">>, <<"unlessOk", "giveUp">>,
                   <<"show", "RUN">>, <<"timers", "True">>, <<"return", "True">>>>,
   giveUp    |-> <<<<"stop">>, <<"return", "False">>>>,
   failed    |-> <<<<"show", "EXCEPTION">>, <<"box">>, <<"goto", "giveUp">>>>]

StopHandlers ==  \* __stop
  [stop      |-> <<<<"timers", "False">>, <<"unlessOnline", "stopped">>, <<"call", "stop">>, <<"goto", "stopped">>>>,
   stopBox   |-> <<<<"box">>, <<"goto", "stopped">>>>,
   stopped   |-> <<<<"show", "ONLINE">>, <<"return", "True">>>>]

LinkHandlers ==  \* __goOnline and __goOffline
  [online    |-> <<<<"box">>, <<"perhaps", "cancelled">>, <<"connect">>, <<"show", "ONLINE">>, <<"call", "ask">>,
                   <<"ifRunning", "runOnly">>, <<"return", "True">>>>,
   cancelled |-> <<<<"goOffline">>, <<"return", "False">>>>,
   notOnline |-> <<<<"disconnect">>, <<"box">>, <<"goOffline">>, <<"return", "False">>>>,
   offline   |-> <<<<"disconnect">>, <<"stop">>, <<"show", "OFFLINE">>, <<"return", "True">>>>]

LoadHandlers ==  \* download, with and without running again, and downloadSingle
  [load      |-> <<<<"do", "loadOnly">>, <<"unlessOk", "no">>, <<"ifPressed", "runOnly">>, <<"return", "True">>>>,
   loadOnly  |-> <<<<"goOnline">>, <<"unlessOnline", "no">>, <<"perhaps", "no">>, <<"show", "LOAD">>, <<"call", "stop">>,
                   <<"call", "reset">>, <<"call", "send">>, <<"show", "ONLINE">>, <<"return", "True">>>>,
   single    |-> <<<<"goOnline">>, <<"unlessOnline", "no">>, <<"show", "LOAD">>, <<"call", "send">>,
                   <<"showPressed">>, <<"return", "True">>>>,
   notLoaded |-> <<<<"show", "ONLINE">>, <<"stop">>, <<"box">>, <<"return", "False">>>>,
   no        |-> <<<<"return", "False">>>>]

\* A faulty variant: a core that says it stops is not stopped here.
MessageHandlersHeedless ==
  [upload      |-> <<<<"call", "areas">>, <<"return", "True">>>>,
   notUploaded |-> <<<<"show", "EXCEPTION">>, <<"box">>, <<"return", "False">>>>,
   poll        |-> <<<<"receive">>, <<"return", "True">>>>,
   maintenance |-> <<<<"return", "False">>>>,
   shutdown    |-> <<<<"box">>, <<"stop">>, <<"goOffline">>, <<"return", "False">>>>]

MessageHandlers ==  \* __uploadMemReadAreas, __processCoreMessages, __handleMaintenance
  [upload      |-> <<<<"call", "areas">>, <<"return", "True">>>>,
   notUploaded |-> <<<<"show", "EXCEPTION">>, <<"box">>, <<"return", "False">>>>,
   poll        |-> <<<<"receive">>, <<"return", "True">>>>,
   maintenance |-> <<<<"stop">>, <<"return", "False">>>>,
   shutdown    |-> <<<<"box">>, <<"stop">>, <<"goOffline">>, <<"return", "False">>>>]

Code(h) == IF h \in DOMAIN RunHandlers  THEN RunHandlers[h]  ELSE
           IF h \in DOMAIN StopHandlers THEN StopHandlers[h] ELSE
           IF h \in DOMAIN LinkHandlers THEN LinkHandlers[h] ELSE
           IF h \in DOMAIN LoadHandlers THEN LoadHandlers[h] ELSE MessageHandlers[h]

\* Where a handler goes on after an AwlSimError.
Except(h) == CASE h = "stop"   -> "stopBox"
               [] h = "online" -> "notOnline"
               [] h \in {"loadOnly", "single"} -> "notLoaded"
               [] h = "upload" -> "notUploaded"
               [] OTHER -> "failed"

-----------------------------------------------------------------------------
(* The stack.  A frame says whether the event loop is entered before it     *)
(* goes on.                                                                *)

AtRest   == stack = <<>>
Frame(h, pc, events) == [h |-> h, pc |-> pc, events |-> events]
Here     == stack[1]
St       == Code(Here.h)[Here.pc]
Outer    == Tail(stack)
On(events) == <<Frame(Here.h, Here.pc + 1, events)>> \o Outer

Proceed     == stack' = On(FALSE)
EventLoop   == stack' = On(TRUE)
Goto(h)     == stack' = <<Frame(h, 1, FALSE)>> \o Outer
Call(h)     == stack' = <<Frame(h, 1, FALSE)>> \o On(FALSE)

Does(s) == ~AtRest /\ St[1] = s

-----------------------------------------------------------------------------
(* Statements.                                                             *)

\* setState: the event loop is entered if the state changes.
ShowState ==
  /\ Does("show") \/ Does("showPressed")
  /\ LET s == IF Does("show") THEN St[2] ELSE IF runBtn THEN "RUN" ELSE "ONLINE"
     IN  panel' = s /\ IF panel = s THEN Proceed ELSE EventLoop
  /\ UNCHANGED <<onlineBtn, runBtn, timers, mode, core, inbox, ok, doings, failures>>

\* The buttons: a handler runs if the button changes, except that __run only
\* sees to it that its button is pressed.
Buttons ==
  /\ \/ /\ Does("press") /\ runBtn' = TRUE /\ Proceed
        /\ UNCHANGED onlineBtn
     \/ /\ Does("stop") /\ runBtn' = FALSE /\ (IF runBtn THEN Call("stop") ELSE Proceed)
        /\ UNCHANGED onlineBtn
     \/ /\ Does("goOnline") /\ onlineBtn' = TRUE /\ (IF onlineBtn THEN Proceed ELSE Call("online"))
        /\ UNCHANGED runBtn
     \/ /\ Does("goOffline") /\ onlineBtn' = FALSE /\ (IF onlineBtn THEN Call("offline") ELSE Proceed)
        /\ UNCHANGED runBtn
  /\ UNCHANGED <<panel, timers, mode, core, inbox, ok, doings, failures>>

Control ==
  /\ \/ Does("box") /\ EventLoop /\ UNCHANGED <<ok, timers>>
     \/ Does("do") /\ Call(St[2]) /\ UNCHANGED <<ok, timers>>
     \/ Does("goto") /\ Goto(St[2]) /\ UNCHANGED <<ok, timers>>
     \/ Does("return") /\ stack' = Outer /\ ok' = (St[2] = "True") /\ UNCHANGED timers
     \/ Does("timers") /\ timers' = (St[2] = "True") /\ Proceed /\ UNCHANGED ok
     \/ Does("perhaps") /\ (Proceed \/ Goto(St[2])) /\ UNCHANGED <<ok, timers>>
     \/ Does("unlessOnline") /\ (IF onlineBtn THEN Proceed ELSE Goto(St[2])) /\ UNCHANGED <<ok, timers>>
     \/ Does("unlessOk") /\ (IF ok THEN Proceed ELSE Goto(St[2])) /\ UNCHANGED <<ok, timers>>
     \/ Does("ifRunning") /\ (IF ok THEN Call(St[2]) ELSE Proceed) /\ UNCHANGED <<ok, timers>>
     \/ Does("ifPressed") /\ (IF runBtn THEN Call(St[2]) ELSE Proceed) /\ UNCHANGED <<ok, timers>>
     \/ /\ Does("ifForked") /\ UNCHANGED timers
        /\ IF mode = "FORK" THEN Call(St[2]) /\ UNCHANGED ok ELSE Proceed /\ ok' = TRUE
  /\ UNCHANGED <<onlineBtn, runBtn, panel, mode, core, inbox, doings, failures>>

Fails == /\ "call" \in Failures /\ failures < MaxFailures /\ failures' = failures + 1
         /\ Goto(Except(Here.h))

\* setMode_FORK, setMode_ONLINE and setMode_OFFLINE: a spawned server is
\* stopped or killed when it is left.
LinkUp ==
  /\ \/ /\ Does("connect") /\ mode # "OFFLINE" /\ Proceed
        /\ UNCHANGED <<mode, core, inbox, failures>>
     \/ /\ Does("connect") /\ mode = "OFFLINE"
        /\ \/ /\ Proceed /\ mode' \in Links
              /\ core' \in (IF mode' = "FORK" THEN {"stop"} ELSE {"run", "stop"})
              /\ UNCHANGED failures
           \/ Fails /\ UNCHANGED <<mode, core>>
        /\ UNCHANGED inbox
     \/ /\ Does("disconnect") /\ Proceed
        /\ mode' = "OFFLINE" /\ inbox' = <<>>
        /\ core' = IF mode = "FORK" THEN "stop" ELSE core
        /\ UNCHANGED failures
  /\ UNCHANGED <<onlineBtn, runBtn, panel, timers, ok, doings>>

\* A request and its reply.  What the core sent before is handled while the
\* reply is awaited; setRunState and reset ignore maintenance requests.  Without
\* a connection nothing happens.
MakeCall ==
  /\ Does("call")
  /\ LET Effect == core' = CASE St[2] = "run" -> "run" [] St[2] \in {"stop", "reset"} -> "stop" [] OTHER -> core
     IN  IF mode = "OFFLINE"
         THEN Proceed /\ ok' = FALSE /\ UNCHANGED <<core, inbox, failures>>
         ELSE IF inbox = <<>>
         THEN /\ UNCHANGED inbox
              /\ \/ Proceed /\ Effect /\ ok' = (core = "run") /\ UNCHANGED failures
                 \/ Fails /\ (UNCHANGED core \/ Effect) /\ UNCHANGED ok
         ELSE /\ inbox' = Tail(inbox) /\ UNCHANGED <<core, failures, ok>>
              /\ IF Head(inbox) = "EXCEPTION" THEN Goto(Except(Here.h))
                 ELSE IF St[2] \in {"run", "stop", "reset"} THEN UNCHANGED stack
                 ELSE stack' = <<Frame(IF Head(inbox) = "SHUTDOWN" THEN "shutdown" ELSE "maintenance", 1, FALSE),
                                 Frame("no", 1, FALSE)>> \o Outer
  /\ UNCHANGED <<onlineBtn, runBtn, panel, timers, mode, doings>>

\* __processCoreMessages
ReceiveMessages ==
  /\ Does("receive")
  /\ IF mode = "OFFLINE" \/ inbox = <<>>
     THEN Proceed /\ UNCHANGED inbox
     ELSE /\ inbox' = Tail(inbox)
          /\ Call(CASE Head(inbox) = "EXCEPTION" -> "failed" [] Head(inbox) = "SHUTDOWN" -> "shutdown"
                    [] OTHER -> "maintenance")
  /\ UNCHANGED <<onlineBtn, runBtn, panel, timers, mode, core, ok, doings, failures>>

Statement == ShowState \/ Buttons \/ Control \/ LinkUp \/ MakeCall \/ ReceiveMessages

-----------------------------------------------------------------------------
(* The event loop, the user and the core.                                  *)

\* The timer does not fire within its own handler.
MessageTimer ==
  /\ timers /\ inbox # <<>>
  /\ IF AtRest THEN TRUE ELSE Here.events
  /\ \A i \in DOMAIN stack : stack[i].h # "poll"
  /\ stack' = <<Frame("poll", 1, FALSE)>> \o stack
  /\ UNCHANGED <<onlineBtn, runBtn, panel, timers, mode, core, inbox, ok, doings, failures>>

\* The user: modal boxes and processEvents keep the input from the panel while
\* a handler is active.
User ==
  /\ AtRest /\ doings < MaxDoings /\ doings' = doings + 1
  /\ \E d \in Doings :
       /\ runBtn'    = IF d = "run" THEN ~runBtn ELSE runBtn
       /\ onlineBtn' = IF d = "online" THEN ~onlineBtn ELSE onlineBtn
       /\ stack' = <<Frame(CASE d = "run" /\ runBtn -> "stop"
                             [] d = "online" /\ onlineBtn -> "offline"
                             [] OTHER -> d, 1, FALSE)>>
  /\ UNCHANGED <<panel, timers, mode, core, inbox, ok, failures>>

CoreStops ==
  /\ core = "run" /\ failures < MaxFailures /\ failures' = failures + 1
  /\ core' = "stop"
  /\ \E f \in Failures \ {"call"} : inbox' = IF mode = "OFFLINE" THEN inbox ELSE Append(inbox, f)
  /\ UNCHANGED <<onlineBtn, runBtn, panel, timers, mode, stack, ok, doings>>

PanelInit ==
  /\ onlineBtn = FALSE /\ runBtn = FALSE /\ panel = "OFFLINE" /\ timers = FALSE
  /\ mode = "OFFLINE" /\ core = "stop" /\ inbox = <<>>
  /\ stack = <<>> /\ ok = TRUE /\ doings = 0 /\ failures = 0

PanelNext == Statement \/ MessageTimer \/ User \/ CoreStops

PanelSpec == PanelInit /\ [][PanelNext]_panelVars /\ WF_panelVars(Statement \/ MessageTimer)

-----------------------------------------------------------------------------
(* Properties.                                                             *)

\* Once the handlers have returned, a pressed run button means that the panel
\* is online and hears of what becomes of the core.
RunIsHeard == AtRest /\ runBtn => timers /\ onlineBtn /\ mode # "OFFLINE"

\* A core that has stopped by itself is not shown as running for ever, and the
\* panel is never left with its run button pressed and deaf to the core.
StopIsShown ==
  /\ []RunIsHeard
  /\ (core = "stop") ~> (panel # "RUN" \/ core = "run")
=============================================================================
