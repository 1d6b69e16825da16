--------------------------- MODULE MCModbusClient ---------------------------
(***************************************************************************)
(* ModbusClient for TLC.  A behaviour is one of a connection with the      *)
(* constants of the configuration, or of one with the constants of one of  *)
(* the setups below, in which the properties must hold as well.            *)
(***************************************************************************)
EXTENDS ModbusClient

CONSTANT Setups   \* subset of {"given", "serial", "stopped"}

VARIABLE setup

\* A serial line whose device keeps late answers, and a program that gives
\* every request a transaction identifier of its own.
Serial == INSTANCE ModbusClient WITH
    Interface <- "SERIAL", Faults <- Faults \cap {"slow", "reject"}, FreshTI <- TRUE

\* A CPU that is stopped once a transfer has been reported.
Stopped == INSTANCE ModbusClient WITH
    Program <- "held", Disconnects <- {TRUE},
    Faults <- Faults \cap {"refuse", "close", "reject"}, Stops <- "done"

MCInit ==
    /\ setup \in Setups
    /\ CASE setup = "serial"  -> Serial!Init
         [] setup = "stopped" -> Stopped!Init
         [] OTHER             -> Init

MCNext ==
    /\ UNCHANGED setup
    /\ \/ setup = "given"   /\ Next
       \/ setup = "serial"  /\ Serial!Next
       \/ setup = "stopped" /\ Stopped!Next

\* The fairness of ModbusClient, in the setup that the behaviour is in.
MCFairness ==
    /\ WF_vars(setup = "given"   /\ PlcNext)
    /\ WF_vars(setup = "serial"  /\ Serial!PlcNext)
    /\ WF_vars(setup = "stopped" /\ Stopped!PlcNext)
    /\ WF_vars(ConnTimePasses)
    /\ WF_vars(setup = "given"   /\ WorkerNext)
    /\ WF_vars(setup = "serial"  /\ Serial!WorkerNext)
    /\ WF_vars(setup = "stopped" /\ Stopped!WorkerNext)
    /\ WF_vars(setup = "given"   /\ "refuse" \notin Faults /\ Connect)
    /\ WF_vars(setup = "serial"  /\ Serial!Connect)
    /\ WF_vars(PeerAnswer)

MCSpec == MCInit /\ [][MCNext]_<<setup, vars>> /\ MCFairness
=============================================================================
