--------------------------- MODULE MCModbusServer ---------------------------
(***************************************************************************)
(* ModbusServer for TLC.  A behaviour is one of a connection with the      *)
(* constants of the configuration, or of one over a serial line, in which  *)
(* the properties must hold as well.                                       *)
(***************************************************************************)
EXTENDS ModbusServer

CONSTANT Setups   \* subset of {"given", "serial"}

VARIABLE setup

\* A serial line, on which a master that gives up waiting sends again.
Serial == INSTANCE ModbusServer WITH
    Interface <- "SERIAL", Faults <- Faults \cap {"slow"}

MCInit ==
    /\ setup \in Setups
    /\ IF setup = "serial" THEN Serial!Init ELSE Init

MCNext ==
    /\ UNCHANGED setup
    /\ \/ setup = "given"  /\ Next
       \/ setup = "serial" /\ Serial!Next

\* The fairness of ModbusServer, in the setup that the behaviour is in.
MCFairness ==
    /\ WF_vars(setup = "given"  /\ PlcNext)
    /\ WF_vars(setup = "serial" /\ Serial!PlcNext)
    /\ WF_vars(setup = "given"  /\ WorkerNext)
    /\ WF_vars(setup = "serial" /\ Serial!WorkerNext)
    /\ WF_vars(MasterReads)
    /\ WF_vars(setup = "given"  /\ "slow" \notin Faults /\ (Accept \/ MasterSends))
    /\ WF_vars(setup = "serial" /\ "slow" \notin Faults /\ (Serial!Accept \/ Serial!MasterSends))

MCSpec == MCInit /\ [][MCNext]_<<setup, vars>> /\ MCFairness
=============================================================================
