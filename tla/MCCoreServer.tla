---------------------------- MODULE MCCoreServer ----------------------------
(***************************************************************************)
(* The core server and its GUI for TLC.  CoreServer: a client that makes   *)
(* any two of four requests besides its ping and a second one that makes   *)
(* one.  MemoryImage: two memories and three windows.  CpuPanel: a user    *)
(* who presses four buttons.  Download: sources that replace each other's  *)
(* blocks and fail at every stage.  They share nothing: in a behaviour     *)
(* only the one in focus moves.                                            *)
(***************************************************************************)
EXTENDS CoreServer, MemoryImage, CpuPanel, Download

CONSTANT Focus   \* the modules that are explored

VARIABLE focus

MCRequests ==
    [c \in Client |-> IF c = "gui" THEN {"RUN", "STOP", "AWLSRC", "SHUTDOWN"}
                      ELSE {"RESET", "LIBSEL", "GET_RUNSTATE"}]
MCMaxSends == [c \in Client |-> IF c = "gui" THEN 3 ELSE 2]

\* Windows that overlap in every way, one that may lie in a data block there is not.
MCSpace == [M |-> 3, DB1 |-> 1]
MCKind == <<"boxes", "number", "lcd">>
MCPlaces == <<{Area("M", 0, 2), Area("M", 1, 1), Area("DB2", 0, 1)},
              {Area("M", 0, 1), Area("M", 1, 2), Area("M", 2, 2)},
              {Area("M", 0, 1), Area("M", 1, 2)}>>

\* The sources of a download: a program, a new version of a part of it, one
\* that cannot be translated, at its statements or its interface, a block that
\* uses a symbol and calls a library block, and one that holds no block.
Fresh(nr) == [nr |-> nr, fault |-> "none", uses |-> {}, calls |-> {}]
MCSources ==
    {[NoBlocks EXCEPT !["OB"] = <<Fresh(1)>>, !["FC"] = <<Fresh(1)>>],
     [NoBlocks EXCEPT !["FC"] = <<Fresh(1)>>],
     [NoBlocks EXCEPT !["UDT"] = <<Fresh(1)>>, !["FC"] = <<[Fresh(1) EXCEPT !.fault = "statement"]>>],
     [NoBlocks EXCEPT !["DB"] = <<[Fresh(1) EXCEPT !.fault = "interface"]>>],
     [NoBlocks EXCEPT !["FB"] = <<[Fresh(1) EXCEPT !.uses = {"lamp"}, !.calls = {<<"FC", 2>>}]>>],
     NoBlocks}
MCTables == {<<"lamp">>}
MCLibraries == {<<"FC", 2>>, <<"FC", 1>>}

MCVars == <<focus, coreVars, imageVars, panelVars, downloadVars>>

MCInit == focus \in Focus /\ CoreInit /\ ImageInit /\ PanelInit /\ DownloadInit

MCNext ==
    /\ UNCHANGED focus
    /\ IF focus = "core"  THEN CoreNext  ELSE UNCHANGED coreVars
    /\ IF focus = "image" THEN ImageNext ELSE UNCHANGED imageVars
    /\ IF focus = "panel" THEN PanelNext ELSE UNCHANGED panelVars
    /\ IF focus = "download" THEN DownloadNext ELSE UNCHANGED downloadVars

\* A fair step of the windows, of the panel.
Image(A) == focus = "image" /\ A /\ UNCHANGED <<focus, coreVars, panelVars, downloadVars>>
Panel(A) == focus = "panel" /\ A /\ UNCHANGED <<focus, coreVars, imageVars, downloadVars>>

MCFairness ==
    /\ WF_MCVars(Image(Cycle))
    /\ WF_MCVars(Image(HandleCommunication))
    /\ WF_MCVars(Image(ProcessMessages))
    /\ WF_MCVars(Image(WindowClosed))
    /\ WF_MCVars(Panel(Statement \/ MessageTimer))

MCSpec == MCInit /\ [][MCNext]_MCVars /\ MCFairness
=============================================================================
