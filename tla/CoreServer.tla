----------------------------- MODULE CoreServer -----------------------------
(***************************************************************************)
(* The core server (coreserver/server.py), which runs the CPU and serves   *)
(* its clients in one loop, and the clients (coreclient/client.py), which  *)
(* send one request at a time and wait for its answer until they lose      *)
(* patience.  Each connection is a pair of byte streams (messages.py); a   *)
(* message is taken from it whole.  Data messages (memory, dumps,          *)
(* instruction states, identifiers, options) do not touch what is modelled *)
(* here and are left out.                                                  *)
(***************************************************************************)
EXTENDS Naturals, Sequences, SequencesExt

CONSTANTS
    Client,
    Requests,  \* the requests each client makes
    SigTerm,   \* phases in which the server process may receive a SIGTERM
    MaxSends   \* bound: the requests of each client, its ping included

Kinds == {"PING", "RESET", "RUN", "STOP", "AWLSRC", "LIBSEL", "SHUTDOWN", "GET_RUNSTATE"}

ASSUME CoreAssumption ==
    /\ Requests \in [Client -> SUBSET Kinds]
    /\ SigTerm \subseteq {"comm", "startup", "cycle"}
    /\ MaxSends \in [Client -> Nat]

VARIABLES
    state,      \* __state of the server
    needOB10x,  \* __needOB10x
    code,       \* the program of the CPU: built, pending or broken
    phase,      \* where the loop stands: comm, startup, cycle or gone
    asker,      \* the client whose request runs the startup
    clients,    \* __clients
    toServer, toClient,  \* the two directions of each connection
    link,       \* the client's end: off, on or closed
    seq,        \* txSeqCount of the client
    waiting,    \* the request the client waits for, or None
    started,    \* history: startup has completed since the last reset or maintenance
    reached     \* history: the states of the server since the client's request

server  == <<state, needOB10x, code, phase, asker, clients, started>>
peers   == <<link, seq, waiting>>
streams == <<toServer, toClient>>
coreVars == <<server, peers, streams, reached>>

None == [kind |-> "none", seq |-> 0]
\* RUN and STOP are the two forms of one message.
Id(kind) == IF kind \in {"RUN", "STOP"} THEN "RUNSTATE" ELSE kind

Answer(kind)         == [kind |-> kind, id |-> "none", seq |-> 0, ok |-> TRUE]
Reply(request, ok)   == [kind |-> "REPLY", id |-> Id(request.kind), seq |-> request.seq, ok |-> ok]

CoreInit ==
    /\ state = "STOP" /\ needOB10x = TRUE /\ code = "built"
    /\ phase = "comm" /\ asker = None /\ clients = <<>>
    /\ toServer = [c \in Client |-> <<>>] /\ toClient = [c \in Client |-> <<>>]
    /\ link = [c \in Client |-> "off"] /\ seq = [c \in Client |-> 0]
    /\ waiting = [c \in Client |-> None]
    /\ started = FALSE /\ reached = [c \in Client |-> {}]

-----------------------------------------------------------------------------
(* The server's side of the connections.                                   *)

Connected == Range(clients)
\* What is sent to a client that has gone is lost; the server may notice.
Sent(c, m) == [toClient EXCEPT ![c] = IF link[c] = "on" THEN Append(@, m) ELSE @]
SentToAll(m) ==
    [c \in Client |-> IF c \in Connected /\ link[c] = "on"
                      THEN Append(toClient[c], m) ELSE toClient[c]]

\* The states that the clients' requests have seen.
Seen == reached' = [c \in Client |-> reached[c] \cup {state'}]

\* Nothing leaves EXIT: "We are exiting. Cannot set another state."
SetRunState(s) ==
    /\ state' = IF state = "EXIT" THEN state ELSE s
    /\ needOB10x' = (needOB10x \/ (s = "MAINTENANCE" /\ state # "EXIT"))
    /\ Seen

\* After an exception the loop goes on, unless the server is exiting.
Resume == phase' = IF state = "EXIT" THEN "gone" ELSE "comm"

\* An error stops the CPU and is sent to all clients.
RaiseError ==
    /\ SetRunState("STOP")
    /\ Resume
    /\ toClient' = SentToAll(Answer("EXCEPTION"))
    /\ \E gone \in SUBSET {c \in Connected : link[c] # "on"} :
          clients' = SelectSeq(clients, LAMBDA c : c \notin gone)

\* A maintenance request stops the CPU and is sent to the first client.
RaiseMaintenance ==
    /\ SetRunState("MAINTENANCE")
    /\ Resume
    /\ started' = (started /\ state = "EXIT")
    /\ toClient' = IF clients = <<>> THEN toClient
                   ELSE Sent(Head(clients), Answer("MAINTREQ"))
    /\ UNCHANGED clients

-----------------------------------------------------------------------------
(* Requests.  m is the message at the head of the stream of client c.      *)

Take(c, kind) ==
    /\ phase = "comm"
    /\ c \in Connected /\ toServer[c] # <<>> /\ Head(toServer[c]).kind = kind
    /\ toServer' = [toServer EXCEPT ![c] = Tail(@)]
    /\ UNCHANGED peers

RxPing(c) ==
    /\ Take(c, "PING")
    /\ toClient' = Sent(c, Answer("PONG"))
    /\ UNCHANGED <<server, reached>>

RxGetRunState(c) ==
    /\ Take(c, "GET_RUNSTATE")
    /\ toClient' = Sent(c, [Answer("RUNSTATE") EXCEPT !.ok = (state = "RUN")])
    /\ UNCHANGED <<server, reached>>

\* Variant: a reset forgets that the startup is due.
ResetSourcesForgetful == code' = "built" /\ started' = FALSE /\ UNCHANGED needOB10x

\* RESET clears the program and schedules a startup.
ResetSources == code' = "built" /\ started' = FALSE /\ needOB10x' = TRUE

RxReset(c) ==
    /\ Take(c, "RESET")
    /\ state' = (IF state = "EXIT" THEN state ELSE "STOP") /\ Seen
    /\ ResetSources
    /\ toClient' = Sent(c, Reply(Head(toServer[c]), TRUE))
    /\ UNCHANGED <<phase, asker, clients>>

RxShutdown(c) ==
    /\ Take(c, "SHUTDOWN")
    /\ SetRunState("EXIT")
    /\ toClient' = Sent(c, Reply(Head(toServer[c]), TRUE))
    /\ UNCHANGED <<code, phase, asker, clients, started>>

RxStop(c) ==
    /\ Take(c, "STOP")
    /\ SetRunState("STOP")
    /\ toClient' = Sent(c, Reply(Head(toServer[c]), TRUE))
    /\ UNCHANGED <<code, phase, asker, clients, started>>

\* RUN from STOP or MAINTENANCE runs the startup first, if it is due.
RxRun(c) ==
    /\ Take(c, "RUN")
    /\ \/ /\ state \in {"RUN", "EXIT"}
          /\ toClient' = Sent(c, Reply(Head(toServer[c]), state = "RUN"))
          /\ UNCHANGED <<server, reached>>
       \/ /\ state \in {"STOP", "MAINTENANCE"} /\ ~needOB10x
          /\ SetRunState("RUN")
          /\ toClient' = Sent(c, Reply(Head(toServer[c]), TRUE))
          /\ UNCHANGED <<code, phase, asker, clients, started>>
       \/ /\ state \in {"STOP", "MAINTENANCE"} /\ needOB10x
          /\ phase' = "startup"
          /\ asker' = [kind |-> c, seq |-> Head(toServer[c]).seq]
          /\ UNCHANGED <<state, needOB10x, code, clients, started, toClient, reached>>

\* A program that runs, or that will run again without a startup, is rebuilt
\* at once; otherwise the startup builds it.  A build may fail half-way.
Rebuild == state = "RUN" \/ (state = "STOP" /\ ~needOB10x)

RxAwlSource(c) ==
    /\ Take(c, "AWLSRC")
    /\ UNCHANGED <<asker, started>>
    /\ \/ /\ code' = IF Rebuild THEN "built" ELSE "pending"
          /\ toClient' = Sent(c, Reply(Head(toServer[c]), TRUE))
          /\ UNCHANGED <<state, needOB10x, phase, clients, reached>>
       \/ Rebuild /\ code' = "broken" /\ RaiseError
       \/ UNCHANGED code /\ RaiseError   \* it cannot be parsed

\* A library selection stops the CPU and waits for the next build.
RxLibSel(c) ==
    /\ Take(c, "LIBSEL")
    /\ SetRunState("STOP")
    /\ toClient' = Sent(c, Reply(Head(toServer[c]), TRUE))
    /\ UNCHANGED <<code, phase, asker, clients, started>>

\* A client that has closed its end is removed once its messages are read.
ClientDied(c) ==
    /\ phase = "comm"
    /\ c \in Connected /\ link[c] = "closed" /\ toServer[c] = <<>>
    /\ clients' = SelectSeq(clients, LAMBDA d : d # c)
    /\ UNCHANGED <<state, needOB10x, code, phase, asker, started, peers, streams, reached>>

Awaited(c) == link[c] # "off" /\ c \notin Connected /\ toServer[c] # <<>>

Accept(c) ==
    /\ phase = "comm" /\ Awaited(c)
    /\ clients' = Append(clients, c)
    /\ UNCHANGED <<state, needOB10x, code, phase, asker, started, peers, streams, reached>>

-----------------------------------------------------------------------------
(* The CPU.                                                                *)

\* The startup builds the program and runs OB 100, with the loop standing
\* still.  Only then is the state set, whatever it has become meanwhile.
StartupEnds ==
    /\ phase = "startup"
    /\ asker' = None
    /\ UNCHANGED <<toServer, peers>>
    /\ \/ /\ code # "broken" /\ code' = "built"
          /\ state' = "RUN" /\ Seen
          /\ needOB10x' = FALSE
          /\ started' = TRUE
          /\ phase' = "comm"
          /\ toClient' = Sent(asker.kind, [kind |-> "REPLY", id |-> "RUNSTATE",
                                           seq |-> asker.seq, ok |-> TRUE])
          /\ UNCHANGED clients
       \/ \* the program cannot be built, or OB 100 fails
          /\ code' \in {"broken"} \cup (IF code = "broken" THEN {} ELSE {"built"})
          /\ RaiseError /\ UNCHANGED started
       \/ \* OB 100 asks for a stop
          code # "broken" /\ code' = "built" /\ RaiseMaintenance

\* No socket is readable: the next cycle, or the end.
CommEnds ==
    /\ phase = "comm"
    /\ state \in {"RUN", "EXIT"}
    /\ \A c \in Client : ~Awaited(c) /\ (c \in Connected => toServer[c] = <<>>)
    /\ phase' = IF state = "RUN" THEN "cycle" ELSE "gone"
    /\ UNCHANGED <<state, needOB10x, code, asker, clients, started, peers, streams, reached>>

\* One cycle of the program, which may fail or ask for a stop, or for a soft
\* reboot, in which OB 100 runs again and may fail.
CycleEnds ==
    /\ phase = "cycle"
    /\ UNCHANGED <<asker, code, toServer, peers>>
    /\ \/ phase' = "comm" /\ UNCHANGED <<state, needOB10x, clients, started, toClient, reached>>
       \/ RaiseError /\ UNCHANGED started
       \/ RaiseMaintenance

Terminate ==
    /\ phase \in SigTerm /\ state # "EXIT"
    /\ SetRunState("EXIT")
    /\ UNCHANGED <<code, phase, asker, clients, started, peers, streams>>

-----------------------------------------------------------------------------
(* The clients.                                                            *)

SendRequest(c, kind) ==
    /\ seq' = [seq EXCEPT ![c] = @ + 1]
    /\ waiting' = [waiting EXCEPT ![c] = [kind |-> kind, seq |-> seq[c]]]
    /\ toServer' = [toServer EXCEPT ![c] = Append(@, [kind |-> kind, seq |-> seq[c]])]
    /\ reached' = [reached EXCEPT ![c] = {state}]
    /\ UNCHANGED <<server, toClient>>

\* A client that connects pings the server.
Connect(c) ==
    /\ link[c] = "off" /\ phase # "gone"
    /\ link' = [link EXCEPT ![c] = "on"]
    /\ SendRequest(c, "PING")

Request(c, kind) ==
    /\ link[c] = "on" /\ waiting[c] = None /\ seq[c] < MaxSends[c]
    /\ SendRequest(c, kind)
    /\ UNCHANGED link

\* Variant: the sequence number of a reply is not compared.
MatchesId(request, m) == m.kind = "REPLY" /\ m.id = Id(request.kind)

\* getRunState takes any RUNSTATE message for its answer.
Matches(request, m) ==
    IF request.kind = "GET_RUNSTATE" THEN m.kind = "RUNSTATE"
    ELSE m.kind = "REPLY" /\ m.id = Id(request.kind) /\ m.seq = request.seq

\* What ends the wait: the answer, an exception, a maintenance request unless
\* it is ignored.  The ping at the start accepts no message but its answer.
Ends(request, m) ==
    \/ request.kind = "PING"
    \/ Matches(request, m)
    \/ m.kind = "EXCEPTION"
    \/ m.kind = "MAINTREQ" /\ request.kind \notin {"RESET", "RUN", "STOP"}

Receive(c) ==
    /\ link[c] = "on" /\ toClient[c] # <<>>
    /\ toClient' = [toClient EXCEPT ![c] = Tail(@)]
    /\ LET m == Head(toClient[c])
       IN  IF waiting[c] # None /\ Ends(waiting[c], m)
           THEN /\ waiting' = [waiting EXCEPT ![c] = None]
                /\ link' = IF waiting[c].kind = "PING" /\ m.kind # "PONG"
                           THEN [link EXCEPT ![c] = "closed"] ELSE link
           ELSE UNCHANGED <<waiting, link>>
    /\ UNCHANGED <<server, seq, toServer, reached>>

\* "Timeout waiting for server reply."
Timeout(c) ==
    /\ waiting[c] # None
    /\ waiting' = [waiting EXCEPT ![c] = None]
    /\ link' = IF waiting[c].kind = "PING" THEN [link EXCEPT ![c] = "closed"] ELSE link
    /\ UNCHANGED <<server, seq, streams, reached>>

\* The client leaves, or finds that the server has gone.
Disconnect(c) ==
    /\ link[c] = "on"
    /\ link' = [link EXCEPT ![c] = "closed"]
    /\ waiting' = [waiting EXCEPT ![c] = None]
    /\ UNCHANGED <<server, seq, streams, reached>>

ServerNext ==
    \/ \E c \in Client :
          \/ RxPing(c) \/ RxGetRunState(c) \/ RxReset(c) \/ RxShutdown(c) \/ RxStop(c)
          \/ RxRun(c) \/ RxAwlSource(c) \/ RxLibSel(c) \/ ClientDied(c) \/ Accept(c)
    \/ StartupEnds \/ CommEnds \/ CycleEnds

CoreNext ==
    \/ ServerNext \/ Terminate
    \/ \E c \in Client :
          \/ Connect(c) \/ Receive(c) \/ Timeout(c) \/ Disconnect(c)
          \/ \E kind \in Requests[c] : Request(c, kind)

CoreSpec == CoreInit /\ [][CoreNext]_coreVars

-----------------------------------------------------------------------------
(* Properties.                                                             *)

\* After a reset or a maintenance request no cycle runs before the startup has
\* completed, and no cycle runs while a source that was accepted is not built,
\* whatever clients do, in whatever order, and however often a startup fails.
CycleIsPrepared == phase = "cycle" => started /\ code # "pending"

\* The answer a client takes for the answer to its request.
Accepted(c, ok) ==
    /\ waiting[c] # None /\ waiting'[c] = None
    /\ toClient[c] # <<>> /\ toClient'[c] = Tail(toClient[c])
    /\ Head(toClient[c]).kind = "REPLY" /\ Head(toClient[c]).ok = ok

\* A client that is told that its request was carried out can rely on it: since
\* it asked, the CPU ran, or was stopped, or began to exit, although answers to
\* requests it gave up may still come in.
OkMeansDone ==
    [][\A c \in Client :
         /\ Accepted(c, TRUE) /\ waiting[c].kind = "RUN" => "RUN" \in reached[c]
         /\ Accepted(c, TRUE) /\ waiting[c].kind \in {"STOP", "RESET", "LIBSEL"} =>
                reached[c] \cap {"STOP", "EXIT"} # {}
         /\ Accepted(c, TRUE) /\ waiting[c].kind = "SHUTDOWN" => "EXIT" \in reached[c]]_coreVars

\* "We are exiting. Cannot set another state."
ExitIsFinal == [][state = "EXIT" => state' = "EXIT"]_coreVars
=============================================================================
