-------------------------- MODULE CoreServerProofs --------------------------
(***************************************************************************)
(* The core server of CoreServer keeps its promises to its clients, for    *)
(* every set of clients and every number of requests they make.            *)
(*                                                                         *)
(* Two invariants carry the proofs.  Prepared is about the CPU: whenever   *)
(* no startup is due the program is built, which only an exiting server    *)
(* is free to break.  Conversation is about one connection: the sequence   *)
(* number of a message on its way says which request it belongs to, and a  *)
(* reply to the request the client waits for is true of the states the     *)
(* server has been in since that request was made.                         *)
(*                                                                         *)
(* At the other end of the connection the control panel of CpuPanel does   *)
(* not rest deaf to a core it lets run: PanelInv, about its whole stack of *)
(* handlers.                                                               *)
(***************************************************************************)
EXTENDS CoreServer, CpuPanel, SequenceTheorems, TLAPS

States  == {"STOP", "RUN", "MAINTENANCE", "EXIT"}
Asked   == [kind : Kinds, seq : Nat]
Names   == Kinds \cup {"RUNSTATE", "REPLY", "PONG", "EXCEPTION", "MAINTREQ", "none"}
Message == [kind : Names, id : Names, seq : Nat, ok : BOOLEAN]

TypeOK ==
    /\ state \in States /\ needOB10x \in BOOLEAN /\ started \in BOOLEAN
    /\ code \in {"built", "pending", "broken"}
    /\ phase \in {"comm", "startup", "cycle", "gone"}
    /\ phase = "startup" => asker \in [kind : Client, seq : Nat]
    /\ link \in [Client -> {"off", "on", "closed"}]
    /\ seq \in [Client -> Nat]
    /\ waiting \in [Client -> Asked \cup {None}]
    /\ reached \in [Client -> SUBSET States]
    /\ toServer \in [Client -> Seq(Asked)]
    /\ toClient \in [Client -> Seq(Message)]

\* A program that needs no startup has had one and is built, and so is one that
\* runs a cycle; only the sources sent to an exiting server are never built.
Prepared ==
    /\ state = "RUN" => ~needOB10x
    /\ state = "MAINTENANCE" => needOB10x
    /\ state # "EXIT" /\ ~needOB10x => started /\ code # "pending"
    /\ phase = "cycle" => started /\ code # "pending"

\* The message is on its way.
OnItsWay(m, stream) == \E i \in 1 .. Len(stream) : stream[i] = m

\* What a positive answer promises: the states the server has been in.
Promise(kind, states) ==
    /\ kind = "RUN" => "RUN" \in states
    /\ kind \in {"STOP", "RESET", "LIBSEL"} => states \cap {"STOP", "EXIT"} # {}
    /\ kind = "SHUTDOWN" => "EXIT" \in states

\* The client waits for the answer to its request number n.
WaitsFor(c, n) == waiting[c] # None /\ waiting[c].seq = n

\* A reply that can be given to the client now.
Honest(c, m) ==
    m.kind = "REPLY" =>
        /\ m.seq < seq[c]
        /\ WaitsFor(c, m.seq) /\ m.ok => Promise(waiting[c].kind, reached[c])

Conversation(c) ==
    /\ waiting[c] # None => state \in reached[c] /\ waiting[c].seq < seq[c]
    /\ \A m : OnItsWay(m, toServer[c]) =>
          m.seq < seq[c] /\ (WaitsFor(c, m.seq) => m.kind = waiting[c].kind)
    /\ \A m : OnItsWay(m, toClient[c]) => Honest(c, m)
    /\ phase = "startup" /\ asker.kind = c =>
          asker.seq < seq[c] /\ (WaitsFor(c, asker.seq) => waiting[c].kind = "RUN")

IInv == TypeOK /\ Prepared /\ \A c \in Client : Conversation(c)

-----------------------------------------------------------------------------
(* Streams.                                                                *)

\* What is taken from a stream or put at its end leaves the rest on its way.
LEMMA Streams ==
    ASSUME NEW S, NEW s \in Seq(S)
    PROVE  /\ s # <<>> => /\ Head(s) \in S /\ OnItsWay(Head(s), s)
                          /\ Tail(s) \in Seq(S) /\ Tail(s) # s
                          /\ \A m : OnItsWay(m, Tail(s)) => OnItsWay(m, s)
           /\ \A x \in S : /\ Append(s, x) \in Seq(S)
                           /\ \A m : OnItsWay(m, Append(s, x)) => OnItsWay(m, s) \/ m = x
<1>1. ASSUME s # <<>>
      PROVE  /\ Head(s) \in S /\ OnItsWay(Head(s), s)
             /\ Tail(s) \in Seq(S) /\ Tail(s) # s
             /\ \A m : OnItsWay(m, Tail(s)) => OnItsWay(m, s)
  <2>1. Len(s) \in Nat /\ Len(s) >= 1 /\ Head(s) = s[1] /\ Head(s) \in S
    BY <1>1
  <2>2. Tail(s) \in Seq(S) /\ Len(Tail(s)) = Len(s) - 1
    BY <1>1
  <2>3. \A i \in 1 .. Len(Tail(s)) : Tail(s)[i] = s[i + 1] /\ i + 1 \in 1 .. Len(s)
    BY <1>1, <2>1, <2>2
  <2>4. Tail(s) # s
    <3>1. SUFFICES ASSUME Tail(s) = s PROVE FALSE
      BY SMTT(60)
    <3>2. Len(s) = Len(s) - 1
      BY <2>2, <3>1
    <3>3. QED
      BY <2>1, <3>2
  <2>5. OnItsWay(Head(s), s)
    <3>1. 1 \in 1 .. Len(s)
      BY <2>1
    <3>2. QED
      BY <2>1, <3>1 DEF OnItsWay
  <2>6. ASSUME NEW m, OnItsWay(m, Tail(s)) PROVE OnItsWay(m, s)
    <3>1. PICK i \in 1 .. Len(Tail(s)) : Tail(s)[i] = m
      BY <2>6 DEF OnItsWay
    <3>2. s[i + 1] = m /\ i + 1 \in 1 .. Len(s)
      BY <2>3, <3>1
    <3>3. QED
      BY <3>2 DEF OnItsWay
  <2>7. QED
    BY <2>1, <2>2, <2>4, <2>5, <2>6, ZenonT(60)
<1>2. ASSUME NEW x \in S
      PROVE  /\ Append(s, x) \in Seq(S)
             /\ \A m : OnItsWay(m, Append(s, x)) => OnItsWay(m, s) \/ m = x
  <2>1. Append(s, x) \in Seq(S) /\ Len(Append(s, x)) = Len(s) + 1
    OBVIOUS
  <2>2. \A i \in 1 .. Len(s) + 1 :
           IF i = Len(s) + 1 THEN Append(s, x)[i] = x
           ELSE Append(s, x)[i] = s[i] /\ i \in 1 .. Len(s)
    OBVIOUS
  <2>3. QED
    BY <2>1, <2>2 DEF OnItsWay
<1>3. QED
  BY <1>1, <1>2, SMTT(60)

\* What a message sent to one client, or to all, makes of the streams.
LEMMA Sending ==
    ASSUME TypeOK, NEW m \in Message
    PROVE  /\ \A c : /\ Sent(c, m) \in [Client -> Seq(Message)]
                     /\ \A d \in Client : \/ Sent(c, m)[d] = toClient[d]
                                          \/ d = c /\ Sent(c, m)[d] = Append(toClient[d], m)
           /\ SentToAll(m) \in [Client -> Seq(Message)]
           /\ \A d \in Client : SentToAll(m)[d] \in {toClient[d], Append(toClient[d], m)}
<1>1. \A d \in Client : toClient[d] \in Seq(Message) /\ Append(toClient[d], m) \in Seq(Message)
  BY DEF TypeOK
<1>2. QED
  BY <1>1 DEF TypeOK, Sent, SentToAll

\* The messages of the server.
LEMMA Messages ==
    /\ \A kind \in Names : Answer(kind) \in Message /\ Answer(kind).kind = kind
    /\ \A r \in Asked, good \in BOOLEAN :
          /\ Reply(r, good) \in Message /\ Reply(r, good).kind = "REPLY"
          /\ Reply(r, good).seq = r.seq /\ Reply(r, good).ok = good
    /\ \A good \in BOOLEAN :
          /\ [Answer("RUNSTATE") EXCEPT !.ok = good] \in Message
          /\ [Answer("RUNSTATE") EXCEPT !.ok = good].kind = "RUNSTATE"
<1>1. ASSUME NEW kind \in Names
      PROVE  Answer(kind) \in Message /\ Answer(kind).kind = kind
  <2>1. Answer(kind) = [kind |-> kind, id |-> "none", seq |-> 0, ok |-> TRUE]
    BY DEF Answer
  <2>2. "none" \in Names
    BY DEF Names
  <2>3. QED
    BY <2>1, <2>2 DEF Message
<1>2. ASSUME NEW r \in Asked, NEW good \in BOOLEAN
      PROVE  /\ Reply(r, good) \in Message /\ Reply(r, good).kind = "REPLY"
             /\ Reply(r, good).seq = r.seq /\ Reply(r, good).ok = good
  <2>1. r.kind \in Kinds /\ r.seq \in Nat
    BY DEF Asked
  <2>2. Id(r.kind) \in Names /\ "REPLY" \in Names
    BY <2>1 DEF Id, Names
  <2>3. QED
    BY <2>1, <2>2 DEF Reply, Message
<1>3. ASSUME NEW good \in BOOLEAN
      PROVE  /\ [Answer("RUNSTATE") EXCEPT !.ok = good] \in Message
             /\ [Answer("RUNSTATE") EXCEPT !.ok = good].kind = "RUNSTATE"
  <2>1. [Answer("RUNSTATE") EXCEPT !.ok = good]
            = [kind |-> "RUNSTATE", id |-> "none", seq |-> 0, ok |-> good]
    BY DEF Answer
  <2>2. "none" \in Names /\ "RUNSTATE" \in Names
    BY DEF Names
  <2>3. QED
    BY <2>1, <2>2 DEF Message
<1>4. QED
  BY <1>1, <1>2, <1>3

-----------------------------------------------------------------------------
(* Types.                                                                  *)

\* A state that is set, and what the requests see of it.
LEMMA StateSet ==
    ASSUME TypeOK, NEW s \in States, SetRunState(s)
    PROVE  /\ state' \in States /\ needOB10x' \in BOOLEAN
           /\ reached' \in [Client -> SUBSET States]
           /\ \A c \in Client : reached'[c] = reached[c] \cup {state'}
           /\ state' = IF state = "EXIT" THEN "EXIT" ELSE s
           /\ s # "MAINTENANCE" \/ state = "EXIT" => needOB10x' = needOB10x
           /\ s = "MAINTENANCE" /\ state # "EXIT" => needOB10x' = TRUE
<1>1. state' \in States /\ state' = IF state = "EXIT" THEN "EXIT" ELSE s
  BY DEF SetRunState, TypeOK
<1>2. needOB10x' = (needOB10x \/ (s = "MAINTENANCE" /\ state # "EXIT"))
  BY DEF SetRunState
<1>3. /\ needOB10x' \in BOOLEAN
      /\ s # "MAINTENANCE" \/ state = "EXIT" => needOB10x' = needOB10x
      /\ s = "MAINTENANCE" /\ state # "EXIT" => needOB10x' = TRUE
  BY <1>2 DEF TypeOK
<1>4. reached' = [c \in Client |-> reached[c] \cup {state'}]
  BY DEF SetRunState, Seen
<1>5. QED
  BY <1>1, <1>3, <1>4 DEF TypeOK

\* An error and a maintenance request keep the types.
LEMMA Raised ==
    ASSUME TypeOK, RaiseError \/ RaiseMaintenance
    PROVE  /\ state' \in States /\ needOB10x' \in BOOLEAN
           /\ phase' \in {"comm", "gone"}
           /\ toClient' \in [Client -> Seq(Message)]
           /\ reached' \in [Client -> SUBSET States]
           /\ \A c \in Client : reached'[c] = reached[c] \cup {state'}
           /\ \A d \in Client : \/ toClient'[d] = toClient[d]
                                \/ \E m \in Message : /\ m.kind \in {"EXCEPTION", "MAINTREQ"}
                                                      /\ toClient'[d] = Append(toClient[d], m)
           /\ state' # "RUN"
<1>1. Answer("EXCEPTION") \in Message /\ Answer("EXCEPTION").kind = "EXCEPTION"
  BY Messages DEF Names
<1>2. Answer("MAINTREQ") \in Message /\ Answer("MAINTREQ").kind = "MAINTREQ"
  BY Messages DEF Names
<1>3. CASE RaiseError
  <2>1. SetRunState("STOP") /\ phase' \in {"comm", "gone"}
    BY <1>3 DEF RaiseError, Resume
  <2>2. toClient' = SentToAll(Answer("EXCEPTION"))
    BY <1>3 DEF RaiseError
  <2>3. /\ toClient' \in [Client -> Seq(Message)]
        /\ \A d \in Client :
              toClient'[d] \in {toClient[d], Append(toClient[d], Answer("EXCEPTION"))}
    BY <1>1, <2>2, Sending
  <2>4. QED
    BY <1>1, <2>1, <2>3, StateSet DEF States
<1>4. CASE RaiseMaintenance
  <2>1. SetRunState("MAINTENANCE") /\ phase' \in {"comm", "gone"}
    BY <1>4 DEF RaiseMaintenance, Resume
  <2>2. \/ toClient' = toClient
        \/ toClient' = Sent(Head(clients), Answer("MAINTREQ"))
    BY <1>4 DEF RaiseMaintenance
  <2>3. /\ toClient' \in [Client -> Seq(Message)]
        /\ \A d \in Client :
              \/ toClient'[d] = toClient[d]
              \/ toClient'[d] = Append(toClient[d], Answer("MAINTREQ"))
    <3>1. CASE toClient' = toClient
      BY <3>1 DEF TypeOK
    <3>2. CASE toClient' = Sent(Head(clients), Answer("MAINTREQ"))
      <4>1. PICK c, m : c = Head(clients) /\ m = Answer("MAINTREQ")
        OBVIOUS
      <4>2. m \in Message /\ toClient' = Sent(c, m)
        BY <1>2, <3>2, <4>1
      <4>3. /\ toClient' \in [Client -> Seq(Message)]
            /\ \A d \in Client : toClient'[d] = toClient[d] \/ toClient'[d] = Append(toClient[d], m)
        BY <4>2, Sending
      <4>4. QED
        BY <4>1, <4>3
    <3>3. QED
      BY <2>2, <3>1, <3>2
  <2>4. QED
    BY <1>2, <2>1, <2>3, StateSet DEF States
<1>5. QED
  BY <1>3, <1>4

\* The message a client's request is taken from.
LEMMA Taken ==
    ASSUME TypeOK, NEW c \in Client, NEW kind, Take(c, kind)
    PROVE  /\ phase = "comm" /\ toServer[c] # <<>> /\ UNCHANGED <<link, seq, waiting>>
           /\ Head(toServer[c]) \in Asked /\ Head(toServer[c]).kind = kind
           /\ OnItsWay(Head(toServer[c]), toServer[c])
           /\ toServer' \in [Client -> Seq(Asked)]
           /\ \A d \in Client : \A m : OnItsWay(m, toServer'[d]) => OnItsWay(m, toServer[d])
<1>1. toServer \in [Client -> Seq(Asked)] /\ toServer[c] \in Seq(Asked)
  BY DEF TypeOK
<1>2. /\ phase = "comm" /\ toServer[c] # <<>> /\ UNCHANGED <<link, seq, waiting>>
      /\ Head(toServer[c]).kind = kind
      /\ toServer' = [toServer EXCEPT ![c] = Tail(@)]
  BY DEF Take, peers
<1>3. /\ Head(toServer[c]) \in Asked /\ OnItsWay(Head(toServer[c]), toServer[c])
      /\ Tail(toServer[c]) \in Seq(Asked)
      /\ \A m : OnItsWay(m, Tail(toServer[c])) => OnItsWay(m, toServer[c])
  BY <1>1, <1>2, Streams
<1>4. toServer' \in [Client -> Seq(Asked)]
  BY <1>1, <1>2, <1>3
<1>5. ASSUME NEW d \in Client PROVE toServer'[d] = IF d = c THEN Tail(toServer[c]) ELSE toServer[d]
  BY <1>1, <1>2
<1>6. QED
  BY <1>2, <1>3, <1>4, <1>5

-----------------------------------------------------------------------------
(* Conversations.                                                          *)

\* What a step of the server has to do for the conversations to go on: the
\* requests see every state, and what it sends is true.
LEMMA GoesOn ==
    ASSUME IInv, NEW c \in Client, UNCHANGED <<seq, waiting>>,
           \A m : OnItsWay(m, toServer'[c]) => OnItsWay(m, toServer[c]),
           reached[c] \subseteq reached'[c],
           waiting[c] # None => state' \in reached'[c],
           \A m : OnItsWay(m, toClient'[c]) => OnItsWay(m, toClient[c]) \/ Honest(c, m)',
           phase' = "startup" /\ asker'.kind = c =>
              asker'.seq < seq[c] /\ (WaitsFor(c, asker'.seq) => waiting[c].kind = "RUN")
    PROVE  Conversation(c)'
<1>1. Conversation(c)
  BY DEF IInv
<1>2. \A n : WaitsFor(c, n)' <=> WaitsFor(c, n)
  BY DEF WaitsFor
<1>3. \A m : Honest(c, m) => Honest(c, m)'
  BY <1>2 DEF Honest, Promise
<1>4. waiting'[c] # None => state' \in reached'[c] /\ waiting'[c].seq < seq'[c]
  BY <1>1 DEF Conversation
<1>5. \A m : OnItsWay(m, toServer'[c]) =>
         m.seq < seq'[c] /\ (WaitsFor(c, m.seq)' => m.kind = waiting'[c].kind)
  BY <1>1, <1>2 DEF Conversation
<1>6. \A m : OnItsWay(m, toClient'[c]) => Honest(c, m)'
  BY <1>1, <1>3 DEF Conversation
<1>7. (phase = "startup" /\ asker.kind = c =>
           asker.seq < seq[c] /\ (WaitsFor(c, asker.seq) => waiting[c].kind = "RUN"))'
  BY DEF WaitsFor
<1>8. QED
  BY <1>4, <1>5, <1>6, <1>7 DEF Conversation, OnItsWay

\* A request that is answered at once, and truly.
LEMMA Answers ==
    ASSUME IInv, NEW c \in Client, NEW kind, Take(c, kind), phase' = "comm",
           NEW m \in Message, toClient' = Sent(c, m), Honest(c, m)',
           \A d \in Client : reached'[d] = reached[d] \cup {state'} \/ UNCHANGED <<state, reached>>
    PROVE  /\ toServer' \in [Client -> Seq(Asked)] /\ toClient' \in [Client -> Seq(Message)]
           /\ \A d \in Client : Conversation(d)'
<1>1. TypeOK /\ \A d \in Client : Conversation(d)
  BY DEF IInv
<1>2. /\ toClient' \in [Client -> Seq(Message)]
      /\ \A d \in Client : \/ toClient'[d] = toClient[d]
                           \/ d = c /\ toClient'[d] = Append(toClient[d], m)
  BY <1>1, Sending
<1>3. /\ UNCHANGED <<seq, waiting>> /\ toServer' \in [Client -> Seq(Asked)]
      /\ \A d \in Client : \A n : OnItsWay(n, toServer'[d]) => OnItsWay(n, toServer[d])
  BY <1>1, Taken
<1>4. ASSUME NEW d \in Client PROVE Conversation(d)'
  <2>1. \A n : OnItsWay(n, toClient'[d]) => OnItsWay(n, toClient[d]) \/ Honest(d, n)'
    <3>1. toClient[d] \in Seq(Message)
      BY <1>1 DEF TypeOK
    <3>2. \A n : OnItsWay(n, Append(toClient[d], m)) => OnItsWay(n, toClient[d]) \/ n = m
      BY <3>1, Streams
    <3>3. QED
      BY <1>2, <3>2
  <2>2. waiting[d] # None => state \in reached[d]
    BY <1>1 DEF Conversation
  <2>3. reached[d] \subseteq reached'[d] /\ (waiting[d] # None => state' \in reached'[d])
    BY <2>2
  <2>4. QED
    BY <1>3, <2>1, <2>3, GoesOn
<1>5. QED
  BY <1>2, <1>3, <1>4

\* The request at the head of the stream is answered truly if its promise is kept.
LEMMA TrueReply ==
    ASSUME IInv, NEW c \in Client, NEW kind, Take(c, kind), NEW good \in BOOLEAN,
           good /\ waiting[c] # None => Promise(kind, reached'[c])
    PROVE  \A m : m = Reply(Head(toServer[c]), good) => m \in Message /\ Honest(c, m)'
<1>1. TypeOK /\ Conversation(c)
  BY DEF IInv
<1>2. /\ Head(toServer[c]) \in Asked /\ Head(toServer[c]).kind = kind
      /\ OnItsWay(Head(toServer[c]), toServer[c]) /\ UNCHANGED <<seq, waiting>>
  BY <1>1, Taken
<1>3. PICK r : r = Head(toServer[c])
  OBVIOUS
<1>4. r.seq < seq[c] /\ (WaitsFor(c, r.seq) => waiting[c].kind = kind)
  BY <1>1, <1>2, <1>3 DEF Conversation
<1>5. TAKE m
<1>6. HAVE m = Reply(Head(toServer[c]), good)
<1>7. m \in Message /\ m.kind = "REPLY" /\ m.seq = r.seq /\ m.ok = good
  BY <1>2, <1>3, <1>6, Messages
<1>8. \A n : WaitsFor(c, n)' <=> WaitsFor(c, n)
  BY <1>2 DEF WaitsFor
<1>9. Honest(c, m)'
  BY <1>2, <1>4, <1>7, <1>8 DEF Honest, WaitsFor
<1>10. QED
  BY <1>7, <1>9

\* An error or a maintenance request is no answer to anybody.
LEMMA RaisedGoesOn ==
    ASSUME IInv, RaiseError \/ RaiseMaintenance, UNCHANGED <<seq, waiting>>,
           \A d \in Client : \A m : OnItsWay(m, toServer'[d]) => OnItsWay(m, toServer[d])
    PROVE  \A d \in Client : Conversation(d)'
<1>1. TypeOK
  BY DEF IInv
<1>2. TAKE d \in Client
<1>3. \A n : OnItsWay(n, toClient'[d]) => OnItsWay(n, toClient[d]) \/ Honest(d, n)'
  <2>1. CASE toClient'[d] = toClient[d]
    BY <2>1
  <2>2. CASE toClient'[d] # toClient[d]
    <3>1. PICK m \in Message : /\ m.kind \in {"EXCEPTION", "MAINTREQ"}
                               /\ toClient'[d] = Append(toClient[d], m)
      BY <1>1, <2>2, Raised
    <3>2. toClient[d] \in Seq(Message)
      BY <1>1 DEF TypeOK
    <3>3. \A n : OnItsWay(n, Append(toClient[d], m)) => OnItsWay(n, toClient[d]) \/ n = m
      BY <3>2, Streams
    <3>4. Honest(d, m)'
      BY <3>1 DEF Honest
    <3>5. QED
      BY <3>1, <3>3, <3>4
  <2>3. QED
    BY <2>1, <2>2
<1>4. reached'[d] = reached[d] \cup {state'} /\ phase' \in {"comm", "gone"}
  BY <1>1, Raised
<1>5. QED
  BY <1>3, <1>4, GoesOn

-----------------------------------------------------------------------------
(* The requests.                                                           *)

\* Requests that are answered at once without a change of the server's state.
LEMMA Questions ==
    ASSUME IInv, NEW c \in Client, RxPing(c) \/ RxGetRunState(c)
    PROVE  IInv'
<1>1. PICK kind \in Kinds, m \in Message :
         /\ Take(c, kind) /\ toClient' = Sent(c, m) /\ m.kind # "REPLY"
         /\ UNCHANGED <<server, reached>>
  <2>1. CASE RxPing(c)
    <3>1. Answer("PONG") \in Message /\ Answer("PONG").kind = "PONG"
      BY Messages DEF Names
    <3>2. PICK m : m = Answer("PONG")
      OBVIOUS
    <3>3. m \in Message /\ m.kind # "REPLY"
      BY <3>1, <3>2
    <3>4. Take(c, "PING") /\ toClient' = Sent(c, m) /\ UNCHANGED <<server, reached>>
      BY <2>1, <3>2 DEF RxPing
    <3>5. QED
      BY <3>3, <3>4 DEF Kinds
  <2>2. CASE RxGetRunState(c)
    <3>1. PICK good \in BOOLEAN : good = (state = "RUN")
      OBVIOUS
    <3>2. toClient' = Sent(c, [Answer("RUNSTATE") EXCEPT !.ok = good])
      BY <2>2, <3>1 DEF RxGetRunState
    <3>3. /\ [Answer("RUNSTATE") EXCEPT !.ok = good] \in Message
          /\ [Answer("RUNSTATE") EXCEPT !.ok = good].kind = "RUNSTATE"
      BY Messages
    <3>4. PICK m : m = [Answer("RUNSTATE") EXCEPT !.ok = good]
      OBVIOUS
    <3>5. m \in Message /\ m.kind # "REPLY" /\ toClient' = Sent(c, m)
      BY <3>2, <3>3, <3>4
    <3>6. Take(c, "GET_RUNSTATE") /\ UNCHANGED <<server, reached>>
      BY <2>2 DEF RxGetRunState
    <3>7. QED
      BY <3>5, <3>6 DEF Kinds
  <2>3. QED
    BY <2>1, <2>2
<1>2. Honest(c, m)'
  BY <1>1 DEF Honest
<1>3. TypeOK /\ Prepared
  BY DEF IInv
<1>4. UNCHANGED <<state, needOB10x, code, phase, asker, started, reached, link, seq, waiting>>
  BY <1>1, <1>3, Taken DEF server
<1>5. phase = "comm"
  BY <1>1, <1>3, Taken
<1>6. /\ toServer' \in [Client -> Seq(Asked)] /\ toClient' \in [Client -> Seq(Message)]
      /\ \A d \in Client : Conversation(d)'
  BY <1>1, <1>2, <1>4, <1>5, Answers
<1>7. TypeOK' /\ Prepared'
  BY <1>3, <1>4, <1>6 DEF TypeOK, Prepared
<1>8. QED
  BY <1>6, <1>7 DEF IInv

\* Requests that are carried out and then answered.
LEMMA Orders ==
    ASSUME IInv, NEW c \in Client, RxReset(c) \/ RxShutdown(c) \/ RxStop(c) \/ RxLibSel(c)
    PROVE  IInv'
<1>1. TypeOK /\ Prepared
  BY DEF IInv
<1>2. PICK kind : /\ Take(c, kind) /\ kind \in {"RESET", "SHUTDOWN", "STOP", "LIBSEL"}
                  /\ toClient' = Sent(c, Reply(Head(toServer[c]), TRUE))
                  /\ UNCHANGED <<phase, asker>>
                  /\ state' \in States /\ state' # "RUN"
                  /\ state' = IF kind = "SHUTDOWN" \/ state = "EXIT" THEN "EXIT" ELSE "STOP"
                  /\ reached' \in [Client -> SUBSET States]
                  /\ \A d \in Client : reached'[d] = reached[d] \cup {state'}
                  /\ \/ UNCHANGED <<code, started, needOB10x>>
                     \/ code' = "built" /\ started' = FALSE /\ needOB10x' = TRUE
  <2>1. CASE RxReset(c)
    <3>1. /\ Take(c, "RESET") /\ toClient' = Sent(c, Reply(Head(toServer[c]), TRUE))
          /\ UNCHANGED <<phase, asker>>
          /\ code' = "built" /\ started' = FALSE /\ needOB10x' = TRUE
          /\ state' = (IF state = "EXIT" THEN state ELSE "STOP") /\ Seen
      BY <2>1 DEF RxReset, ResetSources
    <3>2. state' \in States /\ state' # "RUN"
      BY <3>1 DEF States
    <3>3. reached' = [d \in Client |-> reached[d] \cup {state'}]
      BY <3>1 DEF Seen
    <3>4. /\ reached' \in [Client -> SUBSET States]
          /\ \A d \in Client : reached'[d] = reached[d] \cup {state'}
      BY <1>1, <3>2, <3>3 DEF TypeOK
    <3>5. QED
      BY <3>1, <3>2, <3>4
  <2>2. CASE RxShutdown(c)
    <3>1. /\ Take(c, "SHUTDOWN") /\ toClient' = Sent(c, Reply(Head(toServer[c]), TRUE))
          /\ UNCHANGED <<code, phase, asker, started>> /\ SetRunState("EXIT")
      BY <2>2 DEF RxShutdown
    <3>2. /\ state' \in States /\ state' = "EXIT" /\ needOB10x' = needOB10x
          /\ reached' \in [Client -> SUBSET States]
          /\ \A d \in Client : reached'[d] = reached[d] \cup {state'}
      BY <1>1, <3>1, StateSet DEF States
    <3>3. QED
      BY <3>1, <3>2
  <2>3. CASE RxStop(c) \/ RxLibSel(c)
    <3>1. PICK kind \in {"STOP", "LIBSEL"} :
             /\ Take(c, kind) /\ toClient' = Sent(c, Reply(Head(toServer[c]), TRUE))
             /\ UNCHANGED <<code, phase, asker, started>> /\ SetRunState("STOP")
      BY <2>3 DEF RxStop, RxLibSel
    <3>2. /\ state' \in States /\ needOB10x' = needOB10x
          /\ state' = IF state = "EXIT" THEN "EXIT" ELSE "STOP"
          /\ reached' \in [Client -> SUBSET States]
          /\ \A d \in Client : reached'[d] = reached[d] \cup {state'}
      BY <1>1, <3>1, StateSet DEF States
    <3>3. QED
      BY <3>1, <3>2
  <2>4. QED
    BY <2>1, <2>2, <2>3
<1>3. /\ phase = "comm" /\ UNCHANGED <<link, seq, waiting>>
  BY <1>1, <1>2, Taken
<1>4. Promise(kind, reached'[c])
  BY <1>2 DEF Promise
<1>5. PICK m : m = Reply(Head(toServer[c]), TRUE)
  OBVIOUS
<1>6. m \in Message /\ Honest(c, m)'
  BY <1>2, <1>4, <1>5, TrueReply
<1>7. /\ toServer' \in [Client -> Seq(Asked)] /\ toClient' \in [Client -> Seq(Message)]
      /\ \A d \in Client : Conversation(d)'
  BY <1>2, <1>3, <1>5, <1>6, Answers
<1>8. TypeOK'
  BY <1>1, <1>2, <1>3, <1>7 DEF TypeOK
<1>9. Prepared'
  BY <1>1, <1>2, <1>3 DEF Prepared
<1>10. QED
  BY <1>7, <1>8, <1>9 DEF IInv

\* RUN is answered at once, or when the startup it asks for ends.
LEMMA Running ==
    ASSUME IInv, NEW c \in Client, RxRun(c)
    PROVE  IInv'
<1>1. TypeOK /\ Prepared /\ Take(c, "RUN")
  BY DEF IInv, RxRun
<1>2. /\ phase = "comm" /\ UNCHANGED <<link, seq, waiting>>
      /\ toServer' \in [Client -> Seq(Asked)]
      /\ \A d \in Client : \A m : OnItsWay(m, toServer'[d]) => OnItsWay(m, toServer[d])
      /\ Head(toServer[c]) \in Asked /\ Head(toServer[c]).kind = "RUN"
      /\ OnItsWay(Head(toServer[c]), toServer[c])
  BY <1>1, Taken
<1>3. \A d \in Client : Conversation(d)
  BY DEF IInv
<1>4. CASE /\ state \in {"RUN", "EXIT"} /\ UNCHANGED <<server, reached>>
           /\ toClient' = Sent(c, Reply(Head(toServer[c]), state = "RUN"))
  <2>1. PICK good \in BOOLEAN : good = (state = "RUN")
    OBVIOUS
  <2>2. PICK m : m = Reply(Head(toServer[c]), good)
    OBVIOUS
  <2>3. UNCHANGED <<state, needOB10x, code, phase, asker, started, reached>>
    BY <1>4 DEF server
  <2>4. toClient' = Sent(c, m)
    BY <1>4, <2>1, <2>2
  <2>5. good /\ waiting[c] # None => Promise("RUN", reached'[c])
    BY <1>3, <2>1, <2>3 DEF Promise, Conversation
  <2>6. m \in Message /\ Honest(c, m)'
    BY <1>1, <2>2, <2>5, TrueReply
  <2>7. /\ toClient' \in [Client -> Seq(Message)] /\ \A d \in Client : Conversation(d)'
    BY <1>1, <1>2, <2>3, <2>4, <2>6, Answers
  <2>8. TypeOK' /\ Prepared'
    BY <1>1, <1>2, <2>3, <2>7 DEF TypeOK, Prepared
  <2>9. QED
    BY <2>7, <2>8 DEF IInv
<1>5. CASE /\ state \in {"STOP", "MAINTENANCE"} /\ ~needOB10x /\ SetRunState("RUN")
           /\ toClient' = Sent(c, Reply(Head(toServer[c]), TRUE))
           /\ UNCHANGED <<code, phase, asker, clients, started>>
  <2>1. /\ state' = "RUN" /\ needOB10x' = FALSE
        /\ reached' \in [Client -> SUBSET States]
        /\ \A d \in Client : reached'[d] = reached[d] \cup {state'}
    BY <1>1, <1>5, StateSet DEF States
  <2>2. PICK m : m = Reply(Head(toServer[c]), TRUE)
    OBVIOUS
  <2>3. m \in Message /\ Honest(c, m)'
    <3>1. Promise("RUN", reached'[c])
      BY <2>1 DEF Promise
    <3>2. QED
      BY <1>1, <2>2, <3>1, TrueReply
  <2>4. /\ toClient' \in [Client -> Seq(Message)] /\ \A d \in Client : Conversation(d)'
    BY <1>1, <1>2, <1>5, <2>1, <2>2, <2>3, Answers
  <2>5. TypeOK'
    BY <1>1, <1>2, <1>5, <2>1, <2>4 DEF TypeOK, States
  <2>6. Prepared'
    BY <1>1, <1>2, <1>5, <2>1 DEF Prepared
  <2>7. QED
    BY <2>4, <2>5, <2>6 DEF IInv
<1>6. CASE /\ state \in {"STOP", "MAINTENANCE"} /\ needOB10x /\ phase' = "startup"
           /\ asker' = [kind |-> c, seq |-> Head(toServer[c]).seq]
           /\ UNCHANGED <<state, needOB10x, code, clients, started, toClient, reached>>
  <2>1. asker' \in [kind : Client, seq : Nat] /\ asker'.kind = c
    <3>1. Head(toServer[c]).seq \in Nat
      BY <1>2 DEF Asked
    <3>2. QED
      BY <1>6, <3>1
  <2>2. ASSUME NEW d \in Client PROVE Conversation(d)'
    <3>1. asker'.kind = d => /\ asker'.seq < seq[d]
                             /\ WaitsFor(d, asker'.seq) => waiting[d].kind = "RUN"
      <4>1. PICK r : r = Head(toServer[c])
        OBVIOUS
      <4>2. r.seq < seq[c] /\ (WaitsFor(c, r.seq) => waiting[c].kind = "RUN")
        BY <1>2, <1>3, <4>1 DEF Conversation
      <4>3. asker'.seq = r.seq
        BY <1>6, <4>1
      <4>4. QED
        BY <2>1, <4>2, <4>3
    <3>2. waiting[d] # None => state' \in reached'[d]
      BY <1>3, <1>6 DEF Conversation
    <3>3. QED
      BY <1>2, <1>6, <3>1, <3>2, GoesOn
  <2>3. TypeOK'
    BY <1>1, <1>2, <1>6, <2>1 DEF TypeOK
  <2>4. Prepared'
    BY <1>1, <1>6 DEF Prepared
  <2>5. QED
    BY <2>2, <2>3, <2>4 DEF IInv
<1>7. QED
  BY <1>4, <1>5, <1>6 DEF RxRun

\* What an error and a maintenance request make of the CPU.
LEMMA RaisedPrepared ==
    ASSUME IInv, RaiseError \/ RaiseMaintenance
    PROVE  /\ RaiseError => needOB10x' = needOB10x
           /\ state' = "EXIT" <=> state = "EXIT"
           /\ RaiseError => state' \in {"STOP", "EXIT"}
           /\ RaiseMaintenance => state = "EXIT" \/ needOB10x' = TRUE
<1>1. TypeOK
  BY DEF IInv
<1>2. CASE RaiseError
  <2>1. SetRunState("STOP")
    BY <1>2 DEF RaiseError
  <2>2. /\ needOB10x' = needOB10x /\ (state' = "EXIT" <=> state = "EXIT")
        /\ state' \in {"STOP", "EXIT"}
    BY <1>1, <2>1, StateSet DEF States
  <2>3. RaiseMaintenance => state = "EXIT" \/ needOB10x' = TRUE
    <3>1. ASSUME RaiseMaintenance PROVE SetRunState("MAINTENANCE")
      BY <3>1 DEF RaiseMaintenance
    <3>2. QED
      BY <1>1, <3>1, StateSet DEF States
  <2>4. QED
    BY <2>2, <2>3
<1>3. CASE RaiseMaintenance
  <2>1. SetRunState("MAINTENANCE")
    BY <1>3 DEF RaiseMaintenance
  <2>2. /\ state = "EXIT" \/ needOB10x' = TRUE
        /\ state' = "EXIT" <=> state = "EXIT"
    BY <1>1, <2>1, StateSet DEF States
  <2>3. RaiseError => needOB10x' = needOB10x /\ state' \in {"STOP", "EXIT"}
    <3>1. ASSUME RaiseError PROVE SetRunState("STOP")
      BY <3>1 DEF RaiseError
    <3>2. QED
      BY <1>1, <3>1, StateSet DEF States
  <2>4. QED
    BY <2>2, <2>3
<1>4. QED
  BY <1>2, <1>3

\* A source is loaded, and built at once or with the startup.
LEMMA Loading ==
    ASSUME IInv, NEW c \in Client, RxAwlSource(c)
    PROVE  IInv'
<1>1. TypeOK /\ Prepared /\ Take(c, "AWLSRC") /\ UNCHANGED <<asker, started>>
  BY DEF IInv, RxAwlSource
<1>2. /\ phase = "comm" /\ UNCHANGED <<link, seq, waiting>>
      /\ toServer' \in [Client -> Seq(Asked)]
      /\ \A d \in Client : \A m : OnItsWay(m, toServer'[d]) => OnItsWay(m, toServer[d])
  BY <1>1, Taken
<1>3. CASE /\ code' = IF Rebuild THEN "built" ELSE "pending"
           /\ toClient' = Sent(c, Reply(Head(toServer[c]), TRUE))
           /\ UNCHANGED <<state, needOB10x, phase, clients, reached>>
  <2>1. PICK m : m = Reply(Head(toServer[c]), TRUE)
    OBVIOUS
  <2>2. Promise("AWLSRC", reached'[c])
    BY DEF Promise
  <2>3. m \in Message /\ Honest(c, m)'
    BY <1>1, <2>1, <2>2, TrueReply
  <2>4. /\ toClient' \in [Client -> Seq(Message)] /\ \A d \in Client : Conversation(d)'
    BY <1>1, <1>2, <1>3, <2>1, <2>3, Answers
  <2>5. TypeOK'
    BY <1>1, <1>2, <1>3, <2>4 DEF TypeOK
  <2>6. Prepared'
    BY <1>1, <1>2, <1>3 DEF Prepared, Rebuild, TypeOK, States
  <2>7. QED
    BY <2>4, <2>5, <2>6 DEF IInv
<1>4. CASE RaiseError /\ (code' = code \/ (Rebuild /\ code' = "broken"))
  <2>1. \A d \in Client : Conversation(d)'
    BY <1>2, <1>4, RaisedGoesOn
  <2>2. /\ state' \in States /\ needOB10x' \in BOOLEAN /\ phase' \in {"comm", "gone"}
        /\ toClient' \in [Client -> Seq(Message)] /\ reached' \in [Client -> SUBSET States]
        /\ state' # "RUN"
    BY <1>1, <1>4, Raised
  <2>3. TypeOK'
    BY <1>1, <1>2, <1>4, <2>2 DEF TypeOK
  <2>4. /\ needOB10x' = needOB10x /\ (state' = "EXIT" <=> state = "EXIT")
        /\ state' \in {"STOP", "EXIT"}
    BY <1>4, RaisedPrepared
  <2>5. Prepared'
    BY <1>1, <1>4, <2>2, <2>4 DEF Prepared
  <2>6. QED
    BY <2>1, <2>3, <2>5 DEF IInv
<1>5. QED
  BY <1>3, <1>4 DEF RxAwlSource

\* The set of clients changes, or the loop goes on to a cycle or its end.
LEMMA Looping ==
    ASSUME IInv, CommEnds \/ \E c \in Client : ClientDied(c) \/ Accept(c)
    PROVE  IInv'
<1>1. TypeOK /\ Prepared /\ \A d \in Client : Conversation(d)
  BY DEF IInv
<1>2. /\ UNCHANGED <<state, needOB10x, code, asker, started, link, seq, waiting,
                     toServer, toClient, reached>>
      /\ phase' = "cycle" => state = "RUN"
      /\ phase' \in {"comm", "cycle", "gone"}
  BY <1>1 DEF CommEnds, ClientDied, Accept, peers, streams, TypeOK
<1>3. TypeOK'
  BY <1>1, <1>2 DEF TypeOK
<1>4. Prepared'
  BY <1>1, <1>2 DEF Prepared
<1>5. ASSUME NEW d \in Client PROVE Conversation(d)'
  BY <1>1, <1>2, GoesOn DEF Conversation
<1>6. QED
  BY <1>3, <1>4, <1>5 DEF IInv

-----------------------------------------------------------------------------
(* The CPU.                                                                *)

\* A failed startup and a failed or interrupted cycle.
LEMMA Failing ==
    ASSUME IInv, (RaiseError /\ UNCHANGED started) \/ RaiseMaintenance,
           UNCHANGED <<toServer, link, seq, waiting>>,
           asker' = asker \/ asker' = None, code' \in {"built", "broken", code}
    PROVE  IInv'
<1>1. TypeOK /\ Prepared
  BY DEF IInv
<1>2. \A d \in Client : Conversation(d)'
  BY RaisedGoesOn DEF OnItsWay
<1>3. /\ state' \in States /\ needOB10x' \in BOOLEAN /\ phase' \in {"comm", "gone"}
      /\ toClient' \in [Client -> Seq(Message)] /\ reached' \in [Client -> SUBSET States]
  BY <1>1, Raised
<1>4. started' \in BOOLEAN
  BY <1>1 DEF TypeOK, RaiseMaintenance
<1>5. TypeOK'
  BY <1>1, <1>3, <1>4 DEF TypeOK
<1>6. Prepared'
  <2>1. CASE RaiseError /\ UNCHANGED started
    BY <1>1, <1>3, <2>1, RaisedPrepared DEF Prepared
  <2>2. CASE RaiseMaintenance
    <3>1. state' # "RUN" /\ (state = "EXIT" \/ needOB10x' = TRUE) /\ (state' = "EXIT" <=> state = "EXIT")
      BY <1>1, <2>2, Raised, RaisedPrepared
    <3>2. QED
      BY <1>1, <1>3, <3>1 DEF Prepared
  <2>3. QED
    BY <2>1, <2>2
<1>7. QED
  BY <1>2, <1>5, <1>6 DEF IInv

\* A startup that ends well answers the request that asked for it.
LEMMA Started ==
    ASSUME IInv, phase = "startup", code # "broken", code' = "built", state' = "RUN", Seen,
           needOB10x' = FALSE, started' = TRUE, phase' = "comm", asker' = None,
           UNCHANGED <<toServer, link, seq, waiting>>,
           NEW m \in Message, m.kind = "REPLY", m.seq = asker.seq,
           toClient' = Sent(asker.kind, m)
    PROVE  IInv'
<1>1. TypeOK /\ Prepared /\ \A d \in Client : Conversation(d)
  BY DEF IInv
<1>2. PICK c \in Client : c = asker.kind
  BY <1>1 DEF TypeOK
<1>3. /\ toClient' \in [Client -> Seq(Message)]
      /\ \A d \in Client : \/ toClient'[d] = toClient[d]
                           \/ d = c /\ toClient'[d] = Append(toClient[d], m)
  <2>1. toClient' = Sent(c, m)
    BY <1>2
  <2>2. QED
    BY <1>1, <2>1, Sending
<1>4. /\ reached' \in [Client -> SUBSET States]
      /\ \A d \in Client : reached'[d] = reached[d] \cup {"RUN"}
  <2>1. reached' = [d \in Client |-> reached[d] \cup {"RUN"}]
    BY DEF Seen
  <2>2. QED
    BY <1>1, <2>1 DEF TypeOK, States
<1>5. Honest(c, m)'
  <2>1. asker.seq < seq[c] /\ (WaitsFor(c, asker.seq) => waiting[c].kind = "RUN")
    BY <1>1, <1>2 DEF Conversation
  <2>2. "RUN" \in reached'[c]
    BY <1>4
  <2>3. QED
    BY <2>1, <2>2 DEF Honest, WaitsFor, Promise
<1>6. ASSUME NEW d \in Client PROVE Conversation(d)'
  <2>1. \A n : OnItsWay(n, toClient'[d]) => OnItsWay(n, toClient[d]) \/ Honest(d, n)'
    <3>1. toClient[d] \in Seq(Message)
      BY <1>1 DEF TypeOK
    <3>2. \A n : OnItsWay(n, Append(toClient[d], m)) => OnItsWay(n, toClient[d]) \/ n = m
      BY <3>1, Streams
    <3>3. QED
      BY <1>3, <1>5, <3>2
  <2>2. reached[d] \subseteq reached'[d] /\ state' \in reached'[d]
    BY <1>4
  <2>3. QED
    BY <2>1, <2>2, GoesOn
<1>7. TypeOK'
  BY <1>1, <1>3, <1>4 DEF TypeOK, States
<1>8. Prepared'
  BY DEF Prepared
<1>9. QED
  BY <1>6, <1>7, <1>8 DEF IInv

\* The end of a startup, of a cycle, and of the process.
LEMMA Working ==
    ASSUME IInv, StartupEnds \/ CycleEnds \/ Terminate
    PROVE  IInv'
<1>1. TypeOK /\ Prepared /\ \A d \in Client : Conversation(d)
  BY DEF IInv
<1>2. CASE StartupEnds
  <2>1. /\ phase = "startup" /\ asker' = None
        /\ UNCHANGED <<toServer, link, seq, waiting>>
    BY <1>2 DEF StartupEnds, peers
  <2>2. CASE /\ code # "broken" /\ code' = "built" /\ state' = "RUN" /\ Seen
             /\ needOB10x' = FALSE /\ started' = TRUE /\ phase' = "comm"
             /\ toClient' = Sent(asker.kind, [kind |-> "REPLY", id |-> "RUNSTATE",
                                              seq |-> asker.seq, ok |-> TRUE])
    <3>1. PICK m : m = [kind |-> "REPLY", id |-> "RUNSTATE", seq |-> asker.seq, ok |-> TRUE]
      OBVIOUS
    <3>2. m \in Message /\ m.kind = "REPLY" /\ m.seq = asker.seq
      <4>1. asker.seq \in Nat
        BY <1>1, <2>1 DEF TypeOK
      <4>2. "REPLY" \in Names /\ "RUNSTATE" \in Names
        BY DEF Names
      <4>3. QED
        BY <3>1, <4>1, <4>2 DEF Message
    <3>3. toClient' = Sent(asker.kind, m)
      BY <2>2, <3>1
    <3>4. QED
      BY <2>1, <2>2, <3>2, <3>3, Started
  <2>3. CASE /\ code' \in {"broken"} \cup (IF code = "broken" THEN {} ELSE {"built"})
             /\ RaiseError /\ UNCHANGED started
    BY <2>1, <2>3, Failing
  <2>4. CASE code # "broken" /\ code' = "built" /\ RaiseMaintenance
    BY <2>1, <2>4, Failing
  <2>5. QED
    BY <1>2, <2>2, <2>3, <2>4 DEF StartupEnds
<1>3. CASE CycleEnds
  <2>1. UNCHANGED <<asker, code, toServer, link, seq, waiting>>
    BY <1>3 DEF CycleEnds, peers
  <2>2. CASE /\ phase' = "comm"
             /\ UNCHANGED <<state, needOB10x, clients, started, toClient, reached>>
    <3>1. TypeOK' /\ Prepared'
      BY <1>1, <2>1, <2>2 DEF TypeOK, Prepared
    <3>2. ASSUME NEW d \in Client PROVE Conversation(d)'
      BY <1>1, <2>1, <2>2, GoesOn DEF Conversation
    <3>3. QED
      BY <3>1, <3>2 DEF IInv
  <2>3. CASE RaiseError /\ UNCHANGED started
    BY <2>1, <2>3, Failing
  <2>4. CASE RaiseMaintenance
    BY <2>1, <2>4, Failing
  <2>5. QED
    BY <1>3, <2>2, <2>3, <2>4 DEF CycleEnds
<1>4. CASE Terminate
  <2>1. /\ SetRunState("EXIT")
        /\ UNCHANGED <<code, phase, asker, started, link, seq, waiting, toServer, toClient>>
    BY <1>4 DEF Terminate, peers, streams
  <2>2. /\ state' = "EXIT" /\ needOB10x' = needOB10x
        /\ reached' \in [Client -> SUBSET States]
        /\ \A c \in Client : reached'[c] = reached[c] \cup {state'}
    BY <1>1, <2>1, StateSet DEF States
  <2>3. TypeOK' /\ Prepared'
    BY <1>1, <2>1, <2>2 DEF TypeOK, Prepared, States
  <2>4. ASSUME NEW d \in Client PROVE Conversation(d)'
    BY <1>1, <2>1, <2>2, GoesOn DEF Conversation
  <2>5. QED
    BY <2>3, <2>4 DEF IInv
<1>5. QED
  BY <1>2, <1>3, <1>4

-----------------------------------------------------------------------------
(* The clients.                                                            *)

\* A new request starts a new count of the states: what is on its way for an
\* earlier request has an earlier number.
LEMMA Asking ==
    ASSUME IInv, NEW c \in Client, NEW kind \in Kinds, SendRequest(c, kind),
           link' \in [Client -> {"off", "on", "closed"}]
    PROVE  IInv'
<1>1. TypeOK /\ Prepared /\ \A d \in Client : Conversation(d)
  BY DEF IInv
<1>2. PICK r : r = [kind |-> kind, seq |-> seq[c]]
  OBVIOUS
<1>3. r \in Asked /\ r.kind = kind /\ r.seq = seq[c] /\ seq[c] \in Nat
  BY <1>1, <1>2 DEF TypeOK, Asked
<1>4. /\ seq' = [seq EXCEPT ![c] = @ + 1]
      /\ waiting' = [waiting EXCEPT ![c] = r]
      /\ toServer' = [toServer EXCEPT ![c] = Append(@, r)]
      /\ reached' = [reached EXCEPT ![c] = {state}]
      /\ UNCHANGED <<state, needOB10x, code, phase, asker, started, toClient>>
  BY <1>2 DEF SendRequest, server
<1>5. /\ Append(toServer[c], r) \in Seq(Asked)
      /\ \A m : OnItsWay(m, Append(toServer[c], r)) => OnItsWay(m, toServer[c]) \/ m = r
  BY <1>1, <1>3, Streams DEF TypeOK
<1>6. TypeOK'
  BY <1>1, <1>3, <1>4, <1>5 DEF TypeOK
<1>7. Prepared'
  BY <1>1, <1>4 DEF Prepared
<1>8. ASSUME NEW d \in Client, d # c PROVE Conversation(d)'
  <2>1. /\ seq'[d] = seq[d] /\ waiting'[d] = waiting[d] /\ reached'[d] = reached[d]
        /\ toServer'[d] = toServer[d] /\ toClient'[d] = toClient[d]
    BY <1>1, <1>4, <1>8 DEF TypeOK
  <2>2. Conversation(d)
    BY <1>1
  <2>3. QED
    BY <1>4, <2>1, <2>2, ZenonT(60) DEF Conversation, Honest, WaitsFor, OnItsWay
<1>9. Conversation(c)'
  <2>1. /\ seq'[c] = seq[c] + 1 /\ waiting'[c] = r /\ reached'[c] = {state}
        /\ toServer'[c] = Append(toServer[c], r) /\ toClient'[c] = toClient[c]
    BY <1>1, <1>4 DEF TypeOK
  <2>2. state' \in reached'[c] /\ waiting'[c].seq < seq'[c]
    BY <1>3, <1>4, <2>1
  <2>3. ASSUME NEW m, OnItsWay(m, toServer'[c])
        PROVE  m.seq < seq'[c] /\ (WaitsFor(c, m.seq)' => m.kind = waiting'[c].kind)
    <3>1. CASE m = r
      BY <1>3, <2>1, <3>1
    <3>2. CASE OnItsWay(m, toServer[c])
      <4>1. m.seq < seq[c] /\ m.seq \in Nat
        <5>1. m \in Asked
          BY <1>1, <3>2 DEF TypeOK, OnItsWay
        <5>2. QED
          BY <1>1, <3>2, <5>1 DEF Conversation, Asked
      <4>2. ~WaitsFor(c, m.seq)'
        BY <1>3, <2>1, <4>1 DEF WaitsFor
      <4>3. QED
        BY <1>3, <2>1, <4>1, <4>2
    <3>3. QED
      BY <1>5, <2>1, <2>3, <3>1, <3>2
  <2>4. ASSUME NEW m, OnItsWay(m, toClient'[c]) PROVE Honest(c, m)'
    <3>1. Honest(c, m) /\ m.seq \in Nat
      <4>1. OnItsWay(m, toClient[c])
        BY <2>1, <2>4
      <4>2. m \in Message
        BY <1>1, <4>1 DEF TypeOK, OnItsWay
      <4>3. QED
        BY <1>1, <4>1, <4>2 DEF Conversation, Message
    <3>2. QED
      BY <1>3, <2>1, <3>1 DEF Honest, WaitsFor
  <2>5. (phase = "startup" /\ asker.kind = c =>
           asker.seq < seq[c] /\ (WaitsFor(c, asker.seq) => waiting[c].kind = "RUN"))'
    <3>1. SUFFICES ASSUME phase = "startup", asker.kind = c
                   PROVE  /\ asker'.seq < seq'[c]
                          /\ waiting'[c].seq # asker'.seq
      BY <1>4 DEF WaitsFor
    <3>2. asker.seq < seq[c] /\ asker.seq \in Nat /\ asker' = asker
      BY <1>1, <1>4, <3>1 DEF Conversation, TypeOK
    <3>3. QED
      BY <1>3, <2>1, <3>2
  <2>6. QED
    BY <2>2, <2>3, <2>4, <2>5 DEF Conversation, OnItsWay
<1>10. QED
  BY <1>6, <1>7, <1>8, <1>9 DEF IInv

\* A client that gives up its request, or takes a message, learns nothing wrong.
LEMMA GivingUp ==
    ASSUME IInv, UNCHANGED <<state, needOB10x, code, phase, asker, started, seq, toServer, reached>>,
           link' \in [Client -> {"off", "on", "closed"}],
           waiting' \in [Client -> Asked \cup {None}],
           \A d \in Client : waiting'[d] \in {waiting[d], None},
           toClient' \in [Client -> Seq(Message)],
           \A d \in Client : \A m : OnItsWay(m, toClient'[d]) => OnItsWay(m, toClient[d])
    PROVE  IInv'
<1>1. TypeOK /\ Prepared /\ \A d \in Client : Conversation(d)
  BY DEF IInv
<1>2. TypeOK'
  BY <1>1 DEF TypeOK
<1>3. Prepared'
  BY <1>1 DEF Prepared
<1>4. ASSUME NEW d \in Client PROVE Conversation(d)'
  <2>1. Conversation(d)
    BY <1>1
  <2>2. waiting'[d] = waiting[d] \/ waiting'[d] = None
    OBVIOUS
  <2>3. \A n : WaitsFor(d, n)' => WaitsFor(d, n) /\ waiting'[d] = waiting[d]
    BY <2>2 DEF WaitsFor
  <2>4. \A m : Honest(d, m) => Honest(d, m)'
    BY <2>3 DEF Honest
  <2>5. \A m : OnItsWay(m, toClient'[d]) => Honest(d, m)'
    BY <2>1, <2>4 DEF Conversation
  <2>6. \A m : OnItsWay(m, toServer'[d]) =>
           m.seq < seq'[d] /\ (WaitsFor(d, m.seq)' => m.kind = waiting'[d].kind)
    BY <2>1, <2>3 DEF Conversation
  <2>7. waiting'[d] # None => state' \in reached'[d] /\ waiting'[d].seq < seq'[d]
    BY <2>1, <2>2 DEF Conversation
  <2>8. (phase = "startup" /\ asker.kind = d =>
           asker.seq < seq[d] /\ (WaitsFor(d, asker.seq) => waiting[d].kind = "RUN"))'
    BY <2>1, <2>3 DEF Conversation, WaitsFor
  <2>9. QED
    BY <2>5, <2>6, <2>7, <2>8 DEF Conversation, OnItsWay
<1>5. QED
  BY <1>2, <1>3, <1>4 DEF IInv

\* Every step of a client.
LEMMA Clients ==
    ASSUME IInv, NEW c \in Client,
           \/ Connect(c) \/ Receive(c) \/ Timeout(c) \/ Disconnect(c)
           \/ \E kind \in Requests[c] : Request(c, kind)
    PROVE  IInv'
<1>1. TypeOK
  BY DEF IInv
<1>2. CASE Connect(c)
  <2>1. /\ SendRequest(c, "PING") /\ "PING" \in Kinds
        /\ link' \in [Client -> {"off", "on", "closed"}]
    BY <1>1, <1>2 DEF Connect, Kinds, TypeOK
  <2>2. QED
    BY <2>1, Asking
<1>3. ASSUME NEW kind \in Requests[c], Request(c, kind) PROVE IInv'
  <2>1. kind \in Kinds
    BY CoreAssumption
  <2>2. SendRequest(c, kind) /\ link' \in [Client -> {"off", "on", "closed"}]
    BY <1>1, <1>3 DEF Request, TypeOK
  <2>3. QED
    BY <2>1, <2>2, Asking
<1>4. CASE Receive(c)
  <2>1. /\ UNCHANGED <<state, needOB10x, code, phase, asker, started, seq, toServer, reached>>
        /\ toClient[c] # <<>> /\ toClient' = [toClient EXCEPT ![c] = Tail(@)]
        /\ waiting' = waiting \/ waiting' = [waiting EXCEPT ![c] = None]
        /\ link' = link \/ link' = [link EXCEPT ![c] = "closed"]
    BY <1>4 DEF Receive, server
  <2>2. /\ Tail(toClient[c]) \in Seq(Message)
        /\ \A m : OnItsWay(m, Tail(toClient[c])) => OnItsWay(m, toClient[c])
    BY <1>1, <2>1, Streams DEF TypeOK
  <2>3. /\ toClient' \in [Client -> Seq(Message)]
        /\ \A d \in Client : \A m : OnItsWay(m, toClient'[d]) => OnItsWay(m, toClient[d])
    BY <1>1, <2>1, <2>2 DEF TypeOK
  <2>4. /\ waiting' \in [Client -> Asked \cup {None}]
        /\ \A d \in Client : waiting'[d] \in {waiting[d], None}
        /\ link' \in [Client -> {"off", "on", "closed"}]
    BY <1>1, <2>1 DEF TypeOK
  <2>5. QED
    BY <2>1, <2>3, <2>4, GivingUp
<1>5. CASE Timeout(c) \/ Disconnect(c)
  <2>1. /\ UNCHANGED <<state, needOB10x, code, phase, asker, started, seq, toServer, toClient, reached>>
        /\ waiting' = [waiting EXCEPT ![c] = None]
        /\ link' = link \/ link' = [link EXCEPT ![c] = "closed"]
    BY <1>5 DEF Timeout, Disconnect, server, streams
  <2>2. /\ waiting' \in [Client -> Asked \cup {None}]
        /\ \A d \in Client : waiting'[d] \in {waiting[d], None}
        /\ link' \in [Client -> {"off", "on", "closed"}]
        /\ toClient' \in [Client -> Seq(Message)]
    BY <1>1, <2>1 DEF TypeOK
  <2>3. \A d \in Client : \A m : OnItsWay(m, toClient'[d]) => OnItsWay(m, toClient[d])
    BY <2>1
  <2>4. QED
    BY <2>1, <2>2, <2>3, GivingUp
<1>6. QED
  BY <1>2, <1>3, <1>4, <1>5

-----------------------------------------------------------------------------
(* The theorems.                                                           *)

LEMMA Initial == CoreInit => IInv
<1>1. SUFFICES ASSUME CoreInit PROVE IInv
  OBVIOUS
<1>2. <<>> \in Seq(Asked) /\ <<>> \in Seq(Message)
  OBVIOUS
<1>3. TypeOK
  BY <1>1, <1>2 DEF CoreInit, TypeOK, States
<1>4. Prepared
  BY <1>1 DEF CoreInit, Prepared
<1>5. \A m : ~OnItsWay(m, <<>>)
  BY DEF OnItsWay
<1>6. \A c \in Client : Conversation(c)
  BY <1>1, <1>5 DEF CoreInit, Conversation
<1>7. QED
  BY <1>3, <1>4, <1>6 DEF IInv

LEMMA Step == IInv /\ [CoreNext]_coreVars => IInv'
<1>1. SUFFICES ASSUME IInv, [CoreNext]_coreVars PROVE IInv'
  OBVIOUS
<1>2. CASE UNCHANGED coreVars
  <2>1. UNCHANGED <<server, peers, streams, reached>>
    BY <1>2 DEF coreVars
  <2>2. TypeOK'
    BY <1>1, <2>1 DEF IInv, TypeOK, server, peers, streams
  <2>3. Prepared'
    BY <1>1, <2>1 DEF IInv, Prepared, server
  <2>4. ASSUME NEW c \in Client PROVE Conversation(c)'
    <3>1. Conversation(c)
      BY <1>1 DEF IInv
    <3>2. QED
      BY <3>1, <2>1 DEF Conversation, Honest, WaitsFor, OnItsWay, server, peers, streams
  <2>5. QED
    BY <2>2, <2>3, <2>4 DEF IInv
<1>3. ASSUME NEW c \in Client, RxPing(c) \/ RxGetRunState(c) PROVE IInv'
  BY <1>1, <1>3, Questions
<1>4. ASSUME NEW c \in Client, RxReset(c) \/ RxShutdown(c) \/ RxStop(c) \/ RxLibSel(c) PROVE IInv'
  BY <1>1, <1>4, Orders
<1>5. ASSUME NEW c \in Client, RxRun(c) PROVE IInv'
  BY <1>1, <1>5, Running
<1>6. ASSUME NEW c \in Client, RxAwlSource(c) PROVE IInv'
  BY <1>1, <1>6, Loading
<1>7. CASE CommEnds \/ \E c \in Client : ClientDied(c) \/ Accept(c)
  BY <1>1, <1>7, Looping
<1>8. CASE StartupEnds \/ CycleEnds \/ Terminate
  BY <1>1, <1>8, Working
<1>9. ASSUME NEW c \in Client,
             \/ Connect(c) \/ Receive(c) \/ Timeout(c) \/ Disconnect(c)
             \/ \E kind \in Requests[c] : Request(c, kind)
      PROVE  IInv'
  BY <1>1, <1>9, Clients
<1>10. QED
  BY <1>1, <1>2, <1>3, <1>4, <1>5, <1>6, <1>7, <1>8, <1>9 DEF CoreNext, ServerNext

\* The inductive invariant of the server and its clients.
THEOREM Invariance == CoreSpec => []IInv
BY Initial, Step, PTL DEF CoreSpec

\* The variables keep their types: every stream holds messages, and the server
\* is in one of its states (server.py:270).
THEOREM TypeCorrectness == CoreSpec => []TypeOK
<1>1. IInv => TypeOK
  BY DEF IInv
<1>2. QED
  BY <1>1, Invariance, PTL

\* No cycle runs before the startup has completed, and none while a source is
\* accepted and not built, whatever the clients ask for, in whatever order, and
\* whatever fails.
THEOREM CyclesArePrepared == CoreSpec => []CycleIsPrepared
<1>1. IInv => CycleIsPrepared
  BY DEF IInv, Prepared, CycleIsPrepared
<1>2. QED
  BY <1>1, Invariance, PTL

\* A positive answer that a client accepts is true of its own request, although
\* late answers to the requests it gave up come in between.
THEOREM AnswersAreTrue == CoreSpec => OkMeansDone
<1>1. ASSUME IInv, [CoreNext]_coreVars, NEW c \in Client, Accepted(c, TRUE)
      PROVE  Promise(waiting[c].kind, reached[c])
  <2>1. TypeOK /\ Conversation(c)
    BY <1>1 DEF IInv
  <2>2. PICK m : m = Head(toClient[c])
    OBVIOUS
  <2>3. /\ m \in Message /\ OnItsWay(m, toClient[c]) /\ Tail(toClient[c]) # toClient[c]
    <3>1. toClient[c] \in Seq(Message) /\ toClient[c] # <<>>
      BY <1>1, <2>1 DEF TypeOK, Accepted
    <3>2. QED
      BY <2>2, <3>1, Streams
  <2>4. /\ waiting[c] # None /\ waiting'[c] # waiting[c] /\ toClient'[c] # toClient[c]
        /\ m.kind = "REPLY" /\ m.ok
    BY <1>1, <2>2, <2>3 DEF Accepted
  <2>5. waiting' # waiting /\ toClient' # toClient
    BY <2>4
  <2>6. Receive(c)
    <3>1. ASSUME ServerNext PROVE FALSE
      BY <2>5, <3>1
         DEF ServerNext, RxPing, RxGetRunState, RxReset, RxShutdown, RxStop, RxRun, RxAwlSource,
             RxLibSel, Take, ClientDied, Accept, StartupEnds, CommEnds, CycleEnds, peers
    <3>2. ASSUME Terminate \/ UNCHANGED coreVars PROVE FALSE
      BY <2>5, <3>2 DEF Terminate, coreVars, peers
    <3>3. ASSUME NEW d \in Client,
                 \/ Connect(d) \/ Timeout(d) \/ Disconnect(d)
                 \/ \E kind \in Requests[d] : Request(d, kind)
          PROVE  FALSE
      BY <2>5, <3>3 DEF Connect, Timeout, Disconnect, Request, SendRequest, streams
    <3>4. ASSUME NEW d \in Client, Receive(d) PROVE d = c
      BY <2>1, <2>4, <3>4 DEF Receive, TypeOK
    <3>5. QED
      BY <1>1, <3>1, <3>2, <3>3, <3>4 DEF CoreNext
  <2>7. Ends(waiting[c], m)
    BY <2>2, <2>5, <2>6 DEF Receive
  <2>8. CASE waiting[c].kind = "PING"
    BY <2>8 DEF Promise
  <2>9. CASE waiting[c].kind # "PING"
    <3>1. m.seq = waiting[c].seq
      BY <2>4, <2>7, <2>9 DEF Ends, Matches
    <3>2. WaitsFor(c, m.seq)
      BY <2>4, <3>1 DEF WaitsFor
    <3>3. QED
      BY <2>1, <2>3, <2>4, <3>2 DEF Conversation, Honest
  <2>10. QED
    BY <2>8, <2>9
<1>2. IInv /\ [CoreNext]_coreVars =>
        [\A c \in Client :
           /\ Accepted(c, TRUE) /\ waiting[c].kind = "RUN" => "RUN" \in reached[c]
           /\ Accepted(c, TRUE) /\ waiting[c].kind \in {"STOP", "RESET", "LIBSEL"} =>
                  reached[c] \cap {"STOP", "EXIT"} # {}
           /\ Accepted(c, TRUE) /\ waiting[c].kind = "SHUTDOWN" => "EXIT" \in reached[c]]_coreVars
  BY <1>1 DEF Promise
<1>3. QED
  BY <1>2, Invariance, PTL DEF CoreSpec, OkMeansDone

\* A server that exits stays exiting, provided the process receives no SIGTERM
\* while the startup runs: StartupEnds sets RUN without looking (server.py:970).
THEOREM ExitStays ==
    ASSUME "startup" \notin SigTerm
    PROVE  CoreSpec => ExitIsFinal
<1> DEFINE Starting == phase = "startup" => state # "EXIT"
           Stays    == state = "EXIT" => state' = "EXIT"
<1>1. CoreInit => Starting
  BY DEF CoreInit
<1>2. ASSUME NEW s \in {"STOP", "MAINTENANCE", "RUN", "EXIT"}, SetRunState(s) PROVE Stays
  BY <1>2 DEF SetRunState
<1>3. ASSUME RaiseError \/ RaiseMaintenance PROVE Stays /\ phase' # "startup"
  BY <1>2, <1>3 DEF RaiseError, RaiseMaintenance, Resume
<1>4. ASSUME Starting, [CoreNext]_coreVars PROVE Starting' /\ Stays
  <2>1. CASE StartupEnds
    BY <1>3, <1>4, <2>1 DEF StartupEnds
  <2>2. CASE CycleEnds
    BY <1>3, <1>4, <2>2 DEF CycleEnds
  <2>3. CASE Terminate
    BY <1>2, <2>3 DEF Terminate
  <2>4. CASE CommEnds
    BY <1>4, <2>4 DEF CommEnds
  <2>5. ASSUME NEW c \in Client,
               \/ RxPing(c) \/ RxGetRunState(c) \/ ClientDied(c) \/ Accept(c)
               \/ Connect(c) \/ Receive(c) \/ Timeout(c) \/ Disconnect(c)
               \/ \E kind \in Requests[c] : Request(c, kind)
        PROVE  Starting' /\ Stays
    BY <1>4, <2>5
       DEF RxPing, RxGetRunState, ClientDied, Accept, Connect, Receive, Timeout, Disconnect,
           Request, SendRequest, server
  <2>6. ASSUME NEW c \in Client, RxReset(c) \/ RxShutdown(c) \/ RxStop(c) \/ RxLibSel(c)
        PROVE  Starting' /\ Stays
    BY <1>2, <2>6 DEF RxReset, RxShutdown, RxStop, RxLibSel, Take
  <2>7. ASSUME NEW c \in Client, RxRun(c) PROVE Starting' /\ Stays
    BY <1>2, <2>7 DEF RxRun, Take, server
  <2>8. ASSUME NEW c \in Client, RxAwlSource(c) PROVE Starting' /\ Stays
    BY <1>3, <2>8 DEF RxAwlSource, Take
  <2>9. CASE UNCHANGED coreVars
    BY <1>4, <2>9 DEF coreVars, server
  <2>10. QED
    BY <1>4, <2>1, <2>2, <2>3, <2>4, <2>5, <2>6, <2>7, <2>8, <2>9 DEF CoreNext, ServerNext
<1>5. Starting /\ [CoreNext]_coreVars => Starting' /\ [Stays]_coreVars
  BY <1>4
<1>6. QED
  BY <1>1, <1>5, PTL DEF CoreSpec, ExitIsFinal

-----------------------------------------------------------------------------
(* The control panel of CpuPanel hears of the core it lets run, for every   *)
(* number of things the user does and of failures.  The stack of handlers   *)
(* has a shape, and each handler, where it stands, relies on what those     *)
(* below it and the messages handled over it leave alone.                  *)

\* The statements of each handler, by their numbers.
Spots == [run |-> 1..6, runOnly |-> 1..7, giveUp |-> 1..2, failed |-> 1..3, stop |-> 1..4, stopBox |-> 1..2,
          stopped |-> 1..2, online |-> 1..7, cancelled |-> 1..2, notOnline |-> 1..4, offline |-> 1..4,
          load |-> 1..4, loadOnly |-> 1..9, single |-> 1..6, notLoaded |-> 1..4, no |-> 1..1,
          upload |-> 1..2, notUploaded |-> 1..3, poll |-> 1..2, maintenance |-> 1..2, shutdown |-> 1..4]
Frames == [h : DOMAIN Spots, pc : Nat, events : BOOLEAN]

\* The types of the panel; every frame stands at a statement of its handler.
PanelTypeOK ==
  /\ onlineBtn \in BOOLEAN /\ runBtn \in BOOLEAN /\ timers \in BOOLEAN /\ ok \in BOOLEAN
  /\ mode \in {"OFFLINE", "FORK", "ONLINE"} /\ core \in {"run", "stop"}
  /\ inbox \in Seq({"EXCEPTION", "STOP", "SHUTDOWN"})
  /\ stack \in Seq(Frames)
  /\ \A i \in 1..Len(stack) : stack[i].pc \in Spots[stack[i].h]

\* Frame i is of handler h, at one of the statements pcs; so is the first frame; so is
\* some frame.
At(i, h, pcs) == stack[i].h = h /\ stack[i].pc \in pcs
Top(h, pcs) == stack # <<>> /\ Here.h = h /\ Here.pc \in pcs

Active(h, pcs) == \E i \in 1..Len(stack) : At(i, h, pcs)

\* The core has stopped and no message is left: nothing is to be heard.
Quiet == core = "stop" /\ inbox = <<>>

\* Where a handler waits for another one that it called.
CallPoints == {<<"run", 3>>, <<"run", 5>>, <<"runOnly", 4>>, <<"giveUp", 2>>, <<"online", 7>>, <<"cancelled", 2>>,
               <<"notOnline", 4>>, <<"offline", 3>>, <<"load", 2>>, <<"load", 4>>, <<"loadOnly", 2>>, <<"single", 2>>,
               <<"notLoaded", 3>>, <<"poll", 2>>, <<"maintenance", 2>>, <<"shutdown", 3>>, <<"shutdown", 4>>, <<"no", 1>>}
\* Where the event loop is entered, and where the timer may fire in it: without a
\* connection there is nothing to receive.
IdlePoints  == {<<"online", 2>>, <<"notOnline", 3>>}
EventPoints == {<<"runOnly", 6>>, <<"failed", 2>>, <<"failed", 3>>, <<"stopBox", 2>>, <<"stopped", 2>>, <<"online", 5>>,
                <<"offline", 4>>, <<"loadOnly", 5>>, <<"loadOnly", 9>>, <<"single", 4>>, <<"single", 6>>,
                <<"notLoaded", 2>>, <<"notLoaded", 4>>, <<"notUploaded", 2>>, <<"notUploaded", 3>>, <<"shutdown", 2>>}

\* What is done about a message.
Answering == {"failed", "giveUp", "stop", "stopBox", "stopped", "shutdown", "offline", "maintenance"}
\* The handlers below one.
Low == {"run", "load", "single"}
Below(h) == IF h \in Low THEN {} ELSE IF h = "loadOnly" THEN {"run", "load"} ELSE Low \cup {"loadOnly"}

Point(i) == <<stack[i].h, stack[i].pc>>

\* A core that has stopped says so once, to a client that is connected.
Inbox ==
  /\ Len(inbox) <= 1
  /\ inbox # <<>> => core = "stop" /\ mode # "OFFLINE"

\* The first frame of a stack is a frame.
LEMMA HereTyped ==
  ASSUME PanelTypeOK, stack # <<>>
  PROVE  Here \in Frames /\ Here.h \in DOMAIN Spots /\ Here.pc \in Spots[Here.h] /\ 1 \in 1..Len(stack)
<1>1. 1 \in 1..Len(stack)
  BY DEF PanelTypeOK
<1>2. Here \in Frames
  BY <1>1 DEF PanelTypeOK, Here
<1>. QED BY <1>1, <1>2 DEF PanelTypeOK, Frames, Here

\* The listings: the code of each handler, and what stands where in it.
LEMMA RunCode ==
  /\ Code("run") = <<<<"press">>, <<"goOnline">>, <<"unlessOnline", "giveUp">>, <<"ifForked", "loadOnly">>, <<"unlessOk", "giveUp">>, <<"goto", "runOnly">>>>
  /\ Code("runOnly") = <<<<"press">>, <<"call", "run">>, <<"do", "upload">>, <<"unlessOk", "giveUp">>, <<"show", "RUN">>, <<"timers", "True">>, <<"return", "True">>>>
  /\ Code("giveUp") = <<<<"stop">>, <<"return", "False">>>>
  /\ Code("failed") = <<<<"show", "EXCEPTION">>, <<"box">>, <<"goto", "giveUp">>>>
BY DEF Code, RunHandlers

LEMMA RunListing ==
  ASSUME PanelTypeOK, stack # <<>>, Here.h = "run"
  PROVE  \/ Here.pc = 1 /\ St[1] = "press"
         \/ Here.pc = 2 /\ St[1] = "goOnline"
         \/ Here.pc = 3 /\ St[1] = "unlessOnline" /\ St[2] = "giveUp"
         \/ Here.pc = 4 /\ St[1] = "ifForked" /\ St[2] = "loadOnly"
         \/ Here.pc = 5 /\ St[1] = "unlessOk" /\ St[2] = "giveUp"
         \/ Here.pc = 6 /\ St[1] = "goto" /\ St[2] = "runOnly"
<1>1. Here.pc = 1 \/ Here.pc = 2 \/ Here.pc = 3 \/ Here.pc = 4 \/ Here.pc = 5 \/ Here.pc = 6
  BY HereTyped DEF Spots
<1>. QED BY <1>1, RunCode DEF St

LEMMA RunOnlyListing ==
  ASSUME PanelTypeOK, stack # <<>>, Here.h = "runOnly"
  PROVE  \/ Here.pc = 1 /\ St[1] = "press"
         \/ Here.pc = 2 /\ St[1] = "call" /\ St[2] = "run"
         \/ Here.pc = 3 /\ St[1] = "do" /\ St[2] = "upload"
         \/ Here.pc = 4 /\ St[1] = "unlessOk" /\ St[2] = "giveUp"
         \/ Here.pc = 5 /\ St[1] = "show" /\ St[2] = "RUN"
         \/ Here.pc = 6 /\ St[1] = "timers" /\ St[2] = "True"
         \/ Here.pc = 7 /\ St[1] = "return" /\ St[2] = "True"
<1>1. Here.pc = 1 \/ Here.pc = 2 \/ Here.pc = 3 \/ Here.pc = 4 \/ Here.pc = 5 \/ Here.pc = 6 \/ Here.pc = 7
  BY HereTyped DEF Spots
<1>. QED BY <1>1, RunCode DEF St

LEMMA GiveUpListing ==
  ASSUME PanelTypeOK, stack # <<>>, Here.h = "giveUp"
  PROVE  \/ Here.pc = 1 /\ St[1] = "stop"
         \/ Here.pc = 2 /\ St[1] = "return" /\ St[2] = "False"
<1>1. Here.pc = 1 \/ Here.pc = 2
  BY HereTyped DEF Spots
<1>. QED BY <1>1, RunCode DEF St

LEMMA FailedListing ==
  ASSUME PanelTypeOK, stack # <<>>, Here.h = "failed"
  PROVE  \/ Here.pc = 1 /\ St[1] = "show" /\ St[2] = "EXCEPTION"
         \/ Here.pc = 2 /\ St[1] = "box"
         \/ Here.pc = 3 /\ St[1] = "goto" /\ St[2] = "giveUp"
<1>1. Here.pc = 1 \/ Here.pc = 2 \/ Here.pc = 3
  BY HereTyped DEF Spots
<1>. QED BY <1>1, RunCode DEF St

LEMMA StopCode ==
  /\ Code("stop") = <<<<"timers", "False">>, <<"unlessOnline", "stopped">>, <<"call", "stop">>, <<"goto", "stopped">>>>
  /\ Code("stopBox") = <<<<"box">>, <<"goto", "stopped">>>>
  /\ Code("stopped") = <<<<"show", "ONLINE">>, <<"return", "True">>>>
BY DEF Code, RunHandlers, StopHandlers

LEMMA StopListing ==
  ASSUME PanelTypeOK, stack # <<>>, Here.h = "stop"
  PROVE  \/ Here.pc = 1 /\ St[1] = "timers" /\ St[2] = "False"
         \/ Here.pc = 2 /\ St[1] = "unlessOnline" /\ St[2] = "stopped"
         \/ Here.pc = 3 /\ St[1] = "call" /\ St[2] = "stop"
         \/ Here.pc = 4 /\ St[1] = "goto" /\ St[2] = "stopped"
<1>1. Here.pc = 1 \/ Here.pc = 2 \/ Here.pc = 3 \/ Here.pc = 4
  BY HereTyped DEF Spots
<1>. QED BY <1>1, StopCode DEF St

LEMMA StopBoxListing ==
  ASSUME PanelTypeOK, stack # <<>>, Here.h = "stopBox"
  PROVE  \/ Here.pc = 1 /\ St[1] = "box"
         \/ Here.pc = 2 /\ St[1] = "goto" /\ St[2] = "stopped"
<1>1. Here.pc = 1 \/ Here.pc = 2
  BY HereTyped DEF Spots
<1>. QED BY <1>1, StopCode DEF St

LEMMA StoppedListing ==
  ASSUME PanelTypeOK, stack # <<>>, Here.h = "stopped"
  PROVE  \/ Here.pc = 1 /\ St[1] = "show" /\ St[2] = "ONLINE"
         \/ Here.pc = 2 /\ St[1] = "return" /\ St[2] = "True"
<1>1. Here.pc = 1 \/ Here.pc = 2
  BY HereTyped DEF Spots
<1>. QED BY <1>1, StopCode DEF St

LEMMA LinkCode ==
  /\ Code("online") = <<<<"box">>, <<"perhaps", "cancelled">>, <<"connect">>, <<"show", "ONLINE">>, <<"call", "ask">>, <<"ifRunning", "runOnly">>, <<"return", "True">>>>
  /\ Code("cancelled") = <<<<"goOffline">>, <<"return", "False">>>>
  /\ Code("notOnline") = <<<<"disconnect">>, <<"box">>, <<"goOffline">>, <<"return", "False">>>>
  /\ Code("offline") = <<<<"disconnect">>, <<"stop">>, <<"show", "OFFLINE">>, <<"return", "True">>>>
BY DEF Code, RunHandlers, StopHandlers, LinkHandlers

LEMMA OnlineListing ==
  ASSUME PanelTypeOK, stack # <<>>, Here.h = "online"
  PROVE  \/ Here.pc = 1 /\ St[1] = "box"
         \/ Here.pc = 2 /\ St[1] = "perhaps" /\ St[2] = "cancelled"
         \/ Here.pc = 3 /\ St[1] = "connect"
         \/ Here.pc = 4 /\ St[1] = "show" /\ St[2] = "ONLINE"
         \/ Here.pc = 5 /\ St[1] = "call" /\ St[2] = "ask"
         \/ Here.pc = 6 /\ St[1] = "ifRunning" /\ St[2] = "runOnly"
         \/ Here.pc = 7 /\ St[1] = "return" /\ St[2] = "True"
<1>1. Here.pc = 1 \/ Here.pc = 2 \/ Here.pc = 3 \/ Here.pc = 4 \/ Here.pc = 5 \/ Here.pc = 6 \/ Here.pc = 7
  BY HereTyped DEF Spots
<1>. QED BY <1>1, LinkCode DEF St

LEMMA CancelledListing ==
  ASSUME PanelTypeOK, stack # <<>>, Here.h = "cancelled"
  PROVE  \/ Here.pc = 1 /\ St[1] = "goOffline"
         \/ Here.pc = 2 /\ St[1] = "return" /\ St[2] = "False"
<1>1. Here.pc = 1 \/ Here.pc = 2
  BY HereTyped DEF Spots
<1>. QED BY <1>1, LinkCode DEF St

LEMMA NotOnlineListing ==
  ASSUME PanelTypeOK, stack # <<>>, Here.h = "notOnline"
  PROVE  \/ Here.pc = 1 /\ St[1] = "disconnect"
         \/ Here.pc = 2 /\ St[1] = "box"
         \/ Here.pc = 3 /\ St[1] = "goOffline"
         \/ Here.pc = 4 /\ St[1] = "return" /\ St[2] = "False"
<1>1. Here.pc = 1 \/ Here.pc = 2 \/ Here.pc = 3 \/ Here.pc = 4
  BY HereTyped DEF Spots
<1>. QED BY <1>1, LinkCode DEF St

LEMMA OfflineListing ==
  ASSUME PanelTypeOK, stack # <<>>, Here.h = "offline"
  PROVE  \/ Here.pc = 1 /\ St[1] = "disconnect"
         \/ Here.pc = 2 /\ St[1] = "stop"
         \/ Here.pc = 3 /\ St[1] = "show" /\ St[2] = "OFFLINE"
         \/ Here.pc = 4 /\ St[1] = "return" /\ St[2] = "True"
<1>1. Here.pc = 1 \/ Here.pc = 2 \/ Here.pc = 3 \/ Here.pc = 4
  BY HereTyped DEF Spots
<1>. QED BY <1>1, LinkCode DEF St

LEMMA LoadCode ==
  /\ Code("load") = <<<<"do", "loadOnly">>, <<"unlessOk", "no">>, <<"ifPressed", "runOnly">>, <<"return", "True">>>>
  /\ Code("loadOnly") = <<<<"goOnline">>, <<"unlessOnline", "no">>, <<"perhaps", "no">>, <<"show", "LOAD">>, <<"call", "stop">>, <<"call", "reset">>, <<"call", "send">>, <<"show", "ONLINE">>, <<"return", "True">>>>
  /\ Code("single") = <<<<"goOnline">>, <<"unlessOnline", "no">>, <<"show", "LOAD">>, <<"call", "send">>, <<"showPressed">>, <<"return", "True">>>>
  /\ Code("notLoaded") = <<<<"show", "ONLINE">>, <<"stop">>, <<"box">>, <<"return", "False">>>>
  /\ Code("no") = <<<<"return", "False">>>>
BY DEF Code, RunHandlers, StopHandlers, LinkHandlers, LoadHandlers

LEMMA LoadListing ==
  ASSUME PanelTypeOK, stack # <<>>, Here.h = "load"
  PROVE  \/ Here.pc = 1 /\ St[1] = "do" /\ St[2] = "loadOnly"
         \/ Here.pc = 2 /\ St[1] = "unlessOk" /\ St[2] = "no"
         \/ Here.pc = 3 /\ St[1] = "ifPressed" /\ St[2] = "runOnly"
         \/ Here.pc = 4 /\ St[1] = "return" /\ St[2] = "True"
<1>1. Here.pc = 1 \/ Here.pc = 2 \/ Here.pc = 3 \/ Here.pc = 4
  BY HereTyped DEF Spots
<1>. QED BY <1>1, LoadCode DEF St

LEMMA LoadOnlyListing ==
  ASSUME PanelTypeOK, stack # <<>>, Here.h = "loadOnly"
  PROVE  \/ Here.pc = 1 /\ St[1] = "goOnline"
         \/ Here.pc = 2 /\ St[1] = "unlessOnline" /\ St[2] = "no"
         \/ Here.pc = 3 /\ St[1] = "perhaps" /\ St[2] = "no"
         \/ Here.pc = 4 /\ St[1] = "show" /\ St[2] = "LOAD"
         \/ Here.pc = 5 /\ St[1] = "call" /\ St[2] = "stop"
         \/ Here.pc = 6 /\ St[1] = "call" /\ St[2] = "reset"
         \/ Here.pc = 7 /\ St[1] = "call" /\ St[2] = "send"
         \/ Here.pc = 8 /\ St[1] = "show" /\ St[2] = "ONLINE"
         \/ Here.pc = 9 /\ St[1] = "return" /\ St[2] = "True"
<1>1. Here.pc = 1 \/ Here.pc = 2 \/ Here.pc = 3 \/ Here.pc = 4 \/ Here.pc = 5 \/ Here.pc = 6 \/ Here.pc = 7 \/ Here.pc = 8 \/ Here.pc = 9
  BY HereTyped DEF Spots
<1>. QED BY <1>1, LoadCode DEF St

LEMMA SingleListing ==
  ASSUME PanelTypeOK, stack # <<>>, Here.h = "single"
  PROVE  \/ Here.pc = 1 /\ St[1] = "goOnline"
         \/ Here.pc = 2 /\ St[1] = "unlessOnline" /\ St[2] = "no"
         \/ Here.pc = 3 /\ St[1] = "show" /\ St[2] = "LOAD"
         \/ Here.pc = 4 /\ St[1] = "call" /\ St[2] = "send"
         \/ Here.pc = 5 /\ St[1] = "showPressed"
         \/ Here.pc = 6 /\ St[1] = "return" /\ St[2] = "True"
<1>1. Here.pc = 1 \/ Here.pc = 2 \/ Here.pc = 3 \/ Here.pc = 4 \/ Here.pc = 5 \/ Here.pc = 6
  BY HereTyped DEF Spots
<1>. QED BY <1>1, LoadCode DEF St

LEMMA NotLoadedListing ==
  ASSUME PanelTypeOK, stack # <<>>, Here.h = "notLoaded"
  PROVE  \/ Here.pc = 1 /\ St[1] = "show" /\ St[2] = "ONLINE"
         \/ Here.pc = 2 /\ St[1] = "stop"
         \/ Here.pc = 3 /\ St[1] = "box"
         \/ Here.pc = 4 /\ St[1] = "return" /\ St[2] = "False"
<1>1. Here.pc = 1 \/ Here.pc = 2 \/ Here.pc = 3 \/ Here.pc = 4
  BY HereTyped DEF Spots
<1>. QED BY <1>1, LoadCode DEF St

LEMMA NoListing ==
  ASSUME PanelTypeOK, stack # <<>>, Here.h = "no"
  PROVE  \/ Here.pc = 1 /\ St[1] = "return" /\ St[2] = "False"
<1>1. Here.pc = 1
  BY HereTyped DEF Spots
<1>. QED BY <1>1, LoadCode DEF St

LEMMA MessageCode ==
  /\ Code("upload") = <<<<"call", "areas">>, <<"return", "True">>>>
  /\ Code("notUploaded") = <<<<"show", "EXCEPTION">>, <<"box">>, <<"return", "False">>>>
  /\ Code("poll") = <<<<"receive">>, <<"return", "True">>>>
  /\ Code("maintenance") = <<<<"stop">>, <<"return", "False">>>>
  /\ Code("shutdown") = <<<<"box">>, <<"stop">>, <<"goOffline">>, <<"return", "False">>>>
BY DEF Code, RunHandlers, StopHandlers, LinkHandlers, LoadHandlers, MessageHandlers

LEMMA UploadListing ==
  ASSUME PanelTypeOK, stack # <<>>, Here.h = "upload"
  PROVE  \/ Here.pc = 1 /\ St[1] = "call" /\ St[2] = "areas"
         \/ Here.pc = 2 /\ St[1] = "return" /\ St[2] = "True"
<1>1. Here.pc = 1 \/ Here.pc = 2
  BY HereTyped DEF Spots
<1>. QED BY <1>1, MessageCode DEF St

LEMMA NotUploadedListing ==
  ASSUME PanelTypeOK, stack # <<>>, Here.h = "notUploaded"
  PROVE  \/ Here.pc = 1 /\ St[1] = "show" /\ St[2] = "EXCEPTION"
         \/ Here.pc = 2 /\ St[1] = "box"
         \/ Here.pc = 3 /\ St[1] = "return" /\ St[2] = "False"
<1>1. Here.pc = 1 \/ Here.pc = 2 \/ Here.pc = 3
  BY HereTyped DEF Spots
<1>. QED BY <1>1, MessageCode DEF St

LEMMA PollListing ==
  ASSUME PanelTypeOK, stack # <<>>, Here.h = "poll"
  PROVE  \/ Here.pc = 1 /\ St[1] = "receive"
         \/ Here.pc = 2 /\ St[1] = "return" /\ St[2] = "True"
<1>1. Here.pc = 1 \/ Here.pc = 2
  BY HereTyped DEF Spots
<1>. QED BY <1>1, MessageCode DEF St

LEMMA MaintenanceListing ==
  ASSUME PanelTypeOK, stack # <<>>, Here.h = "maintenance"
  PROVE  \/ Here.pc = 1 /\ St[1] = "stop"
         \/ Here.pc = 2 /\ St[1] = "return" /\ St[2] = "False"
<1>1. Here.pc = 1 \/ Here.pc = 2
  BY HereTyped DEF Spots
<1>. QED BY <1>1, MessageCode DEF St

LEMMA ShutdownListing ==
  ASSUME PanelTypeOK, stack # <<>>, Here.h = "shutdown"
  PROVE  \/ Here.pc = 1 /\ St[1] = "box"
         \/ Here.pc = 2 /\ St[1] = "stop"
         \/ Here.pc = 3 /\ St[1] = "goOffline"
         \/ Here.pc = 4 /\ St[1] = "return" /\ St[2] = "False"
<1>1. Here.pc = 1 \/ Here.pc = 2 \/ Here.pc = 3 \/ Here.pc = 4
  BY HereTyped DEF Spots
<1>. QED BY <1>1, MessageCode DEF St

\* Which handlers hold a statement of each kind, and where.
LEMMA Where ==
  ASSUME PanelTypeOK, stack # <<>>
  PROVE
  /\ St[1] = "show" =>
       \/ (Top("runOnly", {5}) /\ St[2] = "RUN")
       \/ Top("failed", {1}) \/ Top("stopped", {1}) \/ Top("online", {4}) \/ Top("offline", {3})
       \/ Top("loadOnly", {4, 8}) \/ Top("single", {3}) \/ Top("notLoaded", {1}) \/ Top("notUploaded", {1})
  /\ St[1] = "showPressed" => Top("single", {5})
  /\ St[1] = "press" => Top("run", {1}) \/ Top("runOnly", {1})
  /\ St[1] = "stop" =>
       Top("giveUp", {1}) \/ Top("offline", {2}) \/ Top("notLoaded", {2}) \/ Top("maintenance", {1}) \/ Top("shutdown", {2})
  /\ St[1] = "goOnline" => Top("run", {2}) \/ Top("loadOnly", {1}) \/ Top("single", {1})
  /\ St[1] = "goOffline" => Top("cancelled", {1}) \/ Top("notOnline", {3}) \/ Top("shutdown", {3})
  /\ St[1] = "box" =>
       \/ Top("failed", {2}) \/ Top("stopBox", {1}) \/ Top("online", {1}) \/ Top("notOnline", {2})
       \/ Top("notLoaded", {3}) \/ Top("notUploaded", {2}) \/ Top("shutdown", {1})
  /\ St[1] = "do" => \/ Top("runOnly", {3}) /\ St[2] = "upload"
                     \/ Top("load", {1}) /\ St[2] = "loadOnly"
  /\ St[1] = "goto" =>
       \/ Top("run", {6}) /\ St[2] = "runOnly"
       \/ Top("failed", {3}) /\ St[2] = "giveUp"
       \/ (Top("stop", {4}) \/ Top("stopBox", {2})) /\ St[2] = "stopped"
  /\ St[1] = "return" =>
       \/ /\ Top("runOnly", {7}) \/ Top("stopped", {2}) \/ Top("online", {7}) \/ Top("offline", {4}) \/ Top("load", {4})
             \/ Top("loadOnly", {9}) \/ Top("single", {6}) \/ Top("upload", {2}) \/ Top("poll", {2})
          /\ St[2] = "True"
       \/ /\ Top("giveUp", {2}) \/ Top("cancelled", {2}) \/ Top("notOnline", {4}) \/ Top("notLoaded", {4}) \/ Top("no", {1})
             \/ Top("notUploaded", {3}) \/ Top("maintenance", {2}) \/ Top("shutdown", {4})
          /\ St[2] = "False"
  /\ St[1] = "timers" => \/ Top("runOnly", {6}) /\ St[2] = "True"
                         \/ Top("stop", {1}) /\ St[2] = "False"
  /\ St[1] = "perhaps" => \/ Top("online", {2}) /\ St[2] = "cancelled"
                          \/ Top("loadOnly", {3}) /\ St[2] = "no"
  /\ St[1] = "unlessOnline" =>
       \/ Top("run", {3}) /\ St[2] = "giveUp"
       \/ Top("stop", {2}) /\ St[2] = "stopped"
       \/ (Top("loadOnly", {2}) \/ Top("single", {2})) /\ St[2] = "no"
  /\ St[1] = "unlessOk" =>
       \/ (Top("run", {5}) \/ Top("runOnly", {4})) /\ St[2] = "giveUp"
       \/ Top("load", {2}) /\ St[2] = "no"
  /\ St[1] = "ifRunning" => Top("online", {6}) /\ St[2] = "runOnly"
  /\ St[1] = "ifPressed" => Top("load", {3}) /\ St[2] = "runOnly"
  /\ St[1] = "ifForked" => Top("run", {4}) /\ St[2] = "loadOnly"
  /\ St[1] = "connect" => Top("online", {3})
  /\ St[1] = "disconnect" => Top("notOnline", {1}) \/ Top("offline", {1})
  /\ St[1] = "call" =>
       \/ Top("runOnly", {2}) /\ St[2] = "run"
       \/ Top("stop", {3}) /\ St[2] = "stop"
       \/ Top("online", {5}) /\ St[2] = "ask"
       \/ Top("loadOnly", {5}) /\ St[2] = "stop"
       \/ Top("loadOnly", {6}) /\ St[2] = "reset"
       \/ (Top("loadOnly", {7}) \/ Top("single", {4})) /\ St[2] = "send"
       \/ Top("upload", {1}) /\ St[2] = "areas"
  /\ St[1] = "receive" => Top("poll", {1})
<1>1. Here.h \in DOMAIN Spots
  BY HereTyped
<1>2. CASE Here.h = "run"
  BY <1>2, RunListing DEF Top
<1>3. CASE Here.h = "runOnly"
  BY <1>3, RunOnlyListing DEF Top
<1>4. CASE Here.h = "giveUp"
  BY <1>4, GiveUpListing DEF Top
<1>5. CASE Here.h = "failed"
  BY <1>5, FailedListing DEF Top
<1>6. CASE Here.h = "stop"
  BY <1>6, StopListing DEF Top
<1>7. CASE Here.h = "stopBox"
  BY <1>7, StopBoxListing DEF Top
<1>8. CASE Here.h = "stopped"
  BY <1>8, StoppedListing DEF Top
<1>9. CASE Here.h = "online"
  BY <1>9, OnlineListing DEF Top
<1>10. CASE Here.h = "cancelled"
  BY <1>10, CancelledListing DEF Top
<1>11. CASE Here.h = "notOnline"
  BY <1>11, NotOnlineListing DEF Top
<1>12. CASE Here.h = "offline"
  BY <1>12, OfflineListing DEF Top
<1>13. CASE Here.h = "load"
  BY <1>13, LoadListing DEF Top
<1>14. CASE Here.h = "loadOnly"
  BY <1>14, LoadOnlyListing DEF Top
<1>15. CASE Here.h = "single"
  BY <1>15, SingleListing DEF Top
<1>16. CASE Here.h = "notLoaded"
  BY <1>16, NotLoadedListing DEF Top
<1>17. CASE Here.h = "no"
  BY <1>17, NoListing DEF Top
<1>18. CASE Here.h = "upload"
  BY <1>18, UploadListing DEF Top
<1>19. CASE Here.h = "notUploaded"
  BY <1>19, NotUploadedListing DEF Top
<1>20. CASE Here.h = "poll"
  BY <1>20, PollListing DEF Top
<1>21. CASE Here.h = "maintenance"
  BY <1>21, MaintenanceListing DEF Top
<1>22. CASE Here.h = "shutdown"
  BY <1>22, ShutdownListing DEF Top
<1>. QED BY <1>1, <1>2, <1>3, <1>4, <1>5, <1>6, <1>7, <1>8, <1>9, <1>10, <1>11, <1>12, <1>13, <1>14, <1>15, <1>16, <1>17, <1>18, <1>19, <1>20, <1>21, <1>22 DEF Spots

-----------------------------------------------------------------------------
\* What may become of the stack: its first frame is another one, a frame is put
\* on the first one, changed too, or before all, or the first one is taken away.
Swaps(h, pc, e) ==
  /\ stack' \in Seq(Frames) /\ Len(stack') = Len(stack) /\ Len(stack) \in Nat \ {0} /\ stack' # <<>>
  /\ stack'[1].h = h /\ stack'[1].pc = pc /\ stack'[1].events = e
  /\ \A i \in 2..Len(stack) : stack'[i] = stack[i]

Stacks(h, under, pc) ==
  /\ stack' \in Seq(Frames) /\ Len(stack') = Len(stack) + 1 /\ Len(stack) \in Nat \ {0} /\ stack' # <<>>
  /\ stack'[1].h = h /\ stack'[1].pc = 1 /\ stack'[1].events = FALSE
  /\ stack'[2].h = under /\ stack'[2].pc = pc /\ stack'[2].events = FALSE
  /\ \A i \in 2..Len(stack) : stack'[i + 1] = stack[i]
  /\ \A i \in 3..Len(stack) + 1 : stack'[i] = stack[i - 1]

Pops ==
  /\ stack' \in Seq(Frames) /\ Len(stack') = Len(stack) - 1 /\ Len(stack) \in Nat \ {0}
  /\ \A i \in 2..Len(stack) : stack'[i - 1] = stack[i]
  /\ \A i \in 1..Len(stack) - 1 : stack'[i] = stack[i + 1]

Raises(h) ==
  /\ stack' \in Seq(Frames) /\ Len(stack') = Len(stack) + 1 /\ Len(stack) \in Nat /\ stack' # <<>>
  /\ stack'[1].h = h /\ stack'[1].pc = 1 /\ stack'[1].events = FALSE
  /\ \A i \in 1..Len(stack) : stack'[i + 1] = stack[i]
  /\ \A i \in 2..Len(stack) + 1 : stack'[i] = stack[i - 1]

\* A frame is what it was made of.
LEMMA FrameOK ==
  ASSUME NEW h \in DOMAIN Spots, NEW pc \in Nat, NEW e \in BOOLEAN
  PROVE  /\ Frame(h, pc, e) \in Frames
         /\ Frame(h, pc, e).h = h /\ Frame(h, pc, e).pc = pc /\ Frame(h, pc, e).events = e
BY DEF Frame, Frames

\* Every handler has a first statement.
LEMMA FirstStatement == \A h \in DOMAIN Spots : 1 \in Spots[h] /\ Spots[h] \subseteq Nat
  BY DEF Spots

\* Replacing the first frame, pushing on it and dropping it do to the stack what they
\* should.
LEMMA SwapsTo ==
  ASSUME stack \in Seq(Frames), stack # <<>>, NEW h \in DOMAIN Spots, NEW pc \in Nat, NEW e \in BOOLEAN,
         stack' = <<Frame(h, pc, e)>> \o Tail(stack)
  PROVE  Swaps(h, pc, e)
<1>. DEFINE f == Frame(h, pc, e)
<1>1. f \in Frames /\ f.h = h /\ f.pc = pc /\ f.events = e
  BY FrameOK
<1>. HIDE DEF f
<1>2. stack' = <<f>> \o Tail(stack)
  BY DEF f
<1>. QED BY <1>1, <1>2 DEF Swaps

LEMMA StacksOn ==
  ASSUME stack \in Seq(Frames), stack # <<>>, NEW h \in DOMAIN Spots, NEW under \in DOMAIN Spots, NEW pc \in Nat,
         \/ stack' = <<Frame(h, 1, FALSE)>> \o (<<Frame(under, pc, FALSE)>> \o Tail(stack))
         \/ stack' = <<Frame(h, 1, FALSE), Frame(under, pc, FALSE)>> \o Tail(stack)
  PROVE  Stacks(h, under, pc)
<1>. DEFINE f == Frame(h, 1, FALSE)  g == Frame(under, pc, FALSE)
<1>1. f \in Frames /\ f.h = h /\ f.pc = 1 /\ f.events = FALSE
  BY DEF Frame, Frames
<1>2. g \in Frames /\ g.h = under /\ g.pc = pc /\ g.events = FALSE
  BY FrameOK
<1>. HIDE DEF f, g
<1>3. stack' = <<f>> \o (<<g>> \o Tail(stack)) \/ stack' = <<f, g>> \o Tail(stack)
  BY DEF f, g
<1>4. CASE stack' = <<f>> \o (<<g>> \o Tail(stack))
  BY <1>1, <1>2, <1>4 DEF Stacks
<1>5. CASE stack' = <<f, g>> \o Tail(stack)
  BY <1>1, <1>2, <1>5 DEF Stacks
<1>. QED BY <1>3, <1>4, <1>5

LEMMA PopsOff ==
  ASSUME stack \in Seq(Frames), stack # <<>>, stack' = Tail(stack)
  PROVE  Pops
BY DEF Pops

\* Adding to the front of a sequence moves its elements by one.
LEMMA PutInFront ==
  ASSUME NEW S, NEW s \in Seq(S), NEW f \in S, NEW t, t = <<f>> \o s
  PROVE  /\ t \in Seq(S) /\ Len(t) = Len(s) + 1 /\ Len(s) \in Nat /\ t # <<>> /\ t[1] = f
         /\ \A i \in 1..Len(s) : t[i + 1] = s[i]
         /\ \A i \in 2..Len(s) + 1 : t[i] = s[i - 1]
<1>1. <<f>> \in Seq(S) /\ Len(<<f>>) = 1 /\ <<f>>[1] = f /\ Len(s) \in Nat
  OBVIOUS
<1>2. t \in Seq(S) /\ Len(t) = 1 + Len(s)
  BY <1>1, ConcatProperties
<1>3. \A i \in 1..1 + Len(s) : t[i] = IF i <= 1 THEN <<f>>[i] ELSE s[i - 1]
  BY <1>1, ConcatProperties
<1>4. Len(t) # 0 /\ t # <<>>
  BY <1>1, <1>2
<1>. QED BY <1>1, <1>2, <1>3, <1>4

\* The event loop adds a frame and changes no other.
LEMMA RaisesOver ==
  ASSUME stack \in Seq(Frames), NEW h \in DOMAIN Spots, stack' = <<Frame(h, 1, FALSE)>> \o stack
  PROVE  Raises(h)
<1>. DEFINE f == Frame(h, 1, FALSE)
<1>1. f \in Frames /\ f.h = h /\ f.pc = 1 /\ f.events = FALSE
  BY DEF Frame, Frames
<1>. HIDE DEF f
<1>2. stack' = <<f>> \o stack
  BY DEF f
<1>3. /\ stack' \in Seq(Frames) /\ Len(stack') = Len(stack) + 1 /\ Len(stack) \in Nat /\ stack' # <<>> /\ stack'[1] = f
      /\ \A i \in 1..Len(stack) : stack'[i + 1] = stack[i]
      /\ \A i \in 2..Len(stack) + 1 : stack'[i] = stack[i - 1]
  BY ONLY stack \in Seq(Frames), <1>1, <1>2, PutInFront
<1>. QED BY <1>1, <1>3 DEF Raises

\* The ways of the handlers to one another: where one goes on, and from where it
\* calls which.
Gotos == {<<"run", "giveUp">>, <<"run", "runOnly">>, <<"runOnly", "giveUp">>, <<"runOnly", "failed">>, <<"failed", "giveUp">>,
          <<"stop", "stopped">>, <<"stop", "stopBox">>, <<"stopBox", "stopped">>, <<"online", "cancelled">>,
          <<"online", "notOnline">>, <<"loadOnly", "no">>, <<"loadOnly", "notLoaded">>, <<"single", "no">>,
          <<"single", "notLoaded">>, <<"load", "no">>, <<"upload", "notUploaded">>}
Calls == {<<"run", 3, "online">>, <<"run", 5, "loadOnly">>, <<"runOnly", 4, "upload">>, <<"giveUp", 2, "stop">>,
          <<"online", 7, "runOnly">>, <<"cancelled", 2, "offline">>, <<"notOnline", 4, "offline">>, <<"offline", 3, "stop">>,
          <<"load", 2, "loadOnly">>, <<"load", 4, "runOnly">>, <<"loadOnly", 2, "online">>, <<"single", 2, "online">>,
          <<"notLoaded", 3, "stop">>, <<"poll", 2, "failed">>, <<"poll", 2, "shutdown">>, <<"poll", 2, "maintenance">>,
          <<"maintenance", 2, "stop">>, <<"shutdown", 3, "stop">>, <<"shutdown", 4, "offline">>}

\* Every statement goes on to a place of its handler, to another handler, or calls one,
\* as the tables above say.
LEMMA Ways ==
  ASSUME PanelTypeOK, stack # <<>>
  PROVE
  /\ St[1] \notin {"goto", "return"} => Here.pc + 1 \in Spots[Here.h]
  /\ St[1] \in {"show", "showPressed", "box"} => <<Here.h, Here.pc + 1>> \in EventPoints \cup IdlePoints
  /\ St[1] \in {"stop"} => <<Here.h, Here.pc + 1, "stop">> \in Calls
  /\ St[1] \in {"goOnline"} => <<Here.h, Here.pc + 1, "online">> \in Calls
  /\ St[1] \in {"goOffline"} => <<Here.h, Here.pc + 1, "offline">> \in Calls
  /\ St[1] \in {"do", "ifRunning", "ifPressed", "ifForked"} => <<Here.h, Here.pc + 1, St[2]>> \in Calls
  /\ St[1] \in {"goto", "perhaps", "unlessOnline", "unlessOk"} => <<Here.h, St[2]>> \in Gotos
  /\ St[1] \in {"connect", "call"} => <<Here.h, Except(Here.h)>> \in Gotos
  /\ St[1] \in {"receive"} => \A h \in {"failed", "shutdown", "maintenance"} : <<Here.h, Here.pc + 1, h>> \in Calls
<1>1. ASSUME St[1] \notin {"goto", "return"} PROVE Here.pc + 1 \in Spots[Here.h]
  <2>1. Here.h \in DOMAIN Spots
    BY HereTyped
  <2>2. CASE Here.h = "run"
    BY <1>1, <2>2, RunListing DEF Spots
  <2>3. CASE Here.h = "runOnly"
    BY <1>1, <2>3, RunOnlyListing DEF Spots
  <2>4. CASE Here.h = "giveUp"
    BY <1>1, <2>4, GiveUpListing DEF Spots
  <2>5. CASE Here.h = "failed"
    BY <1>1, <2>5, FailedListing DEF Spots
  <2>6. CASE Here.h = "stop"
    BY <1>1, <2>6, StopListing DEF Spots
  <2>7. CASE Here.h = "stopBox"
    BY <1>1, <2>7, StopBoxListing DEF Spots
  <2>8. CASE Here.h = "stopped"
    BY <1>1, <2>8, StoppedListing DEF Spots
  <2>9. CASE Here.h = "online"
    BY <1>1, <2>9, OnlineListing DEF Spots
  <2>10. CASE Here.h = "cancelled"
    BY <1>1, <2>10, CancelledListing DEF Spots
  <2>11. CASE Here.h = "notOnline"
    BY <1>1, <2>11, NotOnlineListing DEF Spots
  <2>12. CASE Here.h = "offline"
    BY <1>1, <2>12, OfflineListing DEF Spots
  <2>13. CASE Here.h = "load"
    BY <1>1, <2>13, LoadListing DEF Spots
  <2>14. CASE Here.h = "loadOnly"
    BY <1>1, <2>14, LoadOnlyListing DEF Spots
  <2>15. CASE Here.h = "single"
    BY <1>1, <2>15, SingleListing DEF Spots
  <2>16. CASE Here.h = "notLoaded"
    BY <1>1, <2>16, NotLoadedListing DEF Spots
  <2>17. CASE Here.h = "no"
    BY <1>1, <2>17, NoListing DEF Spots
  <2>18. CASE Here.h = "upload"
    BY <1>1, <2>18, UploadListing DEF Spots
  <2>19. CASE Here.h = "notUploaded"
    BY <1>1, <2>19, NotUploadedListing DEF Spots
  <2>20. CASE Here.h = "poll"
    BY <1>1, <2>20, PollListing DEF Spots
  <2>21. CASE Here.h = "maintenance"
    BY <1>1, <2>21, MaintenanceListing DEF Spots
  <2>22. CASE Here.h = "shutdown"
    BY <1>1, <2>22, ShutdownListing DEF Spots
  <2>. QED BY <2>1, <2>2, <2>3, <2>4, <2>5, <2>6, <2>7, <2>8, <2>9, <2>10, <2>11, <2>12, <2>13, <2>14, <2>15, <2>16, <2>17, <2>18, <2>19, <2>20, <2>21, <2>22 DEF Spots
<1>2. ASSUME St[1] \in {"show", "showPressed", "box"} PROVE <<Here.h, Here.pc + 1>> \in EventPoints \cup IdlePoints
  BY <1>2, Where DEF Top, EventPoints, IdlePoints
<1>3. ASSUME St[1] \in {"stop"} PROVE <<Here.h, Here.pc + 1, "stop">> \in Calls
  BY <1>3, Where DEF Top, Calls
<1>4. ASSUME St[1] \in {"goOnline"} PROVE <<Here.h, Here.pc + 1, "online">> \in Calls
  BY <1>4, Where DEF Top, Calls
<1>5. ASSUME St[1] \in {"goOffline"} PROVE <<Here.h, Here.pc + 1, "offline">> \in Calls
  BY <1>5, Where DEF Top, Calls
<1>6. ASSUME St[1] \in {"do", "ifRunning", "ifPressed", "ifForked"} PROVE <<Here.h, Here.pc + 1, St[2]>> \in Calls
  BY <1>6, Where DEF Top, Calls
<1>7. ASSUME St[1] \in {"goto", "perhaps", "unlessOnline", "unlessOk"} PROVE <<Here.h, St[2]>> \in Gotos
  BY <1>7, Where DEF Top, Gotos
<1>8. ASSUME St[1] \in {"connect", "call"} PROVE <<Here.h, Except(Here.h)>> \in Gotos
  BY <1>8, Where DEF Top, Gotos, Except
<1>9. ASSUME St[1] \in {"receive"} PROVE \A h \in {"failed", "shutdown", "maintenance"} : <<Here.h, Here.pc + 1, h>> \in Calls
  BY <1>9, Where DEF Top, Calls
<1>. QED BY <1>1, <1>2, <1>3, <1>4, <1>5, <1>6, <1>7, <1>8, <1>9

\* A step of a handler.
Advances(e) == /\ Swaps(Here.h, Here.pc + 1, e) /\ Here.pc + 1 \in Spots[Here.h]
               /\ e => <<Here.h, Here.pc + 1>> \in EventPoints \cup IdlePoints
GoesTo(h)   == Swaps(h, 1, FALSE) /\ <<Here.h, h>> \in Gotos
CallsTo(h)  == Stacks(h, Here.h, Here.pc + 1) /\ <<Here.h, Here.pc + 1, h>> \in Calls
Interrupted == /\ Stacks("shutdown", "no", 1) \/ Stacks("maintenance", "no", 1)
               /\ Here.h \in {"online", "loadOnly", "single", "upload"}
Going   == \E h \in DOMAIN Spots : GoesTo(h)
Calling == \E h \in DOMAIN Spots : CallsTo(h)
Move == Advances(FALSE) \/ Advances(TRUE) \/ Going \/ Calling \/ Interrupted \/ Pops \/ stack' = stack

\* The stack operations of the model are the ones described above.
LEMMA Operations ==
  ASSUME PanelTypeOK, stack # <<>>
  PROVE  /\ Proceed => Swaps(Here.h, Here.pc + 1, FALSE)
         /\ EventLoop => Swaps(Here.h, Here.pc + 1, TRUE)
         /\ \A h \in DOMAIN Spots : (Goto(h) => Swaps(h, 1, FALSE)) /\ (Call(h) => Stacks(h, Here.h, Here.pc + 1))
         /\ \A h \in DOMAIN Spots : stack' = <<Frame(h, 1, FALSE), Frame("no", 1, FALSE)>> \o Outer => Stacks(h, "no", 1)
         /\ stack' = Outer => Pops
<1>1. stack \in Seq(Frames) /\ Here.h \in DOMAIN Spots /\ Here.pc \in Nat /\ Here.pc + 1 \in Nat /\ "no" \in DOMAIN Spots
  BY HereTyped, FirstStatement DEF PanelTypeOK, Spots
<1>2. Proceed => Swaps(Here.h, Here.pc + 1, FALSE)
  BY <1>1, SwapsTo DEF Proceed, On, Outer
<1>3. EventLoop => Swaps(Here.h, Here.pc + 1, TRUE)
  BY <1>1, SwapsTo DEF EventLoop, On, Outer
<1>4. ASSUME NEW h \in DOMAIN Spots PROVE (Goto(h) => Swaps(h, 1, FALSE)) /\ (Call(h) => Stacks(h, Here.h, Here.pc + 1))
  <2>1. Goto(h) => Swaps(h, 1, FALSE)
    BY <1>1, SwapsTo DEF Goto, Outer
  <2>2. Call(h) => Stacks(h, Here.h, Here.pc + 1)
    BY <1>1, StacksOn DEF Call, On, Outer
  <2>. QED BY <2>1, <2>2
<1>5. ASSUME NEW h \in DOMAIN Spots, stack' = <<Frame(h, 1, FALSE), Frame("no", 1, FALSE)>> \o Outer PROVE Stacks(h, "no", 1)
  BY <1>1, <1>5, StacksOn DEF Outer
<1>6. stack' = Outer => Pops
  BY <1>1, PopsOff DEF Outer
<1>. QED BY <1>2, <1>3, <1>4, <1>5, <1>6

\* A statement does one of these things to the stack.
LEMMA Moves ==
  ASSUME PanelTypeOK, Statement
  PROVE  stack # <<>> /\ Move
<1>1. stack # <<>>
  BY DEF Statement, ShowState, Buttons, Control, LinkUp, MakeCall, ReceiveMessages, Does, AtRest
<1>2. {"runOnly", "giveUp", "stopped", "cancelled", "no", "notOnline", "failed", "stopBox", "notLoaded", "notUploaded", "stop", "online",
       "offline", "upload", "loadOnly", "shutdown", "maintenance"} \subseteq DOMAIN Spots
  BY DEF Spots
<1>3. (\A h : <<Here.h, h>> \in Gotos => h \in DOMAIN Spots) /\ (\A h : <<Here.h, Here.pc + 1, h>> \in Calls => h \in DOMAIN Spots)
  BY DEF Gotos, Calls, Spots
<1>4. (\E h : GoesTo(h)) => Going
  BY <1>3 DEF Going, GoesTo
<1>5. (\E h : CallsTo(h)) => Calling
  BY <1>3 DEF Calling, CallsTo
<1>6. ShowState => Advances(FALSE) \/ Advances(TRUE)
  BY <1>1, Ways, Operations DEF ShowState, Does, AtRest, Advances
<1>7. Buttons => Advances(FALSE) \/ CallsTo("stop") \/ CallsTo("online") \/ CallsTo("offline")
  BY <1>1, <1>2, Ways, Operations DEF Buttons, Does, AtRest, Advances, CallsTo
<1>8. Control => Advances(FALSE) \/ Advances(TRUE) \/ CallsTo(St[2]) \/ GoesTo(St[2]) \/ Pops
  BY <1>1, <1>3, Ways, Operations DEF Control, Does, AtRest, Advances, CallsTo, GoesTo
<1>9. LinkUp => Advances(FALSE) \/ GoesTo(Except(Here.h))
  BY <1>1, <1>3, Ways, Operations DEF LinkUp, Fails, Does, AtRest, Advances, GoesTo
<1>10. MakeCall => Advances(FALSE) \/ stack' = stack \/ Interrupted \/ GoesTo(Except(Here.h))
  BY <1>1, <1>2, <1>3, Ways, Where, Operations DEF MakeCall, Fails, Does, AtRest, Advances, GoesTo, Interrupted, Top
<1>11. ReceiveMessages => Advances(FALSE) \/ CallsTo("failed") \/ CallsTo("shutdown") \/ CallsTo("maintenance")
  BY <1>1, <1>2, Ways, Operations DEF ReceiveMessages, Does, AtRest, Advances, CallsTo
<1>. QED BY <1>1, <1>4, <1>5, <1>6, <1>7, <1>8, <1>9, <1>10, <1>11 DEF Statement, Move

\* The part of the types that is about the stack.
StackOK == stack \in Seq(Frames) /\ \A i \in 1..Len(stack) : stack[i].pc \in Spots[stack[i].h]

\* A move leaves a stack of frames.
LEMMA StackStaysOK ==
  ASSUME PanelTypeOK, stack # <<>>, Move
  PROVE  StackOK'
<1>1. stack \in Seq(Frames) /\ Here.h \in DOMAIN Spots /\ Here.pc \in Spots[Here.h]
  BY HereTyped DEF PanelTypeOK
<1>2. ASSUME NEW h \in DOMAIN Spots, NEW pc \in Spots[h], NEW e, Swaps(h, pc, e) PROVE StackOK'
  BY <1>1, <1>2 DEF StackOK, PanelTypeOK, Swaps
<1>3. ASSUME NEW h \in DOMAIN Spots, NEW under \in DOMAIN Spots, NEW pc \in Spots[under], Stacks(h, under, pc) PROVE StackOK'
  <2>1. ASSUME NEW i \in 1..Len(stack') PROVE stack'[i].pc \in Spots[stack'[i].h]
    <3>1. i = 1 \/ i = 2 \/ i \in 3..Len(stack) + 1
      BY <1>3 DEF Stacks
    <3>2. CASE i \in 3..Len(stack) + 1
      <4>1. stack'[i] = stack[i - 1] /\ i - 1 \in 1..Len(stack)
        BY <3>2, <1>3 DEF Stacks
      <4>. QED BY <4>1 DEF PanelTypeOK
    <3>. QED BY <3>1, <3>2, <1>3, FirstStatement DEF Stacks
  <2>. QED BY <2>1, <1>3 DEF StackOK, Stacks
<1>4. CASE Advances(FALSE) \/ Advances(TRUE)
  BY <1>4, <1>1, <1>2 DEF Advances
<1>5. CASE Going
  BY <1>5, <1>2, FirstStatement DEF Going, GoesTo
<1>6. CASE Calling
  <2>1. PICK h \in DOMAIN Spots : CallsTo(h)
    BY <1>6 DEF Calling
  <2>2. Here.pc + 1 \in Spots[Here.h]
    BY <2>1, <1>1 DEF CallsTo, Calls, Spots
  <2>. QED BY <2>1, <2>2, <1>1, <1>3 DEF CallsTo
<1>7. CASE Interrupted
  <2>1. {"shutdown", "maintenance", "no"} \subseteq DOMAIN Spots
    BY DEF Spots
  <2>. QED BY <2>1, <1>3, <1>7, FirstStatement DEF Interrupted
<1>8. CASE Pops
  <2>1. ASSUME NEW i \in 1..Len(stack') PROVE stack'[i].pc \in Spots[stack'[i].h]
    <3>1. stack'[i] = stack[i + 1] /\ i + 1 \in 1..Len(stack)
      BY <1>8 DEF Pops
    <3>. QED BY <3>1 DEF PanelTypeOK
  <2>. QED BY <2>1, <1>8 DEF Pops, StackOK
<1>9. CASE stack' = stack
  <2>1. \A i \in 1..Len(stack) : stack[i].pc \in Spots[stack[i].h]
    BY DEF PanelTypeOK
  <2>2. ASSUME NEW i \in 1..Len(stack') PROVE stack'[i].pc \in Spots[stack'[i].h]
    BY <2>1, <1>9
  <2>. QED BY <2>2, <1>1, <1>9 DEF StackOK
<1>. QED BY <1>4, <1>5, <1>6, <1>7, <1>8, <1>9 DEF Move

\* The shape of the stack: the event loop is entered only where a statement did so; a
\* frame below another waits for what it called, or was interrupted by the timer; above
\* the timer's handler are only handlers that answer a message; and what is below a
\* handler of the user is one that calls it.
ShapeEvents == \A i \in 1..Len(stack) : stack[i].events => Point(i) \in EventPoints \cup IdlePoints
ShapeWaits  == \A i \in 2..Len(stack) : Point(i) \in CallPoints \/ (Point(i) \in EventPoints /\ stack[i - 1].h = "poll")
ShapePolls  == \A i, j \in 1..Len(stack) : i < j /\ stack[j].h = "poll" => stack[i].h \in Answering
ShapeBelow  == \A i, j \in 1..Len(stack) : i < j /\ stack[i].h \in Low \cup {"loadOnly", "online"} => stack[j].h \in Below(stack[i].h)

\* A move keeps the shape of the stack: the event loop.
LEMMA EventsStay ==
  ASSUME PanelTypeOK, stack # <<>>, ShapeEvents, Move
  PROVE  ShapeEvents'
<1>1. ASSUME NEW h, NEW pc, NEW e, Swaps(h, pc, e), e => <<h, pc>> \in EventPoints \cup IdlePoints PROVE ShapeEvents'
  BY <1>1 DEF Swaps, ShapeEvents, Point
<1>2. ASSUME NEW h, NEW under, NEW pc, Stacks(h, under, pc) PROVE ShapeEvents'
  <2>. SUFFICES ASSUME NEW i \in 1..Len(stack'), stack'[i].events
                PROVE  <<stack'[i].h, stack'[i].pc>> \in EventPoints \cup IdlePoints
    BY DEF ShapeEvents, Point
  <2>1. i = 1 \/ i = 2 \/ i \in 3..Len(stack) + 1
    BY <1>2 DEF Stacks
  <2>2. i \in 3..Len(stack) + 1
    BY <2>1, <1>2 DEF Stacks
  <2>3. stack'[i] = stack[i - 1] /\ i - 1 \in 1..Len(stack)
    BY <2>2, <1>2 DEF Stacks
  <2>. QED BY <2>3 DEF ShapeEvents, Point
<1>3. CASE Advances(FALSE) \/ Advances(TRUE)
  BY <1>3, <1>1 DEF Advances
<1>4. CASE Going
  BY <1>4, <1>1 DEF Going, GoesTo
<1>5. CASE Calling \/ Interrupted
  BY <1>5, <1>2 DEF Calling, CallsTo, Interrupted
<1>6. CASE Pops
  BY <1>6 DEF Pops, ShapeEvents, Point
<1>7. CASE stack' = stack
  BY <1>7 DEF ShapeEvents, Point
<1>. QED BY <1>3, <1>4, <1>5, <1>6, <1>7 DEF Move

\* The same of the frames that wait.
LEMMA WaitsStay ==
  ASSUME PanelTypeOK, stack # <<>>, ShapeWaits, Move
  PROVE  ShapeWaits'
<1>1. ASSUME NEW h, NEW pc, NEW e, Swaps(h, pc, e), Here.h = "poll" => h = "poll" PROVE ShapeWaits'
  BY <1>1 DEF Swaps, ShapeWaits, Point, Here
<1>2. ASSUME NEW h, NEW under, NEW pc, Stacks(h, under, pc), <<under, pc>> \in CallPoints, Here.h = "poll" => under = "poll"
      PROVE ShapeWaits'
  <2>. SUFFICES ASSUME NEW i \in 2..Len(stack')
                PROVE  <<stack'[i].h, stack'[i].pc>> \in CallPoints \/ (<<stack'[i].h, stack'[i].pc>> \in EventPoints /\ stack'[i - 1].h = "poll")
    BY DEF ShapeWaits, Point
  <2>1. i = 2 \/ i = 3 \/ i \in 4..Len(stack) + 1
    BY <1>2 DEF Stacks
  <2>2. CASE i = 2
    BY <2>2, <1>2 DEF Stacks
  <2>3. CASE i = 3
    <3>1. stack'[3] = stack[2] /\ 2 \in 2..Len(stack) /\ stack'[2].h = under
      BY <1>2, <2>3 DEF Stacks
    <3>. QED BY <3>1, <2>3, <1>2 DEF ShapeWaits, Point, Here
  <2>4. CASE i \in 4..Len(stack) + 1
    <3>1. stack'[i] = stack[i - 1] /\ i - 1 \in 2..Len(stack) /\ stack'[i - 1] = stack[i - 2]
      BY <1>2, <2>4 DEF Stacks
    <3>. QED BY <3>1 DEF ShapeWaits, Point
  <2>. QED BY <2>1, <2>2, <2>3, <2>4
<1>3. CASE Advances(FALSE) \/ Advances(TRUE)
  BY <1>3, <1>1 DEF Advances
<1>4. CASE Going
  BY <1>4, <1>1 DEF Going, GoesTo, Gotos
<1>5. CASE Calling
  <2>1. \A h : <<Here.h, Here.pc + 1, h>> \in Calls => <<Here.h, Here.pc + 1>> \in CallPoints
    BY DEF Calls, CallPoints
  <2>. QED BY <1>5, <1>2, <2>1 DEF Calling, CallsTo
<1>6. CASE Interrupted
  BY <1>6, <1>2 DEF Interrupted, CallPoints
<1>7. CASE Pops
  <2>. SUFFICES ASSUME NEW i \in 2..Len(stack')
                PROVE  <<stack'[i].h, stack'[i].pc>> \in CallPoints \/ (<<stack'[i].h, stack'[i].pc>> \in EventPoints /\ stack'[i - 1].h = "poll")
    BY DEF ShapeWaits, Point
  <2>1. stack'[i] = stack[i + 1] /\ i + 1 \in 2..Len(stack) /\ stack'[i - 1] = stack[i]
    BY <1>7 DEF Pops
  <2>. QED BY <2>1 DEF ShapeWaits, Point
<1>8. CASE stack' = stack
  BY <1>8 DEF ShapeWaits, Point
<1>. QED BY <1>3, <1>4, <1>5, <1>6, <1>7, <1>8 DEF Move

\* The same of the frames above the timer's handler.
LEMMA PollsStay ==
  ASSUME PanelTypeOK, stack # <<>>, ShapePolls, Move
  PROVE  ShapePolls'
<1>1. ASSUME NEW h, NEW pc, NEW e, Swaps(h, pc, e), Here.h \in Answering => h \in Answering PROVE ShapePolls'
  BY <1>1 DEF Swaps, ShapePolls, Here
<1>2. ASSUME NEW h, NEW under, NEW pc, Stacks(h, under, pc),
             Here.h \in Answering => h \in Answering /\ under \in Answering, under = "poll" => h \in Answering /\ Here.h = "poll"
      PROVE ShapePolls'
  <2>. SUFFICES ASSUME NEW i \in 1..Len(stack'), NEW j \in 1..Len(stack'), i < j, stack'[j].h = "poll"
                PROVE  stack'[i].h \in Answering
    BY DEF ShapePolls
  <2>0. (i = 1 \/ i = 2 \/ i \in 3..Len(stack) + 1) /\ (j = 2 \/ j \in 3..Len(stack) + 1)
    BY <1>2 DEF Stacks
  <2>1. CASE j = 2
    BY <2>0, <2>1, <1>2 DEF Stacks
  <2>2. CASE j \in 3..Len(stack) + 1
    <3>1. stack'[j] = stack[j - 1] /\ j - 1 \in 1..Len(stack) /\ 1 \in 1..Len(stack) /\ 1 < j - 1
      BY <1>2, <2>2 DEF Stacks
    <3>2. stack[1].h \in Answering
      BY <3>1 DEF ShapePolls
    <3>3. CASE i \in {1, 2}
      BY <3>2, <3>3, <1>2 DEF Stacks, Here
    <3>4. CASE i \in 3..Len(stack) + 1
      <4>1. stack'[i] = stack[i - 1] /\ i - 1 \in 1..Len(stack) /\ i - 1 < j - 1
        BY <1>2, <2>2, <3>4 DEF Stacks
      <4>. QED BY <3>1, <4>1 DEF ShapePolls
    <3>. QED BY <2>0, <3>3, <3>4
  <2>. QED BY <2>0, <2>1, <2>2
<1>3. CASE Advances(FALSE) \/ Advances(TRUE)
  BY <1>3, <1>1 DEF Advances
<1>4. CASE Going
  BY <1>4, <1>1 DEF Going, GoesTo, Gotos, Answering
<1>5. CASE Calling
  <2>1. \A h : <<Here.h, Here.pc + 1, h>> \in Calls => (Here.h \in Answering \cup {"poll"} => h \in Answering)
    BY DEF Calls, Answering
  <2>2. "poll" \notin Answering
    BY DEF Answering
  <2>. QED BY <1>5, <1>2, <2>1, <2>2 DEF Calling, CallsTo
<1>6. CASE Interrupted
  BY <1>6, <1>2 DEF Interrupted, Answering
<1>7. CASE Pops
  <2>. SUFFICES ASSUME NEW i \in 1..Len(stack'), NEW j \in 1..Len(stack'), i < j, stack'[j].h = "poll"
                PROVE  stack'[i].h \in Answering
    BY DEF ShapePolls
  <2>1. stack'[i] = stack[i + 1] /\ i + 1 \in 1..Len(stack) /\ stack'[j] = stack[j + 1] /\ j + 1 \in 1..Len(stack) /\ i + 1 < j + 1
    BY <1>7 DEF Pops
  <2>. QED BY <2>1 DEF ShapePolls
<1>8. CASE stack' = stack
  BY <1>8 DEF ShapePolls
<1>. QED BY <1>3, <1>4, <1>5, <1>6, <1>7, <1>8 DEF Move

\* The same of the frames below a handler of the user.
LEMMA BelowStays ==
  ASSUME PanelTypeOK, stack # <<>>, ShapeBelow, Move
  PROVE  ShapeBelow'
<1>. DEFINE Set == Low \cup {"loadOnly", "online"}
<1>1. ASSUME NEW h, NEW pc, NEW e, Swaps(h, pc, e), h = Here.h \/ h \notin Set PROVE ShapeBelow'
  BY <1>1 DEF Swaps, ShapeBelow, Here
<1>2. ASSUME NEW h, NEW under, NEW pc, Stacks(h, under, pc), under = Here.h \/ under \notin Set,
             h \in Set => /\ under \in Below(h) /\ Here.h \in Set /\ Below(Here.h) \subseteq Below(h)
      PROVE ShapeBelow'
  <2>. SUFFICES ASSUME NEW i \in 1..Len(stack'), NEW j \in 1..Len(stack'), i < j, stack'[i].h \in Set
                PROVE  stack'[j].h \in Below(stack'[i].h)
    BY DEF ShapeBelow
  <2>0. (i = 1 \/ i = 2 \/ i \in 3..Len(stack) + 1) /\ (j = 2 \/ j \in 3..Len(stack) + 1)
    BY <1>2 DEF Stacks
  <2>1. CASE j = 2
    BY <2>0, <2>1, <1>2 DEF Stacks
  <2>2. CASE j \in 3..Len(stack) + 1
    <3>1. stack'[j] = stack[j - 1] /\ j - 1 \in 1..Len(stack) /\ 1 \in 1..Len(stack) /\ 1 < j - 1
      BY <1>2, <2>2 DEF Stacks
    <3>2. stack[1].h \in Set => stack[j - 1].h \in Below(stack[1].h)
      BY <3>1 DEF ShapeBelow
    <3>3. CASE i = 1
      BY <3>1, <3>2, <3>3, <1>2 DEF Stacks, Here
    <3>5. CASE i = 2
      BY <3>1, <3>2, <3>5, <1>2 DEF Stacks, Here
    <3>4. CASE i \in 3..Len(stack) + 1
      <4>1. stack'[i] = stack[i - 1] /\ i - 1 \in 1..Len(stack) /\ i - 1 < j - 1
        BY <1>2, <2>2, <3>4 DEF Stacks
      <4>. QED BY <3>1, <4>1 DEF ShapeBelow
    <3>. QED BY <2>0, <3>3, <3>4, <3>5
  <2>. QED BY <2>0, <2>1, <2>2
<1>3. CASE Advances(FALSE) \/ Advances(TRUE)
  BY <1>3, <1>1 DEF Advances
<1>4. CASE Going
  BY <1>4, <1>1 DEF Going, GoesTo, Gotos, Low
<1>5. CASE Calling
  <2>1. PICK h \in DOMAIN Spots : CallsTo(h)
    BY <1>5 DEF Calling
  <2>2. <<Here.h, Here.pc + 1, h>> \in Calls /\ Stacks(h, Here.h, Here.pc + 1)
    BY <2>1 DEF CallsTo
  <2>3. h \in Set => <<Here.h, h>> \in {<<"run", "online">>, <<"run", "loadOnly">>, <<"load", "loadOnly">>, <<"loadOnly", "online">>, <<"single", "online">>}
    BY <2>2 DEF Calls, Low
  <2>4. h \in Set => Here.h \in Below(h) /\ Here.h \in Set /\ Below(Here.h) \subseteq Below(h)
    BY <2>3 DEF Below, Low
  <2>. QED BY <1>2, <2>2, <2>4
<1>6. CASE Interrupted
  BY <1>6, <1>2 DEF Interrupted, Low
<1>7. CASE Pops
  <2>. SUFFICES ASSUME NEW i \in 1..Len(stack'), NEW j \in 1..Len(stack'), i < j, stack'[i].h \in Set
                PROVE  stack'[j].h \in Below(stack'[i].h)
    BY DEF ShapeBelow
  <2>1. stack'[i] = stack[i + 1] /\ i + 1 \in 1..Len(stack) /\ stack'[j] = stack[j + 1] /\ j + 1 \in 1..Len(stack) /\ i + 1 < j + 1
    BY <1>7 DEF Pops
  <2>. QED BY <2>1 DEF ShapeBelow
<1>8. CASE stack' = stack
  BY <1>8 DEF ShapeBelow
<1>. QED BY <1>3, <1>4, <1>5, <1>6, <1>7, <1>8 DEF Move

\* What a handler does at each kind of statement.

\* The handler goes on, with or without the event loop.
Advancing == Advances(FALSE) \/ Advances(TRUE)

\* What the statements that show something change.
LEMMA ShowStep ==
  ASSUME PanelTypeOK, Statement, St[1] \in {"show", "showPressed", "box"}
  PROVE  Advancing /\ UNCHANGED <<onlineBtn, runBtn, timers, mode, core, inbox, ok>>
<1>1. stack # <<>> /\ (ShowState \/ Control)
  BY DEF Statement, ShowState, Buttons, Control, LinkUp, MakeCall, ReceiveMessages, Does, AtRest
<1>2. CASE ShowState
  BY <1>1, <1>2, Ways, Operations DEF ShowState, Does, AtRest, Advances, Advancing
<1>3. CASE Control
  BY <1>1, <1>3, Ways, Operations DEF Control, Does, AtRest, Advances, Advancing
<1>. QED BY <1>1, <1>2, <1>3

\* What the statements that set a button change.
LEMMA ButtonStep ==
  ASSUME PanelTypeOK, Statement, St[1] \in {"press", "stop", "goOnline", "goOffline"}
  PROVE  /\ UNCHANGED <<timers, mode, core, inbox, ok>>
         /\ St[1] = "press" => Advances(FALSE) /\ runBtn' = TRUE /\ onlineBtn' = onlineBtn
         /\ St[1] = "stop" => /\ runBtn' = FALSE /\ onlineBtn' = onlineBtn
                              /\ (runBtn /\ CallsTo("stop")) \/ (~runBtn /\ Advances(FALSE))
         /\ St[1] = "goOnline" => /\ onlineBtn' = TRUE /\ runBtn' = runBtn
                                  /\ (~onlineBtn /\ CallsTo("online")) \/ (onlineBtn /\ Advances(FALSE))
         /\ St[1] = "goOffline" => /\ onlineBtn' = FALSE /\ runBtn' = runBtn
                                   /\ (onlineBtn /\ CallsTo("offline")) \/ (~onlineBtn /\ Advances(FALSE))
<1>1. stack # <<>> /\ Buttons
  BY DEF Statement, ShowState, Buttons, Control, LinkUp, MakeCall, ReceiveMessages, Does, AtRest
<1>2. {"stop", "online", "offline"} \subseteq DOMAIN Spots
  BY DEF Spots
<1>3. UNCHANGED <<timers, mode, core, inbox, ok>>
  BY <1>1 DEF Buttons
<1>4. CASE St[1] = "press"
  BY <1>1, <1>3, <1>4, Ways, Operations DEF Buttons, Does, Advances
<1>5. CASE St[1] = "stop"
  BY <1>1, <1>2, <1>3, <1>5, Ways, Operations DEF Buttons, Does, Advances, CallsTo, PanelTypeOK
<1>6. CASE St[1] = "goOnline"
  BY <1>1, <1>2, <1>3, <1>6, Ways, Operations DEF Buttons, Does, Advances, CallsTo, PanelTypeOK
<1>7. CASE St[1] = "goOffline"
  BY <1>1, <1>2, <1>3, <1>7, Ways, Operations DEF Buttons, Does, Advances, CallsTo, PanelTypeOK
<1>. QED BY <1>4, <1>5, <1>6, <1>7

\* What the statements of control change.
LEMMA ControlStep ==
  ASSUME PanelTypeOK, Statement,
         St[1] \in {"do", "goto", "return", "timers", "perhaps", "unlessOnline", "unlessOk", "ifRunning", "ifPressed", "ifForked"}
  PROVE  /\ UNCHANGED <<onlineBtn, runBtn, mode, core, inbox>>
         /\ St[1] \notin {"return", "ifForked"} => ok' = ok
         /\ St[1] # "timers" => timers' = timers
         /\ St[1] = "do" => CallsTo(St[2])
         /\ St[1] = "goto" => GoesTo(St[2])
         /\ St[1] = "return" => Pops /\ ok' = (St[2] = "True")
         /\ St[1] = "timers" => Advances(FALSE) /\ timers' = (St[2] = "True")
         /\ St[1] = "perhaps" => Advances(FALSE) \/ GoesTo(St[2])
         /\ St[1] = "unlessOnline" => (onlineBtn /\ Advances(FALSE)) \/ (~onlineBtn /\ GoesTo(St[2]))
         /\ St[1] = "unlessOk" => (ok /\ Advances(FALSE)) \/ (~ok /\ GoesTo(St[2]))
         /\ St[1] = "ifRunning" => (ok /\ CallsTo(St[2])) \/ (~ok /\ Advances(FALSE))
         /\ St[1] = "ifPressed" => (runBtn /\ CallsTo(St[2])) \/ (~runBtn /\ Advances(FALSE))
         /\ St[1] = "ifForked" => \/ mode = "FORK" /\ CallsTo(St[2]) /\ ok' = ok
                                  \/ mode # "FORK" /\ Advances(FALSE) /\ ok' = TRUE
<1>1. stack # <<>> /\ Control
  BY DEF Statement, ShowState, Buttons, Control, LinkUp, MakeCall, ReceiveMessages, Does, AtRest
<1>2. (\A h : <<Here.h, h>> \in Gotos => h \in DOMAIN Spots) /\ (\A h : <<Here.h, Here.pc + 1, h>> \in Calls => h \in DOMAIN Spots)
  BY DEF Gotos, Calls, Spots
<1>3. UNCHANGED <<onlineBtn, runBtn, mode, core, inbox>>
  BY <1>1 DEF Control
<1>4. CASE St[1] \in {"do", "ifRunning", "ifPressed", "ifForked"}
  <2>1. <<Here.h, Here.pc + 1, St[2]>> \in Calls /\ St[2] \in DOMAIN Spots /\ Here.pc + 1 \in Spots[Here.h]
    BY <1>1, <1>2, <1>4, Ways
  <2>. QED BY <2>1, <1>1, <1>3, <1>4, Operations DEF Control, Does, Advances, CallsTo, PanelTypeOK
<1>5. CASE St[1] \in {"goto", "perhaps", "unlessOnline", "unlessOk"}
  <2>1. <<Here.h, St[2]>> \in Gotos /\ St[2] \in DOMAIN Spots /\ (St[1] # "goto" => Here.pc + 1 \in Spots[Here.h])
    BY <1>1, <1>2, <1>5, Ways
  <2>. QED BY <2>1, <1>1, <1>3, <1>5, Operations DEF Control, Does, Advances, GoesTo, PanelTypeOK
<1>6. CASE St[1] \in {"return", "timers"}
  BY <1>1, <1>3, <1>6, Ways, Operations DEF Control, Does, Advances
<1>. QED BY <1>4, <1>5, <1>6

\* What connecting and disconnecting change.
LEMMA LinkStep ==
  ASSUME PanelTypeOK, Statement, St[1] \in {"connect", "disconnect"}
  PROVE  /\ UNCHANGED <<onlineBtn, runBtn, timers, ok>>
         /\ St[1] = "connect" =>
              /\ inbox' = inbox
              /\ \/ mode' = mode /\ core' = core /\ ((mode # "OFFLINE" /\ Advances(FALSE)) \/ GoesTo(Except(Here.h)))
                 \/ /\ mode = "OFFLINE" /\ Advances(FALSE) /\ mode' \in {"FORK", "ONLINE"}
                    /\ core' \in {"run", "stop"} /\ (mode' = "FORK" => core' = "stop")
         /\ St[1] = "disconnect" =>
              /\ Advances(FALSE) /\ mode' = "OFFLINE" /\ inbox' = <<>> /\ core' = IF mode = "FORK" THEN "stop" ELSE core
<1>1. stack # <<>> /\ LinkUp
  BY DEF Statement, ShowState, Buttons, Control, LinkUp, MakeCall, ReceiveMessages, Does, AtRest
<1>2. \A h : <<Here.h, h>> \in Gotos => h \in DOMAIN Spots
  BY DEF Gotos, Spots
<1>3. UNCHANGED <<onlineBtn, runBtn, timers, ok>>
  BY <1>1 DEF LinkUp
<1>4. CASE St[1] = "connect"
  <2>1. <<Here.h, Except(Here.h)>> \in Gotos /\ Except(Here.h) \in DOMAIN Spots /\ Here.pc + 1 \in Spots[Here.h]
    BY <1>1, <1>2, <1>4, Ways
  <2>2. (Proceed => Advances(FALSE)) /\ (Goto(Except(Here.h)) => GoesTo(Except(Here.h)))
    BY <1>1, <2>1, Operations DEF Advances, GoesTo
  <2>. QED BY <2>2, <1>1, <1>3, <1>4, PanelAssumption DEF LinkUp, Fails, Does
<1>5. CASE St[1] = "disconnect"
  <2>1. Proceed => Advances(FALSE)
    BY <1>1, <1>5, Ways, Operations DEF Advances
  <2>. QED BY <2>1, <1>1, <1>3, <1>5 DEF LinkUp, Does
<1>. QED BY <1>4, <1>5

\* The core after a request was carried out.
Answered == CASE St[2] = "run" -> "run" [] St[2] \in {"stop", "reset"} -> "stop" [] OTHER -> core

\* What a request changes.
LEMMA CallStep ==
  ASSUME PanelTypeOK, Statement, St[1] = "call"
  PROVE  /\ UNCHANGED <<onlineBtn, runBtn, timers, mode>>
         /\ \/ mode = "OFFLINE" /\ Advances(FALSE) /\ ok' = FALSE /\ UNCHANGED <<core, inbox>>
            \/ mode # "OFFLINE" /\ inbox = <<>> /\ inbox' = inbox /\ Advances(FALSE) /\ core' = Answered /\ ok' = (core = "run")
            \/ /\ mode # "OFFLINE" /\ inbox = <<>> /\ inbox' = inbox /\ GoesTo(Except(Here.h)) /\ ok' = ok
               /\ core' = core \/ core' = Answered
            \/ /\ mode # "OFFLINE" /\ inbox # <<>> /\ inbox' = Tail(inbox) /\ UNCHANGED <<core, ok>>
               /\ GoesTo(Except(Here.h)) \/ stack' = stack \/ Interrupted
<1>1. stack # <<>> /\ MakeCall
  BY DEF Statement, ShowState, Buttons, Control, LinkUp, MakeCall, ReceiveMessages, Does, AtRest
<1>2. \A h : <<Here.h, h>> \in Gotos => h \in DOMAIN Spots
  BY DEF Gotos, Spots
<1>3. <<Here.h, Except(Here.h)>> \in Gotos /\ Except(Here.h) \in DOMAIN Spots /\ Here.pc + 1 \in Spots[Here.h]
  BY <1>1, <1>2, Ways
<1>4. (Proceed => Advances(FALSE)) /\ (Goto(Except(Here.h)) => GoesTo(Except(Here.h)))
  BY <1>1, <1>3, Operations DEF Advances, GoesTo
<1>5. ASSUME St[2] \notin {"run", "stop", "reset"},
             stack' = <<Frame(IF Head(inbox) = "SHUTDOWN" THEN "shutdown" ELSE "maintenance", 1, FALSE), Frame("no", 1, FALSE)>> \o Outer
      PROVE Interrupted
  <2>1. Here.h \in {"online", "loadOnly", "single", "upload"}
    BY <1>1, <1>5, Where DEF Top
  <2>2. {"shutdown", "maintenance"} \subseteq DOMAIN Spots
    BY DEF Spots
  <2>. QED BY <2>1, <2>2, <1>1, <1>5, Operations DEF Interrupted
<1>6. UNCHANGED <<onlineBtn, runBtn, timers, mode>>
  BY <1>1 DEF MakeCall
<1>7. CASE mode = "OFFLINE"
  BY <1>1, <1>4, <1>6, <1>7 DEF MakeCall
<1>8. CASE mode # "OFFLINE" /\ inbox = <<>>
  BY <1>1, <1>4, <1>6, <1>8 DEF MakeCall, Fails, Answered
<1>9. CASE mode # "OFFLINE" /\ inbox # <<>>
  BY <1>1, <1>4, <1>5, <1>6, <1>9 DEF MakeCall
<1>. QED BY <1>7, <1>8, <1>9

\* What receiving messages changes.
LEMMA ReceiveStep ==
  ASSUME PanelTypeOK, Statement, St[1] = "receive"
  PROVE  /\ UNCHANGED <<onlineBtn, runBtn, timers, mode, core, ok>>
         /\ \/ (mode = "OFFLINE" \/ inbox = <<>>) /\ Advances(FALSE) /\ inbox' = inbox
            \/ mode # "OFFLINE" /\ inbox # <<>> /\ inbox' = Tail(inbox) /\ (CallsTo("failed") \/ CallsTo("shutdown") \/ CallsTo("maintenance"))
<1>1. stack # <<>> /\ ReceiveMessages
  BY DEF Statement, ShowState, Buttons, Control, LinkUp, MakeCall, ReceiveMessages, Does, AtRest
<1>2. {"failed", "shutdown", "maintenance"} \subseteq DOMAIN Spots
  BY DEF Spots
<1>3. /\ Proceed => Advances(FALSE)
      /\ \A h \in {"failed", "shutdown", "maintenance"} : Call(h) => CallsTo(h)
  BY <1>1, <1>2, Ways, Operations DEF Advances, CallsTo
<1>. QED BY <1>1, <1>3 DEF ReceiveMessages

\* There are no other statements.
LEMMA StatementKinds ==
  ASSUME Statement
  PROVE  /\ stack # <<>>
         /\ St[1] \in {"show", "showPressed", "box", "press", "stop", "goOnline", "goOffline", "do", "goto", "return", "timers", "perhaps",
                       "unlessOnline", "unlessOk", "ifRunning", "ifPressed", "ifForked", "connect", "disconnect", "call", "receive"}
BY DEF Statement, ShowState, Buttons, Control, LinkUp, MakeCall, ReceiveMessages, Does, AtRest

\* A handler stands at an inner statement that is not reached by a return only because
\* it went on from the one before.
LEMMA ArrivesByAdvance ==
  ASSUME PanelTypeOK, ShapeWaits, Statement, NEW h, NEW pc, stack' # <<>>, stack'[1].h = h, stack'[1].pc = pc,
         pc # 1, <<h, pc>> \notin CallPoints \cup EventPoints
  PROVE  stack' = stack \/ (Here.h = h /\ Here.pc + 1 = pc /\ Here.pc \in Nat /\ Advancing)
<1>1. stack # <<>> /\ Move
  BY Moves
<1>2. Here.pc \in Nat
  BY <1>1, HereTyped, FirstStatement
<1>3. CASE Advancing
  BY <1>2, <1>3 DEF Advancing, Advances, Swaps
<1>4. CASE Going
  BY <1>4 DEF Going, GoesTo, Swaps
<1>5. CASE Calling \/ Interrupted
  BY <1>5 DEF Calling, CallsTo, Interrupted, Stacks
<1>6. CASE Pops
  <2>1. stack'[1] = stack[2] /\ 2 \in 2..Len(stack)
    <3>1. Len(stack') \in Nat /\ Len(stack') # 0
      BY <1>6 DEF Pops
    <3>. QED BY <3>1, <1>6 DEF Pops
  <2>. QED BY <2>1 DEF ShapeWaits, Point
<1>. QED BY <1>1, <1>3, <1>4, <1>5, <1>6 DEF Move, Advancing

\* A handler stands at its first statement because it was called or gone to.
LEMMA ArrivesAtStart ==
  ASSUME PanelTypeOK, ShapeWaits, Statement, NEW h, stack' # <<>>, stack'[1].h = h, stack'[1].pc = 1, h # "no"
  PROVE  stack' = stack \/ GoesTo(h) \/ CallsTo(h) \/ (Interrupted /\ h \in {"shutdown", "maintenance"})
<1>1. stack # <<>> /\ Move
  BY Moves
<1>2. Here.pc \in Nat \ {0}
  BY <1>1, HereTyped DEF Spots
<1>3. CASE Advancing
  BY <1>2, <1>3 DEF Advancing, Advances, Swaps
<1>4. CASE Going
  BY <1>4 DEF Going, GoesTo, Swaps
<1>5. CASE Calling \/ Interrupted
  BY <1>5 DEF Calling, CallsTo, Interrupted, Stacks
<1>6. CASE Pops
  <2>1. stack'[1] = stack[2] /\ 2 \in 2..Len(stack)
    <3>1. Len(stack') \in Nat /\ Len(stack') # 0
      BY <1>6 DEF Pops
    <3>. QED BY <3>1, <1>6 DEF Pops
  <2>. QED BY <2>1 DEF ShapeWaits, Point, CallPoints, EventPoints
<1>. QED BY <1>1, <1>3, <1>4, <1>5, <1>6 DEF Move, Advancing

\* What a statement changes.
LEMMA Effects ==
  ASSUME PanelTypeOK, Inbox, Statement
  PROVE
  /\ runBtn' # runBtn => (runBtn' /\ (Top("run", {1}) \/ Top("runOnly", {1}))) \/ (~runBtn' /\ CallsTo("stop"))
  /\ onlineBtn' # onlineBtn => (onlineBtn' /\ CallsTo("online")) \/ (~onlineBtn' /\ CallsTo("offline"))
  /\ timers' # timers => (timers' /\ Top("runOnly", {6})) \/ (~timers' /\ Top("stop", {1}))
  /\ mode' # mode => \/ Top("online", {3}) /\ mode = "OFFLINE" /\ mode' \in {"FORK", "ONLINE"} /\ (mode' = "FORK" => Quiet')
                     \/ (Top("notOnline", {1}) \/ Top("offline", {1})) /\ mode' = "OFFLINE"
  /\ Quiet /\ ~Quiet' => Top("runOnly", {2}) \/ (Top("online", {3}) /\ mode' # "FORK")
  /\ inbox # <<>> /\ inbox' # inbox => Quiet'
  /\ Inbox'
<1>1. stack # <<>>
  BY StatementKinds
<1>2. inbox # <<>> => core = "stop" /\ Tail(inbox) = <<>> /\ inbox \in Seq({"EXCEPTION", "STOP", "SHUTDOWN"})
  BY DEF Inbox, PanelTypeOK
<1>3. core' = core /\ inbox' = inbox /\ mode' = mode => Inbox'
  BY DEF Inbox
<1>4. Len(<<>>) <= 1
  OBVIOUS
<1>5. CASE St[1] \in {"show", "showPressed", "box"}
  BY <1>5, <1>3, ShowStep DEF Quiet
<1>6. CASE St[1] \in {"press", "stop", "goOnline", "goOffline"}
  <2>1. Inbox' /\ (Quiet => Quiet') /\ timers' = timers /\ mode' = mode /\ inbox' = inbox
    BY <1>3, <1>6, ButtonStep DEF Quiet
  <2>2. St[1] = "press" => runBtn' = TRUE /\ onlineBtn' = onlineBtn /\ (Top("run", {1}) \/ Top("runOnly", {1}))
    BY <1>1, ButtonStep, Where
  <2>3. runBtn \in BOOLEAN /\ onlineBtn \in BOOLEAN
    BY DEF PanelTypeOK
  <2>. QED BY <2>1, <2>2, <2>3, <1>6, ButtonStep
<1>7. CASE St[1] \in {"do", "goto", "return", "timers", "perhaps", "unlessOnline", "unlessOk", "ifRunning", "ifPressed", "ifForked"}
  BY <1>1, <1>3, <1>7, ControlStep, Where DEF Quiet
<1>8. CASE St[1] \in {"connect", "disconnect"}
  BY <1>1, <1>2, <1>4, <1>8, LinkStep, Where DEF Quiet, Inbox
<1>9. CASE St[1] = "call"
  BY <1>1, <1>2, <1>4, <1>9, CallStep, Where DEF Quiet, Inbox, Answered
<1>10. CASE St[1] = "receive"
  BY <1>1, <1>2, <1>4, <1>10, ReceiveStep, Where DEF Quiet, Inbox
<1>. QED BY <1>5, <1>6, <1>7, <1>8, <1>9, <1>10, StatementKinds

\* While a message is handled the first frame answers it.
LEMMA AbovePoll ==
  ASSUME PanelTypeOK, ShapePolls, NEW j \in 1..Len(stack), stack[j].h = "poll"
  PROVE  Here.h \in Answering \cup {"poll"}
BY DEF PanelTypeOK, ShapePolls, Here

\* The inductive invariant.  What the handlers rely on where they stand: the run button
\* is pressed, the panel is online.
ReadyRunOnly == /\ Top("runOnly", {2, 3, 5}) => runBtn
                /\ Top("runOnly", {4}) /\ ok => runBtn
                /\ Top("runOnly", {1}) => onlineBtn
ReadyRun     == /\ Top("run", {4, 6}) => onlineBtn
                /\ Top("run", {5}) /\ ok => onlineBtn
ReadyOnline  == Top("online", {6}) /\ ok => onlineBtn /\ mode # "FORK"

\* A handler that waits for an upload finds the run button pressed when that succeeds.
WaitsForUpload ==
  \A i \in 2..Len(stack) : At(i, "runOnly", {4}) =>
    stack[i - 1].h \in {"notUploaded", "no"} \/ (stack[i - 1].h = "upload" /\ i = 2 /\ runBtn)

\* A server that was spawned for a run is idle once it has been stopped for the download.
WaitsForLoad ==
  \A i \in 2..Len(stack) : At(i, "run", {5}) =>
    \/ stack[i - 1].h \in {"notLoaded", "no"}
    \/ (stack[i - 1].h = "loadOnly" /\ i = 2 /\ onlineBtn /\ mode = "FORK" /\ (stack[1].pc > 5 => Quiet))

\* A run that is about to hear of the core is still wanted, or there is nothing to hear.
Starts == \A i \in 1..Len(stack) : At(i, "runOnly", {6}) => runBtn \/ Quiet

\* The online button says whether there is a connection, but for the handlers that see
\* to it; and what those handlers start from.
LinkButton ==
  (onlineBtn <=> mode # "OFFLINE") \/ Top("online", {1, 2, 3}) \/ Top("cancelled", {1}) \/ Top("notOnline", {1, 2, 3}) \/ Top("offline", {1})
LinkTops ==
  /\ Top("online", {1, 2, 3}) \/ Top("cancelled", {1}) \/ Top("notOnline", {2, 3}) => onlineBtn /\ mode = "OFFLINE"
  /\ Top("notOnline", {1}) => onlineBtn
  /\ Top("offline", {1}) => ~onlineBtn

\* A spawned server does not run before it is told to, and no run is started twice on it.
LinkForked  == mode = "FORK" => \A i \in 1..Len(stack) : At(i, "online", {4, 5, 6}) => Quiet
LinkRunning == mode = "FORK" => \A i, j \in 1..Len(stack) : ~(i < j /\ stack[i].h = "runOnly" /\ stack[j].h \in {"online", "run"})

\* The timer's handler has a message to receive and leaves none; a stop that has just
\* begun has found the button released.
PollHeard == \A i \in 1..Len(stack) : (At(i, "poll", {1}) => inbox # <<>>) /\ (At(i, "poll", {2}) => Quiet)
PollStops == Top("stop", {1}) => ~runBtn

\* A spawned server that is not wanted any more does nothing the panel should hear of.
PollForked == timers /\ mode = "FORK" /\ (Active("run", 1..6) \/ (~runBtn /\ ~Top("stop", {1}))) => Quiet

\* A pressed run button is heard, and on line, or a handler on the stack sees to it.
Heard  == runBtn => timers \/ Active("run", 1..6) \/ Active("failed", 1..3) \/ Active("runOnly", 1..6) \/ Active("giveUp", {1})
Linked == runBtn => onlineBtn \/ Active("run", 1..3) \/ Top("offline", {1, 2}) \/ Top("giveUp", {1})

\* The inductive invariant.
PanelInv ==
  /\ PanelTypeOK /\ Inbox
  /\ ShapeEvents /\ ShapeWaits /\ ShapePolls /\ ShapeBelow
  /\ ReadyRunOnly /\ ReadyRun /\ ReadyOnline
  /\ WaitsForUpload /\ WaitsForLoad /\ Starts
  /\ LinkButton /\ LinkTops /\ LinkForked /\ LinkRunning
  /\ PollHeard /\ PollStops /\ PollForked
  /\ Heard /\ Linked

\* The ways of the stack exclude one another: their lengths and first frames.
LEMMA Lengths ==
  ASSUME PanelTypeOK, stack # <<>>
  PROVE  /\ Len(stack) \in Nat \ {0}
         /\ Advancing => Len(stack') = Len(stack) /\ stack'[1].h = Here.h /\ stack'[1].pc = Here.pc + 1
         /\ \A h : GoesTo(h) => Len(stack') = Len(stack) /\ stack'[1].h = h /\ stack'[1].pc = 1
         /\ \A h : CallsTo(h) => Len(stack') = Len(stack) + 1 /\ stack'[1].h = h
         /\ Interrupted => Len(stack') = Len(stack) + 1 /\ stack'[1].h \in {"shutdown", "maintenance"}
         /\ Pops => Len(stack') = Len(stack) - 1
         /\ stack' = stack => Len(stack') = Len(stack) /\ stack'[1].h = Here.h /\ stack'[1].pc = Here.pc
         /\ Here.pc \in Nat \ {0}
         /\ \A h : <<Here.h, h>> \in Gotos => h # Here.h
         /\ \A h : <<Here.h, Here.pc + 1, h>> \in Calls => h \in {"stop", "online", "offline", "upload", "loadOnly", "runOnly", "failed", "shutdown", "maintenance"}
<1>1. Len(stack) \in Nat \ {0}
  BY DEF PanelTypeOK
<1>2. Here.pc \in Nat \ {0}
  BY HereTyped DEF Spots
<1>3. Advancing => Len(stack') = Len(stack) /\ stack'[1].h = Here.h /\ stack'[1].pc = Here.pc + 1
  BY DEF Advancing, Advances, Swaps
<1>4. \A h : GoesTo(h) => Len(stack') = Len(stack) /\ stack'[1].h = h /\ stack'[1].pc = 1
  BY DEF GoesTo, Swaps
<1>5. \A h : CallsTo(h) => Len(stack') = Len(stack) + 1 /\ stack'[1].h = h
  BY DEF CallsTo, Stacks
<1>6. Interrupted => Len(stack') = Len(stack) + 1 /\ stack'[1].h \in {"shutdown", "maintenance"}
  BY DEF Interrupted, Stacks
<1>7. Pops => Len(stack') = Len(stack) - 1
  BY DEF Pops
<1>8. \A h : <<Here.h, h>> \in Gotos => h # Here.h
  BY DEF Gotos
<1>9. \A h : <<Here.h, Here.pc + 1, h>> \in Calls => h \in {"stop", "online", "offline", "upload", "loadOnly", "runOnly", "failed", "shutdown", "maintenance"}
  BY DEF Calls
<1>10. stack' = stack => Len(stack') = Len(stack) /\ stack'[1].h = Here.h /\ stack'[1].pc = Here.pc
  BY DEF Here
<1>. QED BY <1>1, <1>2, <1>3, <1>4, <1>5, <1>6, <1>7, <1>8, <1>9, <1>10

\* So a step is one of them only.
LEMMA Apart ==
  ASSUME PanelTypeOK, stack # <<>>
  PROVE  /\ Advancing => ~Pops /\ ~Interrupted /\ stack' # stack /\ \A h : ~GoesTo(h) /\ ~CallsTo(h)
         /\ Pops => ~Interrupted /\ stack' # stack /\ \A h : ~GoesTo(h) /\ ~CallsTo(h)
         /\ Interrupted => stack' # stack /\ \A h : ~GoesTo(h)
         /\ stack' = stack => \A h : ~GoesTo(h) /\ ~CallsTo(h)
         /\ \A h, g : GoesTo(h) => ~CallsTo(g) /\ (GoesTo(g) => g = h)
         /\ \A h, g : CallsTo(h) /\ CallsTo(g) => g = h
<1>1. \A h : GoesTo(h) => h # Here.h
  BY Lengths DEF GoesTo
<1>2. Advancing => ~Pops /\ ~Interrupted /\ stack' # stack /\ \A h : ~GoesTo(h) /\ ~CallsTo(h)
  BY <1>1, Lengths
<1>3. Pops => ~Interrupted /\ stack' # stack /\ \A h : ~GoesTo(h) /\ ~CallsTo(h)
  BY Lengths
<1>4. Interrupted => stack' # stack /\ \A h : ~GoesTo(h)
  BY Lengths
<1>5. stack' = stack => \A h : ~GoesTo(h) /\ ~CallsTo(h)
  BY <1>1, Lengths
<1>6. \A h, g : GoesTo(h) => ~CallsTo(g) /\ (GoesTo(g) => g = h)
  BY Lengths
<1>7. \A h, g : CallsTo(h) /\ CallsTo(g) => g = h
  BY Lengths
<1>. QED BY <1>2, <1>3, <1>4, <1>5, <1>6, <1>7

\* Where a handler returns True (good) and where False.
Returns(good) == 
  IF good THEN \/ Top("runOnly", {7}) \/ Top("stopped", {2}) \/ Top("online", {7}) \/ Top("offline", {4}) \/ Top("load", {4})
               \/ Top("loadOnly", {9}) \/ Top("single", {6}) \/ Top("upload", {2}) \/ Top("poll", {2})
  ELSE \/ Top("giveUp", {2}) \/ Top("cancelled", {2}) \/ Top("notOnline", {4}) \/ Top("notLoaded", {4}) \/ Top("no", {1})
       \/ Top("notUploaded", {3}) \/ Top("maintenance", {2}) \/ Top("shutdown", {4})

\* What a return changes.
LEMMA PopsWhen ==
  ASSUME PanelTypeOK, Statement, Pops
  PROVE  /\ UNCHANGED <<onlineBtn, runBtn, timers, mode, core, inbox>>
         /\ (ok' /\ Returns(TRUE)) \/ (~ok' /\ Returns(FALSE))
<1>1. stack # <<>>
  BY StatementKinds
<1>2. ~Advancing /\ ~Interrupted /\ stack' # stack /\ (\A h : ~GoesTo(h) /\ ~CallsTo(h)) /\ ~Advances(FALSE) /\ ~Advances(TRUE)
  BY <1>1, Apart DEF Advancing
<1>3. St[1] \notin {"show", "showPressed", "box"}
  BY <1>2, ShowStep
<1>4. St[1] \notin {"press", "stop", "goOnline", "goOffline"}
  BY <1>2, ButtonStep
<1>5. St[1] \notin {"connect", "disconnect"}
  BY <1>2, LinkStep
<1>6. St[1] # "call"
  BY <1>2, CallStep
<1>7. St[1] # "receive"
  BY <1>2, ReceiveStep
<1>8. St[1] \notin {"do", "goto", "timers", "perhaps", "unlessOnline", "unlessOk", "ifRunning", "ifPressed", "ifForked"}
  BY <1>2, ControlStep
<1>9. St[1] = "return"
  BY <1>3, <1>4, <1>5, <1>6, <1>7, <1>8, StatementKinds
<1>. QED BY <1>1, <1>9, ControlStep, Where DEF Returns

\* A step that leaves the stack alone drops a message while a reply is awaited.
LEMMA StaysWhen ==
  ASSUME PanelTypeOK, Inbox, Statement, stack' = stack
  PROVE  UNCHANGED <<onlineBtn, runBtn, timers, mode, core, ok>> /\ inbox' = Tail(inbox) /\ Quiet' /\ ~Top("poll", {1})
<1>1. stack # <<>>
  BY StatementKinds
<1>2. ~Advancing /\ ~Pops /\ ~Interrupted /\ (\A h : ~GoesTo(h) /\ ~CallsTo(h)) /\ ~Advances(FALSE) /\ ~Advances(TRUE)
  BY <1>1, Apart DEF Advancing
<1>3. St[1] \notin {"show", "showPressed", "box"}
  BY <1>2, ShowStep
<1>4. St[1] \notin {"press", "stop", "goOnline", "goOffline"}
  BY <1>2, ButtonStep
<1>5. St[1] \notin {"connect", "disconnect"}
  BY <1>2, LinkStep
<1>7. St[1] # "receive"
  BY <1>2, ReceiveStep
<1>8. St[1] \notin {"return", "do", "goto", "timers", "perhaps", "unlessOnline", "unlessOk", "ifRunning", "ifPressed", "ifForked"}
  BY <1>2, ControlStep
<1>9. St[1] = "call"
  BY <1>3, <1>4, <1>5, <1>7, <1>8, StatementKinds
<1>10. UNCHANGED <<onlineBtn, runBtn, timers, mode, core, ok>> /\ inbox # <<>> /\ inbox' = Tail(inbox)
  BY <1>2, <1>9, CallStep
<1>11. ~Top("poll", {1})
  BY <1>1, <1>9, PollListing DEF Top
<1>. QED BY <1>10, <1>11 DEF Quiet, Inbox, PanelTypeOK

\* What a call of each handler changes, and from where it comes.
LEMMA CallsWhen ==
  ASSUME PanelTypeOK, Inbox, Statement, NEW h, CallsTo(h)
  PROVE  /\ timers' = timers /\ mode' = mode /\ ok' = ok /\ (Quiet => Quiet')
         /\ h \notin {"online", "offline"} => onlineBtn' = onlineBtn
         /\ h # "stop" => runBtn' = runBtn
         /\ h = "stop" => ~runBtn' /\ inbox' = inbox
         /\ h = "online" => ~onlineBtn /\ onlineBtn' /\ inbox' = inbox /\ (Top("run", {2}) \/ Top("loadOnly", {1}) \/ Top("single", {1}))
         /\ h = "offline" => onlineBtn /\ ~onlineBtn' /\ inbox' = inbox
         /\ h = "upload" => Top("runOnly", {3})
         /\ h = "runOnly" => (Top("online", {6}) /\ ok) \/ (Top("load", {3}) /\ runBtn)
         /\ h = "loadOnly" => Top("load", {1}) \/ (Top("run", {4}) /\ mode = "FORK")
         /\ h \in {"failed", "shutdown", "maintenance"} => Top("poll", {1}) /\ Quiet'
<1>1. stack # <<>>
  BY StatementKinds
<1>2. ~Advancing /\ ~Pops /\ stack' # stack /\ (\A g : ~GoesTo(g) /\ (CallsTo(g) => g = h)) /\ ~Advances(FALSE) /\ ~Advances(TRUE)
  BY <1>1, Apart DEF Advancing
<1>3. St[1] \notin {"show", "showPressed", "box", "press"}
  BY <1>2, ShowStep, ButtonStep
<1>4. St[1] \notin {"connect", "disconnect"}
  BY <1>2, LinkStep
<1>5. St[1] # "call"
  <2>1. ~Interrupted \/ St[1] # "call"
    <3>1. SUFFICES ASSUME Interrupted PROVE St[1] # "call"
      OBVIOUS
    <3>2. CallsTo(h) /\ stack'[2].h = Here.h /\ Here.h # "no"
      BY <3>1 DEF CallsTo, Stacks, Interrupted
    <3>3. stack'[2].h = "no"
      BY <3>1 DEF Interrupted, Stacks
    <3>. QED BY <3>2, <3>3
  <2>. QED BY <2>1, <1>2, CallStep
<1>6. St[1] \notin {"goto", "return", "timers", "perhaps", "unlessOnline", "unlessOk"}
  BY <1>2, ControlStep
<1>7. CASE St[1] \in {"stop", "goOnline", "goOffline"}
  BY <1>1, <1>2, <1>7, ButtonStep, Where DEF Quiet
<1>8. CASE St[1] \in {"do", "ifRunning", "ifPressed", "ifForked"}
  BY <1>1, <1>2, <1>8, ControlStep, Where DEF Quiet
<1>9. CASE St[1] = "receive"
  <2>1. inbox # <<>> => core = "stop" /\ Tail(inbox) = <<>>
    BY DEF Inbox, PanelTypeOK
  <2>. QED BY <2>1, <1>1, <1>2, <1>9, ReceiveStep, Where DEF Quiet
<1>. QED BY <1>3, <1>4, <1>5, <1>6, <1>7, <1>8, <1>9, StatementKinds

\* What a change to another handler changes, and from where it comes.
LEMMA GoesWhen ==
  ASSUME PanelTypeOK, Inbox, Statement, NEW h, GoesTo(h)
  PROVE  /\ UNCHANGED <<onlineBtn, runBtn, timers, mode, ok>>
         /\ Quiet /\ ~Top("runOnly", {2}) => Quiet'
         /\ Top("run", {3}) => ~onlineBtn
         /\ h = "notOnline" => Top("online", {3}) \/ (Top("online", {5}) /\ mode # "OFFLINE")
         /\ h = "cancelled" => Top("online", {2})
         /\ h = "runOnly" => Top("run", {6})
         /\ h = "notUploaded" => Top("upload", {1})
         /\ Top("run", 1..6) => Top("run", {3, 5, 6})
         /\ Top("runOnly", 1..7) => Top("runOnly", {2, 4})
         /\ Top("failed", 1..3) => Top("failed", {3})
         /\ ~Top("giveUp", 1..2) /\ ~Top("offline", 1..4) /\ ~Top("poll", 1..2)
<1>1. stack # <<>>
  BY StatementKinds
<1>2. ~Advancing /\ ~Pops /\ ~Interrupted /\ stack' # stack /\ (\A g : ~CallsTo(g) /\ (GoesTo(g) => g = h)) /\ ~Advances(FALSE) /\ ~Advances(TRUE)
  BY <1>1, Apart DEF Advancing
<1>3. St[1] \notin {"show", "showPressed", "box", "receive"}
  BY <1>2, ShowStep, ReceiveStep
<1>4. St[1] \notin {"press", "stop", "goOnline", "goOffline"}
  BY <1>2, ButtonStep
<1>5. St[1] \notin {"do", "return", "timers", "ifRunning", "ifPressed", "ifForked", "disconnect"}
  BY <1>2, ControlStep, LinkStep
<1>6. <<Here.h, h>> \in Gotos
  BY DEF GoesTo
<1>7. CASE St[1] \in {"goto", "perhaps", "unlessOnline", "unlessOk"}
  <2>1. UNCHANGED <<onlineBtn, runBtn, timers, mode, core, inbox, ok>> /\ h = St[2] /\ (St[1] = "unlessOnline" => ~onlineBtn)
    BY <1>2, <1>7, ControlStep
  <2>2. \/ Top("run", {6}) /\ h = "runOnly"
        \/ Top("failed", {3}) \/ Top("stop", {4}) \/ Top("stopBox", {2}) \/ Top("loadOnly", {2, 3}) \/ Top("single", {2}) \/ Top("load", {2})
        \/ Top("online", {2}) /\ h = "cancelled"
        \/ Top("run", {3}) /\ ~onlineBtn
        \/ Top("run", {5}) \/ Top("runOnly", {4}) \/ Top("stop", {2})
    BY <1>1, <1>7, <2>1, Where DEF Top
  <2>3. h \in {"runOnly", "cancelled", "giveUp", "stopped", "no"} /\ (h = "runOnly" => Top("run", {6})) /\ (h = "cancelled" => Top("online", {2}))
    BY <1>1, <1>7, <2>1, Where DEF Top
  <2>4. UNCHANGED <<core, inbox>> => (Quiet => Quiet')
    BY DEF Quiet
  <2>. QED BY <2>1, <2>2, <2>3, <2>4 DEF Top
<1>8. CASE St[1] = "connect"
  <2>1. Top("online", {3}) /\ UNCHANGED <<onlineBtn, runBtn, timers, mode, core, inbox, ok>>
    BY <1>1, <1>2, <1>8, LinkStep, Where
  <2>2. h = "notOnline"
    BY <1>2, <1>8, <2>1, LinkStep DEF Top, Except
  <2>. QED BY <2>1, <2>2 DEF Quiet, Top
<1>9. CASE St[1] = "call"
  <2>1. Top("runOnly", {2}) \/ Top("stop", {3}) \/ Top("online", {5}) \/ Top("loadOnly", {5, 6, 7}) \/ Top("single", {4}) \/ Top("upload", {1})
    BY <1>1, <1>9, Where DEF Top
  <2>2. UNCHANGED <<onlineBtn, runBtn, timers, mode, ok>> /\ mode # "OFFLINE" /\ h = Except(Here.h)
    BY <1>2, <1>9, CallStep
  <2>3. Quiet /\ ~Top("runOnly", {2}) => Quiet'
    BY <1>1, <2>1, Effects DEF Top
  <2>4. (h = "runOnly" => FALSE) /\ (h = "cancelled" => FALSE) /\ (h = "notOnline" => Here.h = "online") /\ (h = "notUploaded" => Here.h = "upload")
    BY <2>2 DEF Except
  <2>. QED BY <2>1, <2>2, <2>3, <2>4 DEF Top
<1>. QED BY <1>3, <1>4, <1>5, <1>7, <1>8, <1>9, StatementKinds

\* What a message that is handled in the place of a reply changes.
LEMMA InterruptedWhen ==
  ASSUME PanelTypeOK, Inbox, Statement, Interrupted
  PROVE  /\ UNCHANGED <<onlineBtn, runBtn, timers, mode, core, ok>> /\ Quiet' /\ Here.h \in {"online", "loadOnly", "single", "upload"}
         /\ ~Top("online", {1, 2, 3})
<1>1. stack # <<>>
  BY StatementKinds
<1>2. ~Advancing /\ ~Pops /\ stack' # stack /\ (\A g : ~GoesTo(g)) /\ ~Advances(FALSE) /\ ~Advances(TRUE)
  BY <1>1, Apart DEF Advancing
<1>3. \A g : ~CallsTo(g)
  <2>1. stack'[2].h = "no" /\ Here.h # "no"
    BY DEF Interrupted, Stacks
  <2>. QED BY <2>1 DEF CallsTo, Stacks
<1>4. St[1] = "call"
  BY <1>2, <1>3, ShowStep, ButtonStep, ControlStep, LinkStep, ReceiveStep, StatementKinds
<1>5. UNCHANGED <<onlineBtn, runBtn, timers, mode, core, ok>> /\ inbox # <<>> /\ inbox' = Tail(inbox)
  BY <1>2, <1>4, CallStep
<1>6. ~Top("online", {1, 2, 3})
  BY <1>1, <1>4, OnlineListing DEF Top
<1>. QED BY <1>5, <1>6 DEF Quiet, Inbox, PanelTypeOK, Interrupted

\* What the handlers change by going on.
LEMMA AdvancesWhen ==
  ASSUME PanelTypeOK, Inbox, Statement, Advancing
  PROVE  /\ onlineBtn' = onlineBtn
         /\ Top("run", {1}) \/ Top("runOnly", {1}) => runBtn'
         /\ ~Top("run", {1}) /\ ~Top("runOnly", {1}) => runBtn' = runBtn
         /\ Top("run", {2, 3}) => onlineBtn
         /\ Top("loadOnly", {1, 2}) => onlineBtn
         /\ Top("run", {4}) => mode # "FORK"
         /\ Top("run", {5}) \/ Top("runOnly", {4}) => ok
         /\ Top("giveUp", {1}) \/ Top("offline", {2}) => ~runBtn
         /\ ~Top("run", {6}) /\ ~Top("runOnly", {3, 7}) /\ ~Top("failed", {3})
         /\ Top("cancelled", {1}) \/ Top("notOnline", {3}) => ~onlineBtn
         /\ Top("runOnly", {6}) => timers'
         /\ Top("stop", {1}) => ~timers'
         /\ Top("online", {3}) => mode' # "OFFLINE"
         /\ Top("notOnline", {1}) \/ Top("offline", {1}) => mode' = "OFFLINE"
         /\ Top("online", {5}) /\ ok' => mode # "OFFLINE" /\ core = "run"
         /\ Top("loadOnly", {5}) => mode = "OFFLINE" \/ Quiet'
         /\ Top("poll", {1}) => mode = "OFFLINE" \/ inbox = <<>>
<1>1. stack # <<>> /\ onlineBtn \in BOOLEAN /\ runBtn \in BOOLEAN
  BY StatementKinds DEF PanelTypeOK
<1>2. ~Pops /\ ~Interrupted /\ stack' # stack /\ (\A g : ~CallsTo(g) /\ ~GoesTo(g))
  BY <1>1, Apart
<1>3. St[1] \notin {"do", "goto", "return"}
  BY <1>2, ControlStep
<1>4. UNCHANGED <<onlineBtn, runBtn>> \/ (St[1] = "press" /\ onlineBtn' = onlineBtn)
  BY <1>1, <1>2, <1>3, ShowStep, ButtonStep, ControlStep, LinkStep, CallStep, ReceiveStep, StatementKinds
<1>5. Top("run", {1}) \/ Top("runOnly", {1}) => runBtn'
  <2>1. Top("run", {1}) \/ Top("runOnly", {1}) => St[1] = "press"
    BY <1>1, RunListing, RunOnlyListing DEF Top
  <2>. QED BY <2>1, ButtonStep
<1>6. ~Top("run", {1}) /\ ~Top("runOnly", {1}) => runBtn' = runBtn
  BY <1>1, <1>4, Where
<1>7. Top("run", {2, 3}) \/ Top("loadOnly", {1, 2}) => onlineBtn
  <2>1. Top("run", {2, 3}) \/ Top("loadOnly", {1, 2}) => St[1] \in {"goOnline", "unlessOnline"}
    BY <1>1, RunListing, LoadOnlyListing DEF Top
  <2>. QED BY <1>2, <2>1, ButtonStep, ControlStep
<1>8. Top("run", {4}) => mode # "FORK"
  <2>1. Top("run", {4}) => St[1] = "ifForked"
    BY <1>1, RunListing DEF Top
  <2>. QED BY <1>2, <2>1, ControlStep
<1>9. Top("run", {5}) \/ Top("runOnly", {4}) => ok
  <2>1. Top("run", {5}) \/ Top("runOnly", {4}) => St[1] = "unlessOk"
    BY <1>1, RunListing, RunOnlyListing DEF Top
  <2>. QED BY <1>2, <2>1, ControlStep
<1>10. Top("giveUp", {1}) \/ Top("offline", {2}) => ~runBtn
  <2>1. Top("giveUp", {1}) \/ Top("offline", {2}) => St[1] = "stop"
    BY <1>1, GiveUpListing, OfflineListing DEF Top
  <2>. QED BY <1>2, <2>1, ButtonStep
<1>11. ~Top("run", {6}) /\ ~Top("runOnly", {3, 7}) /\ ~Top("failed", {3})
  BY <1>1, <1>3, RunListing, RunOnlyListing, FailedListing DEF Top
<1>12. Top("cancelled", {1}) \/ Top("notOnline", {3}) => ~onlineBtn
  <2>1. Top("cancelled", {1}) \/ Top("notOnline", {3}) => St[1] = "goOffline"
    BY <1>1, CancelledListing, NotOnlineListing DEF Top
  <2>. QED BY <1>2, <2>1, ButtonStep
<1>13. (Top("runOnly", {6}) => timers') /\ (Top("stop", {1}) => ~timers')
  <2>1. (Top("runOnly", {6}) => St[1] = "timers" /\ St[2] = "True") /\ (Top("stop", {1}) => St[1] = "timers" /\ St[2] = "False")
    BY <1>1, RunOnlyListing, StopListing DEF Top
  <2>. QED BY <2>1, ControlStep
<1>14. Top("online", {3}) => mode' # "OFFLINE"
  <2>1. Top("online", {3}) => St[1] = "connect"
    BY <1>1, OnlineListing DEF Top
  <2>. QED BY <1>2, <2>1, LinkStep
<1>15. Top("notOnline", {1}) \/ Top("offline", {1}) => mode' = "OFFLINE"
  <2>1. Top("notOnline", {1}) \/ Top("offline", {1}) => St[1] = "disconnect"
    BY <1>1, OfflineListing, NotOnlineListing DEF Top
  <2>. QED BY <2>1, LinkStep
<1>16. Top("online", {5}) /\ ok' => mode # "OFFLINE" /\ core = "run"
  <2>1. Top("online", {5}) => St[1] = "call"
    BY <1>1, OnlineListing DEF Top
  <2>. QED BY <1>2, <2>1, CallStep
<1>17. Top("loadOnly", {5}) => mode = "OFFLINE" \/ Quiet'
  <2>1. Top("loadOnly", {5}) => St[1] = "call" /\ St[2] = "stop"
    BY <1>1, LoadOnlyListing DEF Top
  <2>. QED BY <1>2, <2>1, CallStep DEF Quiet, Answered
<1>18. Top("poll", {1}) => mode = "OFFLINE" \/ inbox = <<>>
  <2>1. Top("poll", {1}) => St[1] = "receive"
    BY <1>1, PollListing DEF Top
  <2>. QED BY <1>2, <2>1, ReceiveStep
<1>19. onlineBtn' = onlineBtn
  BY <1>4
<1>. QED BY <1>5, <1>6, <1>7, <1>8, <1>9, <1>10, <1>11, <1>12, <1>13, <1>14, <1>15, <1>16, <1>17, <1>18, <1>19 DEF Top

\* Every statement goes one of these ways.
LEMMA StatementWays ==
  ASSUME PanelTypeOK, Statement
  PROVE  /\ stack # <<>>
         /\ Advancing \/ (\E h : GoesTo(h)) \/ (\E h : CallsTo(h)) \/ Interrupted \/ Pops \/ stack' = stack
BY Moves DEF Move, Advancing, Going, Calling

\* A return uncovers the frame below.
LEMMA Uncovers ==
  ASSUME PanelTypeOK, Pops, stack' # <<>>
  PROVE  stack'[1] = stack[2] /\ 2 \in 2..Len(stack)
<1>1. Len(stack') \in Nat /\ Len(stack') # 0
  BY DEF Pops
<1>. QED BY <1>1 DEF Pops

\* A statement leaves the handlers what they rely on.
LEMMA ReadyStays ==
  ASSUME PanelInv, Statement
  PROVE  ReadyRunOnly' /\ ReadyRun' /\ ReadyOnline'
<1>1. stack # <<>> /\ PanelTypeOK /\ ShapeWaits /\ Inbox
  BY StatementKinds DEF PanelInv
<1>2. ASSUME Top("runOnly", {2, 3, 5})' PROVE runBtn'
  <2>1. stack' = stack \/ (Top("runOnly", {1, 2, 4}) /\ Advancing)
    <3>1. PICK pc \in {2, 3, 5} : stack' # <<>> /\ stack'[1].h = "runOnly" /\ stack'[1].pc = pc
      BY <1>2 DEF Top, Here
    <3>2. pc # 1 /\ <<"runOnly", pc>> \notin CallPoints \cup EventPoints
      BY <3>1 DEF CallPoints, EventPoints
    <3>3. stack' = stack \/ (Here.h = "runOnly" /\ Here.pc + 1 = pc /\ Here.pc \in Nat /\ Advancing)
      BY <1>1, <3>1, <3>2, ArrivesByAdvance
    <3>. QED BY <1>1, <3>3 DEF Top
  <2>. QED BY <1>1, <1>2, <2>1, StaysWhen, AdvancesWhen DEF PanelInv, ReadyRunOnly, Top, Here
<1>3. ASSUME Top("runOnly", {4})', ok' PROVE runBtn'
  <2>1. CASE Pops
    <3>1. stack'[1] = stack[2] /\ 2 \in 2..Len(stack) /\ At(2, "runOnly", {4})
      BY <1>1, <1>3, <2>1, Uncovers DEF Top, Here, At
    <3>2. stack[1].h \in {"notUploaded", "no"} \/ runBtn
      BY <3>1 DEF PanelInv, WaitsForUpload
    <3>. QED BY <1>1, <1>3, <2>1, <3>2, PopsWhen DEF Returns, Top, Here
  <2>2. CASE Advancing
    BY <1>1, <1>3, <2>2, Lengths, AdvancesWhen DEF Top, Here
  <2>3. ASSUME NEW h, GoesTo(h) \/ CallsTo(h) PROVE FALSE
    BY <1>3, <2>3 DEF Top, Here, GoesTo, CallsTo, Swaps, Stacks
  <2>4. CASE Interrupted
    BY <1>3, <2>4 DEF Top, Here, Interrupted, Stacks
  <2>5. CASE stack' = stack
    BY <1>1, <1>3, <2>5, StaysWhen DEF PanelInv, ReadyRunOnly, Top, Here
  <2>. QED BY <1>1, <2>1, <2>2, <2>3, <2>4, <2>5, StatementWays
<1>4. ASSUME Top("runOnly", {1})' PROVE onlineBtn'
  <2>1. stack' = stack \/ GoesTo("runOnly") \/ CallsTo("runOnly")
    BY <1>1, <1>4, ArrivesAtStart DEF Top, Here
  <2>2. CASE stack' = stack
    BY <1>1, <1>4, <2>2, StaysWhen DEF PanelInv, ReadyRunOnly, Top, Here
  <2>3. CASE GoesTo("runOnly")
    BY <1>1, <2>3, GoesWhen DEF PanelInv, ReadyRun, Top
  <2>4. CASE CallsTo("runOnly")
    <3>1. onlineBtn' = onlineBtn /\ ((Top("online", {6}) /\ ok) \/ (Top("load", {3}) /\ runBtn))
      BY <1>1, <2>4, CallsWhen
    <3>2. CASE Top("online", {6}) /\ ok
      BY <3>1, <3>2 DEF PanelInv, ReadyOnline
    <3>3. CASE Top("load", {3}) /\ runBtn
      <4>1. \A j \in 1..Len(stack) : j > 1 => stack[j].h \in {}
        BY <1>1, <3>3 DEF PanelInv, PanelTypeOK, ShapeBelow, Low, Below, Top, Here
      <4>2. \A j \in 1..Len(stack) : j = 1
        BY <4>1, <1>1 DEF PanelTypeOK
      <4>3. ~Active("run", 1..3)
        BY <3>3, <4>2 DEF Active, At, Top, Here
      <4>. QED BY <3>1, <3>3, <4>3 DEF PanelInv, Linked, Top
    <3>. QED BY <3>1, <3>2, <3>3
  <2>. QED BY <2>1, <2>2, <2>3, <2>4
<1>5. ASSUME Top("run", {4, 6})' PROVE onlineBtn'
  <2>1. stack' = stack \/ (Top("run", {3, 5}) /\ Advancing)
    BY <1>1, <1>5, ArrivesByAdvance DEF Top, Here, CallPoints, EventPoints
  <2>. QED BY <1>1, <1>5, <2>1, StaysWhen, AdvancesWhen DEF PanelInv, ReadyRun, Top, Here
<1>6. ASSUME Top("run", {5})', ok' PROVE onlineBtn'
  <2>1. CASE Pops
    <3>1. stack'[1] = stack[2] /\ 2 \in 2..Len(stack) /\ At(2, "run", {5})
      BY <1>1, <1>6, <2>1, Uncovers DEF Top, Here, At
    <3>2. stack[1].h \in {"notLoaded", "no"} \/ onlineBtn
      BY <3>1 DEF PanelInv, WaitsForLoad
    <3>. QED BY <1>1, <1>6, <2>1, <3>2, PopsWhen DEF Returns, Top, Here
  <2>2. CASE Advancing
    <3>1. Top("run", {4})
      BY <1>1, <1>6, <2>2, Lengths DEF Top, Here
    <3>. QED BY <1>1, <2>2, <3>1, AdvancesWhen DEF PanelInv, ReadyRun, Top
  <2>3. ASSUME NEW h, GoesTo(h) \/ CallsTo(h) PROVE FALSE
    BY <1>6, <2>3 DEF Top, Here, GoesTo, CallsTo, Swaps, Stacks
  <2>4. CASE Interrupted
    BY <1>6, <2>4 DEF Top, Here, Interrupted, Stacks
  <2>5. CASE stack' = stack
    BY <1>1, <1>6, <2>5, StaysWhen DEF PanelInv, ReadyRun, Top, Here
  <2>. QED BY <1>1, <2>1, <2>2, <2>3, <2>4, <2>5, StatementWays
<1>7. ASSUME Top("online", {6})', ok' PROVE onlineBtn' /\ mode' # "FORK"
  <2>1. stack' = stack \/ (Top("online", {5}) /\ Advancing)
    BY <1>1, <1>7, ArrivesByAdvance DEF Top, Here, CallPoints, EventPoints
  <2>2. CASE stack' = stack
    BY <1>1, <1>7, <2>2, StaysWhen DEF PanelInv, ReadyOnline, Top, Here
  <2>3. CASE Top("online", {5}) /\ Advancing
    <3>1. onlineBtn' = onlineBtn /\ mode # "OFFLINE" /\ core = "run"
      BY <1>1, <1>7, <2>3, AdvancesWhen
    <3>2. mode' = mode
      BY <1>1, <2>3, Effects DEF Top
    <3>3. mode # "FORK"
      BY <1>1, <2>3, <3>1, Lengths DEF PanelInv, LinkForked, Quiet, Top, Here, At
    <3>4. onlineBtn
      BY <2>3, <3>1 DEF PanelInv, LinkButton, Top
    <3>. QED BY <3>1, <3>2, <3>3, <3>4
  <2>. QED BY <2>1, <2>2, <2>3
<1>. QED BY <1>2, <1>3, <1>4, <1>5, <1>6, <1>7 DEF ReadyRunOnly, ReadyRun, ReadyOnline

\* Where the frames of the next stack come from.
LEMMA Origin ==
  ASSUME PanelTypeOK, Statement, NEW i \in 1..Len(stack')
  PROVE  \/ stack' = stack
         \/ \E k \in 2..Len(stack) : stack'[i] = stack[k]
         \/ i = 1 /\ stack'[1].pc # 1 /\ Advancing
         \/ i = 1 /\ stack'[1].pc = 1
         \/ i = 2 /\ \E h : CallsTo(h) /\ stack'[2].h = Here.h /\ stack'[2].pc = Here.pc + 1 /\ <<Here.h, Here.pc + 1, h>> \in Calls
         \/ i = 2 /\ stack'[2].h = "no"
<1>1. stack # <<>> /\ Len(stack) \in Nat \ {0} /\ Here.pc \in Nat \ {0}
  BY StatementKinds, Lengths
<1>2. ASSUME NEW h, NEW pc, NEW e, Swaps(h, pc, e), i # 1 PROVE \E k \in 2..Len(stack) : stack'[i] = stack[k]
  BY <1>2 DEF Swaps
<1>3. ASSUME NEW h, NEW under, NEW pc, Stacks(h, under, pc), i # 1, i # 2 PROVE \E k \in 2..Len(stack) : stack'[i] = stack[k]
  <2>1. i \in 3..Len(stack) + 1
    BY <1>3 DEF Stacks
  <2>2. stack'[i] = stack[i - 1] /\ i - 1 \in 2..Len(stack)
    BY <2>1, <1>3 DEF Stacks
  <2>. QED BY <2>2
<1>4. CASE Advancing
  BY <1>1, <1>2, <1>4 DEF Advancing, Advances, Swaps
<1>5. ASSUME NEW h, GoesTo(h) PROVE (i = 1 /\ stack'[1].pc = 1) \/ \E k \in 2..Len(stack) : stack'[i] = stack[k]
  BY <1>2, <1>5 DEF GoesTo, Swaps
<1>6. ASSUME NEW h, CallsTo(h)
      PROVE  \/ \E k \in 2..Len(stack) : stack'[i] = stack[k]
             \/ i = 1 /\ stack'[1].pc = 1
             \/ i = 2 /\ \E g : CallsTo(g) /\ stack'[2].h = Here.h /\ stack'[2].pc = Here.pc + 1 /\ <<Here.h, Here.pc + 1, g>> \in Calls
  BY <1>3, <1>6 DEF CallsTo, Stacks
<1>7. CASE Interrupted
  BY <1>3, <1>7 DEF Interrupted, Stacks
<1>8. CASE Pops
  <2>1. stack'[i] = stack[i + 1] /\ i + 1 \in 2..Len(stack)
    BY <1>8 DEF Pops
  <2>. QED BY <2>1
<1>9. CASE stack' = stack
  BY <1>9
<1>. QED BY <1>4, <1>5, <1>6, <1>7, <1>8, <1>9, StatementWays

\* A statement keeps WaitsForUpload.
LEMMA WaitsForUploadStays ==
  ASSUME PanelInv, Statement
  PROVE  WaitsForUpload'
<1>1. stack # <<>> /\ PanelTypeOK /\ Inbox /\ WaitsForUpload
  BY StatementKinds DEF PanelInv
<1>. SUFFICES ASSUME NEW i \in 2..Len(stack'), stack'[i].h = "runOnly", stack'[i].pc = 4
              PROVE  stack'[i - 1].h \in {"notUploaded", "no"} \/ (stack'[i - 1].h = "upload" /\ i = 2 /\ runBtn')
  BY DEF WaitsForUpload, At
<1>2. ASSUME NEW h, NEW pc, NEW e, Swaps(h, pc, e), h = Here.h \/ <<Here.h, h>> \in Gotos, Here.h = "upload" => runBtn' = runBtn
      PROVE  stack'[i - 1].h \in {"notUploaded", "no"} \/ (stack'[i - 1].h = "upload" /\ i = 2 /\ runBtn')
  <2>1. stack'[i] = stack[i] /\ i \in 2..Len(stack)
    BY <1>2 DEF Swaps
  <2>2. stack[i - 1].h \in {"notUploaded", "no"} \/ (stack[i - 1].h = "upload" /\ i = 2 /\ runBtn)
    BY <2>1, <1>1 DEF WaitsForUpload, At
  <2>3. CASE i = 2
    BY <2>2, <2>3, <1>2 DEF Swaps, Here, Gotos
  <2>4. CASE i # 2
    <3>1. i - 1 \in 2..Len(stack)
      BY <2>1, <2>4
    <3>. QED BY <3>1, <2>2, <2>4, <1>2 DEF Swaps
  <2>. QED BY <2>3, <2>4
<1>3. ASSUME NEW h, NEW under, NEW pc, Stacks(h, under, pc), under = "no" \/ (under = Here.h /\ Here.h \notin {"notUploaded", "no", "upload"}),
             under = "runOnly" /\ pc = 4 => h = "upload" /\ runBtn'
      PROVE  stack'[i - 1].h \in {"notUploaded", "no"} \/ (stack'[i - 1].h = "upload" /\ i = 2 /\ runBtn')
  <2>0. i = 2 \/ i = 3 \/ i \in 4..Len(stack) + 1
    BY <1>3 DEF Stacks
  <2>1. CASE i = 2
    BY <2>1, <1>3 DEF Stacks
  <2>2. CASE i = 3
    <3>1. stack'[3] = stack[2] /\ 2 \in 2..Len(stack) /\ stack'[2].h = under
      BY <1>3, <2>2 DEF Stacks
    <3>2. Here.h \in {"notUploaded", "no", "upload"}
      BY <3>1, <2>2, <1>1 DEF WaitsForUpload, At, Here
    <3>. QED BY <3>1, <3>2, <2>2, <1>3
  <2>3. CASE i \in 4..Len(stack) + 1
    <3>1. stack'[i] = stack[i - 1] /\ i - 1 \in 2..Len(stack) /\ stack'[i - 1] = stack[i - 2] /\ i - 1 # 2
      BY <1>3, <2>3 DEF Stacks
    <3>. QED BY <3>1, <1>1 DEF WaitsForUpload, At
  <2>. QED BY <2>0, <2>1, <2>2, <2>3
<1>4. CASE Advancing
  <2>1. Here.h = "upload" => runBtn' = runBtn
    BY <1>1, <1>4, AdvancesWhen DEF Top
  <2>. QED BY <1>2, <1>4, <2>1 DEF Advancing, Advances
<1>5. ASSUME NEW h, GoesTo(h) PROVE stack'[i - 1].h \in {"notUploaded", "no"} \/ (stack'[i - 1].h = "upload" /\ i = 2 /\ runBtn')
  <2>1. runBtn' = runBtn
    BY <1>1, <1>5, GoesWhen
  <2>. QED BY <1>2, <1>5, <2>1 DEF GoesTo
<1>6. ASSUME NEW h, CallsTo(h) PROVE stack'[i - 1].h \in {"notUploaded", "no"} \/ (stack'[i - 1].h = "upload" /\ i = 2 /\ runBtn')
  <2>1. Here.h \notin {"notUploaded", "no", "upload"} /\ (Here.h = "runOnly" => h = "upload")
    BY <1>6 DEF CallsTo, Calls
  <2>2. Here.h = "runOnly" => runBtn'
    BY <1>1, <1>6, <2>1, CallsWhen DEF PanelInv, ReadyRunOnly, Top
  <2>. QED BY <1>3, <1>6, <2>1, <2>2 DEF CallsTo
<1>7. CASE Interrupted
  BY <1>3, <1>7 DEF Interrupted
<1>8. CASE Pops
  <2>0. Len(stack) \in Nat /\ i \in 2..Len(stack) - 1 /\ \A k \in 1..Len(stack) - 1 : stack'[k] = stack[k + 1]
    BY <1>8 DEF Pops
  <2>1. PICK k \in 1..Len(stack) - 1 : k = i - 1 /\ k + 1 = i
    BY <2>0
  <2>2. stack'[i] = stack[i + 1] /\ stack'[k] = stack[k + 1]
    BY <2>0
  <2>3. i + 1 \in 2..Len(stack) /\ (i + 1) - 1 = i /\ i + 1 # 2
    BY <2>0
  <2>. QED BY <2>1, <2>2, <2>3, <1>1 DEF WaitsForUpload, At
<1>9. CASE stack' = stack
  BY <1>1, <1>9, StaysWhen DEF WaitsForUpload, At
<1>. QED BY <1>1, <1>4, <1>5, <1>6, <1>7, <1>8, <1>9, StatementWays

\* A statement keeps WaitsForLoad.
LEMMA WaitsForLoadStays ==
  ASSUME PanelInv, Statement
  PROVE  WaitsForLoad'
<1>. DEFINE W == stack'[1].h = "loadOnly" /\ onlineBtn' /\ mode' = "FORK" /\ (stack'[1].pc > 5 => Quiet')
            V == stack[1].h = "loadOnly" /\ onlineBtn /\ mode = "FORK" /\ (stack[1].pc > 5 => Quiet)
<1>1. stack # <<>> /\ PanelTypeOK /\ Inbox /\ WaitsForLoad
  BY StatementKinds DEF PanelInv
<1>. SUFFICES ASSUME NEW i \in 2..Len(stack'), stack'[i].h = "run", stack'[i].pc = 5
              PROVE  stack'[i - 1].h \in {"notLoaded", "no"} \/ (i = 2 /\ W)
  BY DEF WaitsForLoad, At
<1>2. ASSUME NEW h, NEW pc, NEW e, Swaps(h, pc, e), Here.h \in {"notLoaded", "no"} => h \in {"notLoaded", "no"}, V => W \/ h \in {"notLoaded", "no"}
      PROVE  stack'[i - 1].h \in {"notLoaded", "no"} \/ (i = 2 /\ W)
  <2>1. stack'[i] = stack[i] /\ i \in 2..Len(stack)
    BY <1>2 DEF Swaps
  <2>2. stack[i - 1].h \in {"notLoaded", "no"} \/ (i = 2 /\ V)
    BY <2>1, <1>1 DEF WaitsForLoad, At
  <2>. HIDE DEF V, W
  <2>3. CASE i = 2
    BY <2>2, <2>3, <1>2 DEF Swaps, Here
  <2>4. CASE i # 2
    <3>1. i - 1 \in 2..Len(stack)
      BY <2>1, <2>4
    <3>. QED BY <3>1, <2>2, <2>4, <1>2 DEF Swaps
  <2>. QED BY <2>3, <2>4
<1>3. ASSUME NEW h, NEW under, NEW pc, Stacks(h, under, pc), under = "no" \/ (under = Here.h /\ ~V),
             under = "run" /\ pc = 5 => W
      PROVE  stack'[i - 1].h \in {"notLoaded", "no"} \/ (i = 2 /\ W)
  <2>0. i = 2 \/ i = 3 \/ i \in 4..Len(stack) + 1
    BY <1>3 DEF Stacks
  <2>. HIDE DEF W
  <2>1. CASE i = 2
    BY <2>1, <1>3 DEF Stacks
  <2>2. CASE i = 3
    <3>1. stack'[3] = stack[2] /\ 2 \in 2..Len(stack) /\ stack'[2].h = under
      BY <1>3, <2>2 DEF Stacks
    <3>2. Here.h \in {"notLoaded", "no"} \/ V
      BY <3>1, <2>2, <1>1 DEF WaitsForLoad, At, Here
    <3>. QED BY <3>1, <3>2, <2>2, <1>3
  <2>3. CASE i \in 4..Len(stack) + 1
    <3>1. stack'[i] = stack[i - 1] /\ i - 1 \in 2..Len(stack) /\ stack'[i - 1] = stack[i - 2] /\ i - 1 # 2
      BY <1>3, <2>3 DEF Stacks
    <3>. QED BY <3>1, <1>1 DEF WaitsForLoad, At
  <2>. QED BY <2>0, <2>1, <2>2, <2>3
<1>a. V => mode' = mode /\ (Quiet => Quiet')
  BY <1>1, Effects DEF Top, Here
<1>4. CASE Advancing
  <2>1. stack'[1].h = Here.h /\ stack'[1].pc = Here.pc + 1 /\ Here.pc \in Nat
    BY <1>1, <1>4, Lengths
  <2>2. V => (Here.pc = 5 => Quiet')
    BY <1>1, <1>4, AdvancesWhen DEF Top, Here
  <2>3. V => W
    BY <1>1, <1>4, <1>a, <2>1, <2>2, AdvancesWhen DEF Here
  <2>. HIDE DEF V, W
  <2>. QED BY <1>2, <1>4, <2>3 DEF Advancing, Advances
<1>5. ASSUME NEW h, GoesTo(h) PROVE stack'[i - 1].h \in {"notLoaded", "no"} \/ (i = 2 /\ W)
  <2>1. <<Here.h, h>> \in Gotos /\ Swaps(h, 1, FALSE)
    BY <1>5 DEF GoesTo
  <2>2. Here.h \notin {"notLoaded", "no"} /\ (V => h \in {"notLoaded", "no"})
    BY <2>1 DEF Gotos, Here
  <2>. HIDE DEF V, W
  <2>. QED BY <1>2, <2>1, <2>2
<1>6. ASSUME NEW h, CallsTo(h) PROVE stack'[i - 1].h \in {"notLoaded", "no"} \/ (i = 2 /\ W)
  <2>1. <<Here.h, Here.pc + 1, h>> \in Calls /\ Stacks(h, Here.h, Here.pc + 1)
    BY <1>6 DEF CallsTo
  <2>2. ~V
    <3>1. stack[1].h = "loadOnly" => h = "online"
      BY <2>1 DEF Calls, Here
    <3>. QED BY <1>1, <1>6, <3>1, CallsWhen
  <2>3. Here.h = "run" /\ Here.pc + 1 = 5 => h = "loadOnly"
    BY <2>1 DEF Calls
  <2>4. Here.h = "run" /\ Here.pc + 1 = 5 => W
    <3>. SUFFICES ASSUME Here.h = "run", Here.pc + 1 = 5 PROVE W
      OBVIOUS
    <3>1. onlineBtn' = onlineBtn /\ mode' = mode /\ Top("run", {4}) /\ mode = "FORK"
      BY <1>1, <1>6, <2>3, CallsWhen DEF Top
    <3>2. onlineBtn
      BY <3>1 DEF PanelInv, ReadyRun, Top
    <3>3. stack'[1].h = "loadOnly" /\ stack'[1].pc = 1
      BY <2>1, <2>3 DEF Stacks
    <3>. QED BY <3>1, <3>2, <3>3
  <2>. HIDE DEF V, W
  <2>. QED BY <1>3, <2>1, <2>2, <2>4
<1>7. CASE Interrupted
  <2>. HIDE DEF V, W
  <2>. QED BY <1>3, <1>7 DEF Interrupted
<1>8. CASE Pops
  <2>. HIDE DEF V, W
  <2>0. i \in 2..Len(stack) - 1 /\ Len(stack) \in Nat /\ i \in 2..Len(stack) /\ i \in 1..Len(stack) - 1
    BY <1>8 DEF Pops
  <2>1. stack'[i] = stack[i + 1] /\ i + 1 \in 2..Len(stack) /\ stack'[i - 1] = stack[i] /\ i + 1 # 2
    BY <1>8, <2>0 DEF Pops
  <2>. QED BY <2>1, <1>1 DEF WaitsForLoad, At
<1>9. CASE stack' = stack
  BY <1>1, <1>9, StaysWhen DEF WaitsForLoad, At
<1>. QED BY <1>1, <1>4, <1>5, <1>6, <1>7, <1>8, <1>9, StatementWays

\* A statement keeps Starts: once nothing is to be heard, only __run changes that.
LEMMA StartsStays ==
  ASSUME PanelInv, Statement
  PROVE  Starts'
<1>1. stack # <<>> /\ PanelTypeOK /\ Inbox /\ Starts /\ Len(stack) \in Nat \ {0}
  BY StatementKinds DEF PanelInv, PanelTypeOK
<1>2. ASSUME NEW k \in 1..Len(stack), stack[k].h = "runOnly", stack[k].pc = 6 PROVE runBtn' \/ Quiet'
  <2>1. runBtn \/ Quiet
    BY <1>1, <1>2 DEF Starts, At
  <2>2. CASE k = 1
    <3>1. \A h : ~CallsTo(h)
      BY <1>2, <2>2 DEF CallsTo, Calls, Here
    <3>. QED BY <1>1, <1>2, <2>1, <2>2, <3>1, Effects DEF Top, Here, PanelTypeOK
  <2>3. CASE k # 1
    <3>1. k \in 2..Len(stack) /\ k - 1 \in 1..Len(stack)
      BY <2>3
    <3>2. stack[k - 1].h = "poll"
      <4>1. <<stack[k].h, stack[k].pc>> \in CallPoints \/ stack[k - 1].h = "poll"
        BY <3>1 DEF PanelInv, ShapeWaits, Point
      <4>. QED BY <4>1, <1>2 DEF CallPoints
    <3>3. Here.h \in Answering \cup {"poll"}
      BY <1>1, <3>1, <3>2, AbovePoll DEF PanelInv
    <3>4. Quiet => Quiet'
      BY <1>1, <3>3, Effects DEF Answering, Top
    <3>5. ASSUME runBtn, ~runBtn' PROVE Quiet
      <4>1. CallsTo("stop")
        BY <1>1, <3>5, Effects DEF PanelTypeOK
      <4>2. Here.h # "poll"
        BY <4>1 DEF CallsTo, Calls
      <4>3. k - 1 # 1
        BY <3>2, <4>2 DEF Here
      <4>4. k - 1 \in 2..Len(stack)
        BY <3>1, <4>3
      <4>5. stack[k - 1].pc = 2
        BY <3>2, <4>4 DEF PanelInv, ShapeWaits, Point, CallPoints, EventPoints
      <4>. QED BY <3>1, <3>2, <4>5 DEF PanelInv, PollHeard, At
    <3>. QED BY <2>1, <3>4, <3>5, <1>1 DEF PanelTypeOK
  <2>. QED BY <2>2, <2>3
<1>. SUFFICES ASSUME NEW i \in 1..Len(stack'), stack'[i].h = "runOnly", stack'[i].pc = 6 PROVE runBtn' \/ Quiet'
  BY DEF Starts, At
<1>3. \/ \E k \in 1..Len(stack) : stack'[i] = stack[k]
      \/ i = 1 /\ Advancing
  <2>1. stack' = stack => i \in 1..Len(stack)
    OBVIOUS
  <2>. QED BY <1>1, <2>1, Origin DEF Calls
<1>4. CASE \E k \in 1..Len(stack) : stack'[i] = stack[k]
  BY <1>2, <1>4
<1>5. CASE i = 1 /\ Advancing
  <2>1. Top("runOnly", {5})
    BY <1>1, <1>5, Lengths DEF Top
  <2>. QED BY <1>1, <1>5, <2>1, AdvancesWhen DEF PanelInv, ReadyRunOnly, Top
<1>. QED BY <1>3, <1>4, <1>5

\* A statement keeps LinkButton.
LEMMA LinkButtonStays ==
  ASSUME PanelInv, Statement
  PROVE  LinkButton'
<1>1. stack # <<>> /\ PanelTypeOK /\ Inbox /\ LinkButton /\ LinkTops
  BY StatementKinds DEF PanelInv
<1>. DEFINE X == Top("online", {1, 2, 3}) \/ Top("cancelled", {1}) \/ Top("notOnline", {1, 2, 3}) \/ Top("offline", {1})
<1>2. CASE Advancing
  <2>1. Len(stack') # 0 /\ stack'[1].h = Here.h /\ stack'[1].pc = Here.pc + 1 /\ Here.pc \in Nat /\ stack' # <<>>
    BY <1>1, <1>2, Lengths
  <2>2. onlineBtn' = onlineBtn
    BY <1>1, <1>2, AdvancesWhen
  <2>3. CASE Top("online", {3}) \/ Top("offline", {1})
    BY <1>1, <1>2, <2>2, <2>3, AdvancesWhen DEF LinkButton, LinkTops, Top
  <2>4. CASE Top("online", {1, 2}) \/ Top("notOnline", {1, 2})
    BY <2>1, <2>4 DEF LinkButton, Top, Here
  <2>5. ~Top("cancelled", {1}) /\ ~Top("notOnline", {3})
    BY <1>1, <1>2, AdvancesWhen DEF LinkTops, Top
  <2>6. CASE ~X
    BY <1>1, <2>2, <2>6, Effects DEF LinkButton, Top
  <2>. QED BY <2>3, <2>4, <2>5, <2>6 DEF Top
<1>3. ASSUME NEW h, GoesTo(h) PROVE LinkButton'
  <2>1. UNCHANGED <<onlineBtn, mode>> /\ stack' # <<>> /\ stack'[1].h = h /\ stack'[1].pc = 1 /\ <<Here.h, h>> \in Gotos
    BY <1>1, <1>3, GoesWhen DEF GoesTo, Swaps
  <2>2. X => h \in {"cancelled", "notOnline"}
    BY <2>1 DEF Top, Gotos
  <2>. QED BY <1>1, <2>1, <2>2 DEF LinkButton, Top, Here
<1>4. ASSUME NEW h, CallsTo(h) PROVE LinkButton'
  <2>1. stack' # <<>> /\ stack'[1].h = h /\ stack'[1].pc = 1 /\ <<Here.h, Here.pc + 1, h>> \in Calls
    BY <1>4 DEF CallsTo, Stacks
  <2>2. CASE h \in {"online", "offline"}
    BY <2>1, <2>2 DEF LinkButton, Top, Here
  <2>3. CASE h \notin {"online", "offline"}
    <3>1. UNCHANGED <<onlineBtn, mode>>
      BY <1>1, <1>4, <2>3, CallsWhen
    <3>2. ~X
      BY <2>1, <2>3 DEF Top, Calls
    <3>. QED BY <1>1, <3>1, <3>2 DEF LinkButton
  <2>. QED BY <2>2, <2>3
<1>5. CASE Interrupted
  BY <1>1, <1>5, InterruptedWhen DEF LinkButton, Top
<1>6. CASE Pops
  BY <1>1, <1>6, PopsWhen DEF LinkButton, Returns, Top
<1>7. CASE stack' = stack
  BY <1>1, <1>7, StaysWhen DEF LinkButton, Top, Here
<1>. QED BY <1>1, <1>2, <1>3, <1>4, <1>5, <1>6, <1>7, StatementWays

\* A statement keeps LinkTops.
LEMMA LinkTopsStay ==
  ASSUME PanelInv, Statement
  PROVE  LinkTops'
<1>1. stack # <<>> /\ PanelTypeOK /\ Inbox /\ LinkButton /\ LinkTops /\ ShapeWaits
  BY StatementKinds DEF PanelInv
<1>2. ASSUME Top("online", {1})' PROVE onlineBtn' /\ mode' = "OFFLINE"
  <2>1. stack' = stack \/ GoesTo("online") \/ CallsTo("online")
    BY <1>1, <1>2, ArrivesAtStart DEF Top, Here
  <2>2. ~GoesTo("online")
    BY DEF GoesTo, Gotos
  <2>3. CASE CallsTo("online")
    BY <1>1, <2>3, CallsWhen DEF LinkButton, Top
  <2>4. CASE stack' = stack
    BY <1>1, <1>2, <2>4, StaysWhen DEF LinkTops, Top, Here
  <2>. QED BY <2>1, <2>2, <2>3, <2>4
<1>3. ASSUME Top("online", {2, 3})' PROVE onlineBtn' /\ mode' = "OFFLINE"
  <2>1. stack' = stack \/ (Top("online", {1, 2}) /\ Advancing)
    BY <1>1, <1>3, ArrivesByAdvance DEF Top, Here, CallPoints, EventPoints
  <2>2. CASE stack' = stack
    BY <1>1, <1>3, <2>2, StaysWhen DEF LinkTops, Top, Here
  <2>3. CASE Top("online", {1, 2}) /\ Advancing
    BY <1>1, <2>3, AdvancesWhen, Effects DEF LinkTops, Top
  <2>. QED BY <2>1, <2>2, <2>3
<1>4. ASSUME Top("cancelled", {1})' PROVE onlineBtn' /\ mode' = "OFFLINE"
  <2>1. stack' = stack \/ GoesTo("cancelled") \/ CallsTo("cancelled")
    BY <1>1, <1>4, ArrivesAtStart DEF Top, Here
  <2>2. ~CallsTo("cancelled")
    BY DEF CallsTo, Calls
  <2>3. CASE GoesTo("cancelled")
    BY <1>1, <2>3, GoesWhen DEF LinkTops, Top
  <2>4. CASE stack' = stack
    BY <1>1, <1>4, <2>4, StaysWhen DEF LinkTops, Top, Here
  <2>. QED BY <2>1, <2>2, <2>3, <2>4
<1>5. ASSUME Top("notOnline", {2, 3})' PROVE onlineBtn' /\ mode' = "OFFLINE"
  <2>1. stack' = stack \/ (Top("notOnline", {1, 2}) /\ Advancing)
    BY <1>1, <1>5, ArrivesByAdvance DEF Top, Here, CallPoints, EventPoints
  <2>2. CASE stack' = stack
    BY <1>1, <1>5, <2>2, StaysWhen DEF LinkTops, Top, Here
  <2>3. CASE Top("notOnline", {1, 2}) /\ Advancing
    BY <1>1, <2>3, AdvancesWhen, Effects DEF LinkTops, Top
  <2>. QED BY <2>1, <2>2, <2>3
<1>6. ASSUME Top("notOnline", {1})' PROVE onlineBtn'
  <2>1. stack' = stack \/ GoesTo("notOnline") \/ CallsTo("notOnline")
    BY <1>1, <1>6, ArrivesAtStart DEF Top, Here
  <2>2. ~CallsTo("notOnline")
    BY DEF CallsTo, Calls
  <2>3. CASE GoesTo("notOnline")
    BY <1>1, <2>3, GoesWhen DEF LinkTops, LinkButton, Top
  <2>4. CASE stack' = stack
    BY <1>1, <1>6, <2>4, StaysWhen DEF LinkTops, Top, Here
  <2>. QED BY <2>1, <2>2, <2>3, <2>4
<1>7. ASSUME Top("offline", {1})' PROVE ~onlineBtn'
  <2>1. stack' = stack \/ GoesTo("offline") \/ CallsTo("offline")
    BY <1>1, <1>7, ArrivesAtStart DEF Top, Here
  <2>2. ~GoesTo("offline")
    BY DEF GoesTo, Gotos
  <2>3. CASE CallsTo("offline")
    BY <1>1, <2>3, CallsWhen
  <2>4. CASE stack' = stack
    BY <1>1, <1>7, <2>4, StaysWhen DEF LinkTops, Top, Here
  <2>. QED BY <2>1, <2>2, <2>3, <2>4
<1>8. Top("online", {1, 2, 3})' => Top("online", {1})' \/ Top("online", {2, 3})'
  BY DEF Top
<1>. QED BY <1>2, <1>3, <1>4, <1>5, <1>6, <1>7, <1>8 DEF LinkTops

\* What a timer interrupted is not disturbed: silence stays.
LEMMA QuietBelow ==
  ASSUME PanelInv, Statement, Quiet, NEW k \in 2..Len(stack), <<stack[k].h, stack[k].pc>> \notin CallPoints
  PROVE  Quiet'
<1>1. stack # <<>> /\ PanelTypeOK /\ Inbox
  BY StatementKinds DEF PanelInv
<1>2. k - 1 \in 1..Len(stack) /\ stack[k - 1].h = "poll"
  BY DEF PanelInv, ShapeWaits, Point
<1>3. Here.h \in Answering \cup {"poll"}
  BY <1>1, <1>2, AbovePoll DEF PanelInv
<1>. QED BY <1>1, <1>3, Effects DEF Answering, Top

\* A statement keeps LinkForked.
LEMMA LinkForkedStays ==
  ASSUME PanelInv, Statement
  PROVE  LinkForked'
<1>1. stack # <<>> /\ PanelTypeOK /\ Inbox /\ LinkForked /\ LinkTops
  BY StatementKinds DEF PanelInv
<1>. SUFFICES ASSUME mode' = "FORK", NEW i \in 1..Len(stack'), stack'[i].h = "online", stack'[i].pc \in {4, 5, 6} PROVE Quiet'
  BY DEF LinkForked, At
<1>2. CASE mode # "FORK"
  BY <1>1, <1>2, Effects
<1>3. CASE mode = "FORK"
  <2>1. \/ stack' = stack
        \/ \E k \in 2..Len(stack) : stack'[i] = stack[k]
        \/ i = 1 /\ Advancing
    BY <1>1, Origin DEF Calls
  <2>2. CASE stack' = stack
    BY <1>1, <2>2, StaysWhen
  <2>3. CASE \E k \in 2..Len(stack) : stack'[i] = stack[k]
    <3>1. PICK k \in 2..Len(stack) : stack'[i] = stack[k]
      BY <2>3
    <3>2. Quiet /\ <<stack[k].h, stack[k].pc>> \notin CallPoints
      BY <1>1, <1>3, <3>1 DEF LinkForked, At, CallPoints
    <3>. QED BY <3>2, QuietBelow
  <2>4. CASE i = 1 /\ Advancing
    <3>1. Top("online", {3, 4, 5})
      BY <1>1, <2>4, Lengths DEF Top
    <3>2. ~Top("online", {3})
      BY <1>1, <1>3 DEF LinkTops, Top
    <3>3. Quiet
      BY <1>1, <1>3, <3>1, <3>2, Lengths DEF LinkForked, At, Top, Here
    <3>. QED BY <1>1, <3>1, <3>2, <3>3, Effects DEF Top
  <2>. QED BY <2>1, <2>2, <2>3, <2>4
<1>. QED BY <1>2, <1>3

\* A statement keeps LinkRunning.
LEMMA LinkRunningStays ==
  ASSUME PanelInv, Statement
  PROVE  LinkRunning'
<1>1. stack # <<>> /\ PanelTypeOK /\ Inbox /\ LinkRunning /\ LinkTops /\ ShapeBelow /\ Len(stack) \in Nat \ {0}
  BY StatementKinds DEF PanelInv, PanelTypeOK
<1>. SUFFICES ASSUME mode' = "FORK", NEW i \in 1..Len(stack'), NEW j \in 1..Len(stack'), i < j,
                     stack'[i].h = "runOnly", stack'[j].h \in {"online", "run"}
              PROVE  FALSE
  BY DEF LinkRunning
\* Below a frame nothing changes but its position.
<1>2. ASSUME NEW k \in 1..Len(stack), NEW m \in 1..Len(stack), k < m, stack[k].h = "runOnly", stack[m].h \in {"online", "run"} PROVE FALSE
  <2>1. mode # "FORK"
    BY <1>1, <1>2 DEF LinkRunning
  <2>2. Top("online", {3})
    BY <1>1, <2>1, Effects
  <2>3. k # 1
    BY <1>2, <2>2 DEF Top, Here
  <2>. QED BY <1>1, <1>2, <2>2, <2>3 DEF ShapeBelow, Low, Below, Top, Here
<1>3. CASE Advancing
  <2>1. \A k \in 1..Len(stack) : stack'[k].h = stack[k].h
    BY <1>1, <1>3 DEF Advancing, Advances, Swaps, Here
  <2>2. Len(stack') = Len(stack)
    BY <1>1, <1>3, Lengths
  <2>. QED BY <1>2, <2>1, <2>2
<1>4. ASSUME NEW h, GoesTo(h) PROVE FALSE
  <2>1. Len(stack') = Len(stack) /\ (\A k \in 2..Len(stack) : stack'[k] = stack[k]) /\ stack'[1].h = h
    BY <1>4 DEF GoesTo, Swaps
  <2>2. CASE i = 1
    <3>1. Top("run", {6})
      BY <1>1, <1>4, <2>1, <2>2, GoesWhen
    <3>2. stack[j].h \in {}
      BY <1>1, <2>1, <2>2, <3>1 DEF ShapeBelow, Low, Below, Top, Here
    <3>. QED BY <3>2
  <2>3. CASE i # 1
    BY <1>2, <2>1, <2>3
  <2>. QED BY <2>2, <2>3
<1>5. ASSUME NEW h, CallsTo(h) PROVE FALSE
  <2>1. /\ Len(stack') = Len(stack) + 1 /\ stack'[1].h = h /\ stack'[2].h = stack[1].h
        /\ \A k \in 3..Len(stack) + 1 : stack'[k] = stack[k - 1]
    BY <1>5 DEF CallsTo, Stacks, Here
  <2>2. \A k \in 2..Len(stack) + 1 : stack'[k].h = stack[k - 1].h
    <3>. TAKE k \in 2..Len(stack) + 1
    <3>1. k = 2 \/ k \in 3..Len(stack) + 1
      BY <1>1
    <3>. QED BY <2>1, <3>1
  <2>3. CASE i = 1
    <3>1. mode' = mode /\ ((Top("online", {6}) /\ ok) \/ Top("load", {3}))
      BY <1>1, <1>5, <2>1, <2>3, CallsWhen
    <3>2. Top("load", {3})
      BY <3>1 DEF PanelInv, ReadyOnline
    <3>3. j \in 2..Len(stack) + 1 /\ j - 1 \in 1..Len(stack) /\ stack'[j].h = stack[j - 1].h
      BY <1>1, <2>1, <2>2, <2>3
    <3>4. j - 1 # 1
      BY <3>2, <3>3 DEF Top, Here
    <3>5. stack[j - 1].h \in {}
      BY <1>1, <3>2, <3>3, <3>4 DEF ShapeBelow, Low, Below, Top, Here
    <3>. QED BY <3>5
  <2>4. CASE i # 1
    <3>1. i - 1 \in 1..Len(stack) /\ j - 1 \in 1..Len(stack) /\ i - 1 < j - 1 /\ i \in 2..Len(stack) + 1 /\ j \in 2..Len(stack) + 1
      BY <1>1, <2>1, <2>4
    <3>. QED BY <1>2, <2>2, <3>1
  <2>. QED BY <2>3, <2>4
<1>6. CASE Interrupted
  <2>1. /\ Len(stack') = Len(stack) + 1 /\ stack'[1].h \in {"shutdown", "maintenance"} /\ stack'[2].h = "no"
        /\ \A k \in 3..Len(stack) + 1 : stack'[k] = stack[k - 1]
    BY <1>6 DEF Interrupted, Stacks
  <2>2. i # 1 /\ i # 2
    BY <2>1
  <2>3. i \in 3..Len(stack) + 1 /\ j \in 3..Len(stack) + 1
    BY <1>1, <2>1, <2>2
  <2>4. i - 1 \in 1..Len(stack) /\ j - 1 \in 1..Len(stack) /\ i - 1 < j - 1
    BY <1>1, <2>3
  <2>. QED BY <1>2, <2>1, <2>3, <2>4
<1>7. CASE Pops
  <2>1. stack'[i] = stack[i + 1] /\ i + 1 \in 1..Len(stack) /\ stack'[j] = stack[j + 1] /\ j + 1 \in 1..Len(stack) /\ i + 1 < j + 1
    BY <1>7 DEF Pops
  <2>. QED BY <1>2, <2>1
<1>8. CASE stack' = stack
  BY <1>2, <1>8
<1>. QED BY <1>1, <1>3, <1>4, <1>5, <1>6, <1>7, <1>8, StatementWays

\* A statement keeps PollHeard and PollStops.
LEMMA PollHeardStays ==
  ASSUME PanelInv, Statement
  PROVE  PollHeard' /\ PollStops'
<1>1. stack # <<>> /\ PanelTypeOK /\ Inbox /\ PollHeard /\ ShapeWaits /\ Len(stack) \in Nat \ {0}
  BY StatementKinds DEF PanelInv, PanelTypeOK
<1>2. ASSUME NEW i \in 1..Len(stack'), stack'[i].h = "poll", stack'[i].pc \in {1, 2} PROVE stack'[i].pc = 2 /\ Quiet'
  <2>1. ASSUME NEW k \in 2..Len(stack), stack[k].h = "poll", stack[k].pc \in {1, 2} PROVE stack[k].pc = 2 /\ Quiet'
    <3>1. stack[k].pc = 2
      BY <1>1, <2>1 DEF ShapeWaits, Point, CallPoints, EventPoints
    <3>2. Quiet
      BY <1>1, <2>1, <3>1 DEF PollHeard, At
    <3>3. Here.h \in Answering \cup {"poll"}
      BY <1>1, <2>1, AbovePoll DEF PanelInv
    <3>. QED BY <1>1, <3>1, <3>2, <3>3, Effects DEF Answering, Top
  <2>2. CASE stack' = stack
    <3>1. i = 1 => stack'[i].pc = 2
      BY <1>1, <1>2, <2>2, StaysWhen DEF Top, Here
    <3>. QED BY <1>1, <1>2, <2>1, <2>2, <3>1, StaysWhen
  <2>3. CASE \E k \in 2..Len(stack) : stack'[i] = stack[k]
    BY <1>2, <2>1, <2>3
  <2>4. CASE i = 1 /\ Advancing /\ stack'[1].pc # 1
    <3>1. Top("poll", {1}) /\ stack[1].h = "poll" /\ stack[1].pc = 1
      BY <1>1, <1>2, <2>4, Lengths DEF Top, Here
    <3>2. inbox # <<>> /\ mode # "OFFLINE"
      BY <1>1, <3>1 DEF PollHeard, At, Inbox
    <3>. QED BY <1>1, <2>4, <3>1, <3>2, AdvancesWhen
  <2>5. CASE i = 1 /\ stack'[1].pc = 1
    <3>1. stack' # <<>>
      BY <1>2
    <3>2. stack' = stack \/ GoesTo("poll") \/ CallsTo("poll")
      BY <1>1, <1>2, <2>5, <3>1, ArrivesAtStart
    <3>. QED BY <2>2, <3>2 DEF GoesTo, CallsTo, Gotos, Calls
  <2>6. ASSUME i = 2, NEW h, CallsTo(h), stack'[2].h = Here.h, stack'[2].pc = Here.pc + 1, <<Here.h, Here.pc + 1, h>> \in Calls
        PROVE stack'[i].pc = 2 /\ Quiet'
    <3>1. h \in {"failed", "shutdown", "maintenance"} /\ stack'[i].pc = 2
      BY <1>2, <2>6 DEF Calls
    <3>. QED BY <1>1, <2>6, <3>1, CallsWhen
  <2>. QED BY <1>1, <1>2, <2>2, <2>3, <2>4, <2>5, <2>6, Origin
<1>3. PollHeard'
  BY <1>2 DEF PollHeard, At
<1>4. ASSUME Top("stop", {1})' PROVE ~runBtn'
  <2>1. stack' = stack \/ GoesTo("stop") \/ CallsTo("stop")
    BY <1>1, <1>4, ArrivesAtStart DEF Top, Here
  <2>2. ~GoesTo("stop")
    BY DEF GoesTo, Gotos
  <2>3. CASE CallsTo("stop")
    BY <1>1, <2>3, CallsWhen
  <2>4. CASE stack' = stack
    BY <1>1, <1>4, <2>4, StaysWhen DEF PanelInv, PollStops, Top, Here
  <2>. QED BY <2>1, <2>2, <2>3, <2>4
<1>. QED BY <1>3, <1>4 DEF PollStops

\* No statement starts __run: only the user does.
LEMMA RunWasThere ==
  ASSUME PanelInv, Statement, Active("run", 1..6)'
  PROVE  Active("run", 1..6)
<1>1. stack # <<>> /\ PanelTypeOK /\ Inbox /\ Len(stack) \in Nat \ {0} /\ Here.pc \in Nat \ {0} /\ 1 \in 1..Len(stack)
  BY StatementKinds, Lengths, HereTyped DEF PanelInv
<1>2. PICK i \in 1..Len(stack') : stack'[i].h = "run" /\ stack'[i].pc \in 1..6
  BY DEF Active, At
<1>3. CASE stack' = stack
  BY <1>3 DEF Active, At
<1>4. CASE \E k \in 2..Len(stack) : stack'[i] = stack[k]
  BY <1>2, <1>4 DEF Active, At
<1>5. Here.h = "run" => Active("run", 1..6)
  <2>1. Here.h = "run" => Here.pc \in 1..6
    BY <1>1, HereTyped DEF Spots
  <2>. QED BY <1>1, <2>1 DEF Active, At, Here
<1>6. CASE i = 1 /\ Advancing
  BY <1>1, <1>2, <1>5, <1>6, Lengths
<1>7. CASE i = 1 /\ stack'[1].pc = 1
  <2>1. stack' # <<>>
    BY <1>2
  <2>2. stack' = stack \/ GoesTo("run") \/ CallsTo("run")
    BY <1>1, <1>2, <1>7, <2>1, ArrivesAtStart DEF PanelInv
  <2>. QED BY <1>3, <2>2 DEF GoesTo, CallsTo, Gotos, Calls
<1>. QED BY <1>1, <1>2, <1>3, <1>4, <1>5, <1>6, <1>7, Origin

\* A statement keeps PollForked.
LEMMA PollForkedStays ==
  ASSUME PanelInv, Statement
  PROVE  PollForked'
<1>1. /\ stack # <<>> /\ PanelTypeOK /\ Inbox /\ PollForked /\ LinkRunning /\ 1 \in 1..Len(stack)
      /\ runBtn \in BOOLEAN
  BY StatementKinds, HereTyped DEF PanelInv, PanelTypeOK
<1>. SUFFICES ASSUME timers', mode' = "FORK", Active("run", 1..6)' \/ (~runBtn' /\ ~Top("stop", {1})'), ~Quiet' PROVE FALSE
  BY DEF PollForked
<1>2. mode = "FORK"
  BY <1>1, Effects
<1>3. Top("runOnly", 1..7) => ~Active("run", 1..6)
  <2>1. SUFFICES ASSUME Top("runOnly", 1..7), NEW k \in 1..Len(stack), stack[k].h = "run" PROVE FALSE
    BY DEF Active, At
  <2>2. k # 1
    BY <2>1 DEF Top, Here
  <2>. QED BY <1>1, <1>2, <2>1, <2>2 DEF LinkRunning, Top, Here
<1>4. timers
  <2>. SUFFICES ASSUME ~timers PROVE FALSE
    OBVIOUS
  <2>1. Top("runOnly", {6})
    BY <1>1, Effects
  <2>2. runBtn \/ Quiet
    BY <1>1, <2>1 DEF PanelInv, Starts, At, Top, Here
  <2>3. ~Quiet
    BY <1>1, <2>1, Effects DEF Top
  <2>4. runBtn'
    <3>1. ~CallsTo("stop")
      BY <2>1 DEF Top, CallsTo, Calls
    <3>. QED BY <1>1, <2>2, <2>3, <3>1, Effects
  <2>. QED BY <1>3, <2>1, <2>4, RunWasThere DEF Top
<1>5. Active("run", 1..6) \/ (~runBtn /\ ~Top("stop", {1}))
  <2>1. SUFFICES ASSUME ~runBtn', ~Top("stop", {1})' PROVE ~runBtn /\ ~Top("stop", {1})
    BY RunWasThere
  <2>2. ~CallsTo("stop")
    BY <2>1 DEF CallsTo, Stacks, Top, Here
  <2>3. ~runBtn
    BY <1>1, <2>1, <2>2, Effects
  <2>4. ASSUME Top("stop", {1}) PROVE FALSE
    <3>1. St[1] = "timers" /\ St[2] = "False"
      BY <1>1, <2>4, StopListing DEF Top
    <3>. QED BY <1>1, <3>1, ControlStep
  <2>. QED BY <2>3, <2>4
<1>6. Quiet
  BY <1>1, <1>2, <1>4, <1>5 DEF PollForked
<1>7. Top("runOnly", {2})
  BY <1>1, <1>6, Effects
<1>8. runBtn
  BY <1>7 DEF PanelInv, ReadyRunOnly, Top
<1>. QED BY <1>3, <1>5, <1>7, <1>8 DEF Top

\* What is below the first frame stays.
LEMMA RestStays ==
  ASSUME PanelTypeOK, Statement, NEW k \in 2..Len(stack)
  PROVE  \E i \in 1..Len(stack') : stack'[i] = stack[k]
<1>1. stack # <<>> /\ Len(stack) \in Nat \ {0}
  BY StatementKinds, Lengths
<1>2. ASSUME NEW h, NEW pc, NEW e, Swaps(h, pc, e) PROVE \E i \in 1..Len(stack') : stack'[i] = stack[k]
  BY <1>1, <1>2 DEF Swaps
<1>3. ASSUME NEW h, NEW under, NEW pc, Stacks(h, under, pc) PROVE \E i \in 1..Len(stack') : stack'[i] = stack[k]
  <2>1. stack'[k + 1] = stack[k] /\ k + 1 \in 1..Len(stack')
    BY <1>1, <1>3 DEF Stacks
  <2>. QED BY <2>1
<1>4. CASE Pops
  <2>1. stack'[k - 1] = stack[k] /\ k - 1 \in 1..Len(stack')
    BY <1>1, <1>4 DEF Pops
  <2>. QED BY <2>1
<1>5. CASE stack' = stack
  BY <1>5
<1>. QED BY <1>2, <1>3, <1>4, <1>5, StatementWays DEF Advancing, Advances, GoesTo, CallsTo, Interrupted

\* So a handler that is active stays so unless it is the first one.
LEMMA ActiveStays ==
  ASSUME PanelTypeOK, Statement, NEW h, NEW pcs, Active(h, pcs), ~Top(h, pcs)
  PROVE  \E i \in 1..Len(stack') : stack'[i].h = h /\ stack'[i].pc \in pcs
<1>1. PICK k \in 1..Len(stack) : stack[k].h = h /\ stack[k].pc \in pcs
  BY DEF Active, At
<1>2. k # 1
  BY <1>1, StatementKinds DEF Top, Here
<1>. QED BY <1>1, <1>2, RestStays

\* The first frames of the next stack.
LEMMA Heads ==
  ASSUME PanelTypeOK, Statement
  PROVE  /\ Advancing => stack' # <<>> /\ 1 \in 1..Len(stack') /\ stack'[1].h = Here.h /\ stack'[1].pc = Here.pc + 1
         /\ \A h : GoesTo(h) => stack' # <<>> /\ 1 \in 1..Len(stack') /\ stack'[1].h = h /\ stack'[1].pc = 1
         /\ \A h : CallsTo(h) => /\ stack' # <<>> /\ 1 \in 1..Len(stack') /\ stack'[1].h = h /\ stack'[1].pc = 1
                                 /\ 2 \in 1..Len(stack') /\ stack'[2].h = Here.h /\ stack'[2].pc = Here.pc + 1
         /\ stack' = stack => stack' # <<>> /\ 1 \in 1..Len(stack') /\ stack'[1].h = Here.h /\ stack'[1].pc = Here.pc
<1>1. stack # <<>> /\ Len(stack) \in Nat \ {0}
  BY StatementKinds, Lengths
<1>2. Advancing => stack' # <<>> /\ 1 \in 1..Len(stack') /\ stack'[1].h = Here.h /\ stack'[1].pc = Here.pc + 1
  BY <1>1 DEF Advancing, Advances, Swaps
<1>3. \A h : GoesTo(h) => stack' # <<>> /\ 1 \in 1..Len(stack') /\ stack'[1].h = h /\ stack'[1].pc = 1
  BY <1>1 DEF GoesTo, Swaps
<1>4. \A h : CallsTo(h) => /\ stack' # <<>> /\ 1 \in 1..Len(stack') /\ stack'[1].h = h /\ stack'[1].pc = 1
                           /\ 2 \in 1..Len(stack') /\ stack'[2].h = Here.h /\ stack'[2].pc = Here.pc + 1
  BY <1>1 DEF CallsTo, Stacks
<1>5. stack' = stack => stack' # <<>> /\ 1 \in 1..Len(stack') /\ stack'[1].h = Here.h /\ stack'[1].pc = Here.pc
  BY <1>1 DEF Here
<1>. QED BY <1>2, <1>3, <1>4, <1>5

\* The handlers that see to the run button do not return before they have done so.
LEMMA NoReturn ==
  ASSUME PanelTypeOK, Inbox, Statement, Pops \/ Interrupted
  PROVE  ~Top("run", 1..6) /\ ~Top("failed", 1..3) /\ ~Top("runOnly", 1..6) /\ ~Top("giveUp", {1}) /\ ~Top("offline", {1, 2})
<1>1. CASE Pops
  <2>1. Returns(TRUE) \/ Returns(FALSE)
    BY <1>1, PopsWhen
  <2>2. Here.h \in {"run", "failed"} => FALSE
    BY <2>1 DEF Returns, Top
  <2>3. (Here.h = "runOnly" => Here.pc = 7) /\ (Here.h = "giveUp" => Here.pc = 2) /\ (Here.h = "offline" => Here.pc = 4)
    BY <2>1 DEF Returns, Top
  <2>. QED BY <2>2, <2>3 DEF Top
<1>2. CASE Interrupted
  BY <1>2 DEF Interrupted, Top
<1>. QED BY <1>1, <1>2

\* A statement keeps Heard.
LEMMA HeardStays ==
  ASSUME PanelInv, Statement
  PROVE  Heard'
<1>1. stack # <<>> /\ PanelTypeOK /\ Inbox /\ Heard /\ runBtn \in BOOLEAN /\ Here.pc \in Nat \ {0}
  BY StatementKinds, Lengths DEF PanelInv, PanelTypeOK
<1>. DEFINE Is(h, pcs) == \E i \in 1..Len(stack') : stack'[i].h = h /\ stack'[i].pc \in pcs
<1>. SUFFICES ASSUME runBtn' PROVE timers' \/ Is("run", 1..6) \/ Is("failed", 1..3) \/ Is("runOnly", 1..6) \/ Is("giveUp", {1})
  BY DEF Heard, Active, At
<1>a. \A h, pcs : 1 \in 1..Len(stack') /\ stack'[1].h = h /\ stack'[1].pc \in pcs => Is(h, pcs)
  OBVIOUS
<1>b. \A h, pcs : 2 \in 1..Len(stack') /\ stack'[2].h = h /\ stack'[2].pc \in pcs => Is(h, pcs)
  OBVIOUS
<1>c. \A h, pcs : Active(h, pcs) /\ ~Top(h, pcs) => Is(h, pcs)
  BY <1>1, ActiveStays
<1>. HIDE DEF Is
<1>2. CASE Top("run", 1..6)
  <2>1. CASE Advancing
    <3>1. Here.pc + 1 \in 1..6
      BY <1>1, <1>2, <2>1, AdvancesWhen DEF Top
    <3>2. stack'[1].h = "run" /\ stack'[1].pc \in 1..6 /\ 1 \in 1..Len(stack')
      BY <1>1, <1>2, <2>1, <3>1, Heads DEF Top
    <3>. QED BY <3>2, <1>a
  <2>2. ASSUME NEW h, GoesTo(h) PROVE Is("runOnly", 1..6) \/ Is("giveUp", {1})
    <3>1. stack'[1].h \in {"runOnly", "giveUp"} /\ stack'[1].pc = 1 /\ 1 \in 1..Len(stack')
      BY <1>1, <1>2, <2>2, Heads DEF GoesTo, Gotos, Top
    <3>. QED BY <3>1, <1>a
  <2>3. ASSUME NEW h, CallsTo(h) PROVE Is("run", 1..6)
    <3>1. stack'[2].h = "run" /\ stack'[2].pc \in 1..6 /\ 2 \in 1..Len(stack')
      BY <1>1, <1>2, <2>3, Heads DEF CallsTo, Calls, Top
    <3>. QED BY <3>1, <1>b
  <2>4. ~Interrupted /\ ~Pops
    BY <1>1, <1>2, NoReturn DEF Top
  <2>5. CASE stack' = stack
    <3>1. stack'[1].h = "run" /\ stack'[1].pc \in 1..6 /\ 1 \in 1..Len(stack')
      BY <1>1, <1>2, <2>5, Heads DEF Top
    <3>. QED BY <3>1, <1>a
  <2>. QED BY <1>1, <2>1, <2>2, <2>3, <2>4, <2>5, StatementWays
<1>3. CASE Top("failed", 1..3)
  <2>1. CASE Advancing
    <3>1. Here.pc + 1 \in 1..3
      BY <1>1, <1>3, <2>1, AdvancesWhen DEF Top
    <3>2. stack'[1].h = "failed" /\ stack'[1].pc \in 1..3 /\ 1 \in 1..Len(stack')
      BY <1>1, <1>3, <2>1, <3>1, Heads DEF Top
    <3>. QED BY <3>2, <1>a
  <2>2. ASSUME NEW h, GoesTo(h) PROVE Is("giveUp", {1})
    <3>1. stack'[1].h = "giveUp" /\ stack'[1].pc \in {1} /\ 1 \in 1..Len(stack')
      BY <1>1, <1>3, <2>2, Heads DEF GoesTo, Gotos, Top
    <3>. QED BY <3>1, <1>a
  <2>3. ASSUME NEW h, CallsTo(h) PROVE FALSE
    BY <1>3, <2>3 DEF CallsTo, Calls, Top
  <2>4. ~Interrupted /\ ~Pops
    BY <1>1, <1>3, NoReturn DEF Top
  <2>5. CASE stack' = stack
    <3>1. stack'[1].h = "failed" /\ stack'[1].pc \in 1..3 /\ 1 \in 1..Len(stack')
      BY <1>1, <1>3, <2>5, Heads DEF Top
    <3>. QED BY <3>1, <1>a
  <2>. QED BY <1>1, <2>1, <2>2, <2>3, <2>4, <2>5, StatementWays
<1>4. CASE Top("runOnly", 1..6)
  <2>1. CASE Advancing
    <3>1. CASE Here.pc = 6
      BY <1>1, <1>4, <2>1, <3>1, AdvancesWhen DEF Top
    <3>2. CASE Here.pc # 6
      <4>1. Here.pc + 1 \in 1..6
        BY <1>1, <1>4, <3>2 DEF Top
      <4>2. stack'[1].h = "runOnly" /\ stack'[1].pc \in 1..6 /\ 1 \in 1..Len(stack')
        BY <1>1, <1>4, <2>1, <4>1, Heads DEF Top
      <4>. QED BY <4>2, <1>a
    <3>. QED BY <3>1, <3>2
  <2>2. ASSUME NEW h, GoesTo(h) PROVE Is("failed", 1..3) \/ Is("giveUp", {1})
    <3>1. stack'[1].h \in {"failed", "giveUp"} /\ stack'[1].pc = 1 /\ 1 \in 1..Len(stack')
      BY <1>1, <1>4, <2>2, Heads DEF GoesTo, Gotos, Top
    <3>. QED BY <3>1, <1>a
  <2>3. ASSUME NEW h, CallsTo(h) PROVE Is("runOnly", 1..6)
    <3>1. stack'[2].h = "runOnly" /\ stack'[2].pc \in 1..6 /\ 2 \in 1..Len(stack')
      BY <1>1, <1>4, <2>3, Heads DEF CallsTo, Calls, Top
    <3>. QED BY <3>1, <1>b
  <2>4. ~Interrupted /\ ~Pops
    BY <1>1, <1>4, NoReturn DEF Top
  <2>5. CASE stack' = stack
    <3>1. stack'[1].h = "runOnly" /\ stack'[1].pc \in 1..6 /\ 1 \in 1..Len(stack')
      BY <1>1, <1>4, <2>5, Heads DEF Top
    <3>. QED BY <3>1, <1>a
  <2>. QED BY <1>1, <2>1, <2>2, <2>3, <2>4, <2>5, StatementWays
<1>5. CASE Top("giveUp", {1})
  <2>1. CASE Advancing
    <3>1. ~runBtn /\ runBtn' = runBtn
      BY <1>1, <1>5, <2>1, AdvancesWhen DEF Top
    <3>. QED BY <3>1
  <2>2. ASSUME NEW h, GoesTo(h) PROVE FALSE
    BY <1>5, <2>2 DEF GoesTo, Gotos, Top
  <2>3. ASSUME NEW h, CallsTo(h) PROVE FALSE
    <3>1. h = "stop"
      BY <1>5, <2>3 DEF CallsTo, Calls, Top
    <3>. QED BY <1>1, <2>3, <3>1, CallsWhen
  <2>4. ~Interrupted /\ ~Pops
    BY <1>1, <1>5, NoReturn DEF Top
  <2>5. CASE stack' = stack
    <3>1. stack'[1].h = "giveUp" /\ stack'[1].pc \in {1} /\ 1 \in 1..Len(stack')
      BY <1>1, <1>5, <2>5, Heads DEF Top
    <3>. QED BY <3>1, <1>a
  <2>. QED BY <1>1, <2>1, <2>2, <2>3, <2>4, <2>5, StatementWays
<1>6. CASE ~Top("run", 1..6) /\ ~Top("failed", 1..3) /\ ~Top("runOnly", 1..6) /\ ~Top("giveUp", {1})
  <2>1. runBtn
    <3>1. ~Top("run", {1}) /\ ~Top("runOnly", {1})
      BY <1>6 DEF Top
    <3>. QED BY <1>1, <3>1, Effects
  <2>2. timers => timers'
    BY <1>1, <2>1, Effects DEF PanelInv, PollStops, PanelTypeOK
  <2>. QED BY <1>1, <1>6, <1>c, <2>1, <2>2 DEF Heard
<1>. QED BY <1>2, <1>3, <1>4, <1>5, <1>6

\* A statement keeps Linked.
LEMMA LinkedStays ==
  ASSUME PanelInv, Statement
  PROVE  Linked'
<1>1. stack # <<>> /\ PanelTypeOK /\ Inbox /\ Linked /\ runBtn \in BOOLEAN /\ onlineBtn \in BOOLEAN /\ Here.pc \in Nat \ {0}
  BY StatementKinds, Lengths DEF PanelInv, PanelTypeOK
<1>. DEFINE Is(h, pcs) == \E i \in 1..Len(stack') : stack'[i].h = h /\ stack'[i].pc \in pcs
            First(h, pcs) == stack' # <<>> /\ stack'[1].h = h /\ stack'[1].pc \in pcs
<1>. SUFFICES ASSUME runBtn' PROVE onlineBtn' \/ Is("run", 1..3) \/ First("offline", {1, 2}) \/ First("giveUp", {1})
  BY DEF Linked, Active, At, Top, Here
<1>a. \A h, pcs : 1 \in 1..Len(stack') /\ stack'[1].h = h /\ stack'[1].pc \in pcs => Is(h, pcs)
  OBVIOUS
<1>b. \A h, pcs : 2 \in 1..Len(stack') /\ stack'[2].h = h /\ stack'[2].pc \in pcs => Is(h, pcs)
  OBVIOUS
<1>c. \A h, pcs : Active(h, pcs) /\ ~Top(h, pcs) => Is(h, pcs)
  BY <1>1, ActiveStays
<1>. HIDE DEF Is
<1>2. CASE Top("run", 1..3)
  <2>1. CASE Advancing
    <3>1. CASE Here.pc = 3
      BY <1>1, <1>2, <2>1, <3>1, AdvancesWhen DEF Top
    <3>2. CASE Here.pc # 3
      <4>1. Here.pc + 1 \in 1..3
        BY <1>1, <1>2, <3>2 DEF Top
      <4>2. stack'[1].h = "run" /\ stack'[1].pc \in 1..3 /\ 1 \in 1..Len(stack')
        BY <1>1, <1>2, <2>1, <4>1, Heads DEF Top
      <4>. QED BY <4>2, <1>a
    <3>. QED BY <3>1, <3>2
  <2>2. ASSUME NEW h, GoesTo(h) PROVE First("giveUp", {1})
    <3>1. h \in {"runOnly", "giveUp"}
      BY <1>2, <2>2 DEF GoesTo, Gotos, Top
    <3>2. h # "runOnly"
      <4>1. h = "runOnly" => Top("run", {6})
        BY <1>1, <2>2, GoesWhen
      <4>. QED BY <1>2, <4>1 DEF Top
    <3>. QED BY <2>2, <3>1, <3>2, Heads, <1>1
  <2>3. ASSUME NEW h, CallsTo(h) PROVE Is("run", 1..3)
    <3>1. stack'[2].h = "run" /\ stack'[2].pc \in 1..3 /\ 2 \in 1..Len(stack')
      BY <1>1, <1>2, <2>3, Heads DEF CallsTo, Calls, Top
    <3>. QED BY <3>1, <1>b
  <2>4. ~Interrupted /\ ~Pops
    BY <1>1, <1>2, NoReturn DEF Top
  <2>5. CASE stack' = stack
    <3>1. stack'[1].h = "run" /\ stack'[1].pc \in 1..3 /\ 1 \in 1..Len(stack')
      BY <1>1, <1>2, <2>5, Heads DEF Top
    <3>. QED BY <3>1, <1>a
  <2>. QED BY <1>1, <2>1, <2>2, <2>3, <2>4, <2>5, StatementWays
<1>3. CASE Top("offline", {1, 2})
  <2>1. CASE Advancing
    <3>1. Here.pc = 1
      <4>1. Top("offline", {2}) => ~runBtn /\ runBtn' = runBtn
        BY <1>1, <2>1, AdvancesWhen DEF Top
      <4>. QED BY <1>3, <4>1 DEF Top
    <3>. QED BY <1>1, <1>3, <2>1, <3>1, Heads DEF Top
  <2>2. ASSUME NEW h, GoesTo(h) PROVE FALSE
    BY <1>3, <2>2 DEF GoesTo, Gotos, Top
  <2>3. ASSUME NEW h, CallsTo(h) PROVE FALSE
    <3>1. h = "stop"
      BY <1>3, <2>3 DEF CallsTo, Calls, Top
    <3>. QED BY <1>1, <2>3, <3>1, CallsWhen
  <2>4. ~Interrupted /\ ~Pops
    BY <1>1, <1>3, NoReturn DEF Top
  <2>5. CASE stack' = stack
    BY <1>1, <1>3, <2>5, Heads DEF Top
  <2>. QED BY <1>1, <2>1, <2>2, <2>3, <2>4, <2>5, StatementWays
<1>4. CASE Top("giveUp", {1})
  <2>1. CASE Advancing
    <3>1. ~runBtn /\ runBtn' = runBtn
      BY <1>1, <1>4, <2>1, AdvancesWhen DEF Top
    <3>. QED BY <3>1
  <2>2. ASSUME NEW h, GoesTo(h) PROVE FALSE
    BY <1>4, <2>2 DEF GoesTo, Gotos, Top
  <2>3. ASSUME NEW h, CallsTo(h) PROVE FALSE
    <3>1. h = "stop"
      BY <1>4, <2>3 DEF CallsTo, Calls, Top
    <3>. QED BY <1>1, <2>3, <3>1, CallsWhen
  <2>4. ~Interrupted /\ ~Pops
    BY <1>1, <1>4, NoReturn DEF Top
  <2>5. CASE stack' = stack
    BY <1>1, <1>4, <2>5, Heads DEF Top
  <2>. QED BY <1>1, <2>1, <2>2, <2>3, <2>4, <2>5, StatementWays
<1>5. CASE ~Top("run", 1..3) /\ ~Top("offline", {1, 2}) /\ ~Top("giveUp", {1})
  <2>1. CASE ~runBtn
    <3>0. ~Top("run", {1})
      BY <1>5 DEF Top
    <3>1. Top("runOnly", {1})
      BY <1>1, <3>0, <2>1, Effects
    <3>2. onlineBtn /\ St[1] = "press"
      BY <1>1, <3>1, RunOnlyListing DEF PanelInv, ReadyRunOnly, Top
    <3>. QED BY <1>1, <3>2, ButtonStep
  <2>2. CASE runBtn
    <3>1. onlineBtn => onlineBtn' \/ CallsTo("offline")
      BY <1>1, Effects
    <3>2. CallsTo("offline") => First("offline", {1, 2})
      BY <1>1, Heads
    <3>3. ~onlineBtn => Is("run", 1..3)
      BY <1>1, <1>5, <1>c, <2>2 DEF Linked
    <3>. QED BY <3>1, <3>2, <3>3
  <2>. QED BY <1>1, <2>1, <2>2
<1>. QED BY <1>2, <1>3, <1>4, <1>5

\* A statement keeps the types.
LEMMA TypesStay ==
  ASSUME PanelInv, Statement
  PROVE  PanelTypeOK'
<1>1. stack # <<>> /\ PanelTypeOK /\ Inbox /\ Move
  BY Moves, StatementKinds DEF PanelInv
<1>2. StackOK'
  BY <1>1, StackStaysOK
<1>3. onlineBtn' \in BOOLEAN /\ runBtn' \in BOOLEAN /\ timers' \in BOOLEAN /\ ok' \in BOOLEAN
  BY <1>1 DEF PanelTypeOK, Statement, ShowState, Buttons, Control, LinkUp, MakeCall, ReceiveMessages
<1>4. mode' \in {"OFFLINE", "FORK", "ONLINE"} /\ core' \in {"run", "stop"}
  BY <1>1, PanelAssumption DEF PanelTypeOK, Statement, ShowState, Buttons, Control, LinkUp, MakeCall, ReceiveMessages
<1>5. inbox' \in Seq({"EXCEPTION", "STOP", "SHUTDOWN"})
  <2>1. inbox' = inbox \/ inbox' = <<>> \/ (inbox # <<>> /\ inbox' = Tail(inbox))
    BY DEF Statement, ShowState, Buttons, Control, LinkUp, MakeCall, ReceiveMessages
  <2>. DEFINE S == {"EXCEPTION", "STOP", "SHUTDOWN"}
  <2>2. inbox \in Seq(S)
    BY <1>1 DEF PanelTypeOK
  <2>. HIDE DEF S
  <2>3. inbox # <<>> => Tail(inbox) \in Seq(S)
    BY <2>2
  <2>4. <<>> \in Seq(S)
    OBVIOUS
  <2>5. inbox' \in Seq(S)
    BY <2>1, <2>2, <2>3, <2>4
  <2>. QED BY <2>5 DEF S
<1>. QED BY <1>2, <1>3, <1>4, <1>5 DEF PanelTypeOK, StackOK

\* A statement keeps the invariant.
LEMMA StatementStep ==
  ASSUME PanelInv, Statement
  PROVE  PanelInv'
<1>1. stack # <<>> /\ PanelTypeOK /\ Inbox /\ Move
  BY Moves, StatementKinds DEF PanelInv
<1>2. ShapeEvents' /\ ShapeWaits' /\ ShapePolls' /\ ShapeBelow'
  BY <1>1, EventsStay, WaitsStay, PollsStay, BelowStays DEF PanelInv
<1>3. PanelTypeOK' /\ Inbox'
  BY <1>1, TypesStay, Effects
<1>4. ReadyRunOnly' /\ ReadyRun' /\ ReadyOnline'
  BY ReadyStays
<1>5. WaitsForUpload' /\ WaitsForLoad' /\ Starts'
  BY WaitsForUploadStays, WaitsForLoadStays, StartsStays
<1>6. LinkButton' /\ LinkTops' /\ LinkForked' /\ LinkRunning'
  BY LinkButtonStays, LinkTopsStay, LinkForkedStays, LinkRunningStays
<1>7. PollHeard' /\ PollStops' /\ PollForked'
  BY PollHeardStays, PollForkedStays
<1>8. Heard' /\ Linked'
  BY HeardStays, LinkedStays
<1>. QED BY <1>2, <1>3, <1>4, <1>5, <1>6, <1>7, <1>8 DEF PanelInv

\* So does the timer, in the event loop or while no handler is active.
LEMMA TimerStep ==
  ASSUME PanelInv, MessageTimer
  PROVE  PanelInv'
<1>1. /\ PanelTypeOK /\ Inbox /\ inbox # <<>> /\ timers /\ mode # "OFFLINE" /\ ~Quiet /\ Len(stack) \in Nat
      /\ UNCHANGED <<onlineBtn, runBtn, panel, timers, mode, core, inbox, ok, doings, failures>>
  BY DEF PanelInv, PanelTypeOK, Inbox, MessageTimer, Quiet
<1>2. Raises("poll")
  BY <1>1, RaisesOver DEF MessageTimer, PanelTypeOK, Spots
<1>3. /\ stack' \in Seq(Frames) /\ Len(stack') = Len(stack) + 1 /\ stack' # <<>>
      /\ stack'[1].h = "poll" /\ stack'[1].pc = 1 /\ stack'[1].events = FALSE
      /\ \A i \in 1..Len(stack) : stack'[i + 1] = stack[i]
      /\ \A i \in 2..Len(stack) + 1 : stack'[i] = stack[i - 1]
  BY <1>2 DEF Raises
<1>4. \A i \in 1..Len(stack) : stack[i].h # "poll"
  BY <1>1 DEF MessageTimer
\* The handler that entered the event loop.
<1>5. stack # <<>> => <<Here.h, Here.pc>> \in EventPoints
  <2>. SUFFICES ASSUME stack # <<>> PROVE <<Here.h, Here.pc>> \in EventPoints
    OBVIOUS
  <2>1. Here.events /\ 1 \in 1..Len(stack)
    BY <1>1 DEF MessageTimer, AtRest, PanelTypeOK
  <2>2. <<Here.h, Here.pc>> \in EventPoints \cup IdlePoints
    BY <2>1 DEF PanelInv, ShapeEvents, Point, Here
  <2>3. ~Top("online", {2}) /\ ~Top("notOnline", {3})
    BY <1>1 DEF PanelInv, LinkTops, Top
  <2>. QED BY <2>2, <2>3 DEF IdlePoints, Top
<1>6. stack # <<>> => Here.h \notin {"run", "upload", "stop", "giveUp"} /\ (Here.h = "runOnly" => Here.pc = 6) /\ (Here.h = "offline" => Here.pc = 4)
                      /\ (Here.h = "online" => Here.pc = 5) /\ ~Top("notOnline", {1, 2, 3}) /\ Here.h # "cancelled"
  BY <1>5 DEF EventPoints, Top
<1>7. PanelTypeOK'
  <2>1. \A i \in 1..Len(stack') : stack'[i].pc \in Spots[stack'[i].h]
    <3>. TAKE i \in 1..Len(stack')
    <3>1. CASE i = 1
      BY <1>3, <3>1 DEF Spots
    <3>2. CASE i # 1
      <4>1. i \in 2..Len(stack) + 1 /\ i - 1 \in 1..Len(stack) /\ stack'[i] = stack[i - 1]
        BY <1>1, <1>3, <3>2
      <4>. QED BY <1>1, <4>1 DEF PanelTypeOK
    <3>. QED BY <3>1, <3>2
  <2>. QED BY <1>1, <1>3, <2>1 DEF PanelTypeOK
<1>8. Inbox' /\ (Quiet <=> Quiet')
  BY <1>1 DEF Inbox, Quiet
<1>9. ShapeEvents'
  BY <1>1, <1>3 DEF PanelInv, ShapeEvents, Point
<1>10. ShapeWaits'
  <2>. SUFFICES ASSUME NEW i \in 2..Len(stack')
                PROVE  <<stack'[i].h, stack'[i].pc>> \in CallPoints \/ (<<stack'[i].h, stack'[i].pc>> \in EventPoints /\ stack'[i - 1].h = "poll")
    BY DEF ShapeWaits, Point
  <2>1. i \in 2..Len(stack) + 1 /\ stack'[i] = stack[i - 1] /\ i - 1 \in 1..Len(stack)
    BY <1>1, <1>3
  <2>2. CASE i = 2
    BY <1>3, <1>5, <2>1, <2>2 DEF Here
  <2>3. CASE i # 2
    <3>1. i - 1 \in 2..Len(stack) /\ stack'[i - 1] = stack[i - 2]
      BY <1>1, <1>3, <2>1, <2>3
    <3>. QED BY <2>1, <3>1 DEF PanelInv, ShapeWaits, Point
  <2>. QED BY <2>2, <2>3
<1>11. ShapePolls' /\ PollHeard'
  <2>1. \A i \in 1..Len(stack') : stack'[i].h = "poll" => i = 1
    <3>. SUFFICES ASSUME NEW i \in 1..Len(stack'), i # 1 PROVE stack'[i].h # "poll"
      OBVIOUS
    <3>1. i \in 2..Len(stack) + 1 /\ i - 1 \in 1..Len(stack) /\ stack'[i] = stack[i - 1]
      BY <1>1, <1>3
    <3>. QED BY <1>4, <3>1
  <2>2. \A i \in 1..Len(stack') : ~(i < 1)
    OBVIOUS
  <2>. QED BY <1>1, <1>3, <2>1, <2>2 DEF ShapePolls, PollHeard, At
<1>12. ShapeBelow' /\ LinkRunning'
  <2>1. ASSUME NEW i \in 1..Len(stack'), NEW j \in 1..Len(stack'), i < j, stack'[i].h # "poll"
        PROVE i - 1 \in 1..Len(stack) /\ j - 1 \in 1..Len(stack) /\ i - 1 < j - 1 /\ stack'[i] = stack[i - 1] /\ stack'[j] = stack[j - 1]
    BY <1>1, <1>3, <2>1
  <2>2. ShapeBelow'
    BY <2>1 DEF PanelInv, ShapeBelow, Low
  <2>3. LinkRunning'
    BY <1>1, <2>1 DEF PanelInv, LinkRunning
  <2>. QED BY <2>2, <2>3
<1>13. ReadyRunOnly' /\ ReadyRun' /\ ReadyOnline' /\ LinkTops' /\ PollStops'
  BY <1>3 DEF ReadyRunOnly, ReadyRun, ReadyOnline, LinkTops, PollStops, Top, Here
<1>14. Len(stack) # 0 => stack # <<>>
  OBVIOUS
<1>15. WaitsForUpload'
  <2>. SUFFICES ASSUME NEW i \in 2..Len(stack'), stack'[i].h = "runOnly", stack'[i].pc = 4
                PROVE  stack'[i - 1].h \in {"notUploaded", "no"}
    BY DEF WaitsForUpload, At
  <2>1. i \in 2..Len(stack) + 1 /\ stack'[i] = stack[i - 1] /\ i - 1 \in 1..Len(stack) /\ stack # <<>>
    BY <1>1, <1>3, <1>14
  <2>2. i # 2
    BY <1>6, <2>1 DEF Here
  <2>3. i - 1 \in 2..Len(stack) /\ stack'[i - 1] = stack[i - 2]
    BY <1>1, <1>3, <2>1, <2>2
  <2>4. stack[i - 2].h \in {"notUploaded", "no"} \/ (stack[i - 2].h = "upload" /\ i - 1 = 2)
    BY <2>1, <2>3 DEF PanelInv, WaitsForUpload, At
  <2>. QED BY <1>6, <2>1, <2>3, <2>4 DEF Here
<1>16. WaitsForLoad'
  <2>. SUFFICES ASSUME NEW i \in 2..Len(stack'), stack'[i].h = "run", stack'[i].pc = 5
                PROVE  stack'[i - 1].h \in {"notLoaded", "no"}
    BY DEF WaitsForLoad, At
  <2>1. i \in 2..Len(stack) + 1 /\ stack'[i] = stack[i - 1] /\ i - 1 \in 1..Len(stack) /\ stack # <<>>
    BY <1>1, <1>3, <1>14
  <2>2. i # 2
    BY <1>6, <2>1 DEF Here
  <2>3. i - 1 \in 2..Len(stack) /\ stack'[i - 1] = stack[i - 2]
    BY <1>1, <1>3, <2>1, <2>2
  <2>4. stack[i - 2].h \in {"notLoaded", "no"} \/ mode = "FORK"
    BY <2>1, <2>3 DEF PanelInv, WaitsForLoad, At
  <2>5. Active("run", 1..6)
    BY <2>1 DEF Active, At
  <2>6. mode # "FORK"
    BY <1>1, <2>5 DEF PanelInv, PollForked
  <2>. QED BY <2>3, <2>4, <2>6
<1>17. Starts' /\ LinkForked'
  <2>1. ASSUME NEW i \in 1..Len(stack'), stack'[i].h # "poll" PROVE i - 1 \in 1..Len(stack) /\ stack'[i] = stack[i - 1]
    BY <1>1, <1>3, <2>1
  <2>. QED BY <1>1, <1>8, <2>1 DEF PanelInv, Starts, LinkForked, At
<1>18. LinkButton'
  <2>1. ~Top("online", {1, 2, 3}) /\ ~Top("cancelled", {1}) /\ ~Top("notOnline", {1, 2, 3}) /\ ~Top("offline", {1})
    BY <1>6 DEF Top
  <2>. QED BY <1>1, <2>1 DEF PanelInv, LinkButton
<1>19. \A h, pcs : h # "poll" => (Active(h, pcs) <=> \E i \in 1..Len(stack') : stack'[i].h = h /\ stack'[i].pc \in pcs)
  <2>. TAKE h, pcs
  <2>1. ASSUME h # "poll", NEW i \in 1..Len(stack'), stack'[i].h = h, stack'[i].pc \in pcs PROVE Active(h, pcs)
    <3>1. i - 1 \in 1..Len(stack) /\ stack'[i] = stack[i - 1]
      BY <1>1, <1>3, <2>1
    <3>. QED BY <2>1, <3>1 DEF Active, At
  <2>2. ASSUME NEW k \in 1..Len(stack), stack[k].h = h, stack[k].pc \in pcs PROVE \E i \in 1..Len(stack') : stack'[i].h = h /\ stack'[i].pc \in pcs
    <3>1. k + 1 \in 1..Len(stack') /\ stack'[k + 1] = stack[k]
      BY <1>1, <1>3
    <3>. QED BY <2>2, <3>1
  <2>. QED BY <2>1, <2>2 DEF Active, At
<1>20. PollForked'
  <2>1. ~Top("stop", {1})
    BY <1>6 DEF Top
  <2>2. Active("run", 1..6)' <=> Active("run", 1..6)
    BY <1>19 DEF Active, At
  <2>. QED BY <1>1, <1>8, <2>1, <2>2 DEF PanelInv, PollForked
<1>21. Heard' /\ Linked'
  <2>1. Linked'
    <3>1. Active("run", 1..3)' <=> Active("run", 1..3)
      BY <1>19 DEF Active, At
    <3>2. ~Top("offline", {1, 2}) /\ ~Top("giveUp", {1})
      BY <1>6 DEF Top
    <3>. QED BY <1>1, <3>1, <3>2 DEF PanelInv, Linked
  <2>2. Heard'
    BY <1>1 DEF PanelInv, Heard
  <2>. QED BY <2>1, <2>2
<1>. QED BY <1>7, <1>8, <1>9, <1>10, <1>11, <1>12, <1>13, <1>15, <1>16, <1>17, <1>18, <1>20, <1>21 DEF PanelInv

\* So does the user, while no handler is active.
LEMMA UserStep ==
  ASSUME PanelInv, User
  PROVE  PanelInv'
<1>1. /\ PanelTypeOK /\ Inbox /\ stack = <<>> /\ onlineBtn \in BOOLEAN /\ runBtn \in BOOLEAN
      /\ UNCHANGED <<panel, timers, mode, core, inbox, ok>>
  BY DEF PanelInv, PanelTypeOK, User, AtRest
<1>2. PICK d \in Doings :
        /\ runBtn'    = IF d = "run" THEN ~runBtn ELSE runBtn
        /\ onlineBtn' = IF d = "online" THEN ~onlineBtn ELSE onlineBtn
        /\ stack' = <<Frame(CASE d = "run" /\ runBtn -> "stop"
                              [] d = "online" /\ onlineBtn -> "offline"
                              [] OTHER -> d, 1, FALSE)>>
  BY DEF User
<1>. DEFINE h == CASE d = "run" /\ runBtn -> "stop" [] d = "online" /\ onlineBtn -> "offline" [] OTHER -> d
<1>3. d \in {"online", "run", "load", "single", "upload"}
  BY PanelAssumption
<1>4. /\ h \in {"online", "run", "load", "single", "upload", "stop", "offline"}
      /\ (h = "stop") <=> (d = "run" /\ runBtn)
      /\ (h = "run") <=> (d = "run" /\ ~runBtn)
      /\ (h = "offline") <=> (d = "online" /\ onlineBtn)
      /\ (h = "online") <=> (d = "online" /\ ~onlineBtn)
  BY <1>1, <1>3
<1>. DEFINE f == Frame(h, 1, FALSE)
<1>5. f \in Frames /\ f.h = h /\ f.pc = 1 /\ f.events = FALSE /\ f.pc \in Spots[h]
  BY <1>4 DEF Frame, Frames, Spots
<1>6. stack' = <<f>>
  BY <1>2
<1>. HIDE DEF f, h
<1>7. stack' \in Seq(Frames) /\ Len(stack') = 1 /\ stack' # <<>> /\ stack'[1] = f /\ 1..Len(stack') = {1} /\ 2..Len(stack') = {}
  BY <1>5, <1>6
<1>8. \A g, pcs : Top(g, pcs) => FALSE
  BY <1>1 DEF Top
<1>9. \A g, pcs : Active(g, pcs) => FALSE
  BY <1>1 DEF Active
<1>10. PanelTypeOK' /\ Inbox' /\ (Quiet <=> Quiet')
  BY <1>1, <1>2, <1>5, <1>7 DEF PanelTypeOK, Inbox, Quiet
<1>11. ShapeEvents' /\ ShapeWaits' /\ ShapePolls' /\ ShapeBelow'
  BY <1>5, <1>7 DEF ShapeEvents, ShapeWaits, ShapePolls, ShapeBelow, Point
<1>12. ReadyRunOnly' /\ ReadyRun' /\ ReadyOnline'
  BY <1>4, <1>5, <1>7 DEF ReadyRunOnly, ReadyRun, ReadyOnline, Top, Here
<1>13. WaitsForUpload' /\ WaitsForLoad' /\ Starts'
  BY <1>4, <1>5, <1>7 DEF WaitsForUpload, WaitsForLoad, Starts, At
<1>14. onlineBtn <=> mode # "OFFLINE"
  BY <1>8 DEF PanelInv, LinkButton
<1>15. LinkButton'
  BY <1>1, <1>2, <1>4, <1>5, <1>7, <1>14 DEF LinkButton, Top, Here
<1>16. LinkTops'
  BY <1>1, <1>2, <1>4, <1>5, <1>7, <1>14 DEF LinkTops, Top, Here
<1>17. LinkForked' /\ LinkRunning' /\ PollHeard'
  BY <1>4, <1>5, <1>7 DEF LinkForked, LinkRunning, PollHeard, At
<1>18. PollStops'
  BY <1>1, <1>2, <1>4, <1>5, <1>7 DEF PollStops, Top, Here
<1>19. PollForked'
  <2>1. timers /\ mode = "FORK" /\ ~runBtn => Quiet
    BY <1>8 DEF PanelInv, PollForked
  <2>2. Active("run", 1..6)' => ~runBtn
    BY <1>4, <1>5, <1>7 DEF Active, At
  <2>3. ~runBtn' /\ ~Top("stop", {1})' => ~runBtn
    BY <1>1, <1>2, <1>4, <1>5, <1>7 DEF Top, Here
  <2>. QED BY <1>1, <1>10, <2>1, <2>2, <2>3 DEF PollForked
<1>20. Heard'
  <2>1. runBtn => timers
    BY <1>9 DEF PanelInv, Heard
  <2>2. h = "run" => Active("run", 1..6)'
    BY <1>5, <1>7 DEF Active, At
  <2>. QED BY <1>1, <1>2, <1>4, <2>1, <2>2 DEF Heard
<1>21. Linked'
  <2>1. runBtn => onlineBtn
    BY <1>8, <1>9 DEF PanelInv, Linked
  <2>2. h = "run" => Active("run", 1..3)'
    BY <1>5, <1>7 DEF Active, At
  <2>3. h = "offline" => Top("offline", {1, 2})'
    BY <1>5, <1>7 DEF Top, Here
  <2>. QED BY <1>1, <1>2, <1>4, <2>1, <2>2, <2>3 DEF Linked
<1>. QED BY <1>10, <1>11, <1>12, <1>13, <1>15, <1>16, <1>17, <1>18, <1>19, <1>20, <1>21 DEF PanelInv

\* So does a core that stops by itself.
LEMMA CoreStep ==
  ASSUME PanelInv, CoreStops
  PROVE  PanelInv'
<1>1. /\ PanelTypeOK /\ Inbox /\ core = "run" /\ inbox = <<>> /\ ~Quiet /\ core' = "stop"
      /\ UNCHANGED <<onlineBtn, runBtn, panel, timers, mode, stack, ok>>
  BY DEF PanelInv, Inbox, CoreStops, Quiet
<1>2. inbox' = <<>> \/ (mode # "OFFLINE" /\ \E f \in {"EXCEPTION", "STOP", "SHUTDOWN"} : inbox' = <<f>>)
  BY <1>1, PanelAssumption DEF CoreStops
<1>3. PanelTypeOK' /\ Inbox'
  <2>1. inbox' \in Seq({"EXCEPTION", "STOP", "SHUTDOWN"}) /\ Len(inbox') <= 1 /\ (inbox' # <<>> => mode # "OFFLINE")
    <3>1. CASE inbox' = <<>>
      BY <3>1
    <3>2. ASSUME mode # "OFFLINE", NEW f \in {"EXCEPTION", "STOP", "SHUTDOWN"}, inbox' = <<f>>
          PROVE  inbox' \in Seq({"EXCEPTION", "STOP", "SHUTDOWN"}) /\ Len(inbox') <= 1
      <4>. DEFINE S == {"EXCEPTION", "STOP", "SHUTDOWN"}
      <4>1. f \in S
        OBVIOUS
      <4>. HIDE DEF S
      <4>2. <<f>> \in Seq(S) /\ Len(<<f>>) = 1
        BY <4>1
      <4>. QED BY <3>2, <4>2 DEF S
    <3>. QED BY <1>2, <3>1, <3>2
  <2>2. PanelTypeOK'
    BY <1>1, <2>1 DEF PanelTypeOK
  <2>. QED BY <1>1, <2>1, <2>2 DEF Inbox
<1>4. ShapeEvents' /\ ShapeWaits' /\ ShapePolls' /\ ShapeBelow'
  BY <1>1 DEF PanelInv, ShapeEvents, ShapeWaits, ShapePolls, ShapeBelow, Point
<1>5. ReadyRunOnly' /\ ReadyRun' /\ ReadyOnline'
  BY <1>1 DEF PanelInv, ReadyRunOnly, ReadyRun, ReadyOnline, Top, Here
<1>6. WaitsForUpload' /\ WaitsForLoad' /\ Starts'
  BY <1>1 DEF PanelInv, WaitsForUpload, WaitsForLoad, Starts, At
<1>7. LinkButton' /\ LinkTops' /\ LinkForked' /\ LinkRunning'
  BY <1>1 DEF PanelInv, LinkButton, LinkTops, LinkForked, LinkRunning, Top, Here, At
<1>8. PollHeard' /\ PollStops' /\ PollForked'
  BY <1>1 DEF PanelInv, PollHeard, PollStops, PollForked, Top, Here, Active, At
<1>9. Heard' /\ Linked'
  BY <1>1 DEF PanelInv, Heard, Linked, Top, Here, Active, At
<1>. QED BY <1>3, <1>4, <1>5, <1>6, <1>7, <1>8, <1>9 DEF PanelInv

\* The invariant holds at the start.
LEMMA PanelStarts ==
  ASSUME PanelInit
  PROVE  PanelInv
<1>1. stack = <<>> /\ Len(stack) = 0 /\ inbox = <<>> /\ Len(inbox) = 0 /\ runBtn = FALSE /\ onlineBtn = FALSE /\ mode = "OFFLINE" /\ timers = FALSE
  BY DEF PanelInit
<1>2. PanelTypeOK /\ Inbox
  <2>1. <<>> \in Seq({"EXCEPTION", "STOP", "SHUTDOWN"}) /\ <<>> \in Seq(Frames) /\ 1..0 = {}
    OBVIOUS
  <2>2. PanelTypeOK
    BY <1>1, <2>1 DEF PanelInit, PanelTypeOK
  <2>. QED BY <1>1, <2>2 DEF Inbox
<1>3. ShapeEvents /\ ShapeWaits /\ ShapePolls /\ ShapeBelow
  BY <1>1 DEF ShapeEvents, ShapeWaits, ShapePolls, ShapeBelow
<1>4. ReadyRunOnly /\ ReadyRun /\ ReadyOnline /\ WaitsForUpload /\ WaitsForLoad /\ Starts
  BY <1>1 DEF ReadyRunOnly, ReadyRun, ReadyOnline, WaitsForUpload, WaitsForLoad, Starts, Top
<1>5. LinkButton /\ LinkTops /\ LinkForked /\ LinkRunning
  BY <1>1 DEF LinkButton, LinkTops, LinkForked, LinkRunning, Top
<1>6. PollHeard /\ PollStops /\ PollForked /\ Heard /\ Linked
  BY <1>1 DEF PollHeard, PollStops, PollForked, Heard, Linked, Top
<1>. QED BY <1>2, <1>3, <1>4, <1>5, <1>6 DEF PanelInv

\* A step of something else keeps the invariant.
LEMMA PanelStutters ==
  ASSUME PanelInv, UNCHANGED panelVars
  PROVE  PanelInv'
<1>1. UNCHANGED <<onlineBtn, runBtn, timers, mode, core, inbox, stack, ok>>
  BY DEF panelVars
<1>. QED BY <1>1 DEF PanelInv, PanelTypeOK, Inbox, ShapeEvents, ShapeWaits, ShapePolls, ShapeBelow, Point, ReadyRunOnly, ReadyRun, ReadyOnline,
    WaitsForUpload, WaitsForLoad, Starts, LinkButton, LinkTops, LinkForked, LinkRunning, PollHeard, PollStops, PollForked, Heard, Linked,
    Quiet, Top, Here, Active, At

\* Once its handlers have returned, a panel whose run button is pressed is online and its
\* timer for core messages runs: a core that stops by itself is heard of, whatever the
\* handlers, the event loops they enter and the core did before, and whatever failed.
THEOREM PanelIsHeard == PanelSpec => []RunIsHeard
<1>1. PanelInit => PanelInv
  BY PanelStarts
<1>2. PanelInv /\ [PanelNext]_panelVars => PanelInv'
  BY StatementStep, TimerStep, UserStep, CoreStep, PanelStutters DEF PanelNext
<1>3. PanelInv => RunIsHeard
  BY DEF PanelInv, RunIsHeard, AtRest, Heard, Linked, LinkButton, Active, Top
<1>. QED BY <1>1, <1>2, <1>3, PTL DEF PanelSpec
=============================================================================
