------------------------------ MODULE Messages ------------------------------
(***************************************************************************)
(* The message transceivers of the core server and a client               *)
(* (coreserver/messages.py): what every message is on the wire, how a      *)
(* message is sent in parts and put together again, and the socket between *)
(* the two, whose buffers hold a number of bytes.  A byte, and a number in *)
(* a header, is one element of a sequence here.                            *)
(***************************************************************************)
EXTENDS Naturals, Sequences, SequencesExt, FiniteSetsExt

CONSTANTS
  Sendable,   \* what a side may send: [id, body], body the values of the fields
  MaxSends,   \* bound: the messages each side sends
  Room,       \* bytes the socket holds that a side has sent
  SeqCount,   \* 2^16
  Align       \* 4

Side == {"client", "server"}
Other(s) == IF s = "client" THEN "server" ELSE "client"

VARIABLES
  txSeqCount,
  data,       \* what is left of the message that is being sent
  wire,       \* what the socket holds
  buf, head,  \* of the receiving side; head is the header once it is complete
  sent, received,   \* history
  broken      \* reading raised the error of the socket to the caller

messageVars == <<txSeqCount, data, wire, buf, head, sent, received, broken>>

-----------------------------------------------------------------------------
(* The fields of the messages: "n" a number, "s" a string or bytes, "d"    *)
(* the data of a memory area, "m" a hardware module with its parameters.   *)

Empty   == {"PING", "PONG", "RESET", "SHUTDOWN", "GET_RUNSTATE", "GET_CPUSPECS"}
Strings == [EXCEPTION |-> 2, AWLSRC |-> 3, SYMTABSRC |-> 3, OPT |-> 2, CPUDUMP |-> 1,
            GET_AWLSRC |-> 1, GET_SYMTABSRC |-> 1, HWMOD |-> 1]
Numbers == [REPLY |-> 3, RUNSTATE |-> 1, CPUSPECS |-> 9, GET_IDENTS |-> 1, REQ_MEMORY |-> 2, MEMORY |-> 1]
Mixed   == [LIBSEL |-> <<"s", "n", "n", "n">>, MAINTREQ |-> <<"n", "s">>,
            INSNSTATE |-> [i \in 1 .. 13 |-> IF i = 13 THEN "s" ELSE "n"],
            INSNSTATE_CONFIG |-> <<"n", "n", "n", "s">>, IDENTS |-> <<"n", "n", "n", "n">>]

Fields(id) ==
  IF id \in Empty THEN <<>>
  ELSE IF id \in DOMAIN Strings THEN [i \in 1 .. Strings[id] |-> "s"]
  ELSE IF id \in DOMAIN Numbers THEN [i \in 1 .. Numbers[id] |-> "n"]
  ELSE Mixed[id]

\* What follows as often as there is payload left.
Repeated == [HWMOD |-> <<"s", "s">>, REQ_MEMORY |-> <<"n", "n", "n", "n", "n">>,
             MEMORY |-> <<"n", "n", "n", "n", "n", "d">>]

\* What follows the numbers of sources, tables, modules and libraries.
Times(n, fs) == [i \in 1 .. n * Len(fs) |-> fs[((i - 1) % Len(fs)) + 1]]
Idents(count) == Times(count[1] + count[2], <<"s", "s", "s">>) \o Times(count[3], <<"m">>)
                 \o Times(count[4], Mixed["LIBSEL"])

\* The field that follows those already known.
FieldAfter(id, values, more) ==
  LET fs == Fields(id) \o (IF id = "IDENTS" /\ Len(values) >= 4 THEN Idents(values) ELSE <<>>)
      n  == Len(values) + 1
  IN  IF n <= Len(fs) THEN fs[n]
      ELSE IF id \in DOMAIN Repeated /\ more THEN Repeated[id][((n - Len(fs) - 1) % Len(Repeated[id])) + 1]
      ELSE "end"

-----------------------------------------------------------------------------
(* toBytes and fromBytes.                                                  *)

PackBytes(v) == <<Len(v)>> \o v
Padding(n) == [i \in 1 .. (Align - (n % Align)) % Align |-> 0]

Pack(f, v) ==
  CASE f = "n" -> <<v>>
    [] f = "s" -> PackBytes(v)
    [] f = "d" -> PackBytes(v) \o Padding(Len(v))
    [] f = "m" -> <<Len(v) \div 2>> \o FlattenSeq([i \in DOMAIN v |-> PackBytes(v[i])])

Payload(m) == FlattenSeq([i \in DOMAIN m.body |->
                 Pack(FieldAfter(m.id, SubSeq(m.body, 1, i - 1), TRUE), m.body[i])])

HdrLen == 3
ToBytes(m, seq) == <<m.id, seq, Len(Payload(m))>> \o Payload(m)

Failed   == [value |-> <<>>, next |-> 0]
NoHeader == [id |-> "", seq |-> 0, length |-> 0]

\* A faulty variant: the padding is not skipped.
UnpackBytesOnly(f, pl, offset) ==
  IF offset >= Len(pl) \/ offset + 1 + pl[offset + 1] > Len(pl) THEN Failed
  ELSE [value |-> SubSeq(pl, offset + 2, offset + 1 + pl[offset + 1]),
        next |-> offset + 1 + pl[offset + 1]]

UnpackBytes(f, pl, offset) ==
  IF offset >= Len(pl) \/ offset + 1 + pl[offset + 1] > Len(pl) THEN Failed
  ELSE LET length == pl[offset + 1]
       IN  [value |-> SubSeq(pl, offset + 2, offset + 1 + length),
            next  |-> offset + 1 + length + (IF f = "d" THEN Len(Padding(length)) ELSE 0)]

UnpackModule(pl, offset) ==
  IF offset >= Len(pl) THEN Failed
  ELSE FoldLeft(LAMBDA r, i : IF r.next = 0 THEN r
                              ELSE LET s == UnpackBytes("s", pl, r.next)
                                   IN  IF s.next = 0 THEN s
                                       ELSE [value |-> Append(r.value, s.value), next |-> s.next],
                [value |-> <<>>, next |-> offset + 1],
                [i \in 1 .. 2 * pl[offset + 1] + 1 |-> i])

Unpack(f, pl, offset) ==
  IF f = "m" THEN UnpackModule(pl, offset)
  ELSE IF f # "n" THEN UnpackBytes(f, pl, offset)
  ELSE IF offset >= Len(pl) THEN Failed
  ELSE [value |-> pl[offset + 1], next |-> offset + 1]

\* The one element of the set: the field is unpacked once.
Once(S) == CHOOSE x \in S : TRUE

RECURSIVE FromBytes(_, _, _, _)
FromBytes(id, pl, offset, values) ==
  LET f == FieldAfter(id, values, offset < Len(pl))
  IN  IF f = "end" THEN values
      ELSE Once({IF r.next = 0 THEN <<"failed">> ELSE FromBytes(id, pl, r.next, Append(values, r.value)) :
                r \in {Unpack(f, pl, offset)}})

\* The hash a source is asked for by is kept together with its packed length.
Body(id, pl) ==
  LET values == FromBytes(id, pl, 0, <<>>)
  IN  IF id \in {"GET_AWLSRC", "GET_SYMTABSRC"} THEN <<<<values[1], Len(pl)>>>> ELSE values

-----------------------------------------------------------------------------
(* The transceivers.  Sending blocks; the side does nothing else until the *)
(* whole message is in the socket.                                         *)

Sends(s, m) ==
  /\ data[s] = <<>> /\ Len(sent[s]) < MaxSends[s]
  /\ data' = [data EXCEPT ![s] = ToBytes(m, txSeqCount[s])]
  /\ sent' = [sent EXCEPT ![s] = Append(@, [seq |-> txSeqCount[s], id |-> m.id, body |-> m.body])]
  /\ txSeqCount' = [txSeqCount EXCEPT ![s] = (@ + 1) % SeqCount]
  /\ UNCHANGED <<wire, buf, head, received, broken>>

\* The socket takes as much of what is left as it has room for.
SocketTakes(s) ==
  /\ data[s] # <<>> /\ Len(wire[s]) < Room[s]
  /\ LET n == Min({Len(data[s]), Room[s] - Len(wire[s])}) IN
       /\ wire' = [wire EXCEPT ![s] = @ \o SubSeq(data[s], 1, n)]
       /\ data' = [data EXCEPT ![s] = SubSeq(@, n + 1, Len(@))]
  /\ UNCHANGED <<txSeqCount, buf, head, sent, received, broken>>

Deliver(r, h, bytes) ==
  /\ received' = [received EXCEPT ![r] = Append(@, [seq |-> h.seq, id |-> h.id,
                    body |-> Body(h.id, SubSeq(bytes, HdrLen + 1, Len(bytes)))])]
  /\ buf' = [buf EXCEPT ![r] = <<>>] /\ head' = [head EXCEPT ![r] = NoHeader]

Header(bytes) == [id |-> bytes[1], seq |-> bytes[2], length |-> bytes[3]]

ReceiveHeader(r, n) ==
  /\ Len(buf[r]) < HdrLen /\ Len(buf[r]) + n <= HdrLen
  /\ LET bytes == buf[r] \o SubSeq(wire[Other(r)], 1, n)
     IN  IF Len(bytes) = HdrLen /\ bytes[3] = 0 THEN Deliver(r, Header(bytes), bytes)
         ELSE /\ buf' = [buf EXCEPT ![r] = bytes]
              /\ head' = [head EXCEPT ![r] = IF Len(bytes) = HdrLen THEN Header(bytes) ELSE @]
              /\ UNCHANGED received

ReceivePayload(r, n) ==
  /\ Len(buf[r]) >= HdrLen /\ Len(buf[r]) + n <= HdrLen + head[r].length
  /\ LET bytes == buf[r] \o SubSeq(wire[Other(r)], 1, n)
     IN  IF Len(bytes) = HdrLen + head[r].length THEN Deliver(r, head[r], bytes)
         ELSE buf' = [buf EXCEPT ![r] = bytes] /\ UNCHANGED <<head, received>>

Receive(r) ==
  /\ data[r] = <<>> /\ ~broken
  /\ \E n \in 1 .. Len(wire[Other(r)]) :
       /\ ReceiveHeader(r, n) \/ ReceivePayload(r, n)
       /\ wire' = [wire EXCEPT ![Other(r)] = SubSeq(@, n + 1, Len(@))]
  /\ UNCHANGED <<txSeqCount, data, sent, broken>>

\* The client waits for a while only, the server reads when there is something
\* to read.  Only for the header is the error of the socket caught.
TimesOut ==
  /\ data["client"] = <<>> /\ ~broken
  /\ wire["server"] = <<>> /\ Len(buf["client"]) >= HdrLen
  /\ broken' = TRUE
  /\ UNCHANGED <<txSeqCount, data, wire, buf, head, sent, received>>

MessagesInit ==
  /\ txSeqCount = [s \in Side |-> 0] /\ data = [s \in Side |-> <<>>] /\ wire = [s \in Side |-> <<>>]
  /\ buf = [s \in Side |-> <<>>] /\ head = [s \in Side |-> NoHeader]
  /\ sent = [s \in Side |-> <<>>] /\ received = [s \in Side |-> <<>>] /\ broken = FALSE

MessagesNext ==
  \/ \E s \in Side : (\E m \in Sendable[s] : Sends(s, m)) \/ SocketTakes(s) \/ Receive(s)
  \/ TimesOut

MessagesFairness == \A s \in Side : WF_messageVars(SocketTakes(s)) /\ WF_messageVars(Receive(s))

MessagesSpec == MessagesInit /\ [][MessagesNext]_messageVars /\ MessagesFairness

-----------------------------------------------------------------------------
(* Properties.                                                             *)

\* Each side has received what the other sent, field by field and in order.
ReceivedAsSent == \A s \in Side : IsPrefix(received[s], sent[Other(s)])

\* However the socket cuts the bytes up and whichever numbers and lengths they
\* hold, nothing is received but what was sent, and a message arrives unless
\* reading has raised an error.  It is so as long as what one of the sides sends
\* fits into the socket: two sides that both wait for room wait for ever.
MessagesArrive ==
  /\ [][ReceivedAsSent']_messageVars
  /\ \A s \in Side : \A n \in 1 .. MaxSends[s] :
       (Len(sent[s]) >= n) ~> (Len(received[Other(s)]) >= n \/ broken)
=============================================================================
