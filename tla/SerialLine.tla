----------------------------- MODULE SerialLine -----------------------------
(***************************************************************************)
(* A serial line between containers: the device driver with a transmit and *)
(* a receive buffer per container (s3fserial.c), the thread of the manager *)
(* that looks for bytes to transmit (tk_lxc_manager.cc), and the session   *)
(* in the simulator that asks the partner for leave to send and moves the  *)
(* bytes (serial_session.cc).  Programs, manager threads and timelines run *)
(* concurrently; what the driver does under conn_lock is one step, what    *)
(* it does in two lock sections is two.                                    *)
(***************************************************************************)
EXTENDS Naturals, Sequences, FiniteSets

CONSTANTS
    Host,        \* the containers
    Partner,     \* Partner[h]: the other end of h's line
    TimelineOf,  \* TimelineOf[h]: the timeline h is aligned on
    First,       \* First[t]: the first container in the list of timeline t
    TxSize,      \* TX_BUF_SIZE (100)
    RxSize,      \* RX_BUF_SIZE (200)
    Total,       \* bound: Total[h] bytes are written by h
    ReadCounts,  \* the counts a program passes to read
    RtsCap,      \* bound: requests to send of one container and answers to them under way
    Overlap      \* may the simulator empty a buffer between the two lock
                 \* sections of a write?

ASSUME LineAssumption ==
    /\ Partner \in [Host -> Host] 
    /\ \A h \in Host : Partner[h] # h /\ Partner[Partner[h]] = h
    /\ TxSize \in Nat \ {0} /\ RxSize \in Nat /\ RxSize >= TxSize
    /\ Total \in [Host -> Nat] /\ ReadCounts \subseteq Nat \ {0}
    /\ RtsCap \in Nat \ {0} /\ Overlap \in BOOLEAN
    /\ \A h \in Host : First[TimelineOf[h]] \in Host

VARIABLES
    linked,    \* has the program opened the device and set its partner?
    tx, rx,    \* the two buffers of the connection
    writing,   \* a write between its two lock sections
    written,   \* bytes written
    got,       \* the last byte the program has read
    rts_mask,  \* may the session send?
    wire,      \* wire[h]: messages from h's session to its partner's
    popping    \* a message in pop between the look at the space and the rest
vars == <<linked, tx, rx, writing, written, got, rts_mask, wire, popping>>

None == [start |-> 0, n |-> 0]
Nil == 0               \* flush_buffer writes '\0'
Least(a, b) == IF a < b THEN a ELSE b

\* The bytes in a buffer, oldest first.
TxBytes(h) == SubSeq(tx[h].buf, 1, tx[h].num_bytes_to_transmit)
RxBytes(h) == [i \in 1..rx[h].num_received_bytes |->
                 rx[h].buf[(rx[h].recv_start + i - 1) % RxSize]]
Free(h) == RxSize - rx[h].num_received_bytes

Init ==
    /\ linked = [h \in Host |-> FALSE]
    /\ tx = [h \in Host |-> [buf |-> [i \in 1..TxSize |-> Nil], num_bytes_to_transmit |-> 0]]
    /\ rx = [h \in Host |-> [buf |-> [i \in 0..RxSize - 1 |-> Nil],
                             num_received_bytes |-> 0, recv_start |-> 0]]
    /\ writing = [h \in Host |-> None]
    /\ written = [h \in Host |-> 0] /\ got = [h \in Host |-> 0]
    /\ rts_mask = [h \in Host |-> FALSE]
    /\ wire = [h \in Host |-> <<>>]
    /\ popping = [h \in Host |-> <<>>]
-----------------------------------------------------------------------------
(* Programs in the containers.                                             *)

\* open, then SETCONNLXC.
Link(h) ==
    /\ ~linked[h]
    /\ linked' = [linked EXCEPT ![h] = TRUE]
    /\ UNCHANGED <<tx, rx, writing, written, got, rts_mask, wire, popping>>

\* write, first section: where the free part of the buffer begins.  A full
\* buffer ends the write.
WriteLook(h, count) ==
    /\ linked[h] /\ writing[h] = None
    /\ LET start == tx[h].num_bytes_to_transmit
           n     == Least(TxSize - start, count)
       IN  /\ n > 0
           /\ writing' = [writing EXCEPT ![h] = [start |-> start, n |-> n]]
    /\ UNCHANGED <<linked, tx, rx, written, got, rts_mask, wire, popping>>

\* Second section: the bytes are stored where the first section said.
WriteStore(h) ==
    /\ writing[h] # None
    /\ LET w == writing[h]
       IN  /\ tx' = [tx EXCEPT ![h] =
                 [buf |-> [i \in 1..TxSize |-> IF i \in w.start + 1 .. w.start + w.n
                                               THEN written[h] + i - w.start ELSE @.buf[i]],
                  num_bytes_to_transmit |-> @.num_bytes_to_transmit + w.n]]
           /\ written' = [written EXCEPT ![h] = @ + w.n]
    /\ writing' = [writing EXCEPT ![h] = None]
    /\ UNCHANGED <<linked, rx, got, rts_mask, wire, popping>>

\* What is left of a receive buffer when n bytes are taken.
Popped(h, n) ==
    [rx[h] EXCEPT !.num_received_bytes = @ - n,
                  !.recv_start = IF n = rx[h].num_received_bytes THEN 0 ELSE (@ + n) % RxSize]

Read(h, count) ==
    /\ linked[h] /\ rx[h].num_received_bytes > 0
    /\ LET n == Least(rx[h].num_received_bytes, count)
       IN  /\ got' = [got EXCEPT ![h] = RxBytes(h)[n]]
           /\ rx' = [rx EXCEPT ![h] = Popped(h, n)]
    /\ UNCHANGED <<linked, tx, writing, written, rts_mask, wire, popping>>
-----------------------------------------------------------------------------
(* The manager's threads, one per timeline.                                *)

Message(command, data) == [command |-> command, data |-> data]
Push(h, message) == wire' = [wire EXCEPT ![h] = Append(@, message)]
Count(h, command) == Cardinality({i \in 1..Len(wire[h]) : wire[h][i].command = command})
RtsUnderWay(h) == Count(h, "RTS") + Count(Partner[h], "CTS")

\* GETACTIVECONNS shows that h has bytes to transmit.  The thread closes its
\* descriptor after the first container of its list, for the others the call
\* fails.
Polled(h) ==
    /\ linked[h] /\ tx[h].num_bytes_to_transmit > 0
    /\ First[TimelineOf[h]] = h

\* Without leave to send, a request to send goes out ...
InjectRts(h) ==
    /\ Polled(h)
    /\ ~rts_mask[h]
    /\ RtsUnderWay(h) < RtsCap
    /\ Push(h, Message("RTS", <<>>))
    /\ UNCHANGED <<linked, tx, rx, writing, written, got, rts_mask, popping>>

\* ... with it, all bytes of the transmit buffer (IORTX).
InjectData(h) ==
    /\ Polled(h)
    /\ rts_mask[h]
    /\ writing[h] = None \/ Overlap
    /\ Push(h, Message("DATA", TxBytes(h)))
    /\ tx' = [tx EXCEPT ![h] = [buf |-> [i \in 1..TxSize |-> Nil], num_bytes_to_transmit |-> 0]]
    /\ UNCHANGED <<linked, rx, writing, written, got, rts_mask, popping>>
-----------------------------------------------------------------------------
(* The sessions in the simulator.                                          *)

Incoming(h) == Head(wire[Partner[h]])

\* A message for a container whose program has not set its partner is dropped.
PopUnknown(h) ==
    /\ wire[Partner[h]] # <<>> /\ ~linked[h]
    /\ wire' = [wire EXCEPT ![Partner[h]] = Tail(@)]
    /\ UNCHANGED <<linked, tx, rx, writing, written, got, rts_mask, popping>>

\* get_rxbuf_space: a lock section of its own.
PopLook(h) ==
    /\ wire[Partner[h]] # <<>> /\ linked[h] /\ popping[h] = <<>>
    /\ popping' = [popping EXCEPT ![h] = <<Free(h)>>]
    /\ UNCHANGED <<linked, tx, rx, writing, written, got, rts_mask, wire>>

\* Variants: leave to send is given for any space; the answer to a request
\* looks at the wrong bound.
ReplyFreely(command, space) ==
    IF command = "RTS" THEN <<Message("CTS", <<>>)>>
    ELSE IF space < TxSize THEN <<Message("DNS", <<>>)>> ELSE <<>>
ReplyNever(command, space) ==
    IF command = "RTS" THEN IF space > RxSize THEN <<Message("CTS", <<>>)>> ELSE <<>>
    ELSE IF space < TxSize THEN <<Message("DNS", <<>>)>> ELSE <<>>

\* Leave to send is given for a request when a whole transmit buffer fits, and
\* taken back when any other message finds less space than that.
Reply(command, space) ==
    IF command = "RTS" THEN IF space >= TxSize THEN <<Message("CTS", <<>>)>> ELSE <<>>
    ELSE IF space < TxSize THEN <<Message("DNS", <<>>)>> ELSE <<>>

\* Variant: bytes are stored from the start of the buffer.
StoredAtStart(h, data) ==
    [rx[h] EXCEPT !.buf = [i \in 0..RxSize - 1 |->
         LET k == ((i + RxSize - rx[h].recv_start) % RxSize) + 1
         IN  IF k <= Len(data) THEN data[k] ELSE @[i]],
                  !.num_received_bytes = @ + Len(data)]

\* IOWRX: behind the bytes that are there, all or none.
Stored(h, data) ==
    LET end == rx[h].recv_start + rx[h].num_received_bytes
    IN  IF Free(h) < Len(data) THEN rx[h]
        ELSE [rx[h] EXCEPT
               !.buf = [i \in 0..RxSize - 1 |->
                          LET k == ((i + 2 * RxSize - end) % RxSize) + 1
                          IN  IF k <= Len(data) THEN data[k] ELSE @[i]],
               !.num_received_bytes = @ + Len(data)]

\* The rest of pop: as many bytes as there was space for go to the driver.
PopEnd(h) ==
    /\ popping[h] # <<>>
    /\ LET space   == Head(popping[h])
           message == Incoming(h)
           fitting == SubSeq(message.data, 1, Least(Len(message.data), space))
       IN  /\ rx' = IF message.command = "DATA" THEN [rx EXCEPT ![h] = Stored(h, fitting)] ELSE rx
           /\ rts_mask' = CASE message.command = "CTS" -> [rts_mask EXCEPT ![h] = TRUE]
                            [] message.command = "DNS" -> [rts_mask EXCEPT ![h] = FALSE]
                            [] OTHER -> rts_mask
           /\ wire' = [wire EXCEPT ![Partner[h]] = Tail(@),
                                   ![h] = @ \o Reply(message.command, space)]
    /\ popping' = [popping EXCEPT ![h] = <<>>]
    /\ UNCHANGED <<linked, tx, writing, written, got>>

Program(h) ==
    \/ Link(h)
    \/ \E count \in 1..(Total[h] - written[h]) : WriteLook(h, count)
    \/ WriteStore(h)
    \/ \E count \in ReadCounts : Read(h, count)
Inject(h) == InjectRts(h) \/ InjectData(h)
Pop(h) == PopUnknown(h) \/ PopLook(h) \/ PopEnd(h)

Next == \E h \in Host : Program(h) \/ Inject(h) \/ Pop(h)

\* The threads and the timelines run on; a program that opens the device ends
\* a write it has begun and reads what arrives.
Fairness == \A h \in Host :
    /\ WF_vars(Link(h)) /\ WF_vars(WriteStore(h))
    /\ WF_vars(\E count \in ReadCounts : Read(h, count))
    /\ WF_vars(Inject(h)) /\ WF_vars(Pop(h))

Spec == Init /\ [][Next]_vars /\ Fairness
-----------------------------------------------------------------------------

\* The bytes under way from h: in its partner's buffer, on the wire, in its own.
Elements(s) == {s[i] : i \in DOMAIN s}
OnWire(h) == UNION {Elements(wire[h][k].data) : k \in DOMAIN wire[h]}
Transit == [h \in Host |-> Elements(RxBytes(Partner[h])) \cup OnWire(h) \cup Elements(TxBytes(h))]

\* The line implements the channel: what arrives is what was written, in order
\* and once, whatever is lost on the way.
Channel == INSTANCE SerialChannel WITH
    transit <- Transit, got <- [h \in Host |-> got[Partner[h]]]
ChannelSpec == Channel!Spec

\* A container that gets leave to send has a partner that can take a whole
\* transmit buffer, whatever was sent and read since it asked.
LeaveMeansRoom ==
    [][\A h \in Host : ~rts_mask[h] /\ rts_mask'[h] => (Free(Partner[h]) >= TxSize)']_vars

\* Bytes in a transmit buffer do not stay there.
Transmitted == \A h \in Host :
    tx[h].num_bytes_to_transmit > 0 ~> tx[h].num_bytes_to_transmit = 0

\* serial_message.h: CTS is "Clear to Send", DNS "Do not send anymore": bytes
\* sent with leave fit into the receive buffer.
ClearToSendFits == \A h \in Host :
    popping[h] # <<>> /\ wire[Partner[h]] # <<>> => Len(Incoming(h).data) <= Head(popping[h])
=============================================================================
