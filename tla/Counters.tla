------------------------------ MODULE Counters ------------------------------
(***************************************************************************)
(* The counters a program can use: the classic counter Z with the          *)
(* instructions S, R, FR, ZV and ZR (core/counters.py), and the IEC blocks *)
(* CTU, CTD and CTUD (system_sfb_0.py .. system_sfb_2.py).  All of them    *)
(* find edges by comparing an input with the one they stored last, the     *)
(* classic counter with one store for each instruction.  calls is history. *)
(***************************************************************************)
EXTENDS Integers, Sequences

CONSTANTS
    MaxCount, MinCount, \* the limits: 999 and 0 for Z, 32767 and -32768 for the IEC blocks
    Presets,            \* what S finds in ACCU 1, and the values of PV
    MaxCalls            \* bound: the calls between two restarts

\* Stands for every operand that is no BCD number.
Invalid == MaxCount + 1

ASSUME CounterAssumption ==
    /\ MaxCount \in Nat /\ MinCount \in Int /\ MinCount <= 0 /\ MaxCalls \in Nat
    /\ Presets \subseteq MinCount..MaxCount

VARIABLES
    block,    \* which counter it is: "Z", "CTU", "CTD" or "CTUD"
    counter,  \* the count: counter of Z, CV of the IEC blocks
    prev,     \* the stored inputs: prevVKE_FR, .. of Z, CUO and CDO of the IEC blocks
    Q,        \* the outputs of the IEC blocks: QU of CTU and CTUD, QD of CTD and CTUD
    failed,   \* has S raised an error?
    calls
counterVars == <<block, counter, prev, Q, failed, calls>>

Lowest == IF block = "Z" THEN 0 ELSE MinCount

\* Variant: the limit is not kept.
CountUpBeyond(n) == n + 1

CountUp(n) == IF n < MaxCount THEN n + 1 ELSE n
CountDown(n) == IF n > Lowest THEN n - 1 ELSE n

Stores == {"FR", "S", "ZV", "ZR", "CU", "CD"}
RisingEdge(input, v) == prev[input] = 0 /\ v = 1
Called(c) == Len(calls) < MaxCalls /\ ~failed /\ calls' = Append(calls, c)

CounterInit ==
    /\ block \in {"Z", "CTU", "CTD", "CTUD"}
    /\ counter = 0 /\ prev = [s \in Stores |-> 0]
    /\ Q = [up |-> 0, down |-> 0] /\ failed = FALSE /\ calls = <<>>
-----------------------------------------------------------------------------
\* S: an operand that is no BCD number raises an error at the edge, before
\* the edge is stored.
Set(v, preset) ==
    /\ block = "Z" /\ Called([op |-> "S", v |-> v, preset |-> preset])
    /\ IF RisingEdge("S", v) /\ preset = Invalid
       THEN failed' = TRUE /\ UNCHANGED <<counter, prev>>
       ELSE /\ counter' = IF RisingEdge("S", v) THEN preset ELSE counter
            /\ prev' = [prev EXCEPT !["S"] = v]
            /\ failed' = failed
    /\ UNCHANGED <<block, Q>>

\* R with VKE = 1.
Reset ==
    /\ block = "Z" /\ Called([op |-> "R", v |-> 1])
    /\ counter' = 0
    /\ UNCHANGED <<block, prev, Q, failed>>

\* FR makes the other instructions see an edge again.
RunFR(v) ==
    /\ block = "Z" /\ Called([op |-> "FR", v |-> v])
    /\ prev' = IF RisingEdge("FR", v)
               THEN [prev EXCEPT !["FR"] = v, !["S"] = 0, !["ZV"] = 0, !["ZR"] = 0]
               ELSE [prev EXCEPT !["FR"] = v]
    /\ UNCHANGED <<block, counter, Q, failed>>

RunZV(v) ==
    /\ block = "Z" /\ Called([op |-> "ZV", v |-> v])
    /\ counter' = IF RisingEdge("ZV", v) THEN CountUp(counter) ELSE counter
    /\ prev' = [prev EXCEPT !["ZV"] = v]
    /\ UNCHANGED <<block, Q, failed>>

RunZR(v) ==
    /\ block = "Z" /\ Called([op |-> "ZR", v |-> v])
    /\ counter' = IF RisingEdge("ZR", v) THEN CountDown(counter) ELSE counter
    /\ prev' = [prev EXCEPT !["ZR"] = v]
    /\ UNCHANGED <<block, Q, failed>>
-----------------------------------------------------------------------------
\* A call of CTU, CTD or CTUD with the inputs in.
NewCountCTU(in) ==
    IF in.R = 1 THEN 0 ELSE IF RisingEdge("CU", in.CU) THEN CountUp(counter) ELSE counter

NewCountCTD(in) ==
    IF in.LOAD = 1 THEN in.PV
    ELSE IF RisingEdge("CD", in.CD) THEN CountDown(counter) ELSE counter

NewCountCTUD(in) ==
    IF in.R = 1 THEN 0
    ELSE IF in.LOAD = 1 THEN in.PV
    ELSE IF RisingEdge("CD", in.CD) /\ ~RisingEdge("CU", in.CU) THEN CountDown(counter)
    ELSE IF RisingEdge("CU", in.CU) /\ ~RisingEdge("CD", in.CD) THEN CountUp(counter)
    ELSE counter

AsBit(b) == IF b THEN 1 ELSE 0
IecCall(in) ==
    /\ block # "Z" /\ Called(in)
    /\ CASE block = "CTU" ->
              /\ counter' = NewCountCTU(in)
              /\ prev' = [prev EXCEPT !["CU"] = in.CU]
              /\ Q' = [Q EXCEPT !.up = AsBit(counter' >= in.PV)]
         [] block = "CTD" ->
              /\ counter' = NewCountCTD(in)
              /\ prev' = [prev EXCEPT !["CD"] = in.CD]
              /\ Q' = [Q EXCEPT !.down = AsBit(counter' <= 0)]
         [] block = "CTUD" ->
              /\ counter' = NewCountCTUD(in)
              /\ prev' = [prev EXCEPT !["CU"] = in.CU, !["CD"] = in.CD]
              /\ Q' = [up |-> AsBit(counter' >= in.PV), down |-> AsBit(counter' <= 0)]
    /\ UNCHANGED <<block, failed>>

\* The CPU is loaded anew: new counters, new instance data.
Restart ==
    /\ calls # <<>>
    /\ counter' = 0 /\ prev' = [s \in Stores |-> 0] /\ Q' = [up |-> 0, down |-> 0]
    /\ failed' = FALSE /\ calls' = <<>>
    /\ UNCHANGED block

\* The inputs of a block; those it does not have are 0.
Inputs ==
    {in \in [CU : {0, 1}, CD : {0, 1}, R : {0, 1}, LOAD : {0, 1}, PV : Presets] :
       /\ block = "CTU" => in.CD = 0 /\ in.LOAD = 0
       /\ block = "CTD" => in.CU = 0 /\ in.R = 0}

CounterNext ==
    \/ \E v \in {0, 1} :
         \/ RunFR(v) \/ RunZV(v) \/ RunZR(v)
         \/ \E preset \in (Presets \cap 0..MaxCount) \cup {Invalid} : Set(v, preset)
    \/ Reset
    \/ \E in \in Inputs : IecCall(in)
    \/ Restart

CounterSpec == CounterInit /\ [][CounterNext]_counterVars
-----------------------------------------------------------------------------
\* The reference reads the whole history.  At call i an instruction of Z sees an
\* edge if its input is 1 and was let go since it was last: by the instruction
\* itself with 0, or by an edge of FR.
RisesAmong(i, releases) ==
    /\ calls[i].v = 1
    /\ \A j \in 1..i - 1 :
         calls[j].op = calls[i].op /\ calls[j].v = 1 =>
           \E k \in j + 1..i - 1 : k \in releases \/ (calls[k].op = calls[i].op /\ calls[k].v = 0)
EdgesOfFR == {i \in 1..Len(calls) : calls[i].op = "FR" /\ RisesAmong(i, {})}
RefEdge(i) == RisesAmong(i, EdgesOfFR)

\* What call i makes of the count n.
RefZ(n, i) ==
    LET c == calls[i]
    IN  CASE c.op = "R" -> 0
          [] c.op = "S" -> IF RefEdge(i) /\ c.preset # Invalid THEN c.preset ELSE n
          [] c.op = "ZV" -> IF RefEdge(i) /\ n < MaxCount THEN n + 1 ELSE n
          [] c.op = "ZR" -> IF RefEdge(i) /\ n > 0 THEN n - 1 ELSE n
          [] OTHER -> n

\* An IEC counter: up minus down edges since the last call with R or LOAD, cut
\* off at the limits; R goes before LOAD, and both before edges.
RefIec(n, i) ==
    LET rise(x) == calls[i][x] = 1 /\ (i = 1 \/ calls[i - 1][x] = 0)
        up == IF block # "CTD" /\ rise("CU") THEN 1 ELSE 0
        down == IF block # "CTU" /\ rise("CD") THEN 1 ELSE 0
    IN  IF block # "CTD" /\ calls[i].R = 1 THEN 0
        ELSE IF block # "CTU" /\ calls[i].LOAD = 1 THEN calls[i].PV
        ELSE IF n + up - down \in MinCount..MaxCount THEN n + up - down ELSE n

RefCounts ==
    LET count[i \in 0..Len(calls)] ==
          IF i = 0 THEN 0 ELSE IF block = "Z" THEN RefZ(count[i - 1], i) ELSE RefIec(count[i - 1], i)
    IN  count

\* Whatever the order of the instructions and the pattern of the inputs, a
\* counter has counted every pulse once and kept to its limits, and the outputs
\* of the IEC blocks compare that count (counters.py; run of SFB 0 to 2).
CountsPulses ==
    LET n == Len(calls)
        count == RefCounts[n]
    IN  /\ counter = count
        /\ block \in {"CTU", "CTUD"} /\ n > 0 => (Q.up = 1 <=> count >= calls[n].PV)
        /\ block \in {"CTD", "CTUD"} /\ n > 0 => (Q.down = 1 <=> count <= 0)
=============================================================================
