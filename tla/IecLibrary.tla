---------------------------- MODULE IecLibrary ------------------------------
(***************************************************************************)
(* The blocks of the IEC library, AWL programs that the CPU runs like any  *)
(* other: DELETE (FC 4), EQ_DT (FC 9), GE_DT (FC 12) and LEN (FC 21).      *)
(*                                                                         *)
(* A string is two bytes, its maximum and its actual length, and its       *)
(* characters; DELETE walks over two of them with the address registers,   *)
(* pointers to bits.  In memory the string IN starts at InAt, RET_VAL at   *)
(* RetAt or, when a program shortens a string in place, at InAt as well.   *)
(* A DATE_AND_TIME is eight bytes of two decimal digits each: year, month, *)
(* day, hour, minute, second, two digits of the milliseconds, and the last *)
(* digit with the day of the week.                                         *)
(***************************************************************************)
EXTENDS Integers, Sequences

CONSTANTS
    MaxIn,      \* bound: the characters IN has room for
    RetMaxes,   \* the characters RET_VAL has room for
    Numbers,     \* the values of L and P
    Dates       \* DATE_AND_TIME values

InAt  == 3
RetAt == InAt + 2 + MaxIn + 1
Unused == -1       \* a byte outside of the strings

\* The day of the week, the last digit of a date, follows from the others.
ASSUME IecLibraryAssumption ==
    /\ MaxIn \in Nat /\ RetMaxes \subseteq 0 .. MaxIn /\ Numbers \subseteq Int
    /\ \A d \in Dates : d \in [1..8 -> 0..255]
    /\ \A d, e \in Dates : (\A i \in 1..7 : d[i] = e[i]) /\ d[8] \div 16 = e[8] \div 16 => d[8] = e[8]

VARIABLES
    bytes,    \* the memory of the two strings
    call,     \* the block that is called and its parameters
    at,       \* the label it has come to
    reg,      \* AR1, AR2 and its temporary variables, pointers in bits
    ret,      \* RET_VAL, where it is not a string
    bie       \* the status bit BIE, which ENO is made of
libraryVars == <<bytes, call, at, reg, ret, bie>>

Smaller(a, b) == IF a <= b THEN a ELSE b
Pointer(byte) == 8 * byte
MaxLen(p) == bytes[p \div 8]
ActLen(p) == bytes[p \div 8 + 1]

\* The character at position i of IN is 100 + i.
StringAt(start, max, len, i) ==
    IF i = start THEN max ELSE IF i = start + 1 THEN len
    ELSE IF i \in start + 2 .. start + 1 + len THEN 100 + i - start - 1 ELSE 0

NoRegs == [AR1 |-> 0, AR2 |-> 0, MAX_COPY_LEN |-> 0, IN_END |-> 0,
           DEL_START |-> 0, DEL_END |-> 0, RET_VAL_START |-> 0]
NoCall == [fc |-> "none"]

LibraryInit ==
    /\ bytes = [i \in 0 .. RetAt + MaxIn + 2 |-> Unused]
    /\ call = NoCall /\ at = "idle" /\ reg = NoRegs /\ ret = Unused /\ bie = FALSE
-----------------------------------------------------------------------------
(* DELETE                                                                  *)

CallDelete(inMax, inLen, retMax, inPlace, L, P) ==
    LET retAt == IF inPlace THEN InAt ELSE RetAt
    IN  /\ call' = [fc |-> "DELETE", L |-> L, P |-> P, len |-> inLen, retAt |-> retAt,
                    retMax |-> IF inPlace THEN inMax ELSE retMax]
        /\ bytes' = [i \in DOMAIN bytes |->
               IF i \in InAt .. InAt + 1 + inMax THEN StringAt(InAt, inMax, inLen, i)
               ELSE IF ~inPlace /\ i \in RetAt .. RetAt + 1 + retMax THEN StringAt(RetAt, retMax, 0, i)
               ELSE Unused]
        /\ reg' = [NoRegs EXCEPT !.AR1 = Pointer(InAt), !.AR2 = Pointer(retAt), !.RET_VAL_START = Pointer(retAt),
                                 !.IN_END = Pointer(InAt + inLen + 2)]
        /\ at' = "CEND" /\ UNCHANGED <<ret, bie>>

\* Negative values of L or P are refused.
RefuseNegative ==
    /\ at = "CEND" /\ (call.L < 0 \/ call.P < 0)
    /\ bytes' = [bytes EXCEPT ![reg.AR2 \div 8 + 1] = 0]
    /\ bie' = FALSE /\ at' = "END" /\ UNCHANGED <<call, reg, ret>>

MaxCopyLen == Smaller(MaxLen(reg.AR2), ActLen(reg.AR1))

\* What is deleted, from its first character to behind its last.
Deleted(start, end) == [start |-> start, end |-> Smaller(start + Pointer(call.L), end)]

\* Nothing is deleted: the whole string is copied, as if what is deleted were
\* the empty string at its end.
NothingDeleted == call.L = 0 \/ call.P = 0 \/ call.P > MaxCopyLen

\* Variant: what is copied in front of the deleted part is not cut.
CutBehindOnly(del) ==
    LET end == reg.AR1 + Pointer(MaxCopyLen + 2) + (del.end - del.start)
    IN  reg' = [reg EXCEPT !.MAX_COPY_LEN = MaxCopyLen, !.DEL_START = del.start, !.DEL_END = del.end,
                           !.IN_END = Smaller(reg.IN_END, end),
                           !.AR1 = @ + Pointer(2), !.AR2 = @ + Pointer(2)]

\* The labels ZCHK, FCPY, SNIP, SNP2 and SKIP: what is copied is cut to the
\* room in RET_VAL, first in front of what is deleted and then behind it.
CutToRoom(del) ==
    LET limit == reg.AR1 + Pointer(MaxCopyLen + 2)
        from  == IF limit >= del.start THEN del ELSE [start |-> limit, end |-> limit]
        end   == reg.AR1 + Pointer(MaxCopyLen + 2) + (from.end - from.start)
    IN  reg' = [reg EXCEPT !.MAX_COPY_LEN = MaxCopyLen, !.DEL_START = from.start, !.DEL_END = from.end,
                           !.IN_END = Smaller(reg.IN_END, end),
                           !.AR1 = @ + Pointer(2), !.AR2 = @ + Pointer(2)]

Prepare ==
    /\ at = "CEND" /\ call.L >= 0 /\ call.P >= 0
    /\ CutToRoom(IF NothingDeleted THEN [start |-> reg.IN_END, end |-> reg.IN_END]
                ELSE Deleted(reg.AR1 + Pointer(call.P + 1), reg.IN_END))
    /\ at' = "CPY1" /\ UNCHANGED <<bytes, call, ret, bie>>

CopyCharacter ==
    /\ bytes' = [bytes EXCEPT ![reg.AR2 \div 8] = bytes[reg.AR1 \div 8]]
    /\ reg' = [reg EXCEPT !.AR1 = @ + Pointer(1), !.AR2 = @ + Pointer(1)]
    /\ UNCHANGED at

CopyBefore ==
    /\ at = "CPY1" /\ UNCHANGED <<call, ret, bie>>
    /\ IF reg.AR1 >= reg.DEL_START
       THEN /\ reg' = [reg EXCEPT !.AR1 = reg.DEL_END] /\ at' = "CPY2" /\ UNCHANGED bytes
       ELSE CopyCharacter

CopyBehind ==
    /\ at = "CPY2" /\ UNCHANGED <<call, ret, bie>>
    /\ IF reg.AR1 >= reg.IN_END THEN at' = "WLEN" /\ UNCHANGED <<bytes, reg>>
       ELSE CopyCharacter

WriteLength ==
    /\ at = "WLEN" /\ at' = "END" /\ bie' = TRUE
    /\ bytes' = [bytes EXCEPT ![reg.RET_VAL_START \div 8 + 1] = (reg.AR2 - reg.RET_VAL_START) \div 8 - 2]
    /\ reg' = [reg EXCEPT !.AR2 = reg.RET_VAL_START] /\ UNCHANGED <<call, ret>>
-----------------------------------------------------------------------------
(* LEN and the comparison of dates.                                        *)

CallLen(inMax, inLen) ==
    /\ call' = [fc |-> "LEN", len |-> inLen]
    /\ bytes' = [i \in DOMAIN bytes |->
                    IF i \in InAt .. InAt + 1 + inMax THEN StringAt(InAt, inMax, inLen, i) ELSE Unused]
    /\ ret' = bytes'[InAt + 1] /\ bie' = TRUE /\ at' = "END" /\ UNCHANGED reg

\* Bytes first .. first + 2 of a date, as the lower 24 bits of a double word.
Three(d, first) == d[first] * 65536 + d[first + 1] * 256 + d[first + 2]

IsBcd(b) == b % 16 <= 9 /\ b \div 16 <= 9

\* The year with its century, still in decimal digits; 89 is 2089.
Century(y) == (IF 137 >= y THEN 8192 ELSE 6400) + y

\* The comparison goes on with the next bytes when these are equal.
GreaterEqual(d1, d2) ==
    LET y1 == Century(d1[1])  y2 == Century(d2[1])
    IN  IF y1 # y2 THEN y1 > y2
        ELSE IF Three(d1, 2) # Three(d2, 2) THEN Three(d1, 2) > Three(d2, 2)
        ELSE IF Three(d1, 5) # Three(d2, 5) THEN Three(d1, 5) > Three(d2, 5)
        ELSE d1[8] >= d2[8]

\* A year that is no decimal number leaves RET_VAL as it was.
CallGE(d1, d2) ==
    /\ call' = [fc |-> "GE_DT", d1 |-> d1, d2 |-> d2] /\ at' = "END" /\ UNCHANGED <<bytes, reg>>
    /\ IF IsBcd(d1[1]) /\ IsBcd(d2[1])
       THEN ret' = (IF GreaterEqual(d1, d2) THEN 1 ELSE 0) /\ bie' = TRUE
       ELSE UNCHANGED ret /\ bie' = FALSE

CallEQ(d1, d2) ==
    /\ call' = [fc |-> "EQ_DT", d1 |-> d1, d2 |-> d2] /\ at' = "END" /\ UNCHANGED <<bytes, reg>>
    /\ ret' = (IF SubSeq(d1, 1, 4) = SubSeq(d2, 1, 4) /\ SubSeq(d1, 5, 8) = SubSeq(d2, 5, 8) THEN 1 ELSE 0)
    /\ bie' = TRUE

LibraryNext ==
    \/ /\ at = "idle"
       /\ \/ \E inMax \in 0..MaxIn : \E inLen \in 0..inMax :
               \/ \E retMax \in RetMaxes, inPlace \in BOOLEAN, L, P \in Numbers :
                     CallDelete(inMax, inLen, retMax, inPlace, L, P)
               \/ CallLen(inMax, inLen)
          \/ \E d1, d2 \in Dates : CallGE(d1, d2) \/ CallEQ(d1, d2)
    \/ RefuseNegative \/ Prepare \/ CopyBefore \/ CopyBehind \/ WriteLength
-----------------------------------------------------------------------------
\* What remains of the characters 1 .. len without the L from position P on,
\* as far as there is room.
Kept(len, L, P, room) ==
    LET none == L = 0 \/ P = 0 \/ P > len
        gone == IF none THEN 0 ELSE Smaller(L, len - P + 1)
    IN  [i \in 1 .. Smaller(room, len - gone) |-> IF none \/ i < P THEN i ELSE i + L]

DeleteDoes ==
    LET expected == IF call.L < 0 \/ call.P < 0 THEN <<>> ELSE Kept(call.len, call.L, call.P, call.retMax)
        first    == call.retAt + 2
    IN  /\ bie = (call.L >= 0 /\ call.P >= 0)
        /\ bytes[call.retAt] = call.retMax /\ bytes[call.retAt + 1] = Len(expected)
        /\ \A i \in DOMAIN expected : bytes[first + i - 1] = 100 + expected[i]
        /\ \A i \in DOMAIN bytes \ (InAt .. InAt + 1 + MaxIn) :
               i \notin call.retAt .. call.retAt + 1 + call.retMax => bytes[i] = Unused

\* A date as the digits it is written with, and the order of dates.
Year(d) == (IF d[1] >= 144 THEN 1900 ELSE 2000) + 10 * (d[1] \div 16) + (d[1] % 16)
Field(d, i) == IF i = 1 THEN Year(d) ELSE IF i = 8 THEN d[8] \div 16 ELSE d[i]
Earlier(d1, d2) == \E i \in 1..8 : /\ Field(d1, i) < Field(d2, i)
                                   /\ \A j \in 1 .. i - 1 : Field(d1, j) = Field(d2, j)

\* The library does what the names of its blocks say, for every string, also
\* in place and when there is no room for the result, and nothing beside the
\* result is written; dates from 1990 to 2089 are compared as points in time.
LibraryDoes ==
    at = "END" =>
      CASE call.fc = "DELETE" -> DeleteDoes
        [] call.fc = "LEN"    -> ret = call.len
        [] call.fc = "GE_DT"  -> bie => (ret = 1) = ~Earlier(call.d1, call.d2)
        [] OTHER              -> (ret = 1) = (call.d1 = call.d2)
=============================================================================
