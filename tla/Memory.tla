------------------------------- MODULE Memory -------------------------------
(***************************************************************************)
(* How an instruction of the emulated CPU reaches memory: fetch and store  *)
(* of core/cpu.py by operand type, the resolution of indirect operands and *)
(* pointers (core/operators.py), the byte arrays behind them               *)
(* (core/datatypes.py) and the data block registers, with the instructions *)
(* that load, transfer and work on the address registers.                  *)
(*                                                                         *)
(* A double word is four bytes of Bits bits.  As in the code, a pointer is *)
(* one byte of area code over three bytes of address, of which the lower   *)
(* AddressBits count; the last bits of the address number a bit in a byte. *)
(***************************************************************************)
EXTENDS Integers

CONSTANTS
  Bits,         \* bits in a byte: 8
  AddressBits,  \* bits of a bit address: 19
  SizeOf,       \* the bytes of each space: inputs, outputs, flags, data blocks ...
  Fill,         \* the contents to start from, as a function of space and byte
  Contexts,     \* what surrounds the block: [fb, parent, mcrOff]
  LoadOps, StoreOps,\* operands of L and T
  BitLoadOps, BitStoreOps,  \* operands of U and =
  Pointers,     \* immediate pointers of LAR1 and LAR2
  Steps,        \* operands of +AR1 and +AR2
  Given,        \* what the hardware may answer to a direct read
  MaxAccesses   \* bound: instructions of a behaviour

NoDb == -1      \* the operand names no data block

ASSUME MemoryAssumption ==
  /\ Bits \in {4, 8}
  /\ AddressBits \in Nat /\ AddressBits < 3 * Bits
  /\ \A s \in DOMAIN SizeOf : SizeOf[s] \in Nat

VARIABLES cells,    \* the bytes of each space
          regs,     \* accu1, accu2, ar1, ar2, VKE and the DB and DI registers
          aim,      \* what AR1 and AR2 point to by the arithmetic of the program
          context,  \* the block that runs, of Contexts
          halted,   \* an AwlSimError stopped the CPU
          did,      \* the last access
          accesses  \* bound: instructions so far

memoryVars == <<cells, regs, aim, context, halted, did, accesses>>

-----------------------------------------------------------------------------
ByteM     == 2 ^ Bits
AreaUnit  == 2 ^ (3 * Bits)
DWordM    == 2 ^ (4 * Bits)
AddressM  == 2 ^ AddressBits

\* Operands.  DB and DI need a data block; PE and PA go to the hardware too.
Direct(type, w, addr, nr) ==
  [type |-> type, w |-> w, addr |-> addr, nr |-> nr, area |-> "", ar |-> 0]
\* Register-indirect: ar is 1 or 2, area "" for an area-spanning access.
ViaRegister(area, w, ar, offset) ==
  [type |-> "indirect", w |-> w, addr |-> offset, nr |-> NoDb, area |-> area, ar |-> ar]
\* Memory-indirect: the pointer is a double word of the flags.
ViaMemory(area, w, at) ==
  [type |-> "indirect", w |-> w, addr |-> at, nr |-> NoDb, area |-> area, ar |-> 0]
NoOperand == Direct("none", 1, 0, NoDb)

AreaCode(area) ==
  2 ^ (Bits - 1) + (CASE area = "P" -> 0 [] area = "E" -> 1 [] area = "A" -> 2 [] area = "M" -> 3
                      [] area = "DB" -> 4 [] area = "DI" -> 5 [] area = "L" -> 6 [] area = "VL" -> 7)
AreaNames == {"P", "E", "A", "M", "DB", "DI", "L", "VL"}
PointerTo(area, addr) == (IF area = "" THEN 0 ELSE AreaCode(area) * AreaUnit) + addr

-----------------------------------------------------------------------------
(* The byte arrays.                                                        *)

BytesOf(w) == IF w = 1 THEN 1 ELSE w \div Bits
Inside(s, at, w) == (at \div Bits) + BytesOf(w) <= SizeOf[s]

\* ByteArray.fetch: a bit, or bytes with the highest first; a bit offset of more
\* than a bit is dropped.
FetchFrom(s, at, w) ==
  LET b == at \div Bits  c == cells[s]
  IN  CASE w = 1        -> (c[b] \div 2 ^ (at % Bits)) % 2
        [] w = Bits     -> c[b]
        [] w = 2 * Bits -> c[b] * ByteM + c[b + 1]
        [] w = 4 * Bits -> ((c[b] * ByteM + c[b + 1]) * ByteM + c[b + 2]) * ByteM + c[b + 3]

\* ByteArray.store, byte by byte: what is inside has been written when the end
\* is met.
Written(s, at, w, v) ==
  LET first == at \div Bits
      bit   == 2 ^ (at % Bits)
      Part(b) == (v \div 2 ^ (w - Bits * (b - first + 1))) % ByteM
      WithBit(old) == (old - ((old \div bit) % 2) * bit) + (IF v = 0 THEN 0 ELSE bit)
  IN  [cells EXCEPT ![s] =
         [b \in DOMAIN @ |-> IF b < first \/ b >= first + BytesOf(w) THEN @[b]
                             ELSE IF w = 1 THEN WithBit(@[b]) ELSE Part(b)]]

-----------------------------------------------------------------------------
(* Indirect operands.                                                      *)

Register(ar) == IF ar = 1 THEN regs.ar1 ELSE regs.ar2

\* A faulty resolution: the area of the register is left in the pointer.
ComputedWithArea(o) ==
  IF o.ar = 0 THEN PointerTo(o.area, FetchFrom(<<"M", 0>>, o.addr, 4 * Bits) % AddressM)
  ELSE (Register(o.ar) + o.addr) % DWordM

\* The pointer an indirect operand computes.
Computed(o) ==
  IF o.ar = 0 THEN PointerTo(o.area, FetchFrom(<<"M", 0>>, o.addr, 4 * Bits) % AddressM)
  ELSE IF o.area = "" THEN (Register(o.ar) + o.addr) % DWordM
  ELSE PointerTo(o.area, (Register(o.ar) + o.addr) % AddressM)

\* The area P is read through PE and written through PA.
TypeOf(area, store) == CASE area = "P" -> (IF store THEN "PA" ELSE "PE") [] OTHER -> area

Resolvable(o) ==
  o.type = "indirect" =>
    /\ o.ar = 0 => Inside(<<"M", 0>>, o.addr, 4 * Bits)
    /\ \E a \in AreaNames : AreaCode(a) = Computed(o) \div AreaUnit
    /\ o.w = 1 \/ Computed(o) % Bits = 0

Resolved(o, store) ==
  IF o.type # "indirect" THEN o
  ELSE LET area == CHOOSE a \in AreaNames : AreaCode(a) = Computed(o) \div AreaUnit
       IN  Direct(TypeOf(area, store), o.w, Computed(o) % AddressM, NoDb)

-----------------------------------------------------------------------------
(* Direct operands.                                                        *)

DbOf(o) == IF o.type = "DI" THEN regs.di ELSE IF o.nr = NoDb THEN regs.db ELSE o.nr

SpaceOf(o) ==
  CASE o.type \in {"E", "PE"}  -> <<"E", 0>>
    [] o.type \in {"A", "PA"}  -> <<"A", 0>>
    [] o.type \in {"DB", "DI"} -> <<"DB", DbOf(o)>>
    [] OTHER                   -> <<o.type, 0>>

\* In a function block AR2 is the base of what is in the instance.
BaseOf(o) == IF o.type = "DI" /\ context.fb THEN regs.ar2 % AddressM ELSE 0
PlaceOf(o) == o.addr + BaseOf(o)

\* Data block 0 stands for none: it has no permissions.
Reachable(o) ==
  CASE o.type = "VL"          -> context.parent
    [] o.type \in {"DB", "DI"} -> <<"DB", DbOf(o)>> \in DOMAIN SizeOf
    [] OTHER                  -> TRUE

MemoryInit ==
  /\ cells = [s \in DOMAIN SizeOf |-> [b \in 0 .. SizeOf[s] - 1 |-> Fill[s][b + 1]]]
  /\ regs = [accu1 |-> 0, accu2 |-> 0, ar1 |-> 0, ar2 |-> 0, vke |-> 0, db |-> 0, di |-> 0]
  /\ aim = <<[area |-> "", addr |-> 0], [area |-> "", addr |-> 0]>>
  /\ context \in Contexts
  /\ halted = FALSE
  /\ did = [kind |-> "none", op |-> NoOperand, value |-> 0]
  /\ accesses = 0

Ready ==
  /\ ~halted /\ accesses < MaxAccesses
  /\ accesses' = accesses + 1
  /\ UNCHANGED context

Did(kind, o, v) == did' = [kind |-> kind, op |-> o, value |-> v]

-----------------------------------------------------------------------------
(* L and U.  ACCU2 is pushed before the fetch, which may fail; a qualified *)
(* operand opens its data block, and a read from the hardware goes into    *)
(* the process image.                                                      *)

\* r holds the registers once the value has arrived: accu1 or vke is still to set.
Fetch(o, r, field) ==
  LET d == Resolved(o, FALSE)
      Opened == IF d.type = "DB" /\ d.nr # NoDb /\ <<"DB", d.nr>> \in DOMAIN SizeOf
                THEN [r EXCEPT !.db = d.nr] ELSE r
      Fails == /\ halted' = TRUE /\ regs' = Opened /\ UNCHANGED cells
  IN  IF ~Resolvable(o) THEN halted' = TRUE /\ regs' = r /\ UNCHANGED cells
      ELSE IF ~Reachable(d) THEN Fails
      ELSE IF d.type = "PE"
        THEN \/ Fails      \* there is no hardware for this address
             \/ \E v \in Given :
                  /\ cells' = Written(SpaceOf(d), PlaceOf(d), d.w, v % 2 ^ d.w)
                  /\ IF Inside(SpaceOf(d), PlaceOf(d), d.w)
                     THEN halted' = FALSE /\ regs' = [r EXCEPT ![field] = v % 2 ^ d.w]
                     ELSE halted' = TRUE /\ regs' = r
      ELSE IF ~Inside(SpaceOf(d), PlaceOf(d), d.w) THEN Fails
      ELSE /\ regs' = [Opened EXCEPT ![field] = FetchFrom(SpaceOf(d), PlaceOf(d), d.w)]
           /\ UNCHANGED <<cells, halted>>

Insn_L(o) ==
  /\ Ready
  /\ Fetch(o, [regs EXCEPT !.accu2 = regs.accu1], "accu1")
  /\ Did("L", o, 0)
  /\ UNCHANGED aim

Insn_U(o) ==
  /\ Ready
  /\ Fetch(o, regs, "vke")
  /\ Did("U", o, 0)
  /\ UNCHANGED aim

(***************************************************************************)
(* T and =.  While the master control relay is off they store 0.  A        *)
(* qualified operand does not open its data block here.                    *)
(***************************************************************************)
Store(o, v) ==
  LET d == Resolved(o, TRUE)
  IN  IF ~Resolvable(o) \/ ~Reachable(d) THEN halted' = TRUE /\ UNCHANGED cells
      ELSE /\ cells' = Written(SpaceOf(d), PlaceOf(d), d.w, v % 2 ^ d.w)
           /\ IF ~Inside(SpaceOf(d), PlaceOf(d), d.w) THEN halted' = TRUE
              ELSE halted' \in (IF d.type = "PA" THEN BOOLEAN ELSE {FALSE})

Insn_T(o) ==
  LET v == IF context.mcrOff THEN 0 ELSE regs.accu1
  IN  /\ Ready
      /\ Store(o, v)
      /\ Did("T", o, v % 2 ^ o.w)
      /\ UNCHANGED <<regs, aim>>

Insn_ASSIGN(o) ==
  LET v == IF context.mcrOff THEN 0 ELSE regs.vke
  IN  /\ Ready
      /\ Store(o, v)
      /\ Did("=", o, v)
      /\ UNCHANGED <<regs, aim>>

-----------------------------------------------------------------------------
(* Address registers and data block registers.                             *)

Wild == [area |-> "wild", addr |-> 0]

\* What a pointer points to, if its address is one.
AimOf(v) ==
  LET code == v \div AreaUnit  addr == v % AreaUnit
  IN  IF addr >= AddressM THEN Wild
      ELSE IF code = 0 THEN [area |-> "", addr |-> addr]
      ELSE IF \E a \in AreaNames : AreaCode(a) = code
           THEN [area |-> CHOOSE a \in AreaNames : AreaCode(a) = code, addr |-> addr]
      ELSE Wild

\* An aim that leaves the addresses there are is lost.
Moved(a, n) ==
  IF a.area = "wild" \/ a.addr + n \notin 0 .. AddressM - 1 THEN Wild
  ELSE [a EXCEPT !.addr = @ + n]

Quietly == /\ Ready /\ Did("none", NoOperand, 0) /\ UNCHANGED <<cells, halted>>

ArField(ar) == IF ar = 1 THEN "ar1" ELSE "ar2"

LAR(ar, v) ==
  /\ Quietly
  /\ regs' = [regs EXCEPT ![ArField(ar)] = v]
  /\ aim' = [aim EXCEPT ![ar] = AimOf(v)]

TARAccu(ar) ==
  /\ Quietly
  /\ regs' = [regs EXCEPT !.accu2 = regs.accu1, !.accu1 = Register(ar)]
  /\ UNCHANGED aim

TAR ==
  /\ Quietly
  /\ regs' = [regs EXCEPT !.ar1 = regs.ar2, !.ar2 = regs.ar1]
  /\ aim' = <<aim[2], aim[1]>>

\* +AR keeps the area; the address wraps in three bytes.
Advanced(v, n) == (v - (v % AreaUnit)) + (((v % AreaUnit) + n) % AreaUnit)
SignedWord(v) ==
  LET w == v % (ByteM * ByteM) IN IF 2 * w >= ByteM * ByteM THEN w - ByteM * ByteM ELSE w

INCAR(ar, n) ==
  /\ Quietly
  /\ regs' = [regs EXCEPT ![ArField(ar)] = Advanced(@, n)]
  /\ aim' = [aim EXCEPT ![ar] = Moved(@, n)]

AUF(reg, n) ==
  /\ Quietly
  /\ regs' = [regs EXCEPT ![reg] = n]
  /\ UNCHANGED aim

TDB ==
  /\ Quietly
  /\ regs' = [regs EXCEPT !.db = regs.di, !.di = regs.db]
  /\ UNCHANGED aim

DbNumbers == {s[2] : s \in {t \in DOMAIN SizeOf : t[1] = "DB"}}

MemoryNext ==
  \/ \E o \in LoadOps : Insn_L(o)
  \/ \E o \in StoreOps : Insn_T(o)
  \/ \E o \in BitLoadOps : Insn_U(o)
  \/ \E o \in BitStoreOps : Insn_ASSIGN(o)
  \/ \E ar \in {1, 2} : \/ \E v \in Pointers : LAR(ar, v)
                        \/ LAR(ar, regs.accu1)
                        \/ TARAccu(ar)
                        \/ \E n \in Steps : INCAR(ar, n)
                        \/ INCAR(ar, SignedWord(regs.accu1))
  \/ TAR
  \/ \E reg \in {"db", "di"}, n \in DbNumbers : AUF(reg, n)
  \/ TDB

MemorySpec == MemoryInit /\ [][MemoryNext]_memoryVars

-----------------------------------------------------------------------------
(* What an access means, bit by bit.                                       *)

BitOf(c, s, i) == (c[s][i \div Bits] \div 2 ^ (i % Bits)) % 2

\* Where bit j of a value of w bits at at is found: high bytes come first.
HomeOf(at, w, j) == IF w = 1 THEN at ELSE at + Bits * ((w - 1 - j) \div Bits) + (j % Bits)
Homes(at, w) == {HomeOf(at, w, j) : j \in 0 .. w - 1}

\* The direct operand that o means by the arithmetic of the program, or none.
Meant(o) ==
  IF o.type # "indirect" THEN o
  ELSE IF o.ar = 0 THEN Direct(o.area, o.w, FetchFrom(<<"M", 0>>, o.addr, 4 * Bits) % AddressM, NoDb)
  ELSE LET a == Moved(aim[o.ar], o.addr)
       IN  IF a.area = "wild" THEN NoOperand
           ELSE Direct(IF o.area = "" THEN a.area ELSE o.area, o.w, a.addr, NoDb)

Asked(o) ==
  IF o.type # "P" THEN o
  ELSE [o EXCEPT !.type = IF did'.kind \in {"L", "U"} THEN "PE" ELSE "PA"]

(***************************************************************************)
(* An access that does not fail reaches what its operand means - for an    *)
(* indirect one, what the pointer arithmetic of the program aims at - and  *)
(* nothing else: a load brings the bits that are there, a store leaves its *)
(* bits there and every other bit of every area as it was, and only a      *)
(* qualified load opens another data block (AwlIndirectOp.resolve, S7CPU   *)
(* fetch and store).  Left out: addresses that were moved out of the range *)
(* of addresses, and a base in AR2 that is not at a byte.                  *)
(***************************************************************************)
AccessIsExact ==
  [][ (did'.kind \in {"L", "U", "T", "="} /\ ~halted') =>
        LET o  == did'.op
            m  == Asked(Meant(o))
            s  == SpaceOf(m)
            at == PlaceOf(m)
            v  == IF did'.kind = "L" THEN regs'.accu1
                  ELSE IF did'.kind = "U" THEN regs'.vke ELSE did'.value
        IN  (m.type # "none" /\ (m.w = 1 \/ at % Bits = 0)) =>
              /\ m.type # "" /\ s \in DOMAIN SizeOf /\ Inside(s, at, m.w)
              /\ v \in 0 .. 2 ^ m.w - 1
              /\ \A j \in 0 .. m.w - 1 : (v \div 2 ^ j) % 2 = BitOf(cells', s, HomeOf(at, m.w, j))
              /\ \A t \in DOMAIN SizeOf : \A i \in 0 .. Bits * SizeOf[t] - 1 :
                   BitOf(cells', t, i) # BitOf(cells, t, i) =>
                     /\ did'.kind \in {"T", "="} \/ m.type = "PE"
                     /\ t = s /\ i \in Homes(at, m.w)
              /\ regs'.db # regs.db => did'.kind \in {"L", "U"} /\ regs'.db = m.nr
    ]_memoryVars
=============================================================================
