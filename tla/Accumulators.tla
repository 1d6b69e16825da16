---------------------------- MODULE Accumulators ----------------------------
(***************************************************************************)
(* The instructions of the emulated CPU that calculate in the              *)
(* accumulators: integer arithmetic, comparison, shifting and rotating,    *)
(* word logic, BCD conversion and accumulator shuffling, with the bits A1, *)
(* A0, OV and OS of the status word that the jumps look at.                *)
(*                                                                         *)
(* A double word is an unsigned number below DWord, as in the code; the    *)
(* widths are parameters (16 and 32 bits, four bits and ten for a BCD      *)
(* digit in the code).  Every instruction is checked from every            *)
(* combination of operands in Start: one behaviour runs one instruction.   *)
(***************************************************************************)
EXTENDS Integers, Bitwise

CONSTANTS WordBits,   \* bits in a word, twice as many in a double word
          Radix,      \* a BCD digit is below Radix
          Immediates, \* operands written in the instruction
          Start,      \* pairs of ACCU1 and ACCU2 to start from
          BcdStart    \* further values of ACCU1

ASSUME AccuAssumption ==
  /\ WordBits \in Nat /\ WordBits % 4 = 0 /\ WordBits > 0
  /\ Radix \in 2 .. 2 ^ (WordBits \div 4)
  /\ Immediates \subseteq Nat

VARIABLES accu,    \* ACCU1 .. ACCU4
          st,      \* the bits A1, A0, OV, OS and VKE of the status word
          is4accu, \* a CPU of the 400 series
          insn     \* what has been executed, with its immediate operand

accuVars == <<accu, st, is4accu, insn>>

-----------------------------------------------------------------------------
Byte  == 2 ^ (WordBits \div 2)
Word  == 2 ^ WordBits
DBits == 2 * WordBits
DWord == Word * Word

SignedIn(m, v) == IF v % m >= m \div 2 THEN (v % m) - m ELSE v % m
SWord(v)  == SignedIn(Word, v)
SDWord(v) == SignedIn(DWord, v)
Fits(m, v) == -(m \div 2) <= v /\ v < m \div 2

\* setWord and setByte keep the rest of the double word.
WithLow(m, old, v) == (old - (old % m)) + (v % m)
High(v) == v \div Word

Abs(v) == IF v < 0 THEN -v ELSE v
Bit(v, i) == (v \div 2 ^ i) % 2

-----------------------------------------------------------------------------
(* One instruction: the accumulators and the status bits behind it.        *)

Exec(op, arg, accus, status) ==
  /\ insn = [op |-> "none", arg |-> 0]
  /\ insn' = [op |-> op, arg |-> arg]
  /\ accu' = accus
  /\ st' = status
  /\ UNCHANGED is4accu

Accu1(v) == [accu EXCEPT ![1] = v]

\* A binary operation of a CPU with four accumulators closes the gap in ACCU2.
Dropped(v) == IF is4accu THEN <<v, accu[3], accu[4], accu[4]>> ELSE Accu1(v)

\* A1 and A0 give the sign; OV says that the exact value was out of range, OS
\* keeps that in mind.
Signs(sign, over) ==
  [st EXCEPT !.A1 = sign > 0, !.A0 = sign < 0, !.OV = over, !.OS = st.OS \/ over]
DivisionByZero == [st EXCEPT !.A1 = TRUE, !.A0 = TRUE, !.OV = TRUE, !.OS = TRUE]

-----------------------------------------------------------------------------
(* Integer arithmetic.  Sums and differences take the sign from the result *)
(* that was stored, products and quotients from the exact one.             *)

\* Variant: the overflow of a sum is looked for in the stored result.
SumWordStored(op, v) ==
  Exec(op, 0, Dropped(WithLow(Word, accu[1], v)), Signs(SWord(v), ~Fits(Word, SWord(v))))

SumWord(op, v) ==
  Exec(op, 0, Dropped(WithLow(Word, accu[1], v)), Signs(SWord(v), ~Fits(Word, v)))
SumDWord(op, v) ==
  Exec(op, 0, Dropped(v % DWord), Signs(SDWord(v), ~Fits(DWord, v)))

PL_I == SumWord("+I", SWord(accu[1]) + SWord(accu[2]))
MI_I == SumWord("-I", SWord(accu[2]) - SWord(accu[1]))
PL_D == SumDWord("+D", SDWord(accu[2]) + SDWord(accu[1]))
MI_D == SumDWord("-D", SDWord(accu[2]) - SDWord(accu[1]))

MU_I ==
  LET prod == SWord(accu[2]) * SWord(accu[1])
  IN  Exec("*I", 0, Dropped(prod % DWord), Signs(prod, ~Fits(Word, prod)))
MU_D ==
  LET prod == SDWord(accu[2]) * SDWord(accu[1])
  IN  Exec("*D", 0, Dropped(prod % DWord), Signs(prod, ~Fits(DWord, prod)))

\* Division truncates towards zero, the remainder has the sign of the dividend.
Quo(n, d) == LET q == Abs(n) \div Abs(d) IN IF (n < 0) # (d < 0) THEN -q ELSE q
Rem(n, d) == LET r == Abs(n) % Abs(d) IN IF n < 0 THEN -r ELSE r

DI_I ==
  LET n == SWord(accu[2])  d == SWord(accu[1])
  IN  IF d = 0 THEN Exec("/I", 0, Dropped(accu[1]), DivisionByZero)
      ELSE Exec("/I", 0, Dropped(((Rem(n, d) % Word) * Word) + (Quo(n, d) % Word)),
                Signs(Quo(n, d), Quo(n, d) >= Word \div 2))
DI_D ==
  LET n == SDWord(accu[2])  d == SDWord(accu[1])
  IN  IF d = 0 THEN Exec("/D", 0, Dropped(accu[1]), DivisionByZero)
      ELSE Exec("/D", 0, Dropped(Quo(n, d) % DWord), Signs(Quo(n, d), Quo(n, d) >= DWord \div 2))
MOD ==
  LET n == SDWord(accu[2])  d == SDWord(accu[1])
  IN  IF d = 0 THEN Exec("MOD", 0, Dropped(accu[1]), DivisionByZero)
      ELSE Exec("MOD", 0, Dropped(Rem(n, d) % DWord), Signs(Rem(n, d), FALSE))

NEGI ==
  LET v == -SWord(accu[1])
  IN  Exec("NEGI", 0, Accu1(WithLow(Word, accu[1], v)), Signs(SWord(v), ~Fits(Word, v)))
NEGD ==
  LET v == -SDWord(accu[1])
  IN  Exec("NEGD", 0, Accu1(v % DWord), Signs(SDWord(v), ~Fits(DWord, v)))

\* These change no status bit.
PL(n)  == Exec("+", n, Accu1(WithLow(Word, accu[1], SWord(accu[1]) + n)), st)
INC(n) == Exec("INC", n, Accu1(WithLow(Byte, accu[1], (accu[1] % Byte) + n)), st)
DEC(n) == Exec("DEC", n, Accu1(WithLow(Byte, accu[1], (accu[1] % Byte) - n)), st)
ITD    == Exec("ITD", 0, Accu1(SWord(accu[1]) % DWord), st)

-----------------------------------------------------------------------------
(* Comparison: of ACCU2 with ACCU1.                                        *)

Compare(op, a1, a2, vke) ==
  Exec(op, 0, accu, [st EXCEPT !.A1 = a1 < a2, !.A0 = a1 > a2, !.OV = FALSE, !.VKE = vke])

CompareI(op, Holds(_, _)) ==
  Compare(op, SWord(accu[1]), SWord(accu[2]), Holds(SWord(accu[2]), SWord(accu[1])))
CompareD(op, Holds(_, _)) ==
  Compare(op, SDWord(accu[1]), SDWord(accu[2]), Holds(SDWord(accu[2]), SDWord(accu[1])))

EQ_I == CompareI("==I", LAMBDA x, y : x = y)
NE_I == CompareI("<>I", LAMBDA x, y : x # y)
GT_I == CompareI(">I", LAMBDA x, y : x > y)
LT_I == CompareI("<I", LAMBDA x, y : x < y)
GE_I == CompareI(">=I", LAMBDA x, y : x >= y)
LE_I == CompareI("<=I", LAMBDA x, y : x <= y)
EQ_D == CompareD("==D", LAMBDA x, y : x = y)
NE_D == CompareD("<>D", LAMBDA x, y : x # y)
GT_D == CompareD(">D", LAMBDA x, y : x > y)
LT_D == CompareD("<D", LAMBDA x, y : x < y)
GE_D == CompareD(">=D", LAMBDA x, y : x >= y)
LE_D == CompareD("<=D", LAMBDA x, y : x <= y)

-----------------------------------------------------------------------------
(* Shifting and rotating, by an immediate count or by the byte in ACCU2.   *)
(* A count of 0 leaves the status bits alone; otherwise A1 is the bit that *)
(* was shifted out last.                                                   *)

Counts == Immediates \cup {accu[2] % Byte}
Least(a, b) == IF a < b THEN a ELSE b
LastOut(bit) == [st EXCEPT !.A1 = (bit = 1), !.A0 = FALSE, !.OV = FALSE]

\* v is the operand as a number of the given width, signed or not.  A shift to
\* the left drops the high bits first, so that TLC's integers hold the product.
Left(op, n, bits, v, Store(_)) ==
  LET c == Least(n, bits)
  IN  IF n = 0 THEN Exec(op, n, accu, st)
      ELSE Exec(op, n, Accu1(Store((v % 2 ^ (bits - c)) * 2 ^ c)), LastOut((v \div 2 ^ (bits - c)) % 2))
Right(op, n, bits, v, Store(_)) ==
  LET c == Least(n, bits)
  IN  IF n = 0 THEN Exec(op, n, accu, st)
      ELSE Exec(op, n, Accu1(Store(v \div 2 ^ c)), LastOut((v \div 2 ^ (c - 1)) % 2))

LowWord(v)  == WithLow(Word, accu[1], v)
FullWord(v) == v % DWord

SLW(n) == Left("SLW", n, WordBits, accu[1] % Word, LowWord)
SRW(n) == Right("SRW", n, WordBits, accu[1] % Word, LowWord)
SSI(n) == Right("SSI", n, WordBits, SWord(accu[1]), LowWord)
SLD(n) == Left("SLD", n, DBits, accu[1], FullWord)
SRD(n) == Right("SRD", n, DBits, accu[1], FullWord)
SSD(n) == Right("SSD", n, DBits, SDWord(accu[1]), FullWord)

RotatedLeft(v, c) == ((v % 2 ^ (DBits - c)) * 2 ^ c) + (v \div 2 ^ (DBits - c))

RotatedRight(v, c) == RotatedLeft(v, DBits - c)

RLD(n) == IF n = 0 THEN Exec("RLD", n, accu, st)
          ELSE LET r == RotatedLeft(accu[1], n % DBits)
               IN  Exec("RLD", n, Accu1(r), LastOut(Bit(r, 0)))
RRD(n) == IF n = 0 THEN Exec("RRD", n, accu, st)
          ELSE LET r == RotatedRight(accu[1], n % DBits)
               IN  Exec("RRD", n, Accu1(r), LastOut(Bit(r, DBits - 1)))

\* Rotation through A1, by one place.
OldA1 == IF st.A1 THEN 1 ELSE 0
RLDA == Exec("RLDA", 0, Accu1(((accu[1] * 2) % DWord) + OldA1), LastOut(Bit(accu[1], DBits - 1)))
RRDA == Exec("RRDA", 0, Accu1((accu[1] \div 2) + OldA1 * 2 ^ (DBits - 1)), LastOut(Bit(accu[1], 0)))

-----------------------------------------------------------------------------
(* Word logic, with ACCU2 as the other operand.                            *)

Logic(op, v, stored) ==
  Exec(op, 0, Accu1(stored), [st EXCEPT !.A1 = (v # 0), !.A0 = FALSE, !.OV = FALSE])
LogicW(op, v) == Logic(op, v, LowWord(v))
LogicD(op, v) == Logic(op, v, FullWord(v))

UW  == LogicW("UW", (accu[1] % Word) & (accu[2] % Word))
OW  == LogicW("OW", (accu[1] % Word) | (accu[2] % Word))
XOW == LogicW("XOW", (accu[1] % Word) ^^ (accu[2] % Word))
UD  == LogicD("UD", accu[1] & accu[2])
OD  == LogicD("OD", accu[1] | accu[2])
XOD == LogicD("XOD", accu[1] ^^ accu[2])
INVI == Exec("INVI", 0, Accu1(LowWord((-1) - (accu[1] % Word))), st)
INVD == Exec("INVD", 0, Accu1(FullWord((-1) - accu[1])), st)

-----------------------------------------------------------------------------
(* BCD: the highest digit holds the sign.                                  *)

Nibble == 2 ^ (WordBits \div 4)
Digit(v, i) == (v \div Nibble ^ i) % Nibble
Digits(v, n) == {Digit(v, i) : i \in 0 .. n - 1}

\* The value as n digits and a sign; the number n digits stand for.
RECURSIVE ToDigits(_, _)
ToDigits(v, n) ==
  IF n = 0 THEN 0 ELSE (v % Radix) + Nibble * ToDigits(v \div Radix, n - 1)
RECURSIVE FromDigits(_, _)
FromDigits(v, n) ==
  IF n = 0 THEN 0 ELSE (v % Nibble) + Radix * FromDigits(v \div Nibble, n - 1)

\* ITB and DTB: a value of more than n digits only sets OV and OS.
ToBcd(op, v, n, Store(_)) ==
  IF Abs(v) >= Radix ^ n
  THEN Exec(op, 0, accu, [st EXCEPT !.OV = TRUE, !.OS = TRUE])
  ELSE Exec(op, 0, Accu1(Store(ToDigits(Abs(v), n) + (IF v < 0 THEN (Nibble - 1) * Nibble ^ n ELSE 0))),
            [st EXCEPT !.OV = FALSE])

BcdValue(v, n, m) == IF v % m >= m \div 2 THEN -FromDigits(v, n) ELSE FromDigits(v, n)

\* BTI and BTD: a digit that is none raises an AwlSimError (no step here).
FromBcd(op, n, m, Store(_)) ==
  /\ \A d \in Digits(accu[1], n) : d < Radix
  /\ Exec(op, 0, Accu1(Store(BcdValue(accu[1], n, m))), st)

ITB == ToBcd("ITB", SWord(accu[1]), 3, LowWord)
DTB == ToBcd("DTB", SDWord(accu[1]), 7, FullWord)
BTI == FromBcd("BTI", 3, Word, LowWord)
BTD == FromBcd("BTD", 7, DWord, FullWord)

-----------------------------------------------------------------------------
(* Moving values between and within the accumulators.                      *)

TAK   == Exec("TAK", 0, [accu EXCEPT ![1] = accu[2], ![2] = accu[1]], st)
PUSH  == Exec("PUSH", 0, [accu EXCEPT ![2] = accu[1]], st)
POP   == Exec("POP", 0, [accu EXCEPT ![1] = accu[2]], st)
ENT   == is4accu /\ Exec("ENT", 0, [accu EXCEPT ![4] = accu[3], ![3] = accu[2]], st)
LEAVE == is4accu /\ Exec("LEAVE", 0, [accu EXCEPT ![2] = accu[3], ![3] = accu[4]], st)
TAW   == Exec("TAW", 0, Accu1(LowWord(((accu[1] % Byte) * Byte) + ((accu[1] \div Byte) % Byte))), st)
TAD   ==
  LET b(i) == (accu[1] \div Byte ^ i) % Byte
  IN  Exec("TAD", 0, Accu1(b(3) + b(2) * Byte + b(1) * Byte ^ 2 + b(0) * Byte ^ 3), st)

\* L pushes ACCU1 into ACCU2 and loads; LOOP counts the word in ACCU1 down.
L(n) == Exec("L", n, [accu EXCEPT ![1] = n, ![2] = accu[1]], st)
LOOP == Exec("LOOP", 0, Accu1(LowWord((accu[1] % Word) - 1)), st)
\* SPS jumps on OS and clears it.
SPS  == Exec("SPS", 0, accu, [st EXCEPT !.OS = FALSE])

-----------------------------------------------------------------------------
(* What the conditional jumps look at.                                     *)
SPZ  == ~st'.A0 /\ ~st'.A1
SPN  == st'.A1 # st'.A0
SPP  == ~st'.A0 /\ st'.A1
SPM  == st'.A0 /\ ~st'.A1
SPMZ == ~st'.A1
SPPZ == ~st'.A0
SPU  == st'.A0 /\ st'.A1
SPO  == st'.OV

-----------------------------------------------------------------------------
AccuInit ==
  /\ \/ /\ \E p \in Start : accu = <<p[1], p[2], 1, 2>>
        /\ st \in [A1 : BOOLEAN, A0 : {FALSE}, OV : {FALSE}, OS : BOOLEAN, VKE : {FALSE}]
        /\ is4accu \in BOOLEAN
     \/ /\ \E v \in BcdStart : accu = <<v, 0, 1, 2>>
        /\ st = [A1 |-> FALSE, A0 |-> FALSE, OV |-> FALSE, OS |-> FALSE, VKE |-> FALSE]
        /\ is4accu = FALSE
  /\ insn = [op |-> "none", arg |-> 0]

AccuNext ==
  \/ PL_I \/ MI_I \/ PL_D \/ MI_D \/ MU_I \/ MU_D \/ DI_I \/ DI_D \/ MOD \/ NEGI \/ NEGD
  \/ \E n \in Immediates : PL(n) \/ INC(n) \/ DEC(n) \/ L(n)
  \/ EQ_I \/ NE_I \/ GT_I \/ LT_I \/ GE_I \/ LE_I
  \/ EQ_D \/ NE_D \/ GT_D \/ LT_D \/ GE_D \/ LE_D
  \/ \E n \in Counts : \/ SLW(n) \/ SRW(n) \/ SSI(n) \/ SLD(n) \/ SRD(n) \/ SSD(n)
                       \/ RLD(n) \/ RRD(n)
  \/ RLDA \/ RRDA
  \/ UW \/ OW \/ XOW \/ UD \/ OD \/ XOD \/ INVI \/ INVD
  \/ ITB \/ DTB \/ BTI \/ BTD \/ ITD
  \/ TAK \/ PUSH \/ POP \/ ENT \/ LEAVE \/ TAW \/ TAD \/ LOOP \/ SPS

AccuSpec == AccuInit /\ [][AccuNext]_accuVars

-----------------------------------------------------------------------------
(* The operands of the instruction that runs, as signed numbers.           *)
Signed(op, i) ==
  IF op \in {"+I", "-I", "*I", "/I", "NEGI"} THEN SWord(accu[i]) ELSE SDWord(accu[i])

\* The exact result, a mathematical integer, and the number that was stored.
Exact(op, a, b) ==
  CASE op \in {"+I", "+D"} -> b + a
    [] op \in {"-I", "-D"} -> b - a
    [] op \in {"*I", "*D"} -> b * a
    [] op \in {"NEGI", "NEGD"} -> -a
Stored(op) == IF op \in {"+I", "-I", "NEGI"} THEN SWord(accu'[1]) ELSE SDWord(accu'[1])

\* What the jumps are told about a result.
Told(v) == /\ SPZ = (v = 0) /\ SPN = (v # 0) /\ SPP = (v > 0) /\ SPM = (v < 0)
           /\ SPMZ = (v <= 0) /\ SPPZ = (v >= 0) /\ ~SPU

(* An arithmetic instruction stores the exact result, and the jumps on its *)
(* sign go the right way, unless it reports an overflow; it reports one    *)
(* only when the result does not fit, and only then (or for a division by  *)
(* zero) OS is set.  The product of two words is exact in any case.        *)
ArithmeticExact ==
  LET op == insn'.op  a == Signed(op, 1)  b == Signed(op, 2)
  IN /\ op \in {"+I", "-I", "*I", "+D", "-D", "*D", "NEGI", "NEGD"} =>
          /\ st'.OV = ~Fits(IF op \in {"+D", "-D", "*D", "NEGD"} THEN DWord ELSE Word, Exact(op, a, b))
          /\ ~st'.OV \/ op = "*I" => Stored(op) = Exact(op, a, b) /\ Told(Exact(op, a, b))
          /\ (Stored(op) - Exact(op, a, b)) % Word = 0
     /\ op \in {"/I", "/D", "MOD"} => SPU = (a = 0)
     /\ op = "/I" /\ a # 0 /\ ~SPO =>
          LET q == SWord(accu'[1])  r == SWord(High(accu'[1]))
          IN  b = q * a + r /\ Abs(r) < Abs(a) /\ r * b >= 0 /\ Told(q)
     /\ op = "/D" /\ a # 0 /\ ~SPO =>
          LET q == SDWord(accu'[1])
          IN  Abs(b - q * a) < Abs(a) /\ (b - q * a) * b >= 0 /\ Told(q)
     /\ op = "MOD" /\ a # 0 =>
          LET r == SDWord(accu'[1])
          IN  (b - r) % Abs(a) = 0 /\ Abs(r) < Abs(a) /\ r * b >= 0 /\ Told(r)
     /\ st'.OS = (IF op = "SPS" THEN FALSE ELSE st.OS \/ st'.OV)

(* A shift or a rotation took every bit it leaves from the right place, or *)
(* fills it in; A1 is the last bit that left.                              *)
BitsMoved ==
  LET op == insn'.op  n == insn'.arg
      bits == IF op \in {"SLW", "SRW", "SSI"} THEN WordBits ELSE DBits
      old(i) == Bit(accu[1], i)
      new(i) == Bit(accu'[1], i)
      fill == IF op \in {"SSI", "SSD"} THEN old(bits - 1) ELSE 0
      at(i) == IF i \in 0 .. bits - 1 THEN old(i) ELSE fill
  IN  op \in {"SLW", "SLD", "SRW", "SRD", "SSI", "SSD", "RLD", "RRD"} =>
        /\ High(accu'[1]) = High(accu[1]) \/ bits = DBits
        /\ \A i \in 0 .. bits - 1 :
             new(i) = CASE op \in {"SLW", "SLD"} -> IF i < n THEN 0 ELSE old(i - n)
                        [] op = "RLD" -> old((i - n) % DBits)
                        [] op = "RRD" -> old((i + n) % DBits)
                        [] OTHER -> at(i + n)
        /\ n # 0 => st'.A1 = (1 = CASE op \in {"SLW", "SLD"} -> IF n <= bits THEN old(bits - n) ELSE old(0)
                                   [] op = "RLD" -> old((-n) % DBits)
                                   [] op = "RRD" -> old((n - 1) % DBits)
                                   [] OTHER -> at(Least(n, bits) - 1))

\* BTI and BTD read back what ITB and DTB wrote.
DigitsInvert ==
  /\ insn'.op = "ITB" /\ ~st'.OV => BcdValue(accu'[1], 3, Word) = SWord(accu[1])
  /\ insn'.op = "DTB" /\ ~st'.OV => BcdValue(accu'[1], 7, DWord) = SDWord(accu[1])
  /\ insn'.op \in {"ITB", "DTB"} /\ st'.OV => accu' = accu /\ st'.OS
  /\ insn'.op = "BTI" => Abs(SWord(accu'[1])) < Radix ^ 3
  /\ insn'.op = "BTD" => Abs(SDWord(accu'[1])) < Radix ^ 7

(* The CPU calculates exactly, or says that it did not: a sum, a product   *)
(* and a quotient is stored as it is unless an overflow is reported; a     *)
(* shift or a rotation moves every bit to its place, at every count up to  *)
(* and beyond the width, and leaves the high word alone if it is of a      *)
(* word; a converted number is read back with its sign, and one that does  *)
(* not fit into the digits is left untouched with OV and OS set.           *)
ExactUnlessOverflow == [][ArithmeticExact /\ BitsMoved /\ DigitsInvert]_accuVars
=============================================================================
