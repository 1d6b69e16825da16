----------------------------- MODULE Immediates -----------------------------
(***************************************************************************)
(* What the constants of a program mean (AwlDataType.tryParseImmediate_*   *)
(* in core/datatypes.py, seconds_to_s5t in core/timers.py), and the window *)
(* of a timer or counter, which shows the word of the CPU as such a        *)
(* constant and sends back what the user makes of it (gui/cpustate.py,     *)
(* gui/valuelineedit.py).                                                  *)
(*                                                                         *)
(* A constant is a record of its kind and of the numbers and digits in it. *)
(* Its value is the sequence of the bytes that are stored for it.  Times   *)
(* are computed in floating point and cut to milliseconds: Cut gives every *)
(* result that can have.                                                   *)
(***************************************************************************)
EXTENDS Integers, Sequences, SequencesExt, FiniteSets

CONSTANTS
  Literals,    \* the constants that are written in the program
  TypedTexts,  \* the constants that are typed into the window
  TimerWords,  \* the words of the timer that is shown
  CounterWords \* and of the counter

VARIABLES
  literal,   \* a constant and the data type it is to be of, or "operand"
  immediate, \* what was read
  display    \* the window

immediateVars == <<literal, immediate, display>>

Read(bytes) == [ok |-> TRUE, bytes |-> bytes]
NotRead == [ok |-> FALSE, bytes |-> <<>>]
Unread == [ok |-> FALSE, bytes |-> <<-1>>]
OnlyIf(condition, bytes) == IF condition THEN Read(bytes) ELSE NotRead

\* A number in n bytes, the highest first; a negative one in two's complement.
Stored(number, n) == [i \in 1..n |-> (number \div 256^(n - i)) % 256]
FromDigits(digits, base) == FoldLeft(LAMBDA number, digit : base * number + digit, 0, digits)

-----------------------------------------------------------------------------
(* Numbers and bytes.                                                      *)

IntImmediate(n) == OnlyIf(n \in -32768..32767, Stored(n, 2))
\* TLC has no larger integers.
DIntImmediate(n) == OnlyIf(n \in -2147483647..2147483647, Stored(n, 4))

Significant(digits) ==
  LET used == {i \in DOMAIN digits : digits[i] # 0}
  IN  IF used = {} THEN <<>> ELSE SubSeq(digits, CHOOSE i \in used : \A j \in used : i <= j, Len(digits))
\* Digits of a number, grouped into bytes.
Grouped(digits, base, perByte, n) ==
  LET all == [i \in 1..(n * perByte - Len(digits)) |-> 0] \o digits
  IN  [i \in 1..n |-> FromDigits(SubSeq(all, perByte * (i - 1) + 1, perByte * i), base)]

HexImmediate(digits, n) == OnlyIf(digits # <<>> /\ Len(Significant(digits)) <= 2 * n, Grouped(Significant(digits), 16, 2, n))
\* As an operand, the width is that of the number.
BinImmediate(digits) ==
  LET used == Significant(digits)
  IN  OnlyIf(digits # <<>> /\ Len(used) <= 32, Grouped(used, 2, 8, IF Len(used) > 16 THEN 4 ELSE 2))
BcdImmediate(digits) ==
  OnlyIf(Len(digits) \in 1..3 /\ Range(digits) \subseteq 0..9, Stored(FromDigits(digits, 16), 2))
ByteArrayImmediate(fields) == OnlyIf(Len(fields) \in {2, 4} /\ Range(fields) \subseteq 0..255, fields)
BoolImmediate(true) == Read(<<(IF true THEN 1 ELSE 0)>>)

\* Length and maximum length go before the characters.
StringImmediate(characters) ==
  OnlyIf(Len(characters) <= 254, <<Len(characters), Len(characters)>> \o characters)
CharImmediate(characters) == OnlyIf(Len(characters) = 1, characters)

\* Reals are told apart by what the conversion to 32 bits makes of them.
RealImmediate(class) ==
  CASE class = "one"       -> Read(<<63, 128, 0, 0>>)
    [] class = "zero"      -> Read(<<0, 0, 0, 0>>)
    [] class = "vanishing" -> Read(<<0, 0, 0, 0>>)      \* below the smallest denormal
    [] class = "denormal"  -> Read(<<0, 1, 22, 194>>)   \* kept, the bounds of isDenormalPyFloat being denormal
    [] class = "infinite"  -> Read(<<127, 128, 0, 0>>)
    [] class = "nan"       -> Read(<<255, 255, 255, 255>>)

-----------------------------------------------------------------------------
(* Times and dates.                                                        *)

Milliseconds(unit) == CASE unit = "D" -> 86400000 [] unit = "H" -> 3600000 [] unit = "M" -> 60000 [] unit = "S" -> 1000 [] unit = "MS" -> 1
Sum(parts) == FoldLeft(LAMBDA sum, part : sum + part[1] * Milliseconds(part[2]), 0, parts)

\* A fraction of a second that is no multiple of 1/8 is not exact.
Cut(ms) == IF ms % 125 = 0 THEN {ms} ELSE {ms - 1, ms}

Bcd3(n) == (n % 10) + 16 * ((n \div 10) % 10) + 256 * ((n \div 100) % 10)
\* The nearest multiple; halfway between two, either.
Nearest(n, step) == {q \in (n \div step)..(n \div step + 1) : 2 * (n - q * step) \in -step..step}
TimeBase(base, number) == 4096 * base + Bcd3(number)
\* A faulty variant: a time of a hundred seconds gets the base of ten seconds.
SecondsToS5tCoarse(ms) ==
  IF ms <= 9990 THEN {TimeBase(0, q) : q \in Nearest(ms, 10)}
  ELSE IF ms <= 99900 THEN {TimeBase(1, q) : q \in Nearest(ms, 100)}
  ELSE {TimeBase(3, q \div 10) : q \in Nearest(ms, 1000)}

SecondsToS5t(ms) ==
  IF ms <= 9990 THEN {TimeBase(0, q) : q \in Nearest(ms, 10)}
  ELSE IF ms <= 99900 THEN {TimeBase(1, q) : q \in Nearest(ms, 100)}
  ELSE IF ms <= 999000 THEN {TimeBase(2, ms \div 1000)}
  ELSE {TimeBase(3, q \div 10) : q \in Nearest(ms, 1000)}

\* A sign alone is a time.
GenericTimeOk(parts, negative, allowNegative) == (parts # <<>> \/ negative) /\ (negative => allowNegative)
S5tImmediates(parts, negative) ==
  IF GenericTimeOk(parts, negative, FALSE) /\ Sum(parts) <= 9990000
  THEN {Read(Stored(s5t, 2)) : s5t \in SecondsToS5t(Sum(parts))} ELSE {NotRead}

\* The milliseconds of a TIME do not fit into TLC's integers: seconds and the rest.
Seconds(parts) ==
  FoldLeft(LAMBDA sum, part : sum + IF part[2] = "MS" THEN part[1] \div 1000
                                    ELSE part[1] * (Milliseconds(part[2]) \div 1000), 0, parts)
Rest(parts) == FoldLeft(LAMBDA sum, part : sum + IF part[2] = "MS" THEN part[1] % 1000 ELSE 0, 0, parts)
\* More than 0x7FFFFFFF milliseconds, or than 0x80000000.
Exceeds(s, ms, lastMs) == s + (ms \div 1000) > 2147483 \/ (s + (ms \div 1000) = 2147483 /\ ms % 1000 > lastMs)
\* 1000 * s + ms, cut to 32 bits.
StoredTime(s, ms) ==
  LET low == 1000 * (s % 65536) + ms
  IN  Stored(1000 * (s \div 65536) + (low \div 65536), 2) \o Stored(low, 2)
\* A positive time that is too big is refused, a negative one is cut.
TimeImmediates(parts, negative) ==
  {OnlyIf(GenericTimeOk(parts, negative, TRUE) /\ (negative \/ ~Exceeds(Seconds(parts), ms, 647)),
          IF negative THEN StoredTime(-Seconds(parts), -ms) ELSE StoredTime(Seconds(parts), ms)) : ms \in Cut(Rest(parts))}

TimeOk(t) == t.hour \in 0..23 /\ t.minute \in 0..59 /\ t.ms \in 0..59999
TodImmediates(t) ==
  {OnlyIf(TimeOk(t), Stored(3600000 * t.hour + 60000 * t.minute + ms, 4)) : ms \in Cut(t.ms)}

\* datetime.date: days since 1990-1-1, a Monday.
Leap(y) == (y % 4 = 0 /\ y % 100 # 0) \/ y % 400 = 0
DaysOfMonth(y, m) == CASE m = 2 -> IF Leap(y) THEN 29 ELSE 28 [] m \in {4, 6, 9, 11} -> 30 [] OTHER -> 31
DateOk(d) == d.month \in 1..12 /\ d.day \in 1..DaysOfMonth(d.year, d.month)
LeapsBefore(y) == ((y - 1) \div 4) - ((y - 1) \div 100) + ((y - 1) \div 400)
Days(d) ==
  365 * (d.year - 1990) + (LeapsBefore(d.year) - LeapsBefore(1990))
  + FoldLeft(LAMBDA sum, m : sum + DaysOfMonth(d.year, m), 0, [m \in 1..(d.month - 1) |-> m]) + d.day - 1
Weekday(d) == Days(d) % 7
DateAndTimeWeekdayMap == [w \in 0..6 |-> IF w = 6 THEN 1 ELSE w + 2]

DateImmediate(d) == OnlyIf(DateOk(d) /\ Days(d) \in 0..65378, Stored(Days(d), 2))

Bcd2(n) == (n % 10) + 16 * ((n \div 10) % 10)
YearInCentury(y) ==
  IF y < 100 THEN y ELSE IF y - 1900 > 99 THEN y - 2000 ELSE y - 1900
DtImmediate(d, t, ms) ==
  LET year == YearInCentury(d.year)
      msec == ms % 1000
  IN  OnlyIf(DateOk(d) /\ TimeOk(t) /\ year \in 0..99,
             <<Bcd2(year), Bcd2(d.month), Bcd2(d.day), Bcd2(t.hour), Bcd2(t.minute), Bcd2(ms \div 1000),
               Bcd2(msec \div 10), 16 * (msec % 10) + DateAndTimeWeekdayMap[Weekday(d)]>>)
DtImmediates(d, t) == {DtImmediate(d, t, ms) : ms \in Cut(t.ms)}

-----------------------------------------------------------------------------
(* Reading.                                                                *)

\* What a constant may be read as.  Its prefix tells its kind.
TryParseImmediate(c) ==
  CASE c.kind = "INT"    -> {IntImmediate(c.number)}
    [] c.kind = "L#"     -> {DIntImmediate(c.number)}
    [] c.kind = "HEX"    -> {HexImmediate(c.digits, c.size)}
    [] c.kind = "2#"     -> {BinImmediate(c.digits)}
    [] c.kind = "C#"     -> {BcdImmediate(c.digits)}
    [] c.kind = "B#("    -> {ByteArrayImmediate(c.digits)}
    [] c.kind = "BOOL"   -> {BoolImmediate(c.true)}
    [] c.kind = "REAL"   -> {RealImmediate(c.class)}
    [] c.kind = "STRING" -> {StringImmediate(c.characters)}
    [] c.kind = "S5T#"   -> S5tImmediates(c.parts, c.negative)
    [] c.kind = "T#"     -> TimeImmediates(c.parts, c.negative)
    [] c.kind = "TOD#"   -> TodImmediates(c.time)
    [] c.kind = "D#"     -> {DateImmediate(c.date)}
    [] c.kind = "DT#"    -> DtImmediates(c.date, c.time)

\* The kinds of constants that a variable can be initialized with, and its size
\* in bytes.
DataTypeOf ==
  [BOOL |-> <<{"BOOL"}, 1>>, BYTE |-> <<{"HEX"}, 1>>, WORD |-> <<{"2#", "HEX", "C#", "B#("}, 2>>,
   DWORD |-> <<{"2#", "HEX", "B#("}, 4>>, INT |-> <<{"INT"}, 2>>, DINT |-> <<{"L#"}, 4>>, REAL |-> <<{"REAL"}, 4>>,
   S5TIME |-> <<{"S5T#"}, 2>>, TIME |-> <<{"T#"}, 4>>, TIME_OF_DAY |-> <<{"TOD#"}, 4>>, DATE |-> <<{"D#"}, 2>>,
   DATE_AND_TIME |-> <<{"DT#"}, 8>>, CHAR |-> <<{"STRING"}, 1>>, STRING4 |-> <<{"STRING"}, 6>>]

\* A byte array for a WORD has two fields, for a DWORD four; W# is no DWORD.
Matches(c, type) ==
  /\ c.kind \in DataTypeOf[type][1]
  /\ c.kind = "HEX" => c.size = DataTypeOf[type][2]
  /\ c.kind = "B#(" => Len(c.digits) = DataTypeOf[type][2]

\* Expanded to the length of the type.
Expanded(characters, n) == <<n, Len(characters)>> \o characters \o [i \in 1..(n - Len(characters)) |-> 0]
ByteArrayStored(r, n) ==   \* ByteArray.store
  IF ~r.ok THEN r
  ELSE Read([i \in 1..n |-> IF i + Len(r.bytes) - n \in DOMAIN r.bytes THEN r.bytes[i + Len(r.bytes) - n] ELSE 0])
ParseMatchingImmediate(c, type) ==
  IF ~Matches(c, type) THEN {NotRead}
  ELSE IF type = "CHAR" THEN {CharImmediate(c.characters)}
  ELSE IF type = "STRING4" THEN {OnlyIf(Len(c.characters) <= 4, Expanded(c.characters, 4))}
  ELSE {ByteArrayStored(r, DataTypeOf[type][2]) : r \in TryParseImmediate(c)}

ReadImmediate ==
  /\ immediate = Unread
  /\ immediate' \in IF literal.type = "operand" THEN TryParseImmediate(literal.constant)
                    ELSE ParseMatchingImmediate(literal.constant, literal.type)
  /\ UNCHANGED <<literal, display>>

-----------------------------------------------------------------------------
(* The window of a timer or a counter.                                     *)

\* Binary: four by four digits; decimal: without leading zeros.
ToDigits(word, base, n) == [i \in 1..n |-> (word \div base^(n - i)) % base]
WordOf(bytes) == FromDigits(bytes, 256)

Bases == <<10, 100, 1000, 10000>>
S5tMilliseconds(s5t) ==
  Bases[((s5t \div 4096) % 4) + 1] * FromDigits(ToDigits(s5t % 4096, 16, 3), 10)

\* The parts that are not zero, the milliseconds cut.
FormatTime(ms) ==
  SelectSeq(<<<<ms \div 86400000, "D">>, <<(ms \div 3600000) % 24, "H">>, <<(ms \div 60000) % 60, "M">>,
              <<(ms \div 1000) % 60, "S">>, <<ms % 1000, "MS">>>>, LAMBDA part : part[1] # 0)
TimeText(parts) == [kind |-> "S5T#", parts |-> IF parts = <<>> THEN <<<<0, "MS">>>> ELSE parts, negative |-> FALSE]
BinText(word) == [kind |-> "2#", digits |-> ToDigits(word, 2, 16)]
HexText(word) == [kind |-> "HEX", digits |-> ToDigits(word, 16, 4), size |-> 2]
BcdText(word) ==
  [kind |-> "C#", digits |-> IF word = 0 THEN <<0>> ELSE Significant(ToDigits(word, 16, 4))]

ValueToText(format, word) ==
  CASE format = "s5t" -> {TimeText(FormatTime(ms)) : ms \in Cut(S5tMilliseconds(word))}
    [] format = "bin" -> {BinText(word)}
    [] format = "hex" -> {HexText(word)}
    [] format = "bcd" -> {BcdText(word)}

NoText == [kind |-> "none"]
Formats == [timer |-> {"bin", "hex", "s5t"}, counter |-> {"bcd", "bin"}]
KindOf == [bin |-> "2#", hex |-> "HEX", s5t |-> "S5T#", bcd |-> "C#"]

\* Within the ranges of its digits.
WordFits(shows, word) ==
  /\ \A digit \in Range(ToDigits(word % 4096, 16, 3)) : digit <= 9
  /\ word \div 4096 <= IF shows = "timer" THEN 3 ELSE 0
TextToValue(shows, format, text) ==
  IF text = NoText \/ text.kind # KindOf[format] THEN {}
  ELSE {word \in {WordOf(r.bytes) : r \in {r \in TryParseImmediate(text) : r.ok /\ Len(r.bytes) = 2}} : WordFits(shows, word)}

CpuRuns ==
  /\ \E word \in IF display.shows = "timer" THEN TimerWords ELSE CounterWords :
       display' = [display EXCEPT !.word = word]

\* The memory of the CPU is shown again and again.  A text that comes while
\* another one is edited waits behind it.
SetMemory ==
  /\ \E text \in ValueToText(display.format, display.word) :
       display' = [display EXCEPT !.active = text, !.basis = <<display.word>>, !.line = IF display.editing THEN @ ELSE text]

Click == ~display.editing /\ display' = [display EXCEPT !.editing = TRUE]
Type == display.editing /\ \E text \in TypedTexts : display' = [display EXCEPT !.line = text]

HandleReturnPressed ==
  /\ display.editing /\ display.toCpu = <<>>
  /\ \E value \in TextToValue(display.shows, display.format, display.line) :
       display' = [display EXCEPT !.editing = FALSE, !.active = display.line,
                     !.basis = IF display.line = display.active THEN @ ELSE <<>>,
                     !.toCpu = <<[value |-> value, text |-> display.line,
                                  basis |-> IF display.line = display.active THEN display.basis ELSE <<>>]>>]
CancelEdit == display.editing /\ display' = [display EXCEPT !.editing = FALSE, !.line = display.active]

\* What lies outside of the line takes the focus from it.
Rebuild ==
  /\ \E format \in Formats[display.shows] :
       display' = [display EXCEPT !.format = format, !.editing = FALSE, !.active = NoText, !.line = NoText, !.basis = <<>>]
Reset ==
  /\ display.toCpu = <<>>
  /\ display' = [display EXCEPT !.editing = FALSE, !.line = display.active,
                               !.toCpu = <<[value |-> 0, text |-> NoText, basis |-> <<>>]>>]

\* A timer that does not run stays as it is.
CpuTakes ==
  /\ display.toCpu # <<>>
  /\ \E word \in {Head(display.toCpu).value} \cup (IF display.shows = "timer" THEN {display.word} ELSE {}) :
       display' = [display EXCEPT !.toCpu = <<>>, !.word = word]

ImmediatesInit ==
  /\ literal \in Literals /\ immediate = Unread
  /\ \E shows \in {"timer", "counter"} : \E format \in Formats[shows] :
       \E word \in IF shows = "timer" THEN TimerWords ELSE CounterWords :
         display = [shows |-> shows, format |-> format, word |-> word, editing |-> FALSE,
                    active |-> NoText, line |-> NoText, basis |-> <<>>, toCpu |-> <<>>]

WindowNext ==
  /\ CpuRuns \/ SetMemory \/ Click \/ Type \/ HandleReturnPressed \/ CancelEdit \/ Rebuild \/ Reset \/ CpuTakes
  /\ UNCHANGED <<literal, immediate>>

ImmediatesNext == ReadImmediate \/ WindowNext

-----------------------------------------------------------------------------
(* Properties.                                                             *)

Signed(bytes) == FoldLeft(LAMBDA number, byte : 256 * number + byte,
                          IF bytes[1] > 127 THEN bytes[1] - 256 ELSE bytes[1], Tail(bytes))
AllDigits(bytes, base, perByte) == FlattenSeq([i \in DOMAIN bytes |-> ToDigits(bytes[i], base, perByte)])
Earlier(d) == {<<y, m, k>> \in (1990..d.year) \X (1..12) \X (1..31) :
                 /\ DateOk([year |-> y, month |-> m, day |-> k])
                 /\ y < d.year \/ m < d.month \/ (m = d.month /\ k < d.day)}
Decimal(bcd) == 10 * (bcd \div 16) + (bcd % 16)

\* The finest base that holds the time, and less than a step of it away.
Near(s5t, ms) ==
  LET base == (s5t \div 4096) + 1
  IN  /\ S5tMilliseconds(s5t) - ms \in (1 - Bases[base])..(Bases[base] - 1)
      /\ \A finer \in 1..(base - 1) : ms > 999 * Bases[finer]

Legal(c) ==
  CASE c.kind = "INT" -> c.number \in -32768..32767
    [] c.kind = "HEX" -> Len(Significant(c.digits)) <= 2 * c.size
    [] c.kind = "2#"  -> Len(Significant(c.digits)) <= 32
    [] c.kind = "B#(" -> Len(c.digits) \in {2, 4} /\ \A i \in DOMAIN c.digits : c.digits[i] <= 255
    [] c.kind = "C#"  -> Len(c.digits) <= 3
    [] c.kind = "S5T#" -> ~c.negative /\ Sum(c.parts) <= 9990000
    [] c.kind = "T#"   -> c.negative \/ ~Exceeds(Seconds(c.parts), Rest(c.parts), 647)
    [] c.kind = "TOD#" -> TimeOk(c.time)
    [] c.kind = "D#"   -> DateOk(c.date) /\ c.date.year \in 1990..2168
    [] c.kind = "DT#"  -> DateOk(c.date) /\ TimeOk(c.time)
    [] OTHER -> TRUE

\* A negative time that no TIME holds, which is read all the same.
TimeWraps(c) == c.kind = "T#" /\ c.negative /\ Exceeds(Seconds(c.parts), Rest(c.parts), 648)

MeantBy(bytes, c) ==
  CASE c.kind \in {"INT", "L#"} -> Signed(bytes) = c.number
    [] c.kind = "HEX" -> Significant(AllDigits(bytes, 16, 2)) = Significant(c.digits)
    [] c.kind = "2#"  -> Significant(AllDigits(bytes, 2, 8)) = Significant(c.digits)
    [] c.kind = "C#"  -> Significant(AllDigits(bytes, 16, 2)) = Significant(c.digits)
    [] c.kind = "B#(" -> bytes = c.digits
    [] c.kind = "BOOL" -> (bytes = <<1>>) = c.true
    [] c.kind = "REAL" -> (bytes = <<0, 0, 0, 0>>) = (c.class \in {"zero", "vanishing", "denormal"})
    [] c.kind = "STRING" ->
         \/ bytes = c.characters /\ Len(bytes) = 1
         \/ /\ bytes[2] <= bytes[1] /\ Len(bytes) = bytes[1] + 2
            /\ SubSeq(bytes, 3, bytes[2] + 2) = c.characters
    [] c.kind = "S5T#" -> Near(WordOf(bytes), Sum(c.parts))
    [] c.kind = "T#"   ->
         ~TimeWraps(c) /\ Rest(c.parts) + (IF c.negative THEN 1000 * Seconds(c.parts) + Signed(bytes)
                                                         ELSE 1000 * Seconds(c.parts) - Signed(bytes)) \in 0..1
    [] c.kind = "TOD#" -> Signed(bytes) - 3600000 * c.time.hour - 60000 * c.time.minute \in (c.time.ms - 1)..c.time.ms
    [] c.kind = "D#"   -> WordOf(bytes) = Cardinality(Earlier(c.date))
    [] c.kind = "DT#"  ->
         /\ <<Decimal(bytes[2]), Decimal(bytes[3]), Decimal(bytes[4]), Decimal(bytes[5])>>
              = <<c.date.month, c.date.day, c.time.hour, c.time.minute>>
         /\ Decimal(bytes[1]) + (IF Decimal(bytes[1]) < 90 THEN 2000 ELSE 1900) = c.date.year
         /\ 1000 * Decimal(bytes[6]) + 10 * Decimal(bytes[7]) + (bytes[8] \div 16) \in (c.time.ms - 1)..c.time.ms
         /\ (bytes[8] % 16) - 1 = (Cardinality(Earlier(c.date)) + 1) % 7   \* Sunday is 1

AsWritten(r, c, type) ==
  IF r.ok
  THEN (Legal(c) \/ c.kind = "T#") /\ MeantBy(r.bytes, c)
  ELSE ~Legal(c) \/ (type # "operand" /\ ~Matches(c, type))
       \/ (type = "CHAR" /\ Len(c.characters) # 1) \/ (type = "STRING4" /\ Len(c.characters) > 4)

\* A constant that is refused is none of its type, and one that is read has the
\* bytes it means, as an operand and as the initial value of a variable; a time
\* is short by a millisecond at most, also one that is thereby no more too big.
EveryConstantRead == immediate # Unread => AsWritten(immediate, literal.constant, literal.type)

\* The same of every constant but a negative time that no TIME holds.
ConstantRead == TimeWraps(literal.constant) \/ EveryConstantRead

\* What is entered into the window is what is sent, and a time that is entered
\* as it was shown is the one that was there, in whatever base.
WindowSends ==
  /\ ~display.editing => display.line = display.active
  /\ \A i \in DOMAIN display.toCpu :
       LET answer == display.toCpu[i] IN
         /\ answer.basis # <<>> => S5tMilliseconds(answer.value) = S5tMilliseconds(answer.basis[1])
         /\ answer.text # NoText => MeantBy(Stored(answer.value, 2), answer.text)

\* What the constants of AWL say, the CPU and its timers and counters get; left
\* out is a negative time below -0x80000000 ms, whose lower 32 bits are taken
\* (datatypes.py 829-832).
ImmediatesAsWritten == ConstantRead /\ WindowSends
=============================================================================
