------------------------------- MODULE MCCpu --------------------------------
(***************************************************************************)
(* The modules of the emulated CPU for TLC: calls, memory, bit logic,      *)
(* accumulators, timers, counters, IEC timers, the clock memory, the data  *)
(* areas of its Modbus blocks, and the IEC library.  They share nothing:   *)
(* in a behaviour only the one in focus moves, the others stay in one      *)
(* initial state.                                                          *)
(***************************************************************************)
EXTENDS Calls, Memory, BitLogic, Accumulators, Timers, Counters, IecTimers, ModbusAreas, IecLibrary

CONSTANT Focus   \* the modules that are explored

VARIABLE focus

(* Calls: OB 1 calls FB 1 with DB 1; FB 1 embeds FB 2, calls it with DB 2   *)
(* too, and calls FC 1, which passes its parameter on (and has none when it *)
(* was called raw), calls itself, and gives FB 2 what is in the open DB.    *)
MCSite(in, kindOf, callee, instance, actual, width) ==
  [in |-> in, kind |-> kindOf, callee |-> callee, inst |-> instance,
   actual |-> actual, width |-> width]

MCSites == {MCSite("OB", "fb", "FB1", 1, Op("M", 0), 1),
            MCSite("FB1", "multi", "FB2", 2, Op("DI", 1), 1),
            MCSite("FB1", "fc", "FC1", 0, Op("DI", 1), 1),
            MCSite("FC1", "fc", "FC2", 0, Op("param", 0), 16),
            MCSite("FC1", "raw", "FC2", 0, NoOp, 1),
            MCSite("FB1", "fc", "FC2", 0, Op("DI", 1), 16),
            MCSite("FB1", "raw", "FC1", 0, NoOp, 1),
            MCSite("OB", "fc", "FC1", 0, [area |-> "DBX", nr |-> 1, addr |-> 1], 16),
            MCSite("FB1", "fb", "FB2", 2, Op("L", 0), 1),
            MCSite("FB2", "fc", "FC2", 0, Op("L", 0), 1),
            MCSite("OB", "fc", "FC1", 0, Op("DB", 1), 1),
            MCSite("FC1", "fb", "FB2", 2, Op("DB", 1), 1),
            MCSite("FC1", "fc", "FC1", 0, [area |-> "DBX", nr |-> 1, addr |-> 1], 1)}

\* FB 1 passes a variable of its own instance to FB 2.
MCOwnInstance == {MCSite("OB", "fb", "FB1", 1, Op("M", 0), 1),
                  MCSite("FB1", "fb", "FB2", 2, Op("DI", 1), 1)}

(* Memory: bytes of 4 bits and a few of everything; operands of each type,  *)
(* pointers with and without an area, one of them with a bit.                *)
MCSize == [s \in {<<"E", 0>>, <<"A", 0>>, <<"M", 0>>, <<"L", 0>>, <<"VL", 0>>, <<"DB", 1>>, <<"DB", 2>>} |->
             IF s[1] = "M" THEN 6 ELSE 5]
MCFill == [s \in DOMAIN MCSize |->
             CASE s[1] = "M"  -> <<11, 4, 0, 2, 9, 7>>
               [] s[1] = "E"  -> <<1, 2, 3, 4, 5>>
               [] s[1] = "A"  -> <<3, 1, 4, 1, 5>>
               [] s[1] = "L"  -> <<8, 0, 6, 15, 7>>
               [] s[1] = "VL" -> <<13, 0, 0, 4, 10>>
               [] s = <<"DB", 1>> -> <<12, 0, 1, 0, 6>>
               [] OTHER       -> <<2, 7, 1, 8, 2>>]
MCContexts == {[fb |-> TRUE, parent |-> TRUE, mcrOff |-> FALSE],
               [fb |-> FALSE, parent |-> FALSE, mcrOff |-> FALSE],
               [fb |-> FALSE, parent |-> TRUE, mcrOff |-> TRUE]}
MCLoadOps == {Direct("E", 8, 4, NoDb), Direct("DB", 16, 0, NoDb), Direct("DB", 8, 4, 2),
              Direct("DI", 4, 4, NoDb), Direct("L", 16, 0, NoDb), Direct("PE", 8, 16, NoDb),
              ViaRegister("", 8, 1, 4), ViaRegister("", 4, 2, 0), ViaRegister("M", 16, 1, 4),
              ViaMemory("L", 8, 0), ViaMemory("DB", 4, 0)}
MCStoreOps == {Direct("M", 16, 4, NoDb), Direct("DB", 8, 0, 2), Direct("DI", 8, 4, NoDb),
               Direct("PA", 4, 0, NoDb), Direct("L", 16, 8, NoDb), Direct("VL", 8, 4, NoDb),
               ViaRegister("", 8, 1, 0), ViaRegister("A", 4, 2, 4), ViaMemory("E", 4, 0)}
MCBitLoadOps == {Direct("M", 1, 6, NoDb), ViaRegister("", 1, 1, 3), Direct("DI", 1, 2, NoDb)}
MCBitStoreOps == {Direct("A", 1, 7, NoDb), ViaRegister("DB", 1, 1, 2), ViaRegister("", 1, 2, 1)}
MCPointers == {PointerTo("DB", 8), PointerTo("P", 4), PointerTo("VL", 0), PointerTo("DI", 5),
               PointerTo("", 4)}
MCSteps == {4, 60}

\* Accumulators: words of 8 bits around every limit, and numbers of few digits.
MCLimits == {0, 1, 2, 7, 9, 127, 128, 129, 254, 255, 256,
             32767, 32768, 32769, 65407, 65408, 65535}
MCStart  == MCLimits \X MCLimits
MCValues == 0 .. 40 \cup 720 .. 740 \cup 2180 .. 2190
MCBcd    == {v % 65536 : v \in MCValues} \cup {(-v) % 65536 : v \in MCValues}
            \cup {ToDigits(v, 7) + sign : v \in MCValues, sign \in {0, 3 * 4 ^ 7}}

\* Timers: three timebases of 1, 2 and 4 ticks; the third one truncates.
MCBase == <<1, 2, 4>>

\* Counters and IEC timers: values a configuration cannot write.
MCMinCount == -1
MCPresets  == {-1, 2}
MCPTs      == {-1, 0, 1, 3}

\* Modbus: coils and holding registers on both sides; input registers, which
\* only the server has.  The limits by "is it a bit?".
MCArea(type, start, end) == [type |-> type, start |-> start, end |-> end]
MCAreas ==
    [client |-> <<MCArea(1, 1, 3), MCArea(3, 1, 3)>>,
     server |-> <<MCArea(1, 1, 3), MCArea(3, 1, 3), MCArea(4, 1, 2)>>]
MCMaxRead == [b \in BOOLEAN |-> IF b THEN 3 ELSE 2]
MCMaxWrite == [b \in BOOLEAN |-> 2]

\* Library: strings of every length, negative and too large positions; dates
\* on both sides of every limit of the years, and some that are none.
MCNumbers == -1 .. 7
MCDates ==
    {<<y, 1 + later, day, 0, 0, 89 * later, 16 * ms, 16 * last + 1 + ((y + later + day) % 7)>> :
       y \in {0, 5, 137, 144, 153, 154, 160}, later \in {0, 1}, day \in {1, 49}, ms \in {1, 2}, last \in {0, 9}}

AccuAtRest ==
    /\ accu = <<0, 0, 1, 2>> /\ is4accu = FALSE
    /\ st = [A1 |-> FALSE, A0 |-> FALSE, OV |-> FALSE, OS |-> FALSE, VKE |-> FALSE]
    /\ insn = [op |-> "none", arg |-> 0]

MCInit ==
    /\ focus \in Focus
    /\ CallInit
    /\ MemoryInit /\ (focus # "memory" => context = CHOOSE c \in MCContexts : TRUE)
    /\ BitInit /\ (focus # "bits" => ~edge)
    /\ IF focus = "accus" THEN AccuInit ELSE AccuAtRest
    /\ TimerInit /\ (focus # "timer" => kind = "SI")
    /\ CounterInit /\ (focus # "counter" => block = "Z")
    /\ IecInit /\ (focus # "iec" => timerBlock = "TP")
    /\ ClockInit
    /\ AreasInit
    /\ LibraryInit

MCVars == <<focus, callVars, memoryVars, bitVars, accuVars, timerVars, counterVars, iecVars, clockVars,
            areaVars, libraryVars>>

MCNext ==
    /\ UNCHANGED focus
    /\ IF focus = "calls"   THEN CallNext    ELSE UNCHANGED callVars
    /\ IF focus = "memory"  THEN MemoryNext  ELSE UNCHANGED memoryVars
    /\ IF focus = "bits"    THEN BitNext     ELSE UNCHANGED bitVars
    /\ IF focus = "accus"   THEN AccuNext    ELSE UNCHANGED accuVars
    /\ IF focus = "timer"   THEN TimerNext   ELSE UNCHANGED timerVars
    /\ IF focus = "counter" THEN CounterNext ELSE UNCHANGED counterVars
    /\ IF focus = "iec"     THEN IecNext     ELSE UNCHANGED iecVars
    /\ IF focus = "clock"   THEN ClockNext   ELSE UNCHANGED clockVars
    /\ IF focus = "areas"   THEN AreasNext   ELSE UNCHANGED areaVars
    /\ IF focus = "library" THEN LibraryNext ELSE UNCHANGED libraryVars

MCSpec == MCInit /\ [][MCNext]_MCVars
=============================================================================
