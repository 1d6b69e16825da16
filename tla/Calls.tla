------------------------------- MODULE Calls --------------------------------
(* The call stack of the CPU (core/callstack.py, core/lstack.py, the call     *)
(* helpers and __runOB of core/cpu.py): what a block sees of its instance, of *)
(* its parameter and of its caller's registers while blocks call each other   *)
(* and open data blocks.  Each call passes one IN_OUT parameter.              *)
EXTENDS Integers, Sequences

CONSTANTS
  Sites,       \* the CALL instructions: [in, kind, callee, inst, actual, width]
  DbNumber,    \* the data blocks a program may open
  DbSize,      \* cells of a data block: an instance has its parameter at 0,
               \* a static variable at 1 and an embedded instance at 2
  Data,        \* what a variable may hold
  TempBytes,   \* TEMP bytes at the start of each L-stack
  LocalBytes,  \* cpu.specs.nrLocalbytes
  MaxDepth,    \* bound: nested calls
  MaxInsns     \* bound: instructions of a cycle

ASSUME CallsAssumption ==
  /\ TempBytes \in Nat /\ LocalBytes \in Nat /\ TempBytes < LocalBytes
  /\ DbNumber \subseteq Nat \ {0} /\ MaxDepth \in Nat
  /\ \A s \in Sites :
       /\ s.inst \in Nat /\ s.width \in Nat \ {0} /\ s.kind \in {"fb", "multi", "fc", "raw"}
       /\ s.actual \in [area : {"M", "L", "VL", "DB", "DBX", "DI", "param", "none"}, nr : Nat, addr : Nat]
       /\ s.kind \in {"fb", "multi"} => s.callee \in {"FB1", "FB2"}
       /\ s.kind = "fc" => s.callee \notin {"FB1", "FB2"}
       \* A CALL has an actual; only an FC has parameters that are references.
       /\ s.kind # "raw" => s.actual.area # "none"
       /\ s.actual.area = "param" => s.in \notin {"OB", "FB1", "FB2"}

VARIABLES
  stack,    \* callStack; moved: since the call, its CALL has put a copy elsewhere
  db, di,   \* dbRegister, diRegister
  ar2,      \* the offset in ar2
  mem,      \* flags, data blocks and, per depth, the L-stack
  scratch,  \* param.scratchSpaceOp of each CALL instruction
  aborted,  \* an error ended the cycle
  insns     \* bound: instructions so far

callVars == <<stack, db, di, ar2, mem, scratch, aborted, insns>>

Top == Len(stack)
Frame == stack[Top]
IsFB(b) == b \in {"FB1", "FB2"}

(***************************************************************************)
(* Operands.  VL is the L-stack of the caller; DBX names its data block,   *)
(* DB is in the one that is open (dbNumber None); param is the formal      *)
(* parameter of an FC, a reference that the call has translated: an FC     *)
(* that was called raw has none.                                           *)
(***************************************************************************)
Op(area, addr) == [area |-> area, nr |-> 0, addr |-> addr]
NoOp == Op("none", 0)

Translated(ref, op) == IF op.area = "param" THEN ref ELSE op

Place(frames, d, op, open, inst, base) ==
  LET o == Translated(frames[d].ref, op)
  IN  CASE o.area = "M"   -> <<"M", 0, o.addr>>
        [] o.area = "L"   -> <<"L", d, o.addr>>
        [] o.area = "VL"  -> <<"L", d - 1, o.addr>>
        [] o.area = "DB"  -> <<"DB", open, o.addr>>
        [] o.area = "DBX" -> <<"DB", o.nr, o.addr>>
        [] o.area = "DI"  -> <<"DB", inst, o.addr + (IF IsFB(frames[d].block) THEN base ELSE 0)>>
        [] OTHER -> <<"none", 0, 0>>

Exists(place) == place \in DOMAIN mem

\* The parameter of the block on top: a field of the instance, or a reference.
Formal(frames, d, open, inst, base) ==
  IF IsFB(frames[d].block) THEN <<"DB", inst, base>>
                           ELSE Place(frames, d, frames[d].ref, open, inst, base)

(***************************************************************************)
(* LStackAllocator.alloc: single bits are packed, anything wider starts at *)
(* a byte.                                                                 *)
(***************************************************************************)
Aligned(frame, width) ==
  IF width = 1 \/ frame.bits = 0 THEN [bytes |-> frame.bytes, bits |-> frame.bits]
                                 ELSE [bytes |-> frame.bytes + 1, bits |-> 0]

Offset(frame, width) ==
  LET a == Aligned(frame, width) IN 8 * a.bytes + a.bits

Allocated(frame, width) ==
  LET end == Offset(frame, width) + (IF width = 1 THEN 1 ELSE 8 * ((width + 7) \div 8))
  IN  [frame EXCEPT !.bytes = end \div 8, !.bits = end % 8,
                    !.areas = @ \cup {[from |-> Offset(frame, width), to |-> end]}]

Exhausted(frame, width) == Allocated(frame, width).bytes >= LocalBytes

NewFrame(b, raw, inst, base, ref, site, copies) ==
  [block |-> b, raw |-> raw, inst |-> inst, base |-> base, ref |-> ref, site |-> site,
   copies |-> copies, prevDb |-> db, prevDi |-> di, prevAr2 |-> ar2,
   bytes |-> TempBytes, bits |-> 0, areas |-> {}, touched |-> FALSE, moved |-> FALSE]

CallInit ==
  /\ db = 0 /\ di = 0 /\ ar2 = 0
  /\ stack = <<NewFrame("OB", TRUE, 0, 0, NoOp, [actual |-> NoOp], FALSE)>>
  /\ mem \in [{<<"M", 0, 0>>} \cup {<<"DB", n, c>> : n \in DbNumber, c \in 0 .. DbSize - 1}
                \cup {<<"L", d, b>> : d \in 1 .. MaxDepth, b \in 0 .. 8 * LocalBytes - 1} -> {0}]
  /\ scratch = [s \in Sites |-> 0]
  /\ aborted = FALSE /\ insns = 0

Running == ~aborted /\ stack # <<>> /\ insns < MaxInsns

Fail ==
  /\ aborted' = TRUE
  /\ UNCHANGED <<stack, db, di, ar2, mem, scratch>>

Counted == insns' = insns + 1

(***************************************************************************)
(* Instructions that do not call.                                          *)
(***************************************************************************)
OpenDB(n) ==
  /\ Running /\ Counted
  /\ db' = n
  /\ UNCHANGED <<stack, di, ar2, mem, scratch, aborted>>

OpenDI(n) ==
  /\ Running /\ Counted
  /\ di' = n
  /\ stack' = [stack EXCEPT ![Top].touched = TRUE]
  /\ UNCHANGED <<db, ar2, mem, scratch, aborted>>

SwapDBs ==
  /\ Running /\ Counted
  /\ db' = di /\ di' = db
  /\ stack' = [stack EXCEPT ![Top].touched = TRUE]
  /\ UNCHANGED <<ar2, mem, scratch, aborted>>

SetFormal(v) ==
  /\ Running /\ Counted /\ ~Frame.raw
  /\ LET p == Formal(stack, Top, db, di, ar2) IN
       IF Exists(p)
       THEN mem' = [mem EXCEPT ![p] = v] /\ UNCHANGED <<stack, db, di, ar2, scratch, aborted>>
       ELSE Fail

(***************************************************************************)
(* Calls.  The actual is fetched, or translated to a reference, while the  *)
(* registers are still those of the caller.                                *)
(***************************************************************************)
Callable(s) == Running /\ Counted /\ s.in = Frame.block /\ Top < MaxDepth

CallFB(s) ==
  /\ Callable(s) /\ s.kind \in {"fb", "multi"}
  /\ LET inst == IF s.kind = "fb" THEN s.inst ELSE di
         base == IF s.kind = "fb" THEN 0 ELSE ar2 + s.inst
         from == Place(stack, Top, s.actual, db, di, ar2)
         into == <<"DB", inst, base>>
     IN  IF ~Exists(from) \/ ~Exists(into) THEN Fail
         ELSE /\ mem' = [mem EXCEPT ![into] = mem[from]]
              /\ stack' = Append(stack, NewFrame(s.callee, FALSE, inst, base, NoOp, s, TRUE))
              /\ ar2' = base
              /\ db' = di
              /\ di' = inst
              /\ UNCHANGED <<scratch, aborted>>

\* __FC_paramTrans: an operand that stays where it is while the callee runs is
\* passed as it is, and so is one in the open data block, unless it is a
\* parameter passed on; any other is copied to the caller's L-stack.
IsCopied(ref, op) ==
  \/ Translated(ref, op).area \in {"DI", "DBX", "VL"}
  \/ op.area = "param" /\ ref.area = "DB"

CallFCDirectly(s) ==
  /\ Callable(s) /\ s.kind = "fc" /\ ~IsCopied(Frame.ref, s.actual)
  /\ LET o == Translated(Frame.ref, s.actual)
         ref == IF o.area = "L" THEN Op("VL", o.addr) ELSE o
     IN  IF o.area = "none" THEN Fail
         ELSE /\ stack' = Append(stack, NewFrame(s.callee, FALSE, 0, 0, ref, s, FALSE))
              /\ UNCHANGED <<db, di, ar2, mem, scratch, aborted>>

\* The CALL keeps the place of one copy only.
Marked(f, s, at) ==
  [f EXCEPT !.moved = @ \/ (f.copies /\ f.site = s /\ scratch[s] # at)]

CallFCByCopy(s) ==
  /\ Callable(s) /\ s.kind = "fc" /\ IsCopied(Frame.ref, s.actual)
  /\ LET from == Place(stack, Top, s.actual, db, di, ar2)
         at == Offset(Frame, s.width)
     IN  IF ~Exists(from) \/ Exhausted(Frame, s.width) THEN Fail
         ELSE /\ mem' = [mem EXCEPT ![<<"L", Top, at>>] = mem[from]]
              /\ scratch' = [scratch EXCEPT ![s] = at]
              /\ stack' = Append([d \in 1 .. Top |->
                                    Marked(IF d = Top THEN Allocated(Frame, s.width) ELSE stack[d], s, at)],
                                 NewFrame(s.callee, FALSE, 0, 0, Op("VL", at), s, TRUE))
              /\ db' = IF s.actual.area = "DBX" THEN s.actual.nr ELSE db
              /\ UNCHANGED <<di, ar2, aborted>>

CallRaw(s) ==
  /\ Callable(s) /\ s.kind = "raw"
  /\ stack' = Append(stack, NewFrame(s.callee, TRUE, 0, 0, NoOp, s, FALSE))
  /\ UNCHANGED <<db, di, ar2, mem, scratch, aborted>>

(***************************************************************************)
(* Block exit: the element is popped, then the outbound parameter is       *)
(* stored, then DB and DI are assigned.                                    *)
(***************************************************************************)
Below == SubSeq(stack, 1, Top - 1)

ReturnRaw ==
  /\ Running /\ Counted /\ Frame.raw
  /\ stack' = IF Top = 1 THEN <<>>
              ELSE [Below EXCEPT ![Top - 1].touched = @ \/ Frame.touched]
  /\ UNCHANGED <<db, di, ar2, mem, scratch, aborted>>

ReturnFB ==
  /\ Running /\ Counted /\ ~Frame.raw /\ IsFB(Frame.block)
  /\ LET from == <<"DB", di, ar2>>
         to == Place(stack, Top - 1, Frame.site.actual, db, di, Frame.prevAr2)
     IN  IF ~Exists(from) \/ ~Exists(to) THEN Fail
         ELSE /\ mem' = [mem EXCEPT ![to] = mem[from]]
              /\ stack' = Below
              /\ ar2' = Frame.prevAr2
              /\ db' = Frame.inst
              /\ di' = Frame.prevDi
              /\ UNCHANGED <<scratch, aborted>>

\* A faulty exit: the scratch space is taken for that of the block that ends.
ReturnFCFromTop ==
  /\ Running /\ Counted /\ ~Frame.raw /\ ~IsFB(Frame.block)
  /\ LET from == <<"L", Top, scratch[Frame.site]>>
         to == Place(stack, Top - 1, Frame.site.actual, db, di, Frame.prevAr2)
     IN  /\ mem' = IF Frame.copies THEN [mem EXCEPT ![to] = mem[from]] ELSE mem
         /\ stack' = Below
         /\ ar2' = Frame.prevAr2
         /\ db' = Frame.prevDb
         /\ di' = Frame.prevDi
         /\ UNCHANGED <<scratch, aborted>>

ReturnFC ==
  /\ Running /\ Counted /\ ~Frame.raw /\ ~IsFB(Frame.block)
  /\ LET from == <<"L", Top - 1, scratch[Frame.site]>>
         to == Place(stack, Top - 1, Frame.site.actual, db, di, Frame.prevAr2)
     IN  IF Frame.copies /\ ~Exists(to) THEN Fail
         ELSE /\ mem' = IF Frame.copies THEN [mem EXCEPT ![to] = mem[from]] ELSE mem
              /\ stack' = Below
              /\ ar2' = Frame.prevAr2
              /\ db' = Frame.prevDb
              /\ di' = Frame.prevDi
              /\ UNCHANGED <<scratch, aborted>>

CallNext ==
  \/ \E n \in DbNumber : OpenDB(n) \/ OpenDI(n)
  \/ SwapDBs
  \/ \E v \in Data : SetFormal(v)
  \/ \E s \in Sites : CallFB(s) \/ CallFCDirectly(s) \/ CallFCByCopy(s) \/ CallRaw(s)
  \/ ReturnRaw \/ ReturnFB \/ ReturnFC

CallSpec == CallInit /\ [][CallNext]_callVars

(***************************************************************************)
(* Properties.                                                             *)
(***************************************************************************)

\* Whatever blocks it has called and whatever they have opened, a function
\* block that opened no instance itself sees its own instance through DI and
\* AR2 (cpu.py 1027-1076, callstack.py 129-133, 347-389); only a raw call (UC,
\* CC) may leave it with another one, and gives none to the block it calls.
InstanceVisible ==
  stack # <<>> /\ ~aborted /\ IsFB(Frame.block) /\ ~Frame.raw /\ ~Frame.touched
    => di = Frame.inst /\ ar2 = Frame.base

\* Where the caller of the block on top has its actual parameter.
ActualPlace == Place(stack, Top - 1, Frame.site.actual, Frame.prevDb, Frame.prevDi, Frame.prevAr2)

Pops == stack' # stack /\ Len(stack') < Top /\ Top > 1 /\ ~Frame.raw
Pushes == Len(stack') > Top /\ ~stack'[Top + 1].raw

\* A call hands the value of the actual to the callee.
ActualPassed ==
  Pushes => LET from == Place(stack, Top, stack'[Top + 1].site.actual, db, di, ar2)
            IN  Exists(from) => mem'[Formal(stack', Top + 1, db', di', ar2')] = mem[from]

\* The return hands the value of the formal back (if the data block that is
\* open has either).
FormalReturned ==
  LET from == Formal(stack, Top, db, di, ar2)
  IN  Exists(from) /\ Exists(ActualPlace) => mem'[ActualPlace] = mem[from]

\* The callee leaves with the register through which its caller reaches the
\* actual as it was given.
RegistersAsGiven ==
  LET o == Translated(stack[Top - 1].ref, Frame.site.actual)
  IN  (o.area = "DI" => di = Frame.prevDi) /\ (o.area = "DB" => db = Frame.prevDb)

\* No two scratch areas of a block overlap, with each other or with its TEMP
\* variables, and none reaches beyond the L-stack (lstack.py 46-76).
ScratchDisjoint ==
  \A d \in 1 .. Len(stack) : \A r \in stack[d].areas :
    /\ 8 * TempBytes <= r.from /\ r.to <= 8 * LocalBytes
    /\ \A q \in stack[d].areas : q = r \/ q.to <= r.from \/ r.to <= q.from

\* A block works on its own instance and scratch areas, and the parameter the
\* callee works on is the caller's variable: copied in and back, or referred to
\* (callstack.py 79-127, 265-308, 347-385).  Two things are left to the program:
\* that a callee does not leave with another DB or DI open if the actual is
\* reached through it, and that the CALL has not put a copy elsewhere before
\* the call returns, as it does when blocks call themselves.
ParameterIsActual ==
  /\ [](InstanceVisible /\ ScratchDisjoint)
  /\ [][ActualPassed /\ (Pops /\ RegistersAsGiven /\ ~Frame.moved => FormalReturned)]_callVars

\* LVALUE := RVALUE (parameters.py 65): an IN_OUT parameter has been assigned to
\* its actual when the call is over.
OutboundReachesActual == [][Pops => FormalReturned]_callVars
=============================================================================
