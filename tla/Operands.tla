------------------------------ MODULE Operands ------------------------------
(***************************************************************************)
(* How the operands of an instruction and the parameters of a CALL are     *)
(* read from its tokens (core/optrans.py, core/identifier.py).  A writer   *)
(* writes operands the way the program itself shows them                   *)
(* (AwlOperator.__repr__), with German or English mnemonics, with or       *)
(* without the blank before an address.                                    *)
(*                                                                         *)
(* A token is a word, the numbers that follow it and the names that follow *)
(* these, all parted by dots: "M0.1", "#a.b", "P#DB1.DBX".  The value of a *)
(* constant is its text: what it means is the subject of Immediates.       *)
(***************************************************************************)
EXTENDS Integers, Sequences, SequencesExt, FiniteSets

CONSTANTS
  Mnemonics,      \* "DE", "EN"
  ParamConstants, \* the constants that are passed to the parameters of a CALL
  MaxOperands     \* bound: operands and parameters of an instruction

VARIABLES
  mnemonics,  \* those of the CPU
  raw,        \* the tokens of the operands of a RawAwlInsn
  meant,      \* history: the operands and the parameters that were written
  stage       \* where the writer is: "operands", "parameters", "done"

operandVars == <<mnemonics, raw, meant, stage>>

Token(word, at, path) == [word |-> word, at |-> at, path |-> path]
Plain(word) == Token(word, <<>>, <<>>)
Number(n) == Token("", <<n>>, <<>>)
IsWord(tokens, i, word) == i \in DOMAIN tokens /\ tokens[i] = Plain(word)

\* An operator.  addr: byte and bit; chain: the names of a variable.
Nothing == [type |-> "", width |-> 0, addr |-> <<>>, text |-> "", db |-> <<>>, dbName |-> "",
            chain |-> <<>>, area |-> "", ar |-> "", offset |-> <<>>]
Operator(type, width) == [Nothing EXCEPT !.type = type, !.width = width]
Symbol == "\"s\""

-----------------------------------------------------------------------------
(* The operators that have a name of their own.  needs: the part of the    *)
(* address that is still to be read.                                       *)

OpDescriptor(op, taken, needs) == [op |-> op, taken |-> taken, needs |-> needs, ok |-> TRUE]
Entry(type, width, needs) == OpDescriptor(Operator(type, width), IF needs = "none" THEN 1 ELSE 2, needs)
Wrong == [OpDescriptor(Nothing, 0, "none") EXCEPT !.ok = FALSE]

Sized(type, byte, word, dword) ==
  (byte :> Entry(type, 8, "byte")) @@ (word :> Entry(type, 16, "byte")) @@ (dword :> Entry(type, 32, "byte"))
Area(type, bit, byte, word, dword) == (bit :> Entry(type, 1, "bits")) @@ Sized(type, byte, word, dword)

StatusBit(name, nr) == name :> OpDescriptor([Operator("MEM_STW", 1) EXCEPT !.addr = <<0, nr>>], 1, "none")
Whole(names, type, width) == names :> Entry(type, width, "none")

ConstOperTab_german ==
  Sized("UNSPEC", "B", "W", "D")
  @@ Area("MEM_E", "E", "EB", "EW", "ED") @@ Area("MEM_A", "A", "AB", "AW", "AD")
  @@ Area("MEM_L", "L", "LB", "LW", "LD") @@ Area("MEM_M", "M", "MB", "MW", "MD")
  @@ Area("MEM_DB", "DBX", "DBB", "DBW", "DBD") @@ Area("MEM_DI", "DIX", "DIB", "DIW", "DID")
  @@ Sized("MEM_PE", "PEB", "PEW", "PED") @@ Sized("MEM_PA", "PAB", "PAW", "PAD")
  @@ ("T" :> Entry("MEM_T", 16, "byte")) @@ ("Z" :> Entry("MEM_Z", 16, "byte"))
  @@ [b \in {"FC", "SFC", "FB", "SFB", "UDT", "DB", "DI", "OB", "VAT"} |-> Entry("BLKREF_" \o b, 16, "byte")]
  @@ Whole("==0", "MEM_STW_Z", 1) @@ Whole("<>0", "MEM_STW_NZ", 1) @@ Whole(">0", "MEM_STW_POS", 1)
  @@ Whole("<0", "MEM_STW_NEG", 1) @@ Whole(">=0", "MEM_STW_POSZ", 1) @@ Whole("<=0", "MEM_STW_NEGZ", 1)
  @@ Whole("UO", "MEM_STW_UO", 1) @@ StatusBit("OV", 5) @@ StatusBit("OS", 4) @@ StatusBit("BIE", 8)
  @@ [r \in {"DBLG", "DBNO", "DILG", "DINO"} |-> Entry("MEM_" \o r, 32, "none")]
  @@ Whole("STW", "MEM_STW", 16) @@ Whole("AR2", "MEM_AR2", 32)
  @@ ("__STW" :> Entry("MEM_STW", 1, "bit")) @@ ("__ACCU" :> Entry("VIRT_ACCU", 32, "byte"))
  @@ ("__AR" :> Entry("VIRT_AR", 32, "byte")) @@ ("__DBR" :> Entry("VIRT_DBR", 16, "byte"))
  @@ [c \in {"__CNST_PI", "__CNST_E", "__CNST_PINF", "__CNST_NINF", "__CNST_PNAN", "__CNST_NNAN"} |->
        OpDescriptor([Operator("IMM_REAL", 32) EXCEPT !.text = c], 1, "none")]

English2german ==
  [I |-> "E", IB |-> "EB", IW |-> "EW", ID |-> "ED", Q |-> "A", QB |-> "AB", QW |-> "AW", QD |-> "AD",
   C |-> "Z", BR |-> "BIE", PIB |-> "PEB", PIW |-> "PEW", PID |-> "PED", PQB |-> "PAB", PQW |-> "PAW",
   PQD |-> "PAD"]
German2english(g) ==
  IF \E e \in DOMAIN English2german : English2german[e] = g
  THEN CHOOSE e \in DOMAIN English2german : English2german[e] = g ELSE g

ConstOperTab_english ==
  [e \in {German2english(g) : g \in DOMAIN ConstOperTab_german} |->
     ConstOperTab_german[IF e \in DOMAIN English2german THEN English2german[e] ELSE e]]

OperTable(m) == IF m = "DE" THEN ConstOperTab_german ELSE ConstOperTab_english

\* The bits of the status word, by the names of the mnemonics.
Name2nr(m) ==
  IF m = "DE" THEN "/ER" :> 0 @@ [VKE |-> 1, STA |-> 2, OR |-> 3, OS |-> 4, OV |-> 5, A0 |-> 6, A1 |-> 7, BIE |-> 8]
  ELSE "/FC" :> 0 @@ [RLO |-> 1, STA |-> 2, OR |-> 3, OS |-> 4, OV |-> 5, CC0 |-> 6, CC1 |-> 7, BR |-> 8]

-----------------------------------------------------------------------------
(* Identifiers.                                                            *)

\* Variables end at a comma or a parenthesis that is not within brackets, and
\* are split at the dots.
Split(token) ==
  (IF token.word = "" /\ token.at = <<>> THEN <<>> ELSE <<[token EXCEPT !.path = <<>>]>>)
  \o FlattenSeq([i \in DOMAIN token.path |-> <<Plain("."), Plain(token.path[i])>>])

ExpandTokensFlat(tokens) ==   \* faulty: a comma within brackets ends the variable
  LET stops == {i \in DOMAIN tokens : tokens[i] \in {Plain(","), Plain("(")}}
      end == IF stops = {} THEN Len(tokens) ELSE Min(stops) - 1
  IN  [tokens |-> FlattenSeq([i \in 1..end |-> Split(tokens[i])]), count |-> end]
ExpandTokens(tokens) ==
  LET inBrackets(i) == \E j \in 1..(i - 1) :
                          tokens[j] = Plain("[") /\ \A k \in (j + 1)..(i - 1) : tokens[k] # Plain("]")
      stops == {i \in DOMAIN tokens : tokens[i] \in {Plain(","), Plain("(")} /\ ~inBrackets(i)}
      end == IF stops = {} THEN Len(tokens) ELSE Min(stops) - 1
  IN  [tokens |-> FlattenSeq([i \in 1..end |-> Split(tokens[i])]), count |-> end]

\* A name with its indices: name [ i , j ].
ParseIdent(tokens) ==
  LET open == SelectInSeq(tokens, LAMBDA x : x = Plain("["))
      close == SelectInSeq(tokens, LAMBDA x : x = Plain("]"))
      inside == SubSeq(tokens, open + 1, close - 1)
  IN  IF open = 0
      THEN [name |-> tokens[1].word, indices |-> <<>>, ok |-> close = 0 /\ Len(tokens) = 1]
      ELSE [name |-> tokens[1].word,
            indices |-> [i \in 1..((Len(inside) + 1) \div 2) |->
                           IF Len(inside[2 * i - 1].at) = 1 THEN inside[2 * i - 1].at[1] ELSE -1],
            ok |-> /\ open = 2 /\ close >= open + 2 /\ Len(inside) % 2 = 1
                   /\ \A i \in DOMAIN inside :
                        IF i % 2 = 0 THEN inside[i] = Plain(",") ELSE inside[i].word = "" /\ Len(inside[i].at) = 1]

RECURSIVE ParseChain(_)
ParseChain(tokens) ==
  LET dot == SelectInSeq(tokens, LAMBDA x : x = Plain("."))
      first == IF dot = 0 THEN tokens ELSE SubSeq(tokens, 1, dot - 1)
  IN  IF tokens = <<>> THEN <<>>
      ELSE <<(IF first = <<>> THEN [name |-> "", indices |-> <<>>, ok |-> FALSE] ELSE ParseIdent(first))>>
           \o (IF dot = 0 THEN <<>> ELSE ParseChain(SubSeq(tokens, dot + 1, Len(tokens))))
ChainOk(chain) == chain # <<>> /\ \A i \in DOMAIN chain : chain[i].ok

Locals == "#a" :> "a" @@ "#b" :> "b"

\* DBx.VARIABLE, "DBname".VARIABLE and #variable.
Named(ts, count) ==
  LET dotted == Len(ts) >= 3 /\ ts[2] = Plain(".")
      named(chain, op) == IF ChainOk(chain) THEN OpDescriptor([op EXCEPT !.chain = chain], count, "none") ELSE Wrong
  IN  IF dotted /\ ts[1].word = "DB" /\ Len(ts[1].at) = 1
      THEN named(ParseChain(SubSeq(ts, 3, Len(ts))), [Operator("NAMED_DBVAR", 0) EXCEPT !.db = ts[1].at])
      ELSE IF dotted /\ ts[1].word = Symbol
      THEN named(ParseChain(SubSeq(ts, 3, Len(ts))), [Operator("NAMED_DBVAR", 0) EXCEPT !.dbName = ts[1].word])
      ELSE IF ts # <<>> /\ ts[1].word \in DOMAIN Locals
      THEN named(ParseChain(<<Plain(Locals[ts[1].word])>> \o Tail(ts)), Operator("NAMED_LOCAL", 0))
      ELSE OpDescriptor(Nothing, 0, "none")
NamedIn(e) == Named(e.tokens, e.count)
TransVarIdents(tokens) == NamedIn(ExpandTokens(tokens))

-----------------------------------------------------------------------------
(* Constants.                                                              *)

\* Type, width and the number of tokens that are taken for it.
Constants ==
  [w \in {"TRUE"} |-> <<"IMM", 1, 1>>]
  @@ "1.5e0" :> <<"IMM_REAL", 32, 1>> @@ "S5T#1S" :> <<"IMM_S5T", 16, 1>> @@ "T#1S" :> <<"IMM_TIME", 32, 1>>
  @@ "TOD#1:2:3" :> <<"IMM_TOD", 32, 1>> @@ "D#1990-1-1" :> <<"IMM_DATE", 16, 1>>
  @@ "DT#1990-1-1-0:0:0" :> <<"IMM_DT", 64, 5>> @@ "2#1" :> <<"IMM", 16, 1>> @@ "2#10000000000000000" :> <<"IMM", 32, 1>>
  @@ "B#16#1" :> <<"IMM", 8, 1>> @@ "W#16#1" :> <<"IMM", 16, 1>> @@ "DW#16#1" :> <<"IMM", 32, 1>>
  @@ "L#1" :> <<"IMM", 32, 1>> @@ "C#1" :> <<"IMM", 16, 1>> @@ "'a'" :> <<"IMM_STR", 24, 1>>

Constant(token) ==
  LET c == Constants[token.word]
  IN  OpDescriptor([Operator(c[1], c[2]) EXCEPT !.text = token.word], c[3], "none")

\* B#( a , b ) and B#( a , b , c , d ).
ByteArray(tokens) ==
  LET n == IF IsWord(tokens, 5, ")") THEN 2 ELSE 4
      byte(i) == IF 2 * i \in DOMAIN tokens /\ Len(tokens[2 * i].at) = 1 /\ tokens[2 * i].at[1] \in 0..255
                 THEN tokens[2 * i].at[1] ELSE -1
      bytes == [i \in 1..n |-> byte(i)]
  IN  IF IsWord(tokens, 2 * n + 1, ")") /\ (\A i \in 1..(n - 1) : IsWord(tokens, 2 * i + 1, ",")) /\ -1 \notin Range(bytes)
      THEN OpDescriptor([Operator("IMM", 8 * n) EXCEPT !.addr = bytes], 2 * n + 1, "none")
      ELSE Wrong

PointerAreas == [P |-> "P", E |-> "E", I |-> "E", A |-> "A", Q |-> "A", M |-> "M", DBX |-> "DB", DIX |-> "DI", L |-> "L"]
PointerWords == [w \in {"P#" \o a : a \in DOMAIN PointerAreas} |->
                   CHOOSE a \in DOMAIN PointerAreas : w = "P#" \o a]
IsOffset(at) == Len(at) = 2 /\ at[1] \in 0..65535 /\ at[2] \in 0..7
UnknownWidth == -1
AnyTypes == {"BYTE", "WORD", "INT"}

\* An area and an offset, each in its token, or an offset alone; all of it may
\* be in a data block.
PointerAt(tokens) ==
  LET first == tokens[1]
      inDB == first.word \in {"P#DB", "P#" \o Symbol}
      area == IF inDB THEN IF first.path # <<>> THEN first.path[1] ELSE ""
              ELSE IF first.word \in DOMAIN PointerWords THEN PointerWords[first.word] ELSE ""
      offset == IF area # "" THEN IF Len(tokens) >= 2 THEN tokens[2].at ELSE <<>>
                ELSE IF first.word = "P#DB" THEN SubSeq(first.at, 2, Len(first.at)) ELSE first.at
      ptr == [Operator("IMM_PTR", IF ~inDB THEN 32 ELSE IF first.word = "P#DB" THEN 48 ELSE UnknownWidth) EXCEPT
                !.db = IF first.word = "P#DB" THEN SubSeq(first.at, 1, 1) ELSE <<>>,
                !.dbName = IF inDB /\ first.word # "P#DB" THEN Symbol ELSE ""]
      variable == ExpandTokens(<<[first EXCEPT !.word = Head(first.path), !.at = <<>>, !.path = Tail(@)]>> \o Tail(tokens))
  IN  IF inDB /\ area \notin {""} \cup DOMAIN PointerAreas
      THEN LET chain == ParseChain(variable.tokens)
           IN  IF ChainOk(chain) THEN [OpDescriptor([ptr EXCEPT !.width = UnknownWidth, !.chain = chain], variable.count, "none") EXCEPT !.needs = "named"]
               ELSE Wrong
      ELSE IF ~IsOffset(offset) THEN Wrong
      ELSE OpDescriptor([ptr EXCEPT !.area = IF area = "" THEN "" ELSE PointerAreas[area], !.addr = offset],
                      IF area = "" THEN 1 ELSE 2, "none")

PointerOrAny(tokens, d) ==
  LET n == d.taken
      isAny == Len(tokens) >= n + 2 /\ tokens[n + 1].word \in AnyTypes
  IN  IF ~d.ok \/ d.needs = "named" THEN [d EXCEPT !.needs = "none"]
      ELSE IF ~isAny THEN d
      ELSE IF Len(tokens[n + 2].at) = 1 /\ tokens[n + 2].at[1] \in 1..65535
      THEN OpDescriptor([d.op EXCEPT !.width = 80, !.text = tokens[n + 1].word, !.offset = tokens[n + 2].at], n + 2, "none")
      ELSE Wrong
Pointer(tokens) == PointerOrAny(tokens, PointerAt(tokens))

-----------------------------------------------------------------------------
(* Operands.                                                               *)

Optype2area ==
  [MEM_PE |-> "P", MEM_PA |-> "P", MEM_E |-> "E", MEM_A |-> "A", MEM_M |-> "M", MEM_DB |-> "DB", MEM_DI |-> "DI",
   MEM_L |-> "L", MEM_T |-> "T", MEM_Z |-> "Z", BLKREF_DB |-> "BLKREF_DB", BLKREF_DI |-> "BLKREF_DI",
   BLKREF_FB |-> "BLKREF_FB", BLKREF_FC |-> "BLKREF_FC", UNSPEC |-> "none"]
ExtendedAreas == {"T", "Z", "BLKREF_DB", "BLKREF_DI", "BLKREF_FB", "BLKREF_FC"}

Indirect(d, ar, offset, taken) ==
  LET area == Optype2area[d.op.type]
  IN  IF d.op.type \notin DOMAIN Optype2area THEN Wrong
      ELSE OpDescriptor([Operator("INDIRECT", d.op.width) EXCEPT !.area = area, !.ar = ar, !.offset = <<offset>>],
                      d.taken + taken, "none")

\* [AR1, P#0.0].  rest starts after the bracket.
RegisterIndirect(d, rest, pointer) ==
  IF /\ IsWord(rest, 2, ",") /\ IsWord(rest, 4, "]")
     /\ pointer.ok /\ pointer.taken = 1 /\ pointer.op.width = 32 /\ pointer.op.area = ""
  THEN Indirect(d, rest[1].word, pointer.op, 4)
  ELSE Wrong

\* [MD 42]: inner is the operand within the brackets.
MemoryIndirect(d, inner, end) ==
  LET width == IF Optype2area[d.op.type] \in ExtendedAreas THEN 16 ELSE 32
  IN  IF /\ inner.ok /\ inner.op.type # "INDIRECT" /\ d.op.type \in DOMAIN Optype2area /\ d.op.type # "UNSPEC"
         /\ inner.op.type = "NAMED_LOCAL" \/ inner.op.width = width
      THEN Indirect(d, "none", inner.op, end)
      ELSE Wrong

BracketsEnd(rest) ==
  LET level(i) == Cardinality({j \in 1..i : rest[j] = Plain("[")}) - Cardinality({j \in 1..i : rest[j] = Plain("]")})
      ends == {i \in DOMAIN rest : level(i) = -1}
  IN  IF ends = {} THEN 0 ELSE Min(ends)

\* The address: byte and bit, a byte, or the bit of the status word.
TranslateAddress(d, token, m) ==
  LET addressed(addr) == [d EXCEPT !.op.addr = addr, !.needs = "none"]
  IN  IF d.op.type = "UNSPEC" THEN Wrong
      ELSE IF d.needs = "bits"
      THEN IF token.word = "" /\ Len(token.at) = 2 /\ token.at[2] <= 7 THEN addressed(token.at) ELSE Wrong
      ELSE IF d.needs = "byte"
      THEN IF token.word = "" /\ Len(token.at) = 1 THEN addressed(token.at) ELSE Wrong
      ELSE IF token.word = "" /\ Len(token.at) = 1 THEN addressed(<<0, token.at[1]>>)
      ELSE IF token.word \in DOMAIN Name2nr(m) THEN addressed(<<0, Name2nr(m)[token.word]>>)
      ELSE Wrong

LabelRef == "next"   \* the label of the block

\* The first of the alternatives that fits.  glued: an address without a blank.
FirstFit(tokens, table, variable, inInsn) ==
  LET first == tokens[1]
      d(x) == [desc |-> x, glued |-> FALSE]
  IN  IF inInsn /\ first = Plain(LabelRef)
      THEN d(OpDescriptor([Operator("LBL_REF", 0) EXCEPT !.text = LabelRef], 1, "none"))
      ELSE IF first.at = <<>> /\ first.path = <<>> /\ first.word \in DOMAIN table THEN d(table[first.word])
      ELSE IF first = Plain("[") THEN d(OpDescriptor(Operator("UNSPEC", 1), 0, "bits"))
      ELSE IF first.word \in DOMAIN Locals THEN d(variable)
      ELSE IF first.word = "P##a" THEN d(OpDescriptor([Operator("NAMED_LOCAL_PTR", 0) EXCEPT !.text = "a"], 1, "none"))
      ELSE IF first = Plain(Symbol) THEN d(OpDescriptor([Operator("SYMBOLIC", 0) EXCEPT !.text = Symbol], 1, "none"))
      ELSE IF first.word = "" /\ Len(first.at) = 1
      THEN d(OpDescriptor([Operator("IMM", 16) EXCEPT !.addr = first.at], 1, "none"))
      ELSE IF first.word \in DOMAIN Constants THEN d(Constant(first))
      ELSE IF first.word \in DOMAIN PointerWords \cup {"P#", "P#DB", "P#" \o Symbol} THEN d(Pointer(tokens))
      ELSE IF first.word = "B#(" THEN d(ByteArray(tokens))
      ELSE IF first.word = "DB" /\ Len(first.path) = 1 /\ first.path[1] \in {"DBX", "DBB", "DBW", "DBD"}
      THEN d([ConstOperTab_german[first.path[1]] EXCEPT !.op.db = first.at])
      ELSE IF ~variable.ok \/ variable.op # Nothing THEN d(variable)
      ELSE IF first.word \in DOMAIN table /\ first.at # <<>> /\ table[first.word].needs # "none"
      THEN [desc |-> [table[first.word] EXCEPT !.taken = 1], glued |-> TRUE]
      ELSE d(Wrong)
DoTrans(m, tokens, inInsn) == FirstFit(tokens, OperTable(m), TransVarIdents(tokens), inInsn)

\* The address that follows: in its token, or in brackets.
RECURSIVE WithAddress(_, _, _, _), Bracketed(_, _, _, _)
WithAddress(m, tokens, d, glued) ==
  IF d.needs = "none" THEN d
  ELSE IF glued THEN TranslateAddress(d, Token("", tokens[1].at, <<>>), m)
  ELSE IF d.taken = 0 /\ tokens[1] = Plain("[") THEN Bracketed(m, Tail(tokens), [d EXCEPT !.taken = 1], BracketsEnd(Tail(tokens)))
  ELSE IF d.taken # 0 /\ IsWord(tokens, 2, "[") THEN Bracketed(m, SubSeq(tokens, 3, Len(tokens)), d, BracketsEnd(SubSeq(tokens, 3, Len(tokens))))
  ELSE IF Len(tokens) < 2 THEN Wrong ELSE TranslateAddress(d, tokens[2], m)
Bracketed(m, rest, d, end) ==
  LET op(trans) == WithAddress(m, SubSeq(rest, 1, end - 1), trans.desc, trans.glued)
  IN  IF rest = <<>> THEN Wrong
      ELSE IF rest[1].word \in {"AR1", "AR2"} THEN RegisterIndirect(d, rest, Pointer(SubSeq(rest, 3, Len(rest))))
      ELSE IF end <= 1 THEN Wrong
      ELSE MemoryIndirect(d, op(DoTrans(m, SubSeq(rest, 1, end - 1), FALSE)), end)

OfDescriptor(m, tokens, trans) == WithAddress(m, tokens, trans.desc, trans.glued)
TranslateOp(m, tokens, inInsn) == OfDescriptor(m, tokens, DoTrans(m, tokens, inInsn))

-----------------------------------------------------------------------------
(* Instructions.                                                           *)

Insn(ops, params, ok) == [ops |-> ops, params |-> params, ok |-> ok]

Refused == Insn(<<>>, <<>>, FALSE)

\* A value ends at the next comma, whatever it is part of.
Value(tokens) ==
  LET commas == {i \in 3..Len(tokens) : tokens[i] = Plain(",")}
  IN  SubSeq(tokens, 3, IF commas = {} THEN Len(tokens) ELSE Min(commas) - 1)
RECURSIVE ParameterList(_, _, _), AfterValue(_, _, _, _)
ParameterList(m, tokens, params) ==
  IF tokens = <<>> THEN Insn(<<>>, params, TRUE)
  ELSE IF Len(tokens) < 3 \/ ~IsWord(tokens, 2, ":=") \/ Value(tokens) = <<>> THEN Refused
  ELSE AfterValue(m, tokens, TranslateOp(m, Value(tokens), FALSE), params)
AfterValue(m, tokens, d, params) ==
  LET rest == SubSeq(tokens, d.taken + 3, Len(tokens))
  IN  IF ~d.ok \/ (rest # <<>> /\ rest[1] # Plain(",")) THEN Refused
      ELSE ParameterList(m, IF rest = <<>> THEN rest ELSE Tail(rest), Append(params, d.op))

WithParameters(ops, tokens, closing, params) ==
  IF closing = {} \/ Min(closing) < Len(tokens) \/ ~params.ok THEN Refused ELSE Insn(ops, params.params, TRUE)

RECURSIVE TranslateFromRawInsn(_, _, _), AfterOperand(_, _, _, _)
TranslateFromRawInsn(m, tokens, ops) ==
  IF tokens = <<>> THEN Insn(ops, <<>>, TRUE)
  ELSE AfterOperand(m, tokens, TranslateOp(m, tokens, TRUE), ops)
AfterOperand(m, tokens, d, ops) ==
  LET n == d.taken
      all == Append(ops, d.op)
      closing == {i \in (n + 1)..Len(tokens) : tokens[i] = Plain(")")}
  IN  IF ~d.ok THEN Refused
      ELSE IF Len(tokens) <= n THEN Insn(all, <<>>, TRUE)
      ELSE IF tokens[n + 1] = Plain("(")
      THEN WithParameters(all, tokens, closing, ParameterList(m, SubSeq(tokens, n + 2, Min(closing) - 1), <<>>))
      ELSE IF tokens[n + 1] = Plain(",") /\ Len(tokens) > n + 1
      THEN TranslateFromRawInsn(m, SubSeq(tokens, n + 2, Len(tokens)), all)
      ELSE Refused

-----------------------------------------------------------------------------
(* The writer.                                                             *)

\* What __repr__ calls an operator, without its address.
WidthLetter(w) == CASE w = 1 -> "" [] w = 8 -> "B" [] w = 16 -> "W" [] w = 32 -> "D"
BitLetter(w) == IF w = 1 THEN "X" ELSE WidthLetter(w)
Type2str ==
  [MEM_E |-> "E", MEM_A |-> "A", MEM_M |-> "M", MEM_L |-> "L", MEM_DB |-> "DB", MEM_DI |-> "DI", MEM_PE |-> "PE",
   MEM_PA |-> "PA", MEM_T |-> "T", MEM_Z |-> "Z", MEM_STW_Z |-> "==0", MEM_STW_NZ |-> "<>0", MEM_STW_POS |-> ">0",
   MEM_STW_NEG |-> "<0", MEM_STW_POSZ |-> ">=0", MEM_STW_NEGZ |-> "<=0", MEM_STW_UO |-> "UO", MEM_DBLG |-> "DBLG",
   MEM_DBNO |-> "DBNO", MEM_DILG |-> "DILG", MEM_DINO |-> "DINO", MEM_AR2 |-> "AR2", VIRT_ACCU |-> "__ACCU",
   VIRT_AR |-> "__AR", VIRT_DBR |-> "__DBR"]
ShownName(op) ==
  IF op.type \in {"MEM_E", "MEM_A", "MEM_M", "MEM_L", "MEM_PE", "MEM_PA"} THEN Type2str[op.type] \o WidthLetter(op.width)
  ELSE IF op.type \in {"MEM_DB", "MEM_DI"} THEN Type2str[op.type] \o BitLetter(op.width)
  ELSE Type2str[op.type]

InMnemonics(m, name) == IF m = "DE" THEN name ELSE German2english(name)

\* With its address, with a blank or without.
Direct(m, op, blank) ==
  LET name == InMnemonics(m, ShownName(op))
  IN  IF op.addr = <<>> THEN <<Plain(name)>>
      ELSE IF op.db # <<>> THEN <<Token("DB", op.db, <<ShownName(op)>>), Token("", op.addr, <<>>)>>
      ELSE IF blank THEN <<Plain(name), Token("", op.addr, <<>>)>>
      ELSE <<Token(name, op.addr, <<>>)>>

At(type, width, addr) == [Operator(type, width) EXCEPT !.addr = addr]
DirectOps ==
  {At(a, 1, <<3, 7>>) : a \in {"MEM_E", "MEM_A", "MEM_M", "MEM_L", "MEM_DB", "MEM_DI"}}
  \cup {At(a, w, <<2>>) : a \in {"MEM_E", "MEM_A", "MEM_M", "MEM_L", "MEM_DB", "MEM_DI", "MEM_PE", "MEM_PA"}, w \in {8, 16, 32}}
  \cup {At(a, 16, <<2>>) : a \in {"MEM_T", "MEM_Z", "VIRT_DBR"}} \cup {At(a, 32, <<1>>) : a \in {"VIRT_ACCU", "VIRT_AR"}}
  \cup {[At("MEM_DB", w, IF w = 1 THEN <<4, 1>> ELSE <<4>>) EXCEPT !.db = <<9>>] : w \in {1, 16}}
WholeOps ==
  {Operator(a, 1) : a \in {"MEM_STW_Z", "MEM_STW_NZ", "MEM_STW_POS", "MEM_STW_NEG", "MEM_STW_POSZ", "MEM_STW_NEGZ", "MEM_STW_UO"}}
  \cup {Operator(a, 32) : a \in {"MEM_DBLG", "MEM_DBNO", "MEM_DILG", "MEM_DINO", "MEM_AR2"}}
Blocks == {At("BLKREF_" \o b, 16, <<1>>) : b \in {"FC", "SFC", "FB", "SFB", "DB", "DI"}}
BlockName(op) == CHOOSE b \in {"FC", "SFC", "FB", "SFB", "DB", "DI"} : op.type = "BLKREF_" \o b

AreaOps == {op \in DirectOps : op.db = <<>> /\ op.type \in DOMAIN Optype2area}

\* What is written, and what it means.
Writing(tokens, op) == [tokens |-> tokens, op |-> op]
Ident(name, indices) == [name |-> name, indices |-> indices, ok |-> TRUE]

SimpleWritings(m) ==
  {Writing(Direct(m, op, blank), op) : op \in DirectOps \cup WholeOps, blank \in {TRUE, FALSE}}
  \cup {Writing(<<Plain(BlockName(op)), Number(1)>>, op) : op \in Blocks}
  \cup {Writing(<<Plain("__STW"), Plain(n)>>, At("MEM_STW", 1, <<0, Name2nr(m)[n]>>)) : n \in DOMAIN Name2nr(m)}
  \cup {Writing(<<Number(5)>>, At("IMM", 16, <<5>>)), Writing(<<Plain("P##a")>>, [Operator("NAMED_LOCAL_PTR", 0) EXCEPT !.text = "a"]),
        Writing(<<Plain(Symbol)>>, [Operator("SYMBOLIC", 0) EXCEPT !.text = Symbol])}

ConstantWritings(words) == {Writing(<<Plain(w)>>, Constant(Plain(w)).op) : w \in words}

VariableWritings ==
  {Writing(<<Token("#a", <<>>, <<"b">>)>>, [Operator("NAMED_LOCAL", 0) EXCEPT !.chain = <<Ident("a", <<>>), Ident("b", <<>>)>>]),
   Writing(<<Plain("#a"), Plain("["), Number(1), Plain("]"), Token("", <<>>, <<"b">>)>>,
           [Operator("NAMED_LOCAL", 0) EXCEPT !.chain = <<Ident("a", <<1>>), Ident("b", <<>>)>>]),
   Writing(<<Token("DB", <<9>>, <<"v">>)>>, [Operator("NAMED_DBVAR", 0) EXCEPT !.db = <<9>>, !.chain = <<Ident("v", <<>>)>>]),
   Writing(<<Token(Symbol, <<>>, <<"v">>), Plain("["), Number(2), Plain("]")>>,
           [Operator("NAMED_DBVAR", 0) EXCEPT !.dbName = Symbol, !.chain = <<Ident("v", <<2>>)>>])}

PointerWritings ==
  LET ptr == [At("IMM_PTR", 32, <<1, 0>>) EXCEPT !.area = "M"]
      any == <<Plain("BYTE"), Number(4)>>
      ofAny(op) == [op EXCEPT !.width = 80, !.text = "BYTE", !.offset = <<4>>]
      inDB == [ptr EXCEPT !.width = 48, !.area = "DB", !.db = <<9>>]
  IN  {Writing(<<Plain("P#M"), Token("", <<1, 0>>, <<>>)>>, ptr),
       Writing(<<Plain("P#M"), Token("", <<1, 0>>, <<>>)>> \o any, ofAny(ptr)),
       Writing(<<Token("P#", <<1, 0>>, <<>>)>>, [ptr EXCEPT !.area = ""]),
       Writing(<<Token("P#DB", <<9>>, <<"DBX">>), Token("", <<1, 0>>, <<>>)>>, inDB),
       Writing(<<Token("P#DB", <<9>>, <<"DBX">>), Token("", <<1, 0>>, <<>>)>> \o any, ofAny(inDB)),
       Writing(<<Token("P#" \o Symbol, <<>>, <<"v">>)>>,
               [Operator("IMM_PTR", UnknownWidth) EXCEPT !.dbName = Symbol, !.chain = <<Ident("v", <<>>)>>])}

\* Operands with commas in them.
CommaWritings(m) ==
  {Writing(<<Plain("B#("), Number(1), Plain(","), Number(2), Plain(")")>>, At("IMM", 16, <<1, 2>>)),
   Writing(<<Plain("#a"), Plain("["), Number(1), Plain(","), Number(2), Plain("]")>>,
           [Operator("NAMED_LOCAL", 0) EXCEPT !.chain = <<Ident("a", <<1, 2>>)>>])}
  \cup {Writing(x[1] \o <<Plain("["), Plain(ar), Plain(","), Token("P#", <<2, 1>>, <<>>), Plain("]")>>,
                [Operator("INDIRECT", x[2].width) EXCEPT !.area = Optype2area[x[2].type], !.ar = ar,
                                                         !.offset = <<At("IMM_PTR", 32, <<2, 1>>)>>]) :
          ar \in {"AR1", "AR2"},
          x \in {<<<<>>, Operator("UNSPEC", 1)>>, <<<<Plain("W")>>, Operator("UNSPEC", 16)>>}
                \cup {<<<<Plain(InMnemonics(m, ShownName(op)))>>, op>> : op \in AreaOps}}

\* The address is read from memory: a pointer, or the number of a timer, a
\* counter or a block.
Numbered == {op \in AreaOps : op.type \in {"MEM_T", "MEM_Z"}} \cup {At("BLKREF_DB", 16, <<1>>)}
ByteAddressed == AreaOps \ Numbered
IndirectWritings(m) ==
  {Writing(<<Plain(IF op.type = "BLKREF_DB" THEN "DB" ELSE InMnemonics(m, ShownName(op))), Plain("[")>>
             \o inner.tokens \o <<Plain("]")>>,
           [Operator("INDIRECT", op.width) EXCEPT !.area = Optype2area[op.type], !.ar = "none", !.offset = <<inner.op>>]) :
     <<op, inner>> \in (ByteAddressed \X {x \in SimpleWritings(m) : x.op.type = "MEM_M" /\ x.op.width = 32})
                       \cup (Numbered \X {x \in SimpleWritings(m) : x.op.type = "MEM_M" /\ x.op.width = 16})}

Writings(m) ==
  SimpleWritings(m) \cup ConstantWritings(DOMAIN Constants) \cup VariableWritings \cup PointerWritings
  \cup CommaWritings(m) \cup IndirectWritings(m)
ParamWritings(m) ==
  {x \in SimpleWritings(m) : x.op \in {At("MEM_M", 1, <<3, 7>>), At("MEM_E", 16, <<2>>), At("IMM", 16, <<5>>)} \/ x.op.db # <<>>}
  \cup ConstantWritings(ParamConstants) \cup VariableWritings \cup PointerWritings

WriteTokens(tokens) == raw' = raw \o tokens /\ UNCHANGED mnemonics
Size == Len(meant.ops) + Len(meant.params)
Separated(tokens) == IF Last(raw) = Plain("(") THEN tokens ELSE <<Plain(",")>> \o tokens

WriteOperand ==
  /\ stage = "operands" /\ raw = <<>>
  /\ \E x \in Writings(mnemonics) :
       WriteTokens(x.tokens) /\ meant' = [meant EXCEPT !.ops = Append(@, x.op)]
  /\ UNCHANGED stage

\* The data block of a called function block.
WriteInstance ==
  /\ stage = "operands" /\ Len(meant.ops) = 1 /\ meant.ops[1].type \in {"BLKREF_FB", "BLKREF_SFB"}
  /\ \E x \in SimpleWritings(mnemonics) :
       /\ x.op.type \in {"BLKREF_DB", "SYMBOLIC"}
       /\ WriteTokens(<<Plain(",")>> \o x.tokens) /\ meant' = [meant EXCEPT !.ops = Append(@, x.op)]
  /\ UNCHANGED stage

OpenParameters ==
  /\ stage = "operands" /\ raw # <<>>
  /\ meant.ops[1].type \in {"BLKREF_FC", "BLKREF_FB", "SYMBOLIC", "NAMED_LOCAL"}
  /\ WriteTokens(<<Plain("(")>>) /\ stage' = "parameters" /\ UNCHANGED meant

WriteParameter ==
  /\ stage = "parameters" /\ Size < MaxOperands
  /\ \E x \in ParamWritings(mnemonics) :
       /\ WriteTokens(Separated(<<Plain("p"), Plain(":=")>> \o x.tokens))
       /\ meant' = [meant EXCEPT !.params = Append(@, x.op)]
  /\ UNCHANGED stage

Finish ==
  /\ stage \in {"operands", "parameters"} /\ raw # <<>>
  /\ raw' = (IF stage = "parameters" THEN Append(raw, Plain(")")) ELSE raw)
  /\ stage' = "done"
  /\ UNCHANGED <<mnemonics, meant>>

OperandsInit ==
  /\ mnemonics \in Mnemonics /\ raw = <<>> /\ stage = "operands"
  /\ meant = [ops |-> <<>>, params |-> <<>>]

OperandsNext == WriteOperand \/ WriteInstance \/ OpenParameters \/ WriteParameter \/ Finish

-----------------------------------------------------------------------------
(* Properties.                                                             *)

\* An instruction has the operands, and a CALL the parameters, that were
\* written, all of them and no others, in both mnemonics ("From a user's
\* perspective there should not be any functional difference visible in CALL",
\* release-notes/COMPATIBILITY.txt).
OperandsAsWritten ==
  stage = "done" =>
    TranslateFromRawInsn(mnemonics, raw, <<>>) = Insn(meant.ops, meant.params, TRUE)
=============================================================================
