------------------------------ MODULE AwlParser ------------------------------
(***************************************************************************)
(* What the statements of an AWL source are made into (core/parser.py from *)
(* AwlParser.__parseTokens on): blocks with the declarations of their       *)
(* sections, initial values, and instructions.  A writer writes sources    *)
(* that keep to the grammar; the parser is handed one statement after the  *)
(* other.  The tokens are strings; the blocks' fields are listed in their  *)
(* order with their paths, which is the tree the parser builds.            *)
(***************************************************************************)
EXTENDS Integers, Sequences, SequencesExt, FiniteSets

CONSTANTS
  BlockKinds,           \* the kinds of blocks that are written; "flat" for a source without blocks
  WrittenSections,      \* their sections that are written
  MaxBlocks, MaxParts   \* bounds on a source: blocks; sections, lines of headers, variables, instructions,
                        \* one less for each further block

VARIABLES
  parser,   \* the AwlParser and its AwlParseTree
  source,   \* history: the blocks written
  pen       \* where the writer is

parserVars == <<parser, source, pen>>

BlockWord == [DATA_BLOCK |-> "DB", FUNCTION_BLOCK |-> "FB", FUNCTION |-> "FC",
         ORGANIZATION_BLOCK |-> "OB", TYPE |-> "UDT"]
EndOf == [DB |-> "END_DATA_BLOCK", FB |-> "END_FUNCTION_BLOCK", FC |-> "END_FUNCTION",
          OB |-> "END_ORGANIZATION_BLOCK", UDT |-> "END_TYPE"]
SectionsOf ==
  [DB |-> {"STRUCT"}, UDT |-> {"STRUCT"}, OB |-> {"VAR_TEMP"},
   FC |-> {"VAR_INPUT", "VAR_OUTPUT", "VAR_IN_OUT", "VAR_TEMP"},
   FB |-> {"VAR", "VAR_INPUT", "VAR_OUTPUT", "VAR_IN_OUT", "VAR_TEMP"}]
EndToken(kind) == IF kind \in {"DB", "UDT"} THEN "END_STRUCT" ELSE "END_VAR"
MayHaveInitval(kind, section) == kind \in {"DB", "UDT", "FB"} /\ section # "VAR_TEMP"

Int32 == [x \in {"0", "1", "2", "3", "7"} |->
            CASE x = "0" -> 0 [] x = "1" -> 1 [] x = "2" -> 2 [] x = "3" -> 3 [] OTHER -> 7]

ListIndex(tokens, x) == IF Contains(tokens, x) THEN CHOOSE i \in DOMAIN tokens :
                          tokens[i] = x /\ \A j \in 1..(i - 1) : tokens[j] # x
                        ELSE 0
From(tokens, i) == SubSeq(tokens, i, Len(tokens))

-----------------------------------------------------------------------------
(* The parser.                                                             *)

NewBlock(kind, name) == [kind |-> kind, name |-> name, ret |-> <<>>, fb |-> <<>>, headers |-> <<>>,
                         fields |-> <<>>, inits |-> <<>>, insns |-> <<>>]
Parser(flat) == [flat |-> flat, part |-> "global", field |-> <<>>, blocks |-> <<>>, error |-> FALSE]

Fails(p) == [p EXCEPT !.error = TRUE]
CurBlock(p) == Last(p.blocks)
InBlock(p, b) == [p EXCEPT !.blocks[Len(p.blocks)] = b]
Labels == {"X1:"}

\* A number or a symbol names the block; no two of a kind have the same name.
ParseGlobal(p, ts) ==
  LET symbolic == ts[2] = "\"s\""
      kind     == BlockWord[ts[1]]
      name     == IF symbolic THEN ts[2] ELSE ts[3]
      at       == IF symbolic THEN 3 ELSE 4
      ret      == IF kind = "FC" THEN From(ts, at + 1) ELSE <<>>
  IN  IF \/ ts[1] \notin DOMAIN BlockWord \/ (~symbolic /\ ts[2] # kind)
         \/ (kind = "FC" /\ (ts[at] # ":" \/ ret = <<>>))
         \/ \E b \in ToSet(p.blocks) : b.kind = kind /\ b.name = name
      THEN Fails(p)
      ELSE [p EXCEPT !.part = "header", !.blocks = Append(@, [NewBlock(kind, name) EXCEPT !.ret = ret])]

AddDescriptor(b, ts) ==
  [b EXCEPT !.headers = Append(@, <<ts[1], From(ts, 3)>>)]
DescriptorFits(b, ts) ==
  Len(ts) >= 2 /\ ts[2] = (IF ts[1] = "TITLE" THEN "=" ELSE ":") /\ \A h \in ToSet(b.headers) : h[1] # ts[1]

ParseHeader(p, ts) ==
  LET b == CurBlock(p)
  IN  IF ts[1] = "BEGIN" /\ b.kind # "UDT" THEN [p EXCEPT !.part = "code"]
      ELSE IF ts[1] = "END_TYPE" /\ b.kind = "UDT" THEN [p EXCEPT !.part = "global"]
      ELSE IF ts[1] \in {"TITLE", "AUTHOR", "FAMILY", "NAME", "VERSION"}
      THEN IF DescriptorFits(b, ts) THEN InBlock(p, AddDescriptor(b, ts)) ELSE Fails(p)
      ELSE IF ts[1] \in {"STANDARD", "KNOW_HOW_PROTECT"} THEN p
      ELSE IF ts[1] \in SectionsOf[b.kind] THEN [p EXCEPT !.part = ts[1]]
      ELSE IF b.kind = "DB" /\ (ts[1] = "\"s\"" \/ (ts[1] \in {"FB", "SFB"} /\ Len(ts) = 2))
      THEN InBlock(p, [b EXCEPT !.fb = ts])
      ELSE IF b.kind \in {"FB", "FC", "OB"} /\ ts[1] = "{"
      THEN IF Contains(ts, "}") THEN p ELSE [p EXCEPT !.part = "attributes"]
      ELSE Fails(p)

\* The limits of an array's dimensions.  Commas between them may be left out.
RECURSIVE Dimensions(_)
Dimensions(ts) ==
  IF ts = <<>> THEN <<>>
  ELSE <<<<Int32[ts[1]], Int32[ts[3]]>>>>
       \o Dimensions(From(ts, IF Len(ts) > 3 /\ ts[4] = "," THEN 5 ELSE 4))

\* AwlDataIdent.advanceToNextArrayElement.
RECURSIVE Carry(_, _, _)
Carry(dimensions, indices, i) ==
  IF indices[i] <= dimensions[i][2] THEN indices
  ELSE IF i = 1 THEN [j \in DOMAIN dimensions |-> dimensions[j][1]]
  ELSE Carry(dimensions, [indices EXCEPT ![i] = dimensions[i][1], ![i - 1] = @ + 1], i - 1)
AdvanceToNext(dimensions, indices) ==
  LET n == Len(dimensions) IN Carry(dimensions, [indices EXCEPT ![n] = @ + 1], n)

AddInit(a, value) ==
  [a EXCEPT !.inits = Append(@, [indices |-> a.indices, value |-> value]),
            !.indices = AdvanceToNext(a.dimensions, @)]
RECURSIVE AddInits(_, _)
AddInits(a, values) == IF values = <<>> THEN a ELSE AddInits(AddInit(a, values[1]), Tail(values))
\* A faulty variant: a repetition is written once.
RepeatOnce(a) == AddInits(a, a.values)

RepeatInits(a) == AddInits(a, FlattenSeq([i \in 1..a.count |-> a.values]))

InitToken(a, x) ==
  IF x = "," THEN IF a.count = 0 THEN [AddInit(a, a.value) EXCEPT !.value = <<>>]
                  ELSE [a EXCEPT !.values = Append(@, a.value), !.value = <<>>]
  ELSE IF x = "(" THEN [a EXCEPT !.count = Int32[a.value[1]], !.value = <<>>]
  ELSE IF x = ")" THEN [RepeatInits([a EXCEPT !.values = Append(@, a.value)])
                          EXCEPT !.count = 0, !.values = <<>>, !.value = <<>>]
  ELSE [a EXCEPT !.value = Append(@, x)]

RECURSIVE InitTokens(_, _)
InitTokens(a, ts) == IF ts = <<>> THEN a ELSE InitTokens(InitToken(a, ts[1]), Tail(ts))

\* 1, 2, 3 or 2 (1, 2).  count: 0 outside of a repetition.
ArrayInitializer(dimensions, ts) ==
  LET start == [dimensions |-> dimensions, indices |-> [j \in DOMAIN dimensions |-> dimensions[j][1]],
                inits |-> <<>>, count |-> 0, values |-> <<>>, value |-> <<>>]
      a     == InitTokens(start, ts)
  IN  (IF a.value = <<>> THEN a ELSE AddInit(a, a.value)).inits

DeclareField(p, name, type, dimensions, inits) ==
  [InBlock(p, [CurBlock(p) EXCEPT !.fields =
                 Append(@, [section |-> p.part, path |-> Append(p.field, name), type |-> type,
                            dimensions |-> dimensions, inits |-> inits])])
     EXCEPT !.field = IF type = <<"STRUCT">> THEN Append(@, name) ELSE @]

\* One declaration of a section, with those that follow on "STRUCT" without a
\* semicolon.
RECURSIVE ParseVar(_, _)
ParseVar(p, ts) ==
  LET colon  == ListIndex(ts, ":")
      assign == ListIndex(ts, ":=")
      array  == Len(ts) >= 10 /\ colon = 2 /\ ts[3] = "ARRAY"
      at     == IF array THEN ListIndex(ts, "OF") + 1 ELSE colon + 1
      struct == Len(ts) >= at /\ ts[at] = "STRUCT"
      inits  == assign > at /\ ~struct /\ (array \/ MayHaveInitval(CurBlock(p).kind, p.part))
      type   == IF struct THEN <<"STRUCT">> ELSE SubSeq(ts, at, IF inits THEN assign - 1 ELSE Len(ts))
      dims   == IF array THEN Dimensions(SubSeq(ts, 5, ListIndex(ts, "]") - 1)) ELSE <<>>
      values == IF ~inits THEN <<>>
                ELSE IF array THEN ArrayInitializer(dims, From(ts, assign + 1))
                ELSE <<[indices |-> <<>>, value |-> From(ts, assign + 1)]>>
      q      == DeclareField(p, ts[1], type, dims, values)
  IN  IF ts[1] = "END_STRUCT" /\ p.field # <<>>
      THEN IF Len(ts) > 1 THEN Fails(p) ELSE [p EXCEPT !.field = Front(@)]
      ELSE IF ts[1] = EndToken(CurBlock(p).kind) THEN [p EXCEPT !.part = "header"]
      ELSE IF colon # 2 \/ (array /\ assign > 0 /\ ~struct /\ ~MayHaveInitval(CurBlock(p).kind, p.part))
      THEN Fails(p)
      ELSE IF struct /\ Len(ts) > at THEN ParseVar(q, From(ts, at + 1))
      ELSE q

ParseInstruction(b, ts) ==
  [b EXCEPT !.insns = Append(@, [label |-> IF ts[1] \in Labels THEN ts[1] ELSE "",
                                 insn  |-> IF ts[1] \in Labels THEN Tail(ts) ELSE ts])]

ParseCode(p, ts) ==
  LET b == CurBlock(p)
      assign == ListIndex(ts, ":=")
  IN  IF ts[1] = EndOf[b.kind] THEN [p EXCEPT !.part = "global"]
      ELSE IF b.kind = "DB"
      THEN InBlock(p, [b EXCEPT !.inits = Append(@, <<SubSeq(ts, 1, assign - 1), From(ts, assign + 1)>>)])
      ELSE IF ts[1] \in {"NETWORK", "TITLE"} THEN p
      ELSE IF ts[1] \in Labels /\ Len(ts) = 1 THEN Fails(p)
      ELSE InBlock(p, ParseInstruction(b, ts))

\* A source without blocks is OB 1.
ParseFlat(p, ts) ==
  LET q == IF p.blocks = <<>> THEN [p EXCEPT !.blocks = <<NewBlock("OB", "1")>>] ELSE p
  IN  InBlock(q, ParseInstruction(CurBlock(q), ts))

ParseStatement(p, ts) ==
  IF p.error THEN p
  ELSE IF p.flat THEN ParseFlat(p, ts)
  ELSE CASE p.part = "global"     -> ParseGlobal(p, ts)
         [] p.part = "header"     -> ParseHeader(p, ts)
         [] p.part = "code"       -> ParseCode(p, ts)
         [] p.part = "attributes" -> IF Contains(ts, "}") THEN [p EXCEPT !.part = "header"] ELSE p
         [] OTHER                 -> ParseVar(p, ts)

-----------------------------------------------------------------------------
(* The writer.  Its blocks say what is meant: an initial value is one for   *)
(* one element.                                                            *)

Says(ts) == parser' = ParseStatement(parser, ts)

Means(b) == source' = [source EXCEPT ![Len(source)] = b]
MeantBlock == Last(source)
Kind == MeantBlock.kind

HasRoom == pen.parts + Len(source) <= MaxParts

Block(word, symbolic) ==
  LET kind == BlockWord[word]
      name == IF symbolic THEN "\"s\"" ELSE "1"
      ret  == IF kind = "FC" THEN <<"INT">> ELSE <<>>
  IN  /\ pen.part = "global" /\ ~pen.flat /\ kind \in BlockKinds /\ Len(source) < MaxBlocks
      /\ \A b \in ToSet(source) : b.kind # kind \/ b.name # name
      /\ Says(<<word>> \o (IF symbolic THEN <<>> ELSE <<kind>>) \o <<name>>
              \o (IF ret = <<>> THEN <<>> ELSE <<":">> \o ret))
      /\ source' = Append(source, [NewBlock(kind, name) EXCEPT !.ret = ret])
      /\ pen' = [pen EXCEPT !.part = "header"]

\* A line of the header: ts, which says something of the block.
HeaderLine(ts, meant) ==
  /\ pen.part = "header" /\ HasRoom
  /\ Says(ts) /\ Means(meant) /\ pen' = [pen EXCEPT !.parts = @ + 1]

Descriptor(word) ==
  LET value == <<"x", "y">>
  IN  /\ source # <<>> /\ \A h \in ToSet(MeantBlock.headers) : h[1] # word
      /\ HeaderLine(<<word, IF word = "TITLE" THEN "=" ELSE ":">> \o value,
                [MeantBlock EXCEPT !.headers = Append(@, <<word, value>>)])

Binding(ts) == source # <<>> /\ Kind = "DB" /\ HeaderLine(ts, [MeantBlock EXCEPT !.fb = ts])

\* Attributes, in one line or in three.
Attributes(whole) ==
  /\ source # <<>> /\ Kind \in {"FB", "FC", "OB"} /\ pen.part = "header" /\ HasRoom
  /\ Says(<<"{", "x">> \o (IF whole THEN <<"}">> ELSE <<>>)) /\ UNCHANGED source
  /\ pen' = [pen EXCEPT !.parts = @ + 1, !.part = IF whole THEN "header" ELSE "attributes"]
AttributesGoOn(last) ==
  /\ pen.part = "attributes" /\ (last \/ HasRoom)
  /\ Says(IF last THEN <<"}">> ELSE <<"BEGIN">>) /\ UNCHANGED source
  /\ pen' = IF last THEN [pen EXCEPT !.part = "header"] ELSE [pen EXCEPT !.parts = @ + 1]

Section(section) ==
  /\ source # <<>> /\ section \in SectionsOf[Kind] \cap WrittenSections /\ pen.part = "header" /\ HasRoom
  /\ Says(<<section>>) /\ UNCHANGED source
  /\ pen' = [pen EXCEPT !.part = section, !.parts = @ + 1]

\* An array, the values of its elements as they are written, and as they are meant.
Arrays ==
  {[tokens |-> <<"1", "..", "2">>, dimensions |-> <<<<1, 2>>>>, values |-> <<"7", ",", "1">>, meant |-> <<"7", "1">>],
   [tokens |-> <<"0", "..", "1", ",", "1", "..", "2">>, dimensions |-> <<<<0, 1>>, <<1, 2>>>>,
    values |-> <<"2", "(", "7", ",", "1", ")">>, meant |-> <<"7", "1", "7", "1">>],
   [tokens |-> <<"2", "..", "3", ",", "0", "..", "2">>, dimensions |-> <<<<2, 3>>, <<0, 2>>>>,
    values |-> <<"3", "(", "1", ")">>, meant |-> <<"1", "1", "1">>]}

\* Where the k-th value belongs: the last index runs fastest.
Element(dimensions, k) ==
  LET width(j) == dimensions[j][2] - dimensions[j][1] + 1
      below(j) == FoldLeft(LAMBDA a, i : a * width(i), 1, [i \in 1..(Len(dimensions) - j) |-> i + j])
  IN  [j \in DOMAIN dimensions |-> dimensions[j][1] + (((k - 1) \div below(j)) % width(j))]

\* The declarations of one variable: its tokens, and what they mean.
Declarations(initval) ==
  {[tokens |-> <<"INT">>, type |-> <<"INT">>, dimensions |-> <<>>, inits |-> <<>>],
   [tokens |-> <<"STRUCT">>, type |-> <<"STRUCT">>, dimensions |-> <<>>, inits |-> <<>>],
   [tokens |-> <<"ARRAY", "[", "1", "..", "2", "]", "OF", "STRUCT">>, type |-> <<"STRUCT">>,
    dimensions |-> <<<<1, 2>>>>, inits |-> <<>>],
   [tokens |-> <<"ARRAY", "[", "1", "..", "2", ",", "0", "..", "3", "]", "OF", "INT">>, type |-> <<"INT">>,
    dimensions |-> <<<<1, 2>>, <<0, 3>>>>, inits |-> <<>>]}
  \cup (IF ~initval THEN {}
        ELSE {[tokens |-> <<"INT", ":=", "7">>, type |-> <<"INT">>, dimensions |-> <<>>,
               inits |-> <<[indices |-> <<>>, value |-> <<"7">>]>>]}
             \cup {[tokens |-> <<"ARRAY", "[">> \o a.tokens \o <<"]", "OF", "INT", ":=">> \o a.values,
                    type |-> <<"INT">>, dimensions |-> a.dimensions,
                    inits |-> [k \in DOMAIN a.meant |->
                                 [indices |-> Element(a.dimensions, k), value |-> <<a.meant[k]>>]]] : a \in Arrays})

InSection == source # <<>> /\ pen.part \in SectionsOf[Kind]

\* A variable, a STRUCT's first one in the statement of the STRUCT itself.
Variable(name, d) ==
  /\ InSection /\ HasRoom /\ d \in Declarations(MayHaveInitval(Kind, pen.part))
  /\ d.type = <<"STRUCT">> => pen.parts + Len(source) < MaxParts
  /\ LET ts == pen.begun \o <<name, ":">> \o d.tokens
     IN  IF d.type = <<"STRUCT">>
         THEN /\ UNCHANGED parser
              /\ pen' = [pen EXCEPT !.parts = @ + 1, !.begun = ts, !.open = Append(@, name)]
         ELSE /\ Says(ts)
              /\ pen' = [pen EXCEPT !.parts = @ + 1, !.begun = <<>>]
  /\ Means([MeantBlock EXCEPT !.fields =
              Append(@, [section |-> pen.part, path |-> Append(pen.open, name), type |-> d.type,
                         dimensions |-> d.dimensions, inits |-> d.inits])])

EndStruct ==
  /\ InSection /\ pen.open # <<>> /\ pen.begun = <<>>
  /\ Says(<<"END_STRUCT">>) /\ pen' = [pen EXCEPT !.open = Front(@)] /\ UNCHANGED source

EndOfSection ==
  /\ InSection /\ pen.open = <<>>
  /\ Says(<<EndToken(Kind)>>) /\ pen' = [pen EXCEPT !.part = "header"] /\ UNCHANGED source

Begin ==
  /\ source # <<>> /\ pen.part = "header" /\ Kind # "UDT"
  /\ Says(<<"BEGIN">>) /\ pen' = [pen EXCEPT !.part = "code"] /\ UNCHANGED source

Instruction(label) ==
  /\ pen.flat \/ (pen.part = "code" /\ Kind # "DB")
  /\ HasRoom /\ pen' = [pen EXCEPT !.parts = @ + 1]
  /\ Says((IF label = "" THEN <<>> ELSE <<label>>) \o <<"L", "1">>)
  /\ LET b == IF source = <<>> THEN NewBlock("OB", "1") ELSE MeantBlock
         c == [b EXCEPT !.insns = Append(@, [label |-> label, insn |-> <<"L", "1">>])]
     IN  source' = IF source = <<>> THEN <<c>> ELSE [source EXCEPT ![Len(source)] = c]

Network ==
  /\ pen.part = "code" /\ Kind # "DB" /\ HasRoom /\ pen' = [pen EXCEPT !.parts = @ + 1]
  /\ Says(<<"NETWORK">>) /\ UNCHANGED source

DataInit ==
  /\ pen.part = "code" /\ Kind = "DB" /\ HasRoom /\ pen' = [pen EXCEPT !.parts = @ + 1]
  /\ Says(<<"a", ".", "b", ":=", "7">>)
  /\ Means([MeantBlock EXCEPT !.inits = Append(@, <<<<"a", ".", "b">>, <<"7">>>>)])

EndBlock ==
  /\ source # <<>> /\ pen.part = IF Kind = "UDT" THEN "header" ELSE "code"
  /\ Says(<<EndOf[Kind]>>) /\ pen' = [pen EXCEPT !.part = "global"] /\ UNCHANGED source

ParserInit ==
  \E flat \in IF "flat" \in BlockKinds THEN BOOLEAN ELSE {FALSE} :
    /\ parser = Parser(flat) /\ source = <<>>
    /\ pen = [flat |-> flat, part |-> "global", open |-> <<>>, begun |-> <<>>, parts |-> 0]

ParserNext ==
  \/ \E word \in DOMAIN BlockWord, symbolic \in BOOLEAN : Block(word, symbolic)
  \/ \E word \in {"TITLE", "NAME"} : Descriptor(word)
  \/ \E ts \in {<<"FB", "1">>, <<"\"s\"">>} : Binding(ts)
  \/ source # <<>> /\ HeaderLine(<<"STANDARD">>, MeantBlock)
  \/ \E whole \in BOOLEAN : Attributes(whole) \/ AttributesGoOn(whole)
  \/ \E section \in WrittenSections : Section(section)
  \/ InSection /\ \E d \in Declarations(TRUE) : Variable("a", d)
  \/ EndStruct \/ EndOfSection \/ Begin
  \/ \E label \in {""} \cup Labels : Instruction(label)
  \/ Network \/ DataInit \/ EndBlock

ParserSpec == ParserInit /\ [][ParserNext]_parserVars

-----------------------------------------------------------------------------
(* Properties.                                                             *)

\* Whatever blocks, sections, nested structures and initial values a source
\* declares, in whatever order the grammar allows, the parse tree says what the
\* source says: every variable is in its section and its structure, every
\* initial value at its element, every statement where it belongs.
ParsedAsWritten ==
  /\ ~parser.error
  /\ pen.begun = <<>> => parser.blocks = source /\ parser.field = pen.open
=============================================================================
