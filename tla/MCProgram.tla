------------------------------ MODULE MCProgram ------------------------------
(***************************************************************************)
(* A program on its way into the CPU, for TLC: the project editor, the     *)
(* messages to the core server, the symbol table, the tokenizer and the    *)
(* parser of a source, the operands, the layout of the declared variables *)
(* and the constants.  They share nothing here: in a behaviour only the one in     *)
(* focus moves.                                                            *)
(***************************************************************************)
EXTENDS ProjectEditor, Messages, Structures, Tokenizer, AwlParser, Operands, Symbols, Immediates

CONSTANT Focus   \* the modules that are explored

VARIABLE focus

\* Messages with every kind of field: blocks of bytes, strings, numbers, lists
\* of memory areas and of sources.
Message(id, body) == [id |-> id, body |-> body]
MCSendable ==
    [client |-> {Message("HWMOD", <<<<1>>, <<2>>, <<>>>>),
                 Message("REQ_MEMORY", <<0, 3, 1, 0, 0, 2, 1, 1, 0, 5, 0, 1>>), Message("PING", <<>>)},
     server |-> {Message("MEMORY", <<0, 1, 0, 0, 1, 1, <<7>>, 1, 0, 0, 2, 1, <<4, 4>>>>),
                 Message("IDENTS", <<1, 0, 1, 1, <<1>>, <<>>, <<3>>, <<<<4>>, <<5>>, <<>>>>, <<1>>, 2, 3, 4>>),
                 Message("REPLY", <<1, 0, 1>>)}]
MCMaxSends == [client |-> 2, server |-> 1]
MCRoom == [client |-> 4, server |-> 30]

\* Variables of every kind, nested, of even and of odd size.
Bool == Scalar(1)
Word16 == Scalar(16)
MCTypes ==
    {Bool, Byte, Word16, ArrayOf(Bool, 9), ArrayOf(Word16, 2), ArrayOf(String(1), 2), ArrayOf(Bool, 1),
     Struct(<<Byte, Word16>>), Struct(<<Word16, Bool>>), ArrayOf(Struct(<<Word16, Byte>>), 2),
     Struct(<<Bool, ArrayOf(Byte, 3), Struct(<<Byte>>)>>)}
MCInOut == {Bool, Word16, String(4), ArrayOf(Word16, 3), Struct(<<Scalar(32), Byte, Byte>>)}

\* Symbols whose names are as long as their column, in both mnemonics, and types
\* that fit into theirs.
MCLowerCase == [A |-> "a"]
MCNames == {"a", "a_name_of_24_characters_"}
\* Addresses, the mnemonics they can be read in and their operators.
Offset(at) == Token("", at, <<>>)
MCReadings ==
    {<<<<Plain("E"), Offset(<<0, 1>>)>>, {"DE"}, At("MEM_E", 1, <<0, 1>>)>>,
     <<<<Token("IW", <<4>>, <<>>)>>, {"EN"}, At("MEM_E", 16, <<4>>)>>, <<<<Plain("EW"), Offset(<<4>>)>>, {"DE"}, At("MEM_E", 16, <<4>>)>>,
     <<<<Token("QB", <<7>>, <<>>)>>, {"EN"}, At("MEM_A", 8, <<7>>)>>, <<<<Plain("AB"), Offset(<<7>>)>>, {"DE"}, At("MEM_A", 8, <<7>>)>>,
     <<<<Token("T", <<1>>, <<>>)>>, {"EN", "DE"}, At("MEM_T", 16, <<1>>)>>, <<<<Plain("T"), Offset(<<1>>)>>, {"EN", "DE"}, At("MEM_T", 16, <<1>>)>>,
     <<<<Plain("SFC"), Offset(<<1>>)>>, {"EN", "DE"}, At("BLKREF_SFC", 16, <<1>>)>>}
MCAddresses == {<<Plain("E"), Offset(<<0, 1>>)>>, <<Token("IW", <<4>>, <<>>)>>}
MCTranslated == [m \in {"EN", "DE"} |-> [a \in {r[1] : r \in MCReadings} |->
    LET r == CHOOSE x \in MCReadings : x[1] = a IN [ok |-> m \in r[2], op |-> r[3]]]]
MCShownText == [op \in {r[3] : r \in MCReadings} \cup {NoAddress} |->
    IF op = NoAddress THEN <<>> ELSE (CHOOSE x \in MCReadings : x[3] = op /\ x[2] # {"EN"} /\ x[1] \notin {<<Token("T", <<1>>, <<>>)>>})[1]]

\* They are those of the operand translation.
ASSUME AddressesAreRead ==
    /\ \A m \in {"EN", "DE"} : \A r \in MCReadings :
         LET d == TranslateOp(m, r[1], FALSE) IN d.ok = (m \in r[2]) /\ (d.ok => d.op = r[3])
    /\ \A op \in DOMAIN MCShownText : MCShownText[op] = ShownAddress(op)

MCImported ==
    {File("csv", <<Row("a", <<Token("QB", <<7>>, <<>>)>>, "BYTE"), Row("b", <<Token("IW", <<4>>, <<>>)>>, "WORD")>>)}
MCPasted == {Row("A", <<Plain("SFC"), Offset(<<1>>)>>, "SFC 1")}

\* Quoted texts with the characters that mean something outside of quotes.
MCWords == {<<"a">>}
MCTexts == {<<";", " ">>, <<"//", ",">>}

\* Constants of every kind, at the ends of their ranges and beyond.
AsOperand(c) == [constant |-> c, type |-> "operand"]
AsInitial(c, type) == [constant |-> c, type |-> type]
Hex(digits, size) == [kind |-> "HEX", digits |-> digits, size |-> size]
Duration(kind, parts, negative) == [kind |-> kind, parts |-> parts, negative |-> negative]
Date(y, m, d) == [year |-> y, month |-> m, day |-> d]
Clock(h, m, ms) == [hour |-> h, minute |-> m, ms |-> ms]
MCConstants ==
  {[kind |-> "INT", number |-> n] : n \in {-32769, -32768, -1, 0, 300, 32768}}
  \cup {[kind |-> "L#", number |-> n] : n \in {-2147483647, -1, 65536}}
  \cup {Hex(<<15, 1>>, 1), Hex(<<1, 0, 0>>, 1), Hex(<<0, 10, 11, 12, 13>>, 2), Hex(<<15, 0, 0, 0, 0, 0, 0, 1>>, 4)}
  \cup {[kind |-> k, digits |-> d] : k \in {"2#", "B#("}, d \in {<<1, 0>>, <<0, 1, 1, 1>>}}
  \cup {[kind |-> "2#", digits |-> [i \in 1..n |-> 1]] : n \in {17, 33}}
  \cup {[kind |-> "B#(", digits |-> d] : d \in {<<255, 1>>, <<256, 0>>, <<1, 2, 3, 4>>}}
  \cup {[kind |-> "C#", digits |-> d] : d \in {<<7>>, <<9, 9, 9>>, <<1, 0, 0, 0>>}}
  \cup {[kind |-> "BOOL", true |-> b] : b \in BOOLEAN}
  \cup {[kind |-> "REAL", class |-> c] : c \in {"one", "zero", "vanishing", "infinite", "nan"}}
  \cup {[kind |-> "STRING", characters |-> s] : s \in {<<>>, <<65>>, <<65, 66, 67, 68>>, <<65, 66, 67, 68, 69>>}}
  \cup {Duration(k, p, n) : k \in {"S5T#", "T#"}, n \in BOOLEAN,
          p \in {<<<<9, "MS">>>>, <<<<9, "S">>, <<995, "MS">>>>, <<<<99, "S">>, <<950, "MS">>>>, <<<<999, "S">>, <<501, "MS">>>>,
                 <<<<2, "H">>, <<46, "M">>, <<30, "S">>>>, <<<<2, "H">>, <<46, "M">>, <<30, "S">>, <<1, "MS">>>>, <<<<1, "S">>, <<1, "M">>, <<1, "D">>>>}}
  \cup {Duration("T#", <<<<24, "D">>, <<20, "H">>, <<31, "M">>, <<23, "S">>, <<ms, "MS">>>>, n) : ms \in {625, 647, 648, 649, 750}, n \in BOOLEAN}
  \cup {Duration("T#", <<<<25, "D">>>>, n) : n \in BOOLEAN}
  \cup {[kind |-> "TOD#", time |-> clock] : clock \in {Clock(0, 0, 0), Clock(23, 59, 59999), Clock(24, 0, 0), Clock(1, 2, 3007)}}
  \cup {[kind |-> "D#", date |-> d] : d \in {Date(1989, 12, 31), Date(1990, 1, 1), Date(1996, 2, 29), Date(1999, 2, 29), Date(2000, 3, 1)}}
  \cup {[kind |-> "DT#", date |-> d, time |-> clock] : d \in {Date(1990, 1, 1), Date(2000, 2, 29), Date(2000, 2, 30)},
          clock \in {Clock(23, 59, 59999), Clock(1, 60, 0), Clock(7, 8, 9010)}}
TypesOf(c) == {type \in DOMAIN DataTypeOf : c.kind \in DataTypeOf[type][1]}
\* A number of more than 16 binary digits for a WORD is cut.
MCLiterals == {AsOperand(c) : c \in MCConstants}
  \cup {l \in UNION {{AsInitial(c, type) : type \in TypesOf(c)} : c \in MCConstants} :
           ~(l.type = "WORD" /\ l.constant.kind = "2#" /\ Len(l.constant.digits) = 17)}
MCTyped == {Duration("S5T#", <<<<1, "M">>>>, FALSE), Hex(<<10, 0>>, 2), [kind |-> "C#", digits |-> <<1, 2>>]}
MCTimer == {TimeBase(1, 57)}
MCCounter == {Bcd3(12)}

MCVars == <<focus, editorVars, messageVars, structVars, tokenizerVars, parserVars, operandVars, symbolVars, immediateVars>>

MCInit ==
    /\ focus \in Focus /\ EditorInit /\ MessagesInit /\ StructInit /\ TokenizerInit /\ ParserInit
    /\ OperandsInit /\ SymbolsInit /\ ImmediatesInit
    /\ focus # "editor" => disk = [f \in Files |-> ""]
    /\ focus # "tokens" => mode = "code"
    /\ focus # "parser" => ~parser.flat
    /\ focus # "operands" => mnemonics = "DE"
    /\ focus # "symbols" => cpuSpecs = [configured |-> "AUTO", detected |-> "AUTO"]
    /\ focus # "constants" => literal = AsOperand([kind |-> "BOOL", true |-> TRUE])
    /\ focus # "window" => display.shows = "counter" /\ display.format = "bin"

MCNext ==
    /\ UNCHANGED focus
    /\ IF focus = "editor"     THEN EditorNext    ELSE UNCHANGED editorVars
    /\ IF focus = "messages"   THEN MessagesNext  ELSE UNCHANGED messageVars
    /\ IF focus = "structures" THEN StructNext    ELSE UNCHANGED structVars
    /\ IF focus = "tokens"     THEN TokenizerNext ELSE UNCHANGED tokenizerVars
    /\ IF focus = "parser"     THEN ParserNext    ELSE UNCHANGED parserVars
    /\ IF focus = "operands"   THEN OperandsNext  ELSE UNCHANGED operandVars
    /\ IF focus = "symbols"    THEN SymbolsNext   ELSE UNCHANGED symbolVars
    /\ CASE focus = "constants" -> ReadImmediate
         [] focus = "window"    -> WindowNext
         [] OTHER               -> UNCHANGED immediateVars

MCFairness ==
    \A s \in Side :
      /\ WF_MCVars(focus = "messages" /\ SocketTakes(s) /\ UNCHANGED <<focus, editorVars, structVars, tokenizerVars, parserVars, operandVars, symbolVars, immediateVars>>)
      /\ WF_MCVars(focus = "messages" /\ Receive(s) /\ UNCHANGED <<focus, editorVars, structVars, tokenizerVars, parserVars, operandVars, symbolVars, immediateVars>>)

MCSpec == MCInit /\ [][MCNext]_MCVars /\ MCFairness
=============================================================================
