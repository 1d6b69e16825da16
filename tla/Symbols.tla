------------------------------ MODULE Symbols ------------------------------
(***************************************************************************)
(* A symbol table from the cells of its editor to the CPU and to the       *)
(* project file and back (core/symbolparser.py, gui/symtabwidget.py, the   *)
(* mnemonics of common/cpuspecs.py and core/cpu.py).  The editor takes     *)
(* addresses in German and in English mnemonics, shows them in German and  *)
(* saves the table in lines of fixed columns.                              *)
(*                                                                         *)
(* An address is a sequence of tokens of Operands.  The comment of a       *)
(* symbol is left out.                                                     *)
(***************************************************************************)
EXTENDS Operands, FiniteSetsExt, TLC

CONSTANTS
  Names,       \* written into the cells of names
  LowerCase,   \* the names that are written in two ways
  Addresses,   \* written into the cells of addresses, tokens
  DataTypes,   \* written into the cells of types, as the editor shows them
  Imported,    \* the files that may be imported
  Pasted,      \* the symbols a library block comes with
  Configured,  \* the mnemonics configured for the CPU: "AUTO", "EN", "DE"
  CarelessWith,    \* what the user does: "names" gives rows one name, "rows" saves with
               \* rows that are shown in red
  MaxRows, MaxEdits \* bounds

\* An address is read as an operand is (TranslateOp), and shown as ShownAddress
\* says.
CONSTANTS
  Translated, \* Translated[m][address]: the operator of an address in the mnemonics m
  ShownText   \* ShownText[op]: the address that is shown for an operator

VARIABLES
  symTab,           \* SymTabModel.symTab
  symSource,        \* SymTabModel.__source: what was written last
  needSourceUpdate, \* SymTabModel.__needSourceUpdate
  symFile,          \* the table in the project file
  savedTable,            \* history: the table that was shown when it was savedTable
  cpuSpecs,         \* the configured and the detected mnemonics of the CPU
  cpuTable,         \* the symbol table of the program in the CPU
  refused,          \* history: the last table that was opened or downloaded was refused
  symEdits          \* bound

symbolVars == <<symTab, symSource, needSourceUpdate, symFile, savedTable, cpuSpecs, cpuTable, refused, symEdits>>

NoAddress == Nothing
Sym(name, op, type, lang) == [name |-> name, op |-> op, type |-> type, lang |-> lang]
Row(name, address, type) == [name |-> name, address |-> address, type |-> type]
File(format, rows) == [format |-> format, rows |-> rows]
EmptyFile == File("asc", <<>>)
NotParsed == [ok |-> FALSE, symbols |-> <<>>]

-----------------------------------------------------------------------------
(* Symbol and SymbolTable.                                                 *)

Lower(name) == IF name \in DOMAIN LowerCase THEN LowerCase[name] ELSE name
HasSymbol(table, name) == \E i \in DOMAIN table : Lower(table[i].name) = Lower(name)

IsValid(s) == s.name # "" /\ s.op # NoAddress /\ s.type # ""
Complete(table) == \A i \in DOMAIN table : IsValid(table[i])

\* The first mnemonics that an address can be read in.
SetOperatorString(address, lang) ==
  LET fit == {m \in {"EN", "DE"} : lang \in {"AUTO", m} /\ Translated[m][address].ok}
  IN  IF address = <<>> \/ fit = {} THEN [op |-> NoAddress, ok |-> address = <<>>]
      ELSE [op |-> Translated[IF "EN" \in fit THEN "EN" ELSE "DE"][address].op, ok |-> TRUE]

\* add: the symbols up to the first whose name is there.
RECURSIVE AddSymbols(_, _)
AddSymbols(table, symbols) ==
  IF symbols = <<>> THEN [ok |-> TRUE, symbols |-> table]
  ELSE IF HasSymbol(table, Head(symbols).name) THEN [ok |-> FALSE, symbols |-> table]
  ELSE AddSymbols(Append(table, Head(symbols)), Tail(symbols))

-----------------------------------------------------------------------------
(* Writing.                                                                *)

\* An operator as it is shown, in German; a bit of the status word by its name,
\* and the whole status word by that of its first bit.
ShownAddress(op) ==
  IF op = NoAddress THEN <<>>
  ELSE IF op.type = "MEM_STW"
  THEN <<Plain("__STW"), Plain(CHOOSE n \in DOMAIN Name2nr("DE") : Name2nr("DE")[n] = IF op.addr = <<>> THEN 0 ELSE op.addr[2])>>
  ELSE IF op.type \in {b.type : b \in Blocks} THEN <<Plain(BlockName(op)), Token("", op.addr, <<>>)>>
  ELSE Direct("DE", op, TRUE)

Digits(n) == Len(ToString(n))
Added(numbers) == FoldSeq(LAMBDA x, y : x + y, 0, numbers)
TokenLength(token) ==
  Len(token.word) + Added([i \in DOMAIN token.at |-> Digits(token.at[i])]) + Max({0, Len(token.at) - 1})
  + Added([i \in DOMAIN token.path |-> 1 + Len(token.path[i])])
AddressLength(address) == Added([i \in DOMAIN address |-> TokenLength(address[i])]) + Max({0, Len(address) - 1})

\* A line of the ASC format: columns for the name, the address, the type and the
\* comment.  What is longer than its column moves the rest.
Column(length, width) == Max({length, width})
LineLength(row) ==
  4 + Column(Len(row.name), 24) + Column(AddressLength(row.address), 11) + 1 + Column(Len(row.type), 9) + 1 + 80

ToASC(table) == File("asc", [i \in DOMAIN table |-> Row(table[i].name, ShownText[table[i].op], table[i].type)])

-----------------------------------------------------------------------------
(* Reading.                                                                *)

ProbeASC(file) == file.format = "asc" /\ \A i \in DOMAIN file.rows : LineLength(file.rows[i]) = 130
ProbeCSV(file) == file.format = "csv"

SymOf(row, m, address) ==
  LET type == IF row.type = "" /\ row.address # <<>> /\ row.address[1].word = "VAT" THEN "VAT" ELSE row.type
  IN  [ok |-> /\ row.name # "" /\ row.address # <<>> /\ type # ""
              /\ Len(row.name) <= 24 /\ AddressLength(row.address) <= 11 /\ Len(type) <= 9 /\ address.ok,
       symbol |-> Sym(row.name, address.op, type, m)]
ParseSym(row, m) == SymOf(row, m, SetOperatorString(row.address, m))

Collect(parsed) ==
  IF \E i \in DOMAIN parsed : ~parsed[i].ok THEN NotParsed
  ELSE AddSymbols(<<>>, [i \in DOMAIN parsed |-> parsed[i].symbol])
ParseRows(file, m) == Collect([i \in DOMAIN file.rows |-> ParseSym(file.rows[i], m)])

\* Without configured mnemonics the whole table is read in English and, if that
\* fails, in German.
FirstParsed(first, second) == IF first.ok THEN first ELSE second
ParseData(file, m) ==
  IF file.rows = <<>> THEN [ok |-> TRUE, symbols |-> <<>>]
  ELSE IF ~ProbeASC(file) /\ ~ProbeCSV(file) THEN NotParsed
  ELSE IF m = "AUTO" THEN FirstParsed(ParseRows(file, "EN"), ParseRows(file, "DE"))
  ELSE ParseRows(file, m)

-----------------------------------------------------------------------------
(* The editor.                                                             *)

CellEdit == symEdits < MaxEdits /\ symEdits' = symEdits + 1 /\ UNCHANGED <<symFile, savedTable, cpuSpecs, cpuTable, refused>>
EmitSourceChanged == needSourceUpdate' = TRUE /\ UNCHANGED symSource

\* The name of a new row.
RECURSIVE FreeName(_, _, _)
FreeName(table, base, i) ==
  LET name == base \o "_" \o ToString(i) IN IF HasSymbol(table, name) THEN FreeName(table, base, i + 1) ELSE name
NewName(table) ==
  LET base == "__new_symbol_" \o ToString(Len(table)) IN IF HasSymbol(table, base) THEN FreeName(table, base, 0) ELSE base

WithRow(table, row) ==
  IF row <= Len(table) THEN table ELSE Append(table, Sym(NewName(table), NoAddress, "", "AUTO"))

\* A cell is set.  The row for new symbols adds one, which stays if its cell is refused.
SetData(row, ok, change(_)) ==
  /\ CellEdit
  /\ LET table == WithRow(symTab, row)
     IN  IF ok THEN symTab' = [table EXCEPT ![row] = change(@)] /\ EmitSourceChanged
         ELSE symTab' = table /\ UNCHANGED <<symSource, needSourceUpdate>>

EditableRows == 1 .. Min({Len(symTab) + 1, MaxRows})
LangOf(row) == IF row <= Len(symTab) THEN symTab[row].lang ELSE "AUTO"

SetName == \E row \in EditableRows, name \in Names :
  /\ "names" \in CarelessWith \/ ~HasSymbol(SelectSeq(symTab, LAMBDA s : s.name # ""), name)
  /\ SetData(row, Len(name) <= 24, LAMBDA s : [s EXCEPT !.name = name])

SetAddress == \E row \in EditableRows, address \in Addresses \cup {<<>>} :
  LET read == SetOperatorString(address, LangOf(row))
  IN  SetData(row, read.ok, LAMBDA s : [s EXCEPT !.op = read.op])

SetType == \E row \in EditableRows, type \in DataTypes \cup {""} :
  SetData(row, TRUE, LAMBDA s : [s EXCEPT !.type = type])

DeleteSymbolQuietly(row) ==   \* faulty: the change is not announced
  symTab' = RemoveAt(symTab, row) /\ UNCHANGED <<symSource, needSourceUpdate>>
DeleteSymbol(row) ==
  symTab' = RemoveAt(symTab, row) /\ EmitSourceChanged
Delete == CellEdit /\ \E row \in DOMAIN symTab : DeleteSymbol(row)

MoveSymbol == CellEdit /\ \E from \in DOMAIN symTab, to \in DOMAIN symTab :
  /\ from # to
  /\ symTab' = InsertAt(RemoveAt(symTab, from), to, symTab[from])
  /\ EmitSourceChanged

\* A symbol of a library block, unless there is one of its name.
PasteBlockSymbol == CellEdit /\ \E row \in Pasted :
  LET parsed == ParseSym(row, cpuSpecs.configured)
  IN  /\ Len(symTab) < MaxRows /\ ~HasSymbol(symTab, row.name) /\ parsed.ok
      /\ symTab' = Append(symTab, parsed.symbol)
      /\ EmitSourceChanged

\* getSource: a table with incomplete symbols is not written; the text of before
\* is used, after a message.
TableSource == IF needSourceUpdate /\ Complete(symTab) THEN ToASC(symTab) ELSE symSource
UpdateSource ==
  /\ symSource' = TableSource
  /\ needSourceUpdate' = (needSourceUpdate /\ ~Complete(symTab))

\* What the user can rely on: rows that are not shown in red.
Shown(table) == [i \in DOMAIN table |-> Row(table[i].name, table[i].op, table[i].type)]

Save ==
  /\ "rows" \in CarelessWith \/ Complete(symTab)
  /\ UpdateSource /\ symFile' = TableSource
  /\ savedTable' = IF Complete(symTab) THEN Shown(symTab) ELSE savedTable
  /\ UNCHANGED <<symTab, cpuSpecs, cpuTable, refused, symEdits>>

\* A file that cannot be parsed leaves an empty table.
SetTableSource(parsed) ==
  /\ symTab' = parsed.symbols /\ refused' = ~parsed.ok
  /\ symSource' = EmptyFile /\ needSourceUpdate' = TRUE

Open ==
  /\ SetTableSource(ParseData(symFile, "AUTO"))
  /\ UNCHANGED <<symFile, savedTable, cpuSpecs, cpuTable, symEdits>>

ImportTable ==
  /\ symEdits < MaxEdits /\ symEdits' = symEdits + 1
  /\ \E file \in Imported : SetTableSource(ParseData(file, "AUTO"))
  /\ UNCHANGED <<symFile, savedTable, cpuSpecs, cpuTable>>

-----------------------------------------------------------------------------
(* The CPU.                                                                *)

GetMnemonics(specs) == IF specs.configured = "AUTO" THEN specs.detected ELSE specs.configured

MergeInto(table, parsed) ==
  LET merged == AddSymbols(table, parsed.symbols)
  IN  /\ cpuTable' = merged.symbols
      /\ refused' = ~(parsed.ok /\ merged.ok)
LoadSymTabSource(specs, table) == MergeInto(table, ParseData(TableSource, GetMnemonics(specs)))

\* The whole project: the CPU is reset and given the mnemonics of the project.
Download ==
  /\ cpuSpecs' = [cpuSpecs EXCEPT !.detected = "AUTO"]
  /\ LoadSymTabSource(cpuSpecs', <<>>)
  /\ UpdateSource
  /\ UNCHANGED <<symTab, symFile, savedTable, symEdits>>

\* Only the table.
DownloadSingle ==
  /\ LoadSymTabSource(cpuSpecs, cpuTable)
  /\ UpdateSource
  /\ UNCHANGED <<symTab, symFile, savedTable, cpuSpecs, symEdits>>

\* The mnemonics with less errors in the code, German if there are none in both;
\* code in others than before is refused.
DetectMnemonics ==
  /\ cpuSpecs.configured = "AUTO"
  /\ \E errors \in [{"EN", "DE"} -> 0 .. 1] :
       LET detected == IF errors["DE"] = 0 THEN "DE"
                       ELSE IF errors["EN"] <= errors["DE"] THEN "EN" ELSE "DE"
       IN  cpuSpecs.detected \in {"AUTO", detected} /\ cpuSpecs' = [cpuSpecs EXCEPT !.detected = detected]
  /\ UNCHANGED <<symTab, symSource, needSourceUpdate, symFile, savedTable, cpuTable, refused, symEdits>>

-----------------------------------------------------------------------------
SymbolsInit ==
  /\ symTab = <<>> /\ symSource = EmptyFile /\ needSourceUpdate = TRUE
  /\ symFile = EmptyFile /\ savedTable = <<>>
  /\ cpuSpecs \in {[configured |-> c, detected |-> "AUTO"] : c \in Configured}
  /\ cpuTable = <<>> /\ refused = FALSE /\ symEdits = 0

SymbolsNext ==
  \/ SetName \/ SetAddress \/ SetType \/ Delete \/ MoveSymbol \/ PasteBlockSymbol
  \/ Save \/ Open \/ ImportTable
  \/ Download \/ DownloadSingle \/ DetectMnemonics

-----------------------------------------------------------------------------
(* Properties.                                                             *)

\* A table without red rows that was saved is shown again when the project is
\* opened ("Returns ASC format of this symbol", symbolparser.py:210).
TableReadsBack == [][Open => Shown(symTab') = savedTable]_symbolVars
=============================================================================
