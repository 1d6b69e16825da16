------------------------------ MODULE Tokenizer ------------------------------
(***************************************************************************)
(* How an AWL source is cut into statements and tokens                     *)
(* (core/parser.py, AwlParser.__tokenize): one character after the other,  *)
(* among them comments, quotes, parentheses and line ends.  A writer writes *)
(* statements in any layout; the characters of a word are letters here,    *)
(* "//" is one character.                                                  *)
(***************************************************************************)
EXTENDS Integers, Sequences, SequencesExt

CONSTANTS
  Modes,      \* where the source is: "code", "variables", "header"
  Words,      \* words without blanks, quotes and separators
  Texts,      \* texts in quotes
  MaxWords, MaxGaps   \* bounds

VARIABLES
  mode,
  t,          \* TokenizerState, without line numbers, and the statements handed to __parseTokens
  written,    \* history: the statements, and the tokens of the unfinished one
  inCall,     \* the writer is within the parentheses of a call
  gaps        \* the layouts the writer has chosen that are not the shortest

tokenizerVars == <<mode, t, written, inCall, gaps>>

Blank == {" ", "\n"}
Label == <<"L", ":">>

-----------------------------------------------------------------------------
(* The tokenizer.                                                          *)

Start == [tokens |-> <<>>, cur |-> <<>>, comment |-> FALSE, assignment |-> FALSE, double |-> FALSE,
          single |-> FALSE, parens |-> FALSE, statements |-> <<>>]

AddCharacter(s, c) == [s EXCEPT !.cur = Append(@, c)]
AddToken(s, token) == [s EXCEPT !.tokens = Append(@, token)]
Strip(cs) ==
  LET visible == {i \in DOMAIN cs : cs[i] \notin Blank}
  IN  IF visible = {} THEN <<>> ELSE SubSeq(cs, Min(visible), Max(visible))
FinishCurToken(s) ==
  [s EXCEPT !.tokens = IF Strip(s.cur) = <<>> THEN @ ELSE Append(@, Strip(s.cur)), !.cur = <<>>]

\* An empty statement is none.
ParseTokens(s) ==
  LET u == FinishCurToken(s)
  IN  IF u.tokens = <<>> THEN u
      ELSE [u EXCEPT !.statements = Append(@, u.tokens), !.tokens = <<>>]

HaveLabelToken(s) == s.tokens # <<>> /\ Last(s.tokens[1]) = ":"
InVariables == mode = "variables"
InAnyHeader == mode = "header"

\* A '=' after the one word of a statement, in code and elsewhere.
EqualsIsSecond(s, c) == c = "=" /\ Len(s.tokens) = 1 /\ s.cur = <<>>

Separates(s, c) ==
  \/ (InAnyHeader \/ InVariables) /\ c \in {"=", ":", "{", "}", "."}
  \/ c \in {",", "[", "]"} \/ EqualsIsSecond(s, c)

\* The first and the second character of ':=' and '..' stay together.
Separator(s, c, next) ==
  IF <<c, next>> \in {<<":", "=">>, <<".", ".">>} THEN AddCharacter(FinishCurToken(s), c)
  ELSE IF <<c, s.cur>> \in {<<"=", <<":">>>>, <<".", <<".">>>>} THEN FinishCurToken(AddCharacter(s, c))
  ELSE IF c = "." THEN AddCharacter(s, c)
  ELSE AddToken(FinishCurToken(s), <<c>>)

EndWords == {<<"END_STRUCT">>, <<"END_VAR">>, <<"END_DATA_BLOCK">>}
WholeStatement(s, c) ==
  IF InVariables THEN c = ";" \/ (c \in Blank /\ s.cur \in EndWords) ELSE c \in {";", "\n"}

\* A character outside of comments and texts.
PlainCharacter(s, c, next) ==
  IF c = "//" THEN [(IF s.parens THEN s ELSE ParseTokens(s)) EXCEPT !.comment = TRUE]
  ELSE IF EqualsIsSecond(s, c) /\ ~HaveLabelToken(s)
  THEN FinishCurToken(AddCharacter([s EXCEPT !.assignment = TRUE], c))
  ELSE IF (s.tokens # <<>> \/ InVariables) /\ c = "(" /\ (HaveLabelToken(s) => Len(s.tokens) >= 2)
  THEN FinishCurToken(AddCharacter([s EXCEPT !.parens = TRUE], c))
  ELSE IF (s.tokens # <<>> \/ InVariables) /\ s.parens /\ c = ")"
  THEN AddToken(FinishCurToken([s EXCEPT !.parens = FALSE]), <<c>>)
  ELSE IF IF s.tokens # <<>> \/ InVariables THEN Separates(s, c) ELSE c = "["
  THEN Separator(s, c, next)
  ELSE IF ~s.parens /\ WholeStatement(s, c) THEN ParseTokens(s)
  ELSE IF c \in Blank THEN FinishCurToken(s)
  ELSE AddCharacter(s, c)

\* A faulty variant: a comment goes on after its line.
CharacterCommented(s, c, next) ==
  IF s.comment THEN [s EXCEPT !.comment = c # ";"] ELSE PlainCharacter(s, c, next)

Character(s, c, next) ==
  IF s.comment THEN [s EXCEPT !.comment = c # "\n"]
  ELSE IF s.assignment THEN IF c = "\n" THEN ParseTokens([s EXCEPT !.assignment = FALSE]) ELSE AddCharacter(s, c)
  ELSE LET u == [s EXCEPT !.double = IF c = "\"" THEN ~@ ELSE @, !.single = IF c = "'" THEN ~@ ELSE @]
       IN  IF u.single \/ u.double THEN AddCharacter(u, c) ELSE PlainCharacter(u, c, next)

\* next: the character after the last of cs.
RECURSIVE Tokenize(_, _, _)
Tokenize(s, cs, next) ==
  IF cs = <<>> THEN s
  ELSE CHOOSE r \in {Tokenize(u, Tail(cs), next) :
                     u \in {Character(s, cs[1], IF Len(cs) > 1 THEN cs[2] ELSE next)}} : TRUE

-----------------------------------------------------------------------------
(* The writer.                                                             *)

\* What may stand between two tokens: one layout is free, others are counted.
\* Only within parentheses does a statement go on in another line, and only
\* there may it be commented.
Gaps(call) ==
        {<<" ">>, <<" ", " ">>}
        \cup (IF call THEN {<<"\n">>, <<" ", "//", "a", ";", "\n">>} ELSE {})
        \cup (IF InVariables THEN {<<"\n">>} ELSE {})

Write(cs, tokens, gap) ==
  /\ gap # <<" ">> => gaps < MaxGaps
  /\ gaps' = IF gap = <<" ">> THEN gaps ELSE gaps + 1
  /\ t' = Tokenize(t, cs \o gap, " ")
  /\ written' = [written EXCEPT !.tokens = @ \o tokens]
  /\ UNCHANGED mode

WordsOf(w) == Len(FlattenSeq(w.statements)) + Len(w.tokens)
MoreWords == WordsOf(written) < MaxWords
First == written.tokens = <<>>
OnlyLabel == written.tokens = <<Label>>

Word(w, gap) == MoreWords /\ Write(w, <<w>>, gap) /\ UNCHANGED inCall

\* A text: a string or a symbol.
Quoted(q, x, gap) == MoreWords /\ (First => InVariables) /\ Write(<<q>> \o x \o <<q>>, <<<<q>> \o x \o <<q>>>>, gap)
                   /\ UNCHANGED inCall

LabelStatement(gap) == mode = "code" /\ First /\ MoreWords /\ Write(Label, <<Label>>, gap) /\ UNCHANGED inCall

\* An assignment or a comparison, "=" and "==".
Equals(w, gap) == mode = "code" /\ First /\ MoreWords /\ Write(w, <<w>>, gap) /\ UNCHANGED inCall

\* Separators need no blanks.
Comma(gap) == /\ inCall /\ MoreWords /\ ~First /\ UNCHANGED inCall
              /\ Write(<<",">>, <<<<",">>>>, gap)

Assign(gap) == /\ InVariables \/ inCall
               /\ MoreWords /\ ~First /\ Write(<<":", "=">>, <<<<":", "=">>>>, gap) /\ UNCHANGED inCall

Colon(gap) == /\ InVariables \/ InAnyHeader
              /\ MoreWords /\ ~First /\ Write(<<":">>, <<<<":">>>>, gap) /\ UNCHANGED inCall

\* A title and the like: whatever stands between the '=' and the end of the
\* line is one token.
Title(x) ==
  /\ InAnyHeader /\ Len(written.tokens) = 1
  /\ t' = Tokenize(t, <<"=">> \o x \o <<"\n">>, " ")
  /\ written' = [statements |-> Append(written.statements,
                                       written.tokens \o <<<<"=">>>> \o (IF Strip(x) = <<>> THEN <<>> ELSE <<Strip(x)>>)),
                 tokens |-> <<>>]
  /\ UNCHANGED <<mode, inCall, gaps>>

Parenthesis(gap) == /\ ~inCall /\ MoreWords /\ (First => InVariables) /\ ~OnlyLabel
                    /\ Write(<<"(">>, <<<<"(">>>>, gap) /\ inCall' = TRUE

EndParenthesis(gap) == /\ inCall /\ MoreWords /\ Write(<<")">>, <<<<")">>>>, gap) /\ inCall' = FALSE

\* The end of a statement.
End(cs) ==
  /\ ~inCall /\ (First => gaps < MaxGaps)
  /\ t' = Tokenize(t, cs, "\n")
  /\ written' = IF First THEN written
                ELSE [statements |-> Append(written.statements, written.tokens), tokens |-> <<>>]
  /\ gaps' = gaps + (IF First THEN 1 ELSE 0)
  /\ UNCHANGED <<mode, inCall>>

Ends == IF InVariables THEN {<<";">>} ELSE {<<"\n">>, <<";", "\n">>, <<"//", "'", "\n">>}

\* A section of variables ends with or without a semicolon; a header follows.
EndSection(cs) ==
  /\ InVariables /\ First /\ ~inCall /\ MoreWords
  /\ t' = Tokenize(t, <<"END_VAR">> \o cs, " ") /\ mode' = "header"
  /\ written' = [written EXCEPT !.statements = Append(@, <<<<"END_VAR">>>>)]
  /\ UNCHANGED <<inCall, gaps>>

\* An empty line or a comment of its own.
Between(cs) ==
  /\ First /\ gaps < MaxGaps /\ gaps' = gaps + 1
  /\ t' = Tokenize(t, cs, " ") /\ UNCHANGED <<mode, written, inCall>>

TokenizerInit ==
  /\ mode \in Modes /\ t = Start
  /\ written = [statements |-> <<>>, tokens |-> <<>>] /\ inCall = FALSE /\ gaps = 0

TokenizerNext ==
  \/ \E gap \in Gaps(inCall) :
       \/ \E w \in Words : Word(w, gap)
       \/ \E q \in {"'", "\""} : \E x \in Texts : Quoted(q, x, gap)
       \/ LabelStatement(gap) \/ Equals(<<"=">>, gap) \/ Equals(<<"=", "=", "I">>, gap)
       \/ Comma(gap) \/ Assign(gap) \/ Colon(gap)
  \/ \E gap \in Gaps(TRUE) : Parenthesis(gap)
  \/ \E gap \in Gaps(FALSE) : EndParenthesis(gap)
  \/ \E cs \in Ends : End(cs)
  \/ \E cs \in {<<" ">>, <<";">>} : EndSection(cs)
  \/ \E x \in {<<>>, <<" ", "'", ";", " ">>} : Title(x)
  \/ \E cs \in {<<"\n">>, <<"//", "\"", "\n">>} : Between(cs)

TokenizerSpec == TokenizerInit /\ [][TokenizerNext]_tokenizerVars

-----------------------------------------------------------------------------
(* Properties.                                                             *)

\* However a statement is laid out, with whatever comments and texts in it and
\* around it, the parser is handed the tokens that were written, and nothing is
\* left over.
TokensAsWritten ==
  /\ t.statements = written.statements
  /\ FinishCurToken(t).tokens = written.tokens
  /\ t.parens = inCall /\ ~t.single /\ ~t.double /\ ~t.comment
=============================================================================
