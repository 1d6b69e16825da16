-------------------------- MODULE SharedArrayProofs --------------------------
(***************************************************************************)
(* For messages of any length over any words: put and get, one access to a *)
(* shared array at a time, implement mailboxes.  The inductive invariant   *)
(* is TypeOK with Alternation.  Each step belongs to the side whose turn   *)
(* it is: a side that puts finds the other one at the beginning of a get,  *)
(* and words that are read stand still.                                    *)
(***************************************************************************)
EXTENDS SharedArray, TLAPS

IInv == TypeOK /\ Alternation

\* There are two sides, each the other one's other.
LEMMA TwoSides ==
    /\ \A s \in Side : Other(s) \in Side /\ Other(s) # s /\ Other(Other(s)) = s
    /\ \A s, t \in Side : t = s \/ t = Other(s)
BY DEF Side, Other

\* Two messages are equal when all their words are.
LEMMA SameWords ==
    ASSUME NEW m \in Message, NEW n \in Message,
           \A j \in 1 .. Width : m[j] = n[j]
    PROVE  m = n
<1>1. m = [j \in 1 .. Width |-> m[j]] /\ n = [j \in 1 .. Width |-> n[j]]
  BY DEF Message
<1>2. QED
  BY <1>1, Zenon

\* The new arrays are typed, and the worker's turn comes first.
LEMMA InitIInv == Init => IInv
<1> SUFFICES ASSUME Init PROVE IInv
  OBVIOUS
<1>1. TypeOK
  BY WidthAssumption DEF Init, TypeOK, Side
<1>2. Phase("worker")
  BY DEF Init, Phase, Side, Other
<1>3. QED
  BY <1>1, <1>2 DEF IInv, Alternation, Side

\* A step of either side keeps the types.
LEMMA StepTypeOK == TypeOK /\ [Next]_vars => TypeOK'
<1> SUFFICES ASSUME TypeOK, [Next]_vars PROVE TypeOK'
  OBVIOUS
<1> USE WidthAssumption
<1>1. CASE UNCHANGED vars
  BY <1>1 DEF TypeOK, vars
<1>2. ASSUME NEW s \in Side, PutStart(s) PROVE TypeOK'
  BY <1>2 DEF TypeOK, PutStart
<1>3. ASSUME NEW s \in Side, PutWord(s) PROVE TypeOK'
  <2>1. out[s][next[s]] \in Word
    BY <1>3 DEF TypeOK, PutWord, Message
  <2>2. words' \in [Side -> Message]
    BY <1>3, <2>1 DEF TypeOK, PutWord, Message
  <2>3. next' \in [Side -> 0 .. Width + 1]
    BY <1>3 DEF TypeOK, PutWord
  <2>4. QED
    BY <1>3, <2>2, <2>3 DEF TypeOK, PutWord
<1>4. ASSUME NEW s \in Side, PutEnd(s) PROVE TypeOK'
  BY <1>4 DEF TypeOK, PutEnd
<1>5. ASSUME NEW s \in Side, GetStart(s) PROVE TypeOK'
  BY <1>5 DEF TypeOK, GetStart
<1>6. ASSUME NEW s \in Side, GetWord(s) PROVE TypeOK'
  <2>1. words[Other(s)][next[s]] \in Word
    BY <1>6, TwoSides DEF TypeOK, GetWord, Message
  <2>2. in' \in [Side -> Message]
    BY <1>6, <2>1 DEF TypeOK, GetWord, Message
  <2>3. next' \in [Side -> 0 .. Width + 1]
    BY <1>6 DEF TypeOK, GetWord
  <2>4. QED
    BY <1>6, <2>2, <2>3 DEF TypeOK, GetWord
<1>7. ASSUME NEW s \in Side, GetEnd(s) PROVE TypeOK'
  BY <1>7, TwoSides DEF TypeOK, GetEnd
<1>8. QED
  BY <1>1, <1>2, <1>3, <1>4, <1>5, <1>6, <1>7 DEF Next

\* Whose turn it is: a step of put belongs to the side whose turn it is, and
\* finds the other side waiting ...
LEMMA PutTurn ==
    ASSUME IInv, NEW s \in Side, call[s] = "put"
    PROVE  /\ Phase(s)
           /\ flag[s] = 0 /\ next[Other(s)] = 0
           /\ call[Other(s)] = "get" /\ flag[Other(s)] = 0
           /\ \A j \in 1 .. Width : j < next[s] => words[s][j] = out[s][j]
<1>1. PICK p \in Side : Phase(p)
  BY DEF IInv, Alternation
<1>2. p = s
  BY <1>1, TwoSides DEF Phase
<1>3. QED
  BY <1>1, <1>2 DEF Phase

\* ... and a step of get that finds data, or is past its beginning, reads what
\* the other side has put and does not touch.
LEMMA GetTurn ==
    ASSUME IInv, NEW s \in Side, call[s] = "get",
           next[s] # 0 \/ flag[Other(s)] = 1
    PROVE  /\ Phase(Other(s))
           /\ call[Other(s)] = "get" /\ flag[Other(s)] = 1 /\ next[Other(s)] = 0
           /\ flag[s] = 0
           /\ words[Other(s)] = out[Other(s)]
           /\ \A j \in 1 .. Width : j < next[s] => in[s][j] = out[Other(s)][j]
<1>1. PICK p \in Side : Phase(p)
  BY DEF IInv, Alternation
<1>2. p = Other(s)
  BY <1>1, TwoSides DEF Phase, IInv, TypeOK
<1>3. QED
  BY <1>1, <1>2, TwoSides DEF Phase

\* A step of either side leaves it the turn, or passes it on.
LEMMA StepAlternation == IInv /\ [Next]_vars => Alternation'
<1> SUFFICES ASSUME IInv, [Next]_vars PROVE Alternation'
  OBVIOUS
<1> USE WidthAssumption
<1>1. CASE UNCHANGED vars
  BY <1>1 DEF IInv, Alternation, Phase, vars
<1>2. ASSUME NEW s \in Side, PutStart(s) PROVE Phase(s)'
  BY <1>2, PutTurn, TwoSides DEF PutStart, Phase, IInv, TypeOK
<1>3. ASSUME NEW s \in Side, PutWord(s) PROVE Phase(s)'
  <2>1. call[s] = "put" /\ next[s] \in 1 .. Width
    BY <1>3 DEF PutWord
  <2>2. ASSUME NEW j \in 1 .. Width, j < next'[s] PROVE words'[s][j] = out'[s][j]
    <3>1. next'[s] = next[s] + 1
      BY <1>3 DEF PutWord, IInv, TypeOK
    <3>2. CASE j = next[s]
      BY <1>3, <2>1, <3>2 DEF PutWord, IInv, TypeOK, Message
    <3>3. CASE j < next[s]
      BY <1>3, <2>1, <3>3, PutTurn DEF PutWord, IInv, TypeOK, Message
    <3>4. QED
      BY <2>1, <2>2, <3>1, <3>2, <3>3
  <2>3. next'[Other(s)] = 0
    BY <1>3, <2>1, PutTurn, TwoSides DEF PutWord, IInv, TypeOK
  <2>4. QED
    BY <1>3, <2>1, <2>2, <2>3, PutTurn DEF PutWord, Phase
<1>4. ASSUME NEW s \in Side, PutEnd(s) PROVE Phase(s)'
  <2>1. call[s] = "put" /\ next[s] = Width + 1
    BY <1>4 DEF PutEnd
  <2>2. \A j \in 1 .. Width : words[s][j] = out[s][j]
    BY <2>1, PutTurn
  <2>3. words[s] = out[s]
    BY <2>2, SameWords DEF IInv, TypeOK
  <2>4. /\ call'[s] = "get" /\ flag'[s] = 1 /\ next'[s] = 0
        /\ call'[Other(s)] = "get" /\ flag'[Other(s)] = 0 /\ next'[Other(s)] = 0
    BY <1>4, <2>1, PutTurn, TwoSides DEF PutEnd, IInv, TypeOK
  <2>5. QED
    BY <1>4, <2>3, <2>4 DEF PutEnd, Phase
<1>5. ASSUME NEW s \in Side, GetStart(s) PROVE Phase(Other(s))'
  <2>1. call[s] = "get" /\ flag[Other(s)] = 1
    BY <1>5 DEF GetStart
  <2>2. next'[s] = 1 /\ next'[Other(s)] = 0
    BY <1>5, <2>1, GetTurn, TwoSides DEF GetStart, IInv, TypeOK
  <2>3. QED
    BY <1>5, <2>1, <2>2, GetTurn, TwoSides DEF GetStart, Phase
<1>6. ASSUME NEW s \in Side, GetWord(s) PROVE Phase(Other(s))'
  <2>1. call[s] = "get" /\ next[s] \in 1 .. Width
    BY <1>6 DEF GetWord
  <2>2. ASSUME NEW j \in 1 .. Width, j < next'[s] PROVE in'[s][j] = out'[Other(s)][j]
    <3>1. next'[s] = next[s] + 1
      BY <1>6 DEF GetWord, IInv, TypeOK
    <3>2. in'[s][j] = IF j = next[s] THEN words[Other(s)][j] ELSE in[s][j]
      BY <1>6, <2>1 DEF GetWord, IInv, TypeOK, Message
    <3>3. /\ words[Other(s)][j] = out[Other(s)][j]
          /\ j < next[s] => in[s][j] = out[Other(s)][j]
      BY <2>1, GetTurn
    <3>4. j = next[s] \/ j < next[s]
      BY <2>1, <2>2, <3>1
    <3>5. out' = out
      BY <1>6 DEF GetWord
    <3>6. QED
      BY <3>2, <3>3, <3>4, <3>5
  <2>3. next'[Other(s)] = 0
    BY <1>6, <2>1, GetTurn, TwoSides DEF GetWord, IInv, TypeOK
  <2>4. QED
    BY <1>6, <2>1, <2>2, <2>3, GetTurn, TwoSides DEF GetWord, Phase
<1>7. ASSUME NEW s \in Side, GetEnd(s) PROVE Phase(s)'
  <2>1. call[s] = "get" /\ next[s] # 0
    BY <1>7 DEF GetEnd
  <2>2. /\ call'[s] = "put" /\ flag'[s] = 0 /\ next'[s] = 0
        /\ call'[Other(s)] = "get" /\ flag'[Other(s)] = 0 /\ next'[Other(s)] = 0
    BY <1>7, <2>1, GetTurn, TwoSides DEF GetEnd, IInv, TypeOK
  <2>3. QED
    BY <2>2 DEF Phase
<1>8. QED
  BY <1>1, <1>2, <1>3, <1>4, <1>5, <1>6, <1>7, TwoSides DEF Next, Alternation

\* The invariant holds in every state of every behaviour of put and get.
THEOREM Invariance == Spec => []IInv
<1>1. IInv /\ [Next]_vars => IInv'
  BY StepTypeOK, StepAlternation DEF IInv
<1>2. QED
  BY InitIInv, <1>1, PTL DEF Spec

\* Whatever the words, the variables of put and get keep their types.
THEOREM TypeCorrectness == Spec => []TypeOK
BY Invariance, PTL DEF IInv

\* The two sides alternate, and words that are read stand still.
THEOREM SidesAlternate == Spec => []Alternation
BY Invariance, PTL DEF IInv

-----------------------------------------------------------------------------

\* A get returns the message the other side put last: after Width words the
\* message read so far is the whole of it.
LEMMA StepWholeMessage ==
    ASSUME IInv, [Next]_vars, NEW t \in Side, heard'[t] # heard[t]
    PROVE  heard'[t] = out[Other(t)] /\ GetEnd(t)
<1> USE WidthAssumption
<1>1. PICK s \in Side : GetEnd(s)
  BY DEF Next, vars, PutStart, PutWord, PutEnd, GetStart, GetWord
<1>2. s = t
  BY <1>1 DEF GetEnd, IInv, TypeOK
<1>3. \A j \in 1 .. Width : in[t][j] = out[Other(t)][j]
  BY <1>1, <1>2, GetTurn DEF GetEnd
<1>4. in[t] = out[Other(t)]
  BY <1>3, SameWords, TwoSides DEF IInv, TypeOK
<1>5. QED
  BY <1>1, <1>2, <1>4 DEF GetEnd, IInv, TypeOK

\* No get of test_run.py ever returns words of two messages.
THEOREM MessagesAreWhole == Spec => WholeMessage
<1>1. IInv /\ [Next]_vars
         => [\A s \in Side : heard'[s] # heard[s] => heard'[s] = out[Other(s)]]_vars
  BY StepWholeMessage
<1>2. QED
  BY Invariance, <1>1, PTL DEF Spec, WholeMessage

-----------------------------------------------------------------------------

\* The mailboxes the arrays stand for are empty at the beginning.
LEMMA InitBox == Init => Box!Init
BY DEF Init, Box!Init, Side

\* Every step of put and get is a step of the mailboxes or none: the last step
\* of a put puts the message, the last step of a get takes it.
LEMMA StepBox == IInv /\ [Next]_vars => [Box!Next]_(Box!vars)
<1> DEFINE box == [s \in Side |-> IF flag[s] = 1 THEN words[s] ELSE NoMessage]
<1> SUFFICES ASSUME IInv, [Next]_vars PROVE [Box!Next]_(Box!vars)
  OBVIOUS
<1> USE WidthAssumption
<1>1. CASE UNCHANGED vars
  BY <1>1 DEF vars, Box!vars
<1>2. ASSUME NEW s \in Side, PutStart(s) PROVE UNCHANGED Box!vars
  <2>1. flag' = flag
    BY <1>2, PutTurn DEF PutStart, IInv, TypeOK
  <2>2. QED
    BY <1>2, <2>1 DEF PutStart, Box!vars
<1>3. ASSUME NEW s \in Side, PutWord(s) PROVE UNCHANGED Box!vars
  <2>1. flag[s] = 0
    BY <1>3, PutTurn DEF PutWord
  <2>2. \A t \in Side : t # s => words'[t] = words[t]
    BY <1>3 DEF PutWord, IInv, TypeOK
  <2>3. QED
    BY <1>3, <2>1, <2>2 DEF PutWord, Box!vars
<1>4. ASSUME NEW s \in Side, PutEnd(s) PROVE Box!Put(s)
  <2>1. flag[s] = 0
    BY <1>4, PutTurn DEF PutEnd
  <2>2. words[s] \in Message
    BY DEF IInv, TypeOK
  <2>3. box' = [box EXCEPT ![s] = words[s]]
    BY <1>4 DEF PutEnd, IInv, TypeOK
  <2>4. UNCHANGED heard
    BY <1>4 DEF PutEnd
  <2>5. box[s] = NoMessage
    BY <2>1
  <2>6. \E m \in Message : box' = [box EXCEPT ![s] = m]
    BY <2>2, <2>3, Zenon
  <2>7. QED
    BY <2>4, <2>5, <2>6, Zenon DEF Box!Put
<1>5. ASSUME NEW s \in Side, GetStart(s) PROVE UNCHANGED Box!vars
  BY <1>5 DEF GetStart, Box!vars
<1>6. ASSUME NEW s \in Side, GetWord(s) PROVE UNCHANGED Box!vars
  BY <1>6 DEF GetWord, Box!vars
<1>7. ASSUME NEW s \in Side, GetEnd(s) PROVE Box!Get(s)
  <2>1. /\ flag[Other(s)] = 1 /\ words[Other(s)] = out[Other(s)]
        /\ \A j \in 1 .. Width : in[s][j] = out[Other(s)][j]
    BY <1>7, GetTurn DEF GetEnd
  <2>2. in[s] = words[Other(s)] /\ words[Other(s)] \in Message
    BY <2>1, SameWords, TwoSides DEF IInv, TypeOK
  <2>3. box[Other(s)] = words[Other(s)] /\ box[Other(s)] # NoMessage
    BY <2>1, <2>2, TwoSides, NoMessageAssumption
  <2>4. heard' = [heard EXCEPT ![s] = box[Other(s)]]
    BY <1>7, <2>2, <2>3 DEF GetEnd
  <2>5. box' = [box EXCEPT ![Other(s)] = NoMessage]
    <3>1. /\ flag'[Other(s)] = 0 /\ words' = words
          /\ \A t \in Side : t # Other(s) => flag'[t] = flag[t]
      BY <1>7, TwoSides DEF GetEnd, IInv, TypeOK
    <3>2. \A t \in Side : (IF flag'[t] = 1 THEN words'[t] ELSE NoMessage)
                            = IF t = Other(s) THEN NoMessage ELSE box[t]
      BY <3>1
    <3>3. [box EXCEPT ![Other(s)] = NoMessage]
             = [t \in Side |-> IF t = Other(s) THEN NoMessage ELSE box[t]]
      BY Zenon
    <3>4. box' = [t \in Side |-> IF flag'[t] = 1 THEN words'[t] ELSE NoMessage]
      OBVIOUS
    <3>5. QED
      BY <3>2, <3>3, <3>4, Zenon
  <2>6. QED
    BY <2>3, <2>4, <2>5 DEF Box!Get
<1>8. QED
  BY <1>1, <1>2, <1>3, <1>4, <1>5, <1>6, <1>7 DEF Next, Box!Next

\* put and get implement the safety part of mailboxes in which a message is put
\* and got in one step: the view of ModbusClient and ModbusServer.
THEOREM ImplementsMailboxes == Spec => BoxSafety
<1>1. QED
  BY InitBox, StepBox, Invariance, PTL DEF Spec, BoxSafety
=============================================================================
