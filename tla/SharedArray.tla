----------------------------- MODULE SharedArray -----------------------------
(***************************************************************************)
(* put and get of test_run.py, one access to a shared array per step.      *)
(*                                                                         *)
(* A shared array holds a flag ("data is available to read") and words.    *)
(* Single accesses are atomic and nothing else is: the words of a message  *)
(* are written and read one by one, with no lock around them.  The PLC and *)
(* its worker use a pair of arrays.  Each writes one of them and reads the *)
(* other: the worker puts a status and then gets a command, the PLC gets   *)
(* the status and then puts the command.                                   *)
(*                                                                         *)
(* The type and the length of a message are words like the others; Width   *)
(* is the number of words of a message.  A get that does not block and     *)
(* finds no data is a poll that changes nothing, like a turn of the loop   *)
(* of a get that blocks.                                                   *)
(***************************************************************************)
EXTENDS Naturals

CONSTANTS
    Width,      \* words of a message
    Word,       \* what a word can be
    NoMessage   \* stands for the content of an array with no data to read

Message == [1 .. Width -> Word]

ASSUME WidthAssumption == Width \in Nat
ASSUME WordAssumption == Word # {}
ASSUME NoMessageAssumption == NoMessage \notin Message

VARIABLES
    flag,   \* flag[s]: element 0 of the array side s writes
    words,  \* words[s]: the elements after it
    call,   \* call[s]: the function side s is in
    next,   \* next[s]: the word it writes or reads next; 0 before the first
    out,    \* out[s]: the message side s puts
    in,     \* in[s]: the words side s has read so far
    heard   \* heard[s]: the message its last get returned

vars == <<flag, words, call, next, out, in, heard>>

Side == {"worker", "plc"}
Other(s) == IF s = "worker" THEN "plc" ELSE "worker"

\* The arrays are new: no data, and any words.  The worker puts first.
Init ==
    /\ flag = [s \in Side |-> 0]
    /\ words \in [Side -> Message]
    /\ call = [s \in Side |-> IF s = "worker" THEN "put" ELSE "get"]
    /\ next = [s \in Side |-> 0]
    /\ out \in [Side -> Message]
    /\ in = words
    /\ heard = [s \in Side |-> NoMessage]

\* put: mark the array as having no data, write the words, mark it as full.
PutStart(s) ==
    /\ call[s] = "put" /\ next[s] = 0
    /\ \E m \in Message : out' = [out EXCEPT ![s] = m]
    /\ flag' = [flag EXCEPT ![s] = 0]
    /\ next' = [next EXCEPT ![s] = 1]
    /\ UNCHANGED <<words, call, in, heard>>

PutWord(s) ==
    /\ call[s] = "put" /\ next[s] \in 1 .. Width
    /\ words' = [words EXCEPT ![s][next[s]] = out[s][next[s]]]
    /\ next' = [next EXCEPT ![s] = @ + 1]
    /\ UNCHANGED <<flag, call, out, in, heard>>

PutEnd(s) ==
    /\ call[s] = "put" /\ next[s] = Width + 1
    /\ flag' = [flag EXCEPT ![s] = 1]
    /\ call' = [call EXCEPT ![s] = "get"]
    /\ next' = [next EXCEPT ![s] = 0]
    /\ UNCHANGED <<words, out, in, heard>>

\* get: there is data; read the words, mark the array as having none.
GetStart(s) ==
    /\ call[s] = "get" /\ next[s] = 0
    /\ flag[Other(s)] = 1
    /\ next' = [next EXCEPT ![s] = 1]
    /\ UNCHANGED <<flag, words, call, out, in, heard>>

GetWord(s) ==
    /\ call[s] = "get" /\ next[s] \in 1 .. Width
    /\ in' = [in EXCEPT ![s][next[s]] = words[Other(s)][next[s]]]
    /\ next' = [next EXCEPT ![s] = @ + 1]
    /\ UNCHANGED <<flag, words, call, out, heard>>

\* Variant: get does not mark the array as read.
GetEndKeeping(s) ==
    /\ call[s] = "get" /\ next[s] = Width + 1
    /\ heard' = [heard EXCEPT ![s] = in[s]]
    /\ call' = [call EXCEPT ![s] = "put"]
    /\ next' = [next EXCEPT ![s] = 0]
    /\ UNCHANGED <<flag, words, out, in>>

GetEnd(s) ==
    /\ call[s] = "get" /\ next[s] = Width + 1
    /\ flag' = [flag EXCEPT ![Other(s)] = 0]
    /\ heard' = [heard EXCEPT ![s] = in[s]]
    /\ call' = [call EXCEPT ![s] = "put"]
    /\ next' = [next EXCEPT ![s] = 0]
    /\ UNCHANGED <<words, out, in>>

Next == \E s \in Side :
    \/ PutStart(s) \/ PutWord(s) \/ PutEnd(s)
    \/ GetStart(s) \/ GetWord(s) \/ GetEnd(s)

\* Both processes are scheduled.
Spec == Init /\ [][Next]_vars /\ WF_vars(Next)

-----------------------------------------------------------------------------
(* Properties.                                                             *)

TypeOK ==
    /\ flag \in [Side -> {0, 1}]
    /\ words \in [Side -> Message]
    /\ call \in [Side -> {"put", "get"}]
    /\ next \in [Side -> 0 .. Width + 1]
    /\ out \in [Side -> Message]
    /\ in \in [Side -> Message]
    /\ heard \in [Side -> Message \cup {NoMessage}]

\* The two sides alternate.  Either side s puts, with no data in either array
\* and the other side waiting; or it has put, and the other side reads words
\* that stand still.
Phase(s) ==
    /\ call[Other(s)] = "get" /\ flag[Other(s)] = 0
    /\ \/ /\ call[s] = "put" /\ flag[s] = 0 /\ next[Other(s)] = 0
          /\ \A j \in 1 .. Width : j < next[s] => words[s][j] = out[s][j]
       \/ /\ call[s] = "get" /\ flag[s] = 1 /\ next[s] = 0
          /\ words[s] = out[s]
          /\ \A j \in 1 .. Width : j < next[Other(s)] => in[Other(s)][j] = out[s][j]

Alternation == \E s \in Side : Phase(s)

\* What a get returns is a message that was put, whole: never words of two.
WholeMessage == [][\A s \in Side : heard'[s] # heard[s] => heard'[s] = out[Other(s)]]_vars

\* The step-by-step put and get implement mailboxes in which a message is put
\* and got in one step each, never overwritten and never read twice.
Box == INSTANCE MailboxPair WITH
    box <- [s \in Side |-> IF flag[s] = 1 THEN words[s] ELSE NoMessage]
BoxSpec == Box!Spec

\* What of it is safety.
BoxSafety == Box!Init /\ [][Box!Next]_(Box!vars)
=============================================================================
