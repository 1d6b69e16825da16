------------------------------ MODULE BitLogic ------------------------------
(***************************************************************************)
(* The bit logic of the emulated CPU: every instruction that reads or      *)
(* writes the bits VKE, OR, NER and BIE of the status word, the            *)
(* parenthesis stack and the stack of the master control relay (MCR).      *)
(*                                                                         *)
(* The CPU evaluates a logic string one instruction at a time and keeps    *)
(* only these bits.  What it is supposed to compute is the value of the    *)
(* string as it is written; the variable text holds that string, the       *)
(* variables zones, seen and saved what the MCR, the edge bit and BIE      *)
(* stand for.  The instructions never read these four.                     *)
(*                                                                         *)
(* A program is assumed to follow the rule of AND before OR: an O without  *)
(* operand is followed by an AND string (U, UN, U( or UN( ), and that      *)
(* string is not negated or continued with a parenthesis of another kind.  *)
(* A string ends outside parentheses.                                      *)
(***************************************************************************)
EXTENDS Integers, Sequences, SequencesExt

CONSTANTS ParenMax,  \* entries the parenthesis stack may hold (7 in the code)
          McrMax,    \* entries the MCR stack may hold (8 in the code)
          MaxText,   \* longest text that is explored: operands, signs, parentheses
          MaxInZone  \* the same where the MCR is active or a zone is open

ASSUME BitLogicAssumption == {ParenMax, McrMax, MaxText, MaxInZone} \subseteq Nat

VARIABLES sw,         \* the status word: VKE, OR, NER, BIE
          parenStack, \* what U( and its kin have pushed
          mcrActive,  \* between MCRA and MCRD
          mcrStack,   \* the VKE of every open MCR(
          edge,       \* the bit an FP or FN keeps between two executions
          effect,     \* what the last instruction that uses VKE did
          fault,      \* an AwlSimError was raised
          text,       \* one string for each level of parentheses
          base,       \* the value the last string left behind
          zones,      \* the value of every open MCR zone
          seen,       \* the value of the string at the last FP or FN
          saved       \* the value of the string at the last SAVE

machine == <<sw, parenStack, mcrActive, mcrStack, edge, effect, fault>>
written == <<text, base, zones, seen, saved>>
bitVars == <<machine, written>>

NoEffect == [did |-> FALSE, ought |-> FALSE]

-----------------------------------------------------------------------------
(* The value of a string as it is written: from left to right, but an AND  *)
(* string behind an O without operand is evaluated before that O.          *)

\* The operands g + 1 to n of s are an AND string behind an O without operand.
Behind(s, g, n) == s[g].op = "sign" /\ \A i \in g + 1 .. n : s[i].op = "U"

\* The value of the first n items, from the values v of fewer, if b was there before.
Continued(b, v, s, n) ==
  IF n = 0 THEN b
  ELSE IF n = 1 THEN s[1].val
  ELSE IF \E g \in 1 .. n - 1 : Behind(s, g, n)
       THEN \E g \in 1 .. n - 1 : Behind(s, g, n) /\ (v[g - 1] \/ \A i \in g + 1 .. n : s[i].val)
       ELSE CASE s[n].op = "U" -> v[n - 1] /\ s[n].val
              [] s[n].op = "O" -> v[n - 1] \/ s[n].val
              [] s[n].op = "X" -> v[n - 1] # s[n].val
              [] OTHER -> v[n - 1]

Values(b, s) == LET v[n \in 0 .. Len(s)] == Continued(b, v, s, n) IN v
Value(s) == Values(base, s)[Len(s)]

Item(op, val) == [op |-> op, val |-> val]
Here == Last(text)

\* The string ends with an O without operand, or with the AND string behind one.
Dangling  == Here # << >> /\ Last(Here).op = "sign"
OpenGroup == \E g \in DOMAIN Here : Behind(Here, g, Len(Here))

Appended(item) == Append(Front(text), Append(Here, item))
Replaced(val)  == Append(Front(text), <<Item("U", val)>>)

\* The bound on what is explored.
Size == FoldLeft(LAMBDA n, s : n + Len(s), Len(text) - 1, text)
Room == Size < IF mcrActive \/ mcrStack # << >> THEN MaxInZone ELSE MaxText

-----------------------------------------------------------------------------
(* Operands: U, UN, O, ON, X, XN.                                          *)

AndWith(x) == [sw EXCEPT !.VKE = ((sw.NER => sw.VKE) /\ x) \/ sw.OR, !.NER = TRUE]
OrWith(x)  == [sw EXCEPT !.VKE = (sw.NER /\ sw.VKE) \/ x, !.OR = FALSE, !.NER = TRUE]
XorWith(x) == [sw EXCEPT !.VKE = (sw.NER /\ sw.VKE) # x, !.OR = FALSE, !.NER = TRUE]

Operand(status, op, val) ==
  /\ Room
  /\ Dangling => op = "U"
  /\ sw' = status
  /\ text' = Appended(Item(op, val))
  /\ effect' = NoEffect
  /\ UNCHANGED <<parenStack, mcrActive, mcrStack, edge, fault, base, zones, seen, saved>>

U(x)  == Operand(AndWith(x), "U", x)
UN(x) == Operand(AndWith(~x), "U", ~x)
O(x)  == Operand(OrWith(x), "O", x)
ON(x) == Operand(OrWith(~x), "O", ~x)
X(x)  == Operand(XorWith(x), "X", x)
XN(x) == Operand(XorWith(~x), "X", ~x)

\* O without operand: the VKE so far waits in OR for the AND string.
AndBeforeOr(s) == [s EXCEPT !.OR = s.VKE, !.NER = FALSE]

OSign ==
  /\ Here # << >> /\ ~Dangling /\ Room
  /\ sw' = AndBeforeOr(sw)
  /\ text' = Appended(Item("sign", FALSE))
  /\ effect' = NoEffect
  /\ UNCHANGED <<parenStack, mcrActive, mcrStack, edge, fault, base, zones, seen, saved>>

-----------------------------------------------------------------------------
(* Parentheses: U( UN( O( ON( X( XN( and ")".                              *)

Operator(type) == IF type \in {"UB", "UNB"} THEN "U"
                  ELSE IF type \in {"OB", "ONB"} THEN "O" ELSE "X"
Negated(type)  == type \in {"UNB", "ONB", "XNB"}

\* A raised AwlSimError stops the CPU.
Raise == fault' = TRUE /\ UNCHANGED <<sw, parenStack, mcrActive, mcrStack, edge, effect, written>>

Pushed(type) == Append(parenStack, [type |-> type, NER |-> sw.NER, VKE |-> sw.VKE, OR |-> sw.OR])

Open(type) ==
  /\ OpenGroup => Operator(type) = "U"
  /\ Room
  /\ \/ /\ Len(Pushed(type)) <= ParenMax
        /\ parenStack' = Pushed(type)
        /\ sw' = [sw EXCEPT !.OR = FALSE, !.NER = FALSE]
        /\ text' = Append(text, << >>)
        /\ effect' = NoEffect
        /\ UNCHANGED <<mcrActive, mcrStack, edge, fault, base, zones, seen, saved>>
     \/ Len(Pushed(type)) > ParenMax /\ Raise

UB == Open("UB")
UNB == Open("UNB")
OB == Open("OB")
ONB == Open("ONB")
XB == Open("XB")
XNB == Open("XNB")

\* Variant: a parenthesis loses the AND-before-OR it was opened in.
CombinedForgetful(p, vke) ==
  CASE Operator(p.type) = "U" -> (p.NER => p.VKE) /\ vke
    [] Operator(p.type) = "O" -> (p.NER /\ p.VKE) \/ vke
    [] Operator(p.type) = "X" -> (p.NER /\ p.VKE) # vke

Combined(p, vke) ==
  CASE Operator(p.type) = "U" -> ((p.NER => p.VKE) /\ vke) \/ p.OR
    [] Operator(p.type) = "O" -> (p.NER /\ p.VKE) \/ vke
    [] Operator(p.type) = "X" -> (p.NER /\ p.VKE) # vke

BEND ==
  /\ Here # << >> /\ ~Dangling
  /\ \/ /\ parenStack # << >>
        /\ LET p == Last(parenStack)
               inner == Value(Here) # Negated(p.type)
           IN /\ sw' = [sw EXCEPT !.VKE = Combined(p, sw.VKE # Negated(p.type)),
                                  !.OR = p.OR, !.NER = TRUE]
              /\ text' = Append(Front(Front(text)),
                                Append(Last(Front(text)), Item(Operator(p.type), inner)))
        /\ parenStack' = Front(parenStack)
        /\ effect' = NoEffect
        /\ UNCHANGED <<mcrActive, mcrStack, edge, fault, base, zones, seen, saved>>
     \/ parenStack = << >> /\ Raise

-----------------------------------------------------------------------------
(* Instructions within a string: NOT, FP, FN, SAVE.                        *)

NOT ==
  /\ Here # << >> /\ ~OpenGroup
  /\ sw' = [sw EXCEPT !.VKE = ~sw.VKE]
  /\ text' = Replaced(~Value(Here))
  /\ effect' = NoEffect
  /\ UNCHANGED <<parenStack, mcrActive, mcrStack, edge, fault, base, zones, seen, saved>>

Edge(result, ought) ==
  /\ Here # << >> /\ ~Dangling
  /\ edge' = sw.VKE
  /\ sw' = [sw EXCEPT !.VKE = result, !.OR = FALSE, !.NER = TRUE]
  /\ seen' = Value(Here)
  /\ text' = Replaced(ought)
  /\ effect' = NoEffect
  /\ UNCHANGED <<parenStack, mcrActive, mcrStack, fault, base, zones, saved>>

FP == Edge(sw.VKE /\ ~edge, Value(Here) /\ ~seen)
FN == Edge(~sw.VKE /\ edge, ~Value(Here) /\ seen)

SAVE ==
  /\ Here # << >> \/ Len(text) = 1
  /\ ~Dangling
  /\ sw' = [sw EXCEPT !.BIE = sw.VKE]
  /\ saved' = Value(Here)
  /\ effect' = NoEffect
  /\ UNCHANGED <<parenStack, mcrActive, mcrStack, edge, fault, text, base, zones, seen>>

-----------------------------------------------------------------------------
(* The master control relay.                                               *)

McrIsOn == mcrActive => \A i \in DOMAIN mcrStack : mcrStack[i]

\* Outside parentheses, with a complete string: where a string may end.
MayEnd == Len(text) = 1 /\ ~Dangling

Ended(status, left) ==
  /\ MayEnd
  /\ sw' = [status EXCEPT !.OR = FALSE, !.NER = FALSE]
  /\ text' = << << >> >>
  /\ base' = left

MCRB ==
  /\ MayEnd /\ Size <= MaxInZone
  /\ \/ /\ Len(mcrStack) < McrMax
        /\ Ended(sw, Value(Here))
        /\ mcrStack' = Append(mcrStack, sw.VKE)
        /\ zones' = Append(zones, Value(Here))
        /\ effect' = NoEffect
        /\ UNCHANGED <<parenStack, mcrActive, edge, fault, seen, saved>>
     \/ Len(mcrStack) = McrMax /\ Raise

BMCR ==
  /\ MayEnd
  /\ \/ /\ mcrStack # << >>
        /\ Ended(sw, Value(Here))
        /\ mcrStack' = Front(mcrStack)
        /\ zones' = Front(zones)
        /\ effect' = NoEffect
        /\ UNCHANGED <<parenStack, mcrActive, edge, fault, seen, saved>>
     \/ mcrStack = << >> /\ Raise

SetMcrActive(active) ==
  /\ Size <= MaxInZone
  /\ mcrActive' = active
  /\ effect' = NoEffect
  /\ UNCHANGED <<sw, parenStack, mcrStack, edge, fault, written>>

MCRA == SetMcrActive(TRUE)
MCRD == SetMcrActive(FALSE)

\* What an open zone means for an instruction that writes: nothing is written
\* when one of the enclosing zones was entered with 0.
ZonesAllow == mcrActive => \A i \in DOMAIN zones : zones[i]

-----------------------------------------------------------------------------
(* Instructions that use the value and end the string.                     *)

Use(did, ought, status, left) ==
  /\ Ended(status, left)
  /\ effect' = [did |-> did, ought |-> ought]
  /\ UNCHANGED <<parenStack, mcrActive, mcrStack, edge, fault, zones, seen, saved>>

\* "=" writes 0 or VKE.
Assign == Use(McrIsOn /\ sw.VKE, ZonesAllow /\ Value(Here), sw, Value(Here))
\* S and R write when VKE is 1.
S == Use(sw.VKE /\ McrIsOn, ZonesAllow /\ Value(Here), sw, Value(Here))
R == Use(sw.VKE /\ McrIsOn, ZonesAllow /\ Value(Here), sw, Value(Here))

\* The conditional jumps leave 1 behind.
Jump(did, ought, status) == Use(did, ought, [status EXCEPT !.VKE = TRUE], TRUE)
SPB  == Jump(sw.VKE, Value(Here), sw)
SPBN == Jump(~sw.VKE, ~Value(Here), sw)
\* BEB ends the block or goes on, with VKE = 1 in either case.
BEB  == Jump(sw.VKE, Value(Here), sw)

JumpSaving(did, ought) ==
  /\ Ended([sw EXCEPT !.BIE = sw.VKE, !.VKE = TRUE], TRUE)
  /\ effect' = [did |-> did, ought |-> ought]
  /\ saved' = Value(Here)
  /\ UNCHANGED <<parenStack, mcrActive, mcrStack, edge, fault, zones, seen>>

SPBB  == JumpSaving(sw.VKE, Value(Here))
SPBNB == JumpSaving(~sw.VKE, ~Value(Here))

\* SPBI and SPBIN look at BIE and leave VKE alone.
SPBI  == Use(sw.BIE, saved, sw, Value(Here))
SPBIN == Use(~sw.BIE, ~saved, sw, Value(Here))

SET == Use(FALSE, FALSE, [sw EXCEPT !.VKE = TRUE], TRUE)
CLR == Use(FALSE, FALSE, [sw EXCEPT !.VKE = FALSE], FALSE)

-----------------------------------------------------------------------------
BitInit ==
  /\ sw = [VKE |-> FALSE, OR |-> FALSE, NER |-> FALSE, BIE |-> FALSE]
  /\ parenStack = << >> /\ mcrActive = FALSE /\ mcrStack = << >>
  /\ edge \in BOOLEAN /\ seen = edge
  /\ effect = NoEffect /\ fault = FALSE
  /\ text = << << >> >> /\ base = FALSE /\ zones = << >> /\ saved = FALSE

BitNext ==
  /\ ~fault
  /\ \/ \E x \in BOOLEAN : U(x) \/ UN(x) \/ O(x) \/ ON(x) \/ X(x) \/ XN(x)
     \/ OSign \/ UB \/ UNB \/ OB \/ ONB \/ XB \/ XNB \/ BEND
     \/ NOT \/ FP \/ FN \/ SAVE
     \/ MCRB \/ BMCR \/ MCRA \/ MCRD
     \/ Assign \/ S \/ R \/ SPB \/ SPBN \/ BEB \/ SPBB \/ SPBNB \/ SPBI \/ SPBIN
     \/ SET \/ CLR

BitSpec == BitInit /\ [][BitNext]_bitVars

-----------------------------------------------------------------------------
\* VKE and every entry of the parenthesis stack are values of the string.
VkeIsValue ==
  /\ (Here # << >> \/ parenStack = << >>) => sw.VKE = Value(Here)
  /\ \A k \in DOMAIN parenStack : text[k] # << >> => parenStack[k].VKE = Value(text[k])
  /\ sw.BIE = saved /\ edge = seen

(* VKE is the value of the string as it is written so far, whatever nesting *)
(* of parentheses and AND-before-OR groups it has, and an assignment, a     *)
(* set, a reset, a jump or a conditional end does what the string and the   *)
(* enclosing MCR zones say: a string never mixes with what an earlier one   *)
(* left in OR and NER, and one zone entered with 0 is enough to keep the    *)
(* instructions inside it from writing a 1.                                 *)
EffectAsWritten == VkeIsValue /\ effect.did = effect.ought
=============================================================================
