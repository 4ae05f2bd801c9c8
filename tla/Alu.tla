--------------------------------- MODULE Alu ---------------------------------
(***************************************************************************)
(* The arithmetic of the data processing instructions: the shifter         *)
(* (Effectuer_Decalage), the sixteen operations of Effectuer_Operation,    *)
(* the flags Update_Flags computes from their result, and the conditions   *)
(* cond_not_respect reads in the flags.  Words have Width bits where the   *)
(* code has 32, and the intermediate result temp has twice as many where   *)
(* the code has a uint64_t.                                                *)
(***************************************************************************)
EXTENDS Integers, FiniteSetsExt

CONSTANTS
  Width,   \* the bits of a word
  Modulus  \* the number of words

\* 1 << n
PowerOfTwo[n \in 0 .. Width] == IF n = 0 THEN 1 ELSE 2 * PowerOfTwo[n - 1]

ASSUME ModulusAssumption ==
  /\ Width \in Nat \ {0} /\ Modulus \in Nat \ {0, 1}
  /\ Modulus = PowerOfTwo[Width]

Word == 0 .. Modulus - 1

Operations == { "AND", "EOR", "SUB", "RSB", "ADD", "ADC", "SBC", "RSC",
                "TST", "TEQ", "CMP", "CMN", "ORR", "MOV", "BIC", "MVN" }

\* The operations that only set the flags: they do it whatever the bit S.
Tests == {"TST", "TEQ", "CMP", "CMN"}

Flags == [N : {0, 1}, Z : {0, 1}, C : {0, 1}, V : {0, 1}]
NoFlags == [N |-> 0, Z |-> 0, C |-> 0, V |-> 0]

Truth(P) == IF P THEN 1 ELSE 0

-----------------------------------------------------------------------------
(* The bits of a word *)

Bits(x) == { i \in 0 .. Width - 1 : (x \div PowerOfTwo[i]) % 2 = 1 }
ValueOf(S) == MapThenSumSet(LAMBDA i : PowerOfTwo[i], S)

And(x, y) == ValueOf(Bits(x) \cap Bits(y))
Or(x, y)  == ValueOf(Bits(x) \cup Bits(y))
Xor(x, y) == ValueOf((Bits(x) \cup Bits(y)) \ (Bits(x) \cap Bits(y)))

Negative(x) == (x \div (Modulus \div 2)) % 2 = 1

-----------------------------------------------------------------------------
(* The shifter *)

\* The shift that the bits 6 and 5 of an instruction name.
Determiner_Decalage(bit6, bit5) ==
  << "LSL", "LSR", "ASR", "ROR" >>[2 * bit6 + bit5 + 1]

ShiftedUp(x, n)   == (x * PowerOfTwo[n]) % Modulus
ShiftedDown(x, n) == x \div PowerOfTwo[n]

\* x << (32 - n).  C leaves a shift by the whole width undefined: the processor
\* shifts by nothing, the compiler that knows the amount gives zero.
ShiftedOver(x, n) ==
  IF n = 0 THEN {x, 0} ELSE {ShiftedUp(x, Width - n)}

\* Mutant: the mask of ASR begins one bit too high.
Effectuer_Decalage_Short(shift, n, x) ==
  CASE shift = "LSL" -> {ShiftedUp(x, n)}
    [] shift = "ASR" /\ Negative(x) ->
         { Or(ShiftedDown(x, n), ShiftedUp(mask, 1)) :
             mask \in ShiftedOver(Modulus - 1, n) }
    [] shift = "ROR" ->
         { Or(ShiftedDown(x, n), y) : y \in ShiftedOver(x, n) }
    [] OTHER -> {ShiftedDown(x, n)}

\* The words a shift by less than the width may give.
Effectuer_Decalage(shift, n, x) ==
  CASE shift = "LSL" -> {ShiftedUp(x, n)}
    [] shift = "ASR" /\ Negative(x) ->
         { Or(ShiftedDown(x, n), mask) : mask \in ShiftedOver(Modulus - 1, n) }
    [] shift = "ROR" ->
         { Or(ShiftedDown(x, n), y) : y \in ShiftedOver(x, n) }
    [] OTHER -> {ShiftedDown(x, n)}

-----------------------------------------------------------------------------
(* The operations *)

\* uint64_t arithmetic: what is below zero wraps to the top of temp.
Wrapped(x) == x % (Modulus * Modulus)

\* uint32_t
Truncated(temp) == temp % Modulus

\* Mutant: ADC takes the carry for a borrow.
TempBorrow(op, a, b, c) ==
  CASE op \in {"ADD", "CMN"} -> Wrapped(a + b)
    [] op = "ADC"            -> Wrapped(a + b + 1 - c)
    [] op \in {"SUB", "CMP"} -> Wrapped(a - b)
    [] OTHER                 -> a

\* The temp of Effectuer_Operation, of the first operand, the second, and
\* the flag C.
TempOf(op, a, b, c) ==
  CASE op \in {"AND", "TST"} -> And(a, b)
    [] op \in {"EOR", "TEQ"} -> Xor(a, b)
    [] op \in {"SUB", "CMP"} -> Wrapped(a - b)
    [] op = "RSB"            -> Wrapped(b - a)
    [] op \in {"ADD", "CMN"} -> Wrapped(a + b)
    [] op = "ADC"            -> Wrapped(a + b + c)
    [] op = "SBC"            -> Wrapped(a - b + c - 1)
    [] op = "RSC"            -> Wrapped(b - a + c - 1)
    [] op = "ORR"            -> Or(a, b)
    [] op = "MOV"            -> b
    [] op = "BIC"            -> ValueOf(Bits(a) \ Bits(b))
    [] OTHER                 -> Wrapped(-1 - b)

\* Mutant: the two branches of Z exchanged.
FlagsExchanged(temp) ==
  [ N |-> Truth(Negative(temp)), Z |-> Truth(temp # 0),
    C |-> Truth((temp \div Modulus) % 2 = 1),
    V |-> Truth(temp # Truncated(temp)) ]

\* Update_Flags: Z from the whole of temp, N and C from the top bit of the
\* word and the bit above it, V from what does not fit in a word.
FlagsOf(temp) ==
  [ N |-> Truth(Negative(temp)), Z |-> Truth(temp = 0),
    C |-> Truth((temp \div Modulus) % 2 = 1),
    V |-> Truth(temp # Truncated(temp)) ]

-----------------------------------------------------------------------------
(* The conditions *)

Conditions == 0 .. 15

\* Mutant: LS written with the test of HI.
ConditionFailsBoth(cond, f) ==
  CASE cond \in {8, 9} -> f.C # 1 \/ f.Z # 0
    [] OTHER          -> cond % 2 = 1

\* The tests of cond_not_respect as they are written.  Case 13 assigns flagZ
\* (flagZ =! 1 stores 0), so its first operand is false.
ConditionFails(cond, f) ==
  CASE cond = 0  -> f.Z = 0
    [] cond = 1  -> f.Z = 1
    [] cond = 2  -> f.C = 0
    [] cond = 3  -> f.C = 1
    [] cond = 4  -> f.N = 0
    [] cond = 5  -> f.N = 0
    [] cond = 6  -> f.V = 0
    [] cond = 7  -> f.V = 1
    [] cond = 8  -> f.C # 1 \/ f.Z # 0
    [] cond = 9  -> f.C # 0 /\ f.Z # 1
    [] cond = 10 -> f.N # f.V
    [] cond = 11 -> f.N = f.V
    [] cond = 12 -> f.Z # 0 \/ f.N # f.V
    [] OTHER     -> FALSE

cond_not_respect(cond, f) ==
  IF cond = 15 THEN 2 ELSE Truth(ConditionFails(cond, f))

-----------------------------------------------------------------------------
\* What the shifter is for, bit by bit: the encodings of LSL and LSR move the
\* bits and bring zeros, that of ROR brings back what it moves out, that of ASR
\* repeats the top bit, by any amount from one to all the bits but one.
ShiftsAsBits ==
  \A n \in 1 .. Width - 1, x \in Word :
    LET up   == { i + n : i \in Bits(x) }
        down == { i - n : i \in Bits(x) }
        Gives(bit6, bit5, y) ==
          y \in Effectuer_Decalage(Determiner_Decalage(bit6, bit5), n, x)
    IN  \A y \in Word :
          /\ Gives(0, 0, y) <=> Bits(y) = up \cap (0 .. Width - 1)
          /\ Gives(0, 1, y) <=> Bits(y) = down \cap Nat
          /\ Gives(1, 1, y) <=> Bits(y) = { i % Width : i \in down }
          /\ Gives(1, 0, y)
               <=> \A i \in 0 .. Width - 1 :
                     i \in Bits(y)
                       <=> (IF i + n < Width THEN i + n ELSE Width - 1) \in Bits(x)

\* How the logical operations fit together, whatever the flag C: TEQ is zero of
\* equal words only, AND and BIC share out the bits of a word, ORR is EOR and
\* AND.
LogicAsBits(c) ==
  \A a, b \in Word :
    /\ TempOf("TEQ", a, b, c) = 0 <=> a = b
    /\ TempOf("AND", a, b, c) + TempOf("BIC", a, b, c) = a
    /\ TempOf("ORR", a, b, c) = TempOf("EOR", a, b, c) + TempOf("AND", a, b, c)
===============================================================================
