------------------------------- MODULE Transfers -------------------------------
(***************************************************************************)
(* What a load or store amounts to, from outside.  One of several          *)
(* registers: the registers of its list, in increasing order, at           *)
(* successive words of memory, up to the first word that is not there.     *)
(* One of a single register: who of the access and the moves of the base   *)
(* has the last word.  Addresses count words, and a byte or a half word is *)
(* the low part of one.                                                    *)
(***************************************************************************)
EXTENDS Integers, FiniteSets

CONSTANTS
  Pc,           \* the number of the last register, the pc: 15
  Size,         \* the number of words of memory
  Modulus,      \* the number of words a register can name
  Part,         \* the number of values of a byte, or of a half word
  Instructions  \* the instructions that are tried

Registers == 0 .. Pc
Word == 0 .. Modulus - 1
Cells == 0 .. Size - 1

Multiples ==
  [kind : {"multiple"}, l : BOOLEAN, p : BOOLEAN, u : BOOLEAN, w : BOOLEAN,
   s : BOOLEAN, rn : Registers, list : SUBSET Registers]

\* coded: no bit 4 with a register offset, the bits S and H of STRH or LDRH.
Singles ==
  [kind : {"word", "byte", "half"}, l : BOOLEAN, p : BOOLEAN, u : BOOLEAN,
   w : BOOLEAN, coded : BOOLEAN, rn : Registers, rd : Registers, offset : Word]

NoInstruction == [kind |-> "none"]

VARIABLES
  regs,   \* the registers of the current mode
  mem,    \* the words of the memory
  ins,    \* the instruction under way, or NoInstruction
  answer  \* what the last instruction returned, "none" while one is under way

bvars == <<regs, mem, ins, answer>>

\* A read of the pc gives the word after.
ReadRegister(r) == IF r = Pc THEN (regs[Pc] + 1) % Modulus ELSE regs[r]

Moved(address, u, n) == (address + IF u THEN n ELSE -n) % Modulus

\* Refused before anything is moved: an empty list, the bit S, or a base that
\* is both listed and written back; a code that is none, and a half word at the
\* pc.
Undefined(i) ==
  CASE i.kind = "multiple" -> i.list = {} \/ i.s \/ (i.rn \in i.list /\ i.w)
    [] i.kind = "half"     -> i.rn = Pc
    [] OTHER               -> ~i.coded

-----------------------------------------------------------------------------
(* Several registers *)

Listed(i) == i.list \ {Pc}

Rank(i, r) == Cardinality({ q \in Listed(i) : q < r })

AddressOf(i, r) ==
  Moved(ReadRegister(i.rn), i.u, Rank(i, r) + IF i.p THEN 1 ELSE 0)

\* The registers whose word, and those before, are in memory.
Reached(i) ==
  { r \in Listed(i) : \A q \in Listed(i) : q <= r => AddressOf(i, q) < Size }

Aborts(i) == Reached(i) # Listed(i)

\* The register the transfer stops at.
Failing(i, r) ==
  /\ r \in Listed(i) \ Reached(i)
  /\ \A q \in Listed(i) : q < r => q \in Reached(i)

Answer(i) ==
  IF Aborts(i) THEN "DATA_ABORT"
  ELSE IF Pc \in i.list THEN "UNDEFINED_INSTRUCTION"
  ELSE "NONE"

\* The base after the transfer: past the last word of the block, and with it
\* past the word an instruction that moves first would move to.
Final(i) ==
  Moved(ReadRegister(i.rn), i.u,
        Cardinality(i.list) + IF i.p THEN 1 ELSE 0)

\* The base is written back by an instruction that does nothing wrong.
WrittenBack(i, r) == r = i.rn /\ i.w /\ Answer(i) = "NONE"

-----------------------------------------------------------------------------
(* A single register *)

Low(v) == v % Part
Sized(kind, v) == IF kind = "word" THEN v ELSE Low(v)
Placed(kind, old, v) == IF kind = "word" THEN v ELSE old - Low(old) + Low(v)

Anything(kind) == { Sized(kind, v) : v \in Word }

Base(i) == ReadRegister(i.rn)
BaseMoved(i) == Moved(Base(i), i.u, i.offset)
Address(i) == IF i.p THEN BaseMoved(i) ELSE Base(i)

MovesFirst(i) == i.p /\ i.w
MovesLast(i)  == ~i.p /\ ~i.w

\* At the pc a load makes no access, and its result is not assigned.
Failures(i) == IF i.l /\ i.rn = Pc THEN BOOLEAN ELSE { Address(i) >= Size }

\* A base moved after the access with the bit W is found undefined after it.
SingleAnswer(i, fails) ==
  IF ~i.coded THEN "UNDEFINED_INSTRUCTION"
  ELSE IF fails THEN "DATA_ABORT"
  ELSE IF ~i.p /\ i.w THEN "UNDEFINED_INSTRUCTION"
  ELSE "NONE"

\* At the pc the value is not that of the memory or the register, but the pc
\* moved on for a word, and anything for a byte.
AtPc(i) == IF i.kind = "word" THEN { (Base(i) + 2) % Modulus } ELSE Anything(i.kind)

LoadedValues(i) ==
  IF i.rn = Pc THEN AtPc(i)
  ELSE IF Address(i) < Size THEN { Sized(i.kind, mem[Address(i)]) }
  ELSE Anything(i.kind)

\* A base that is stored is stored as it has moved.
StoredValues(i) ==
  IF i.rn = Pc THEN AtPc(i)
  ELSE IF i.rd = i.rn /\ MovesFirst(i) THEN { BaseMoved(i) }
  ELSE { ReadRegister(i.rd) }

-----------------------------------------------------------------------------
BInit ==
  /\ regs \in [Registers -> Word]
  /\ mem \in [Cells -> Word]
  /\ ins = NoInstruction
  /\ answer = "NONE"

\* The condition fails, or the instruction is not defined.
BRefuse ==
  /\ ins = NoInstruction
  /\ answer' \in {"NO_RESULT", "UNDEFINED_INSTRUCTION"}
  /\ UNCHANGED <<regs, mem, ins>>

BAsk ==
  /\ ins = NoInstruction
  /\ ins' \in Instructions
  /\ ~Undefined(ins')
  /\ answer' = "none"
  /\ UNCHANGED <<regs, mem>>

Done ==
  /\ ins.kind = "multiple"
  /\ ins' = NoInstruction
  /\ answer' = Answer(ins)

\* The register a load stops at gets a value the memory has not given.
BLoad(junk) ==
  /\ Done /\ ins.l
  /\ regs' = [r \in Registers |->
                IF r \in Reached(ins) THEN mem[AddressOf(ins, r)]
                ELSE IF Failing(ins, r) THEN junk
                ELSE IF WrittenBack(ins, r) THEN Final(ins)
                ELSE regs[r]]
  /\ UNCHANGED mem

BStore ==
  /\ Done /\ ~ins.l
  /\ mem' = [a \in Cells |->
               IF \E r \in Reached(ins) : AddressOf(ins, r) = a
               THEN regs[CHOOSE r \in Reached(ins) : AddressOf(ins, r) = a]
               ELSE mem[a]]
  /\ regs' = [r \in Registers |->
                IF WrittenBack(ins, r) THEN Final(ins) ELSE regs[r]]

\* A base that moves last wins over what is loaded, what is loaded over a base
\* that moves first; and an answer other than NONE leaves a base that has moved
\* where it is.
BSingle(fails, value) ==
  /\ ins' = NoInstruction
  /\ answer' = SingleAnswer(ins, fails)
  /\ regs' = [r \in Registers |->
                IF r = ins.rn /\ MovesLast(ins) /\ answer' = "NONE"
                  THEN BaseMoved(ins)
                ELSE IF r = ins.rd /\ ins.l /\ ins.coded THEN value
                ELSE IF r = ins.rn /\ MovesFirst(ins) THEN BaseMoved(ins)
                ELSE regs[r]]
  /\ mem' = [a \in Cells |->
               IF a = Address(ins) /\ ~ins.l /\ ins.coded
               THEN Placed(ins.kind, mem[a], value) ELSE mem[a]]

BNext ==
  \/ BRefuse
  \/ BAsk
  \/ BStore
  \/ \E junk \in Word : BLoad(junk)
  \/ /\ ins.kind \in {"word", "byte", "half"}
     /\ \E fails \in Failures(ins),
           value \in IF ins.l THEN LoadedValues(ins) ELSE StoredValues(ins) :
          BSingle(fails, value)

BSpec == BInit /\ [][BNext]_bvars
===============================================================================
