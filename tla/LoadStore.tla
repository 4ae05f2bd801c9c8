------------------------------- MODULE LoadStore -------------------------------
(***************************************************************************)
(* arm_load_store.c: the loads and stores of a single register             *)
(* (arm_load_store), and those of several, one turn of the loop of         *)
(* arm_load_store_multiple at a time.  Nothing is undone when an access    *)
(* fails: what has been loaded, stored or moved before stays.  Addresses   *)
(* count words, and a byte or a half word is the low part of one: accesses *)
(* that are not aligned, cross the end of the memory or depend on the      *)
(* order of the bytes are those of Memory.                                 *)
(***************************************************************************)
EXTENDS Integers

CONSTANTS
  Pc,           \* the number of the last register, the pc: 15
  Size,         \* the number of words of memory
  Modulus,      \* the number of words a register can name
  Part,         \* the number of values of a byte, or of a half word
  Instructions  \* the instructions that are tried

Block == INSTANCE Transfers
           WITH regs <- << >>, mem <- << >>, ins <- << >>, answer <- "NONE"
Registers == 0 .. Pc
Word == 0 .. Modulus - 1

ASSUME PcAssumption == Pc \in Nat \ {0}

\* A word is made of whole parts, and not every word names one of the memory.
ASSUME MemoryAssumption ==
  /\ Size \in Nat /\ Modulus \in Nat /\ Size < Modulus
  /\ Part \in 1 .. Modulus /\ Modulus % Part = 0
ASSUME TriedAssumption == Instructions \subseteq Block!Multiples \cup Block!Singles

VARIABLES
  regs,     \* the registers of the current mode
  mem,      \* the words of the memory
  answer,   \* what the last instruction returned
  loop,     \* whether an instruction is under way
  ins,      \* that instruction
  adresse, reg_num, value,  \* the local variables
  before    \* the registers and the memory it has found

vars == <<regs, mem, answer, loop, ins, adresse, reg_num, value, before>>
locals == <<loop, ins, adresse, reg_num, value, before>>

NoInstruction == [kind |-> "none"]

\* The local variable value, before the first assignment to it, holds anything.
Unassigned == -1

NotBefore == << >>

Init ==
  /\ regs \in [Registers -> Word]
  /\ mem \in [0 .. Size - 1 -> Word]
  /\ answer = "NONE"
  /\ loop = FALSE /\ ins = NoInstruction
  /\ adresse = 0 /\ reg_num = 0 /\ value = 0
  /\ before = NotBefore

-----------------------------------------------------------------------------
arm_read_register(r) == IF r = Pc THEN (regs[Pc] + 1) % Modulus ELSE regs[r]

\* Mutant: an address that does not wrap.
Next4Signed(address, u) == address + IF u THEN 1 ELSE -1

\* u ? 4 : -4
Next4(address, u) == (address + IF u THEN 1 ELSE -1) % Modulus

\* cond_not_respect
Skip ==
  /\ ~loop
  /\ answer' = "NO_RESULT"
  /\ UNCHANGED <<regs, mem, locals>>

\* The tests that come before anything is moved: those of the list of a
\* transfer of several registers, the bit 4 of a register offset, and a half
\* word at the pc.
Refused(i) ==
  CASE i.kind = "multiple" -> i.list = {} \/ (i.rn \in i.list /\ i.w) \/ i.s
    [] i.kind = "half"     -> i.rn = Pc
    [] OTHER               -> ~i.coded

Refuse(i) ==
  /\ ~loop
  /\ Refused(i)
  /\ answer' = "UNDEFINED_INSTRUCTION"
  /\ UNCHANGED <<regs, mem, locals>>

\* The address of a single access, moved first or not.
Moved(i, address) ==
  (address + IF i.u THEN i.offset ELSE -i.offset) % Modulus

FirstAddress(i) ==
  IF ~i.p THEN arm_read_register(i.rn)
  ELSE IF i.kind = "multiple" THEN Next4(arm_read_register(i.rn), i.u)
  ELSE Moved(i, arm_read_register(i.rn))

\* Up to the loop, or to the access.
Begin(i) ==
  /\ ~loop
  /\ ~Refused(i)
  /\ loop' = TRUE
  /\ ins' = i
  /\ adresse' = FirstAddress(i)
  /\ reg_num' = 0
  /\ value' = IF i.kind = "word" /\ i.rn = Pc
              THEN (arm_read_register(Pc) + 2) % Modulus ELSE Unassigned
  /\ before' = <<regs, mem>>
  /\ answer' = "none"
  /\ UNCHANGED <<regs, mem>>

Return(a) ==
  /\ answer' = a
  /\ loop' = FALSE /\ ins' = NoInstruction
  /\ adresse' = 0 /\ reg_num' = 0 /\ value' = 0
  /\ before' = NotBefore

-----------------------------------------------------------------------------
(* arm_load_store_multiple *)

\* The end of a turn without an error.
Advance ==
  /\ adresse' = Next4(adresse, ins.u)
  /\ reg_num' = reg_num + 1
  /\ UNCHANGED <<answer, loop, ins, before>>

Pass ==
  /\ ins.kind = "multiple" /\ reg_num < Pc
  /\ reg_num \notin ins.list
  /\ reg_num' = reg_num + 1
  /\ UNCHANGED <<regs, mem, answer, loop, ins, adresse, value, before>>

Turn == ins.kind = "multiple" /\ reg_num < Pc /\ reg_num \in ins.list

\* The register is written before the result of the access is looked at.
Load ==
  /\ Turn /\ ins.l
  /\ IF adresse < Size
     THEN /\ value' = mem[adresse]
          /\ regs' = [regs EXCEPT ![reg_num] = mem[adresse]]
          /\ Advance
     ELSE /\ \E v \in IF value = Unassigned THEN Word ELSE {value} :
               regs' = [regs EXCEPT ![reg_num] = v]
          /\ Return("DATA_ABORT")
  /\ UNCHANGED mem

Store ==
  /\ Turn /\ ~ins.l
  /\ IF adresse < Size
     THEN /\ value' = regs[reg_num]
          /\ mem' = [mem EXCEPT ![adresse] = regs[reg_num]]
          /\ Advance
     ELSE Return("DATA_ABORT") /\ UNCHANGED mem
  /\ UNCHANGED regs

\* Mutant: the base is written back before the pc is looked for.
FinishEarly ==
  /\ ins.kind = "multiple" /\ reg_num = Pc
  /\ regs' = IF ins.w THEN [regs EXCEPT ![ins.rn] = adresse] ELSE regs
  /\ IF Pc \in ins.list
     THEN Return("UNDEFINED_INSTRUCTION")
     ELSE Return("NONE")
  /\ UNCHANGED mem

\* What follows the loop.
Finish ==
  /\ ins.kind = "multiple" /\ reg_num = Pc
  /\ IF Pc \in ins.list
     THEN Return("UNDEFINED_INSTRUCTION") /\ UNCHANGED regs
     ELSE /\ Return("NONE")
          /\ regs' = IF ins.w THEN [regs EXCEPT ![ins.rn] = adresse] ELSE regs
  /\ UNCHANGED mem

-----------------------------------------------------------------------------
(* arm_load_store *)

\* A register that is moved first is written before the access.
Indexed == IF ins.p /\ ins.w THEN [regs EXCEPT ![ins.rn] = adresse] ELSE regs

\* The conversions to uint8_t and uint16_t, and the values of those types, any
\* of which a local variable that is not assigned may hold.
Low(v) == IF ins.kind = "word" THEN v ELSE v % Part
Anything == { Low(v) : v \in Word }
Held == IF value = Unassigned THEN Anything ELSE {value}

Single == ins.kind \in {"word", "byte", "half"}

\* Mutant: the base is moved before the bit W is looked at.
PostIndexAll(r) ==
  IF ins.p THEN Return("NONE") /\ regs' = r
  ELSE /\ Return(IF ins.w THEN "UNDEFINED_INSTRUCTION" ELSE "NONE")
       /\ regs' = [r EXCEPT ![ins.rn] = Moved(ins, adresse)]

\* What follows an access that has left these registers.
PostIndex(r) ==
  IF ins.p THEN Return("NONE") /\ regs' = r
  ELSE IF ins.w THEN Return("UNDEFINED_INSTRUCTION") /\ regs' = r
  ELSE Return("NONE") /\ regs' = [r EXCEPT ![ins.rn] = Moved(ins, adresse)]

\* Bits S and H that are not those of STRH or LDRH.
HalfUndefined ==
  /\ Single /\ ~ins.coded
  /\ Return("UNDEFINED_INSTRUCTION")
  /\ regs' = Indexed
  /\ UNCHANGED mem

\* The register is written before the result is looked at; with the pc for base
\* no access is made and the result is not assigned.
SingleLoad ==
  /\ Single /\ ins.coded /\ ins.l
  /\ \E v \in IF ins.rn # Pc /\ adresse < Size THEN { Low(mem[adresse]) } ELSE Held,
        result \in IF ins.rn = Pc THEN {0, -1}
                  ELSE { IF adresse < Size THEN 0 ELSE -1 } :
       LET loaded == [Indexed EXCEPT ![ins.rd] = v]
       IN  IF result = -1 THEN Return("DATA_ABORT") /\ regs' = loaded
           ELSE PostIndex(loaded)
  /\ UNCHANGED mem

\* The register is read after a base that is moved first is written.
SingleStore ==
  /\ Single /\ ins.coded /\ ~ins.l
  /\ IF adresse >= Size
     THEN Return("DATA_ABORT") /\ regs' = Indexed /\ UNCHANGED mem
     ELSE /\ \E v \in IF ins.rn = Pc THEN Held
                     ELSE { Low(IF ins.rd = Pc THEN (Indexed[Pc] + 1) % Modulus
                                ELSE Indexed[ins.rd]) } :
               mem' = [mem EXCEPT ![adresse] = @ - Low(@) + v]
          /\ PostIndex(Indexed)

Next ==
  \/ Skip
  \/ \E i \in Instructions :
       Refuse(i) \/ Begin(i)
  \/ Pass \/ Load \/ Store \/ Finish
  \/ HalfUndefined \/ SingleLoad \/ SingleStore

Spec == Init /\ [][Next]_vars

-----------------------------------------------------------------------------
(* Properties *)

TypeOK ==
  /\ regs \in [Registers -> Word]
  /\ mem \in [0 .. Size - 1 -> Word]
  /\ adresse \in Word /\ value \in Word \cup {Unassigned} /\ reg_num \in Registers

\* From outside, a transfer of several registers is one of a block: the
\* registers of the list in increasing order at successive words, up to the
\* first word that is not in memory, the base written back only when nothing
\* went wrong, and one register at most, the one no word was found for, left
\* with a value of nowhere.  And one of a single register gives its register
\* and its base the values of what comes last, and touches nothing else.
Outside ==
  INSTANCE Transfers
    WITH regs <- IF loop THEN before[1] ELSE regs,
         mem  <- IF loop THEN before[2] ELSE mem
RefinesTransfers == Outside!BSpec
===============================================================================
