---------------------------- MODULE ArmInstruction ----------------------------
(***************************************************************************)
(* arm_step and arm_execute_instruction (arm_instruction.c): the choice of *)
(* a handler from the bits of an instruction, the handlers of              *)
(* arm_data_processing.c and arm_branch_other.c, and the exception that    *)
(* what they return raises.                                                *)
(*                                                                         *)
(* The status registers and the pc are kept; the other registers and the   *)
(* memory belong to RegisterFile, LoadStore and Memory, and hold anything  *)
(* here.  So does the word that is fetched: the result of arm_fetch is not *)
(* looked at, and outside the memory whatever ins holds is executed.       *)
(* Addresses count words.                                                  *)
(***************************************************************************)
EXTENDS Alu

CONSTANTS
  Modes,         \* the modes the five bits of the cpsr are read as
  Values,        \* the contents of registers that are tried
  Statuses,      \* the statuses MSR, gdb and malloc give that are tried
  Instructions   \* the instructions that are tried

UserModes == {"USR", "SYS"}
BankedModes == {"SVC", "ABT", "UND", "IRQ", "FIQ"}
RealModes == UserModes \cup BankedModes

\* An instruction, its registers and immediates aside: its condition, bits 27
\* to 25, which of the others are set, and whether its destination is the pc.
Instruction ==
  [cond : Conditions, group : 0 .. 7,
   bits : SUBSET {4, 5, 6, 7, 16, 19, 20, 21, 22, 23, 24}, rd : {"pc", "other"}]

\* A status: the flags, the mode, and the bit T.
Status == [flags : Flags, mode : Modes, state : {0, 1}]

\* "invalid" stands for the mode bits that are none of the seven modes.
ASSUME ModesAssumption ==
  {"SVC", "invalid"} \subseteq Modes /\ Modes \subseteq RealModes \cup {"invalid"}
ASSUME TriedAssumption ==
  /\ Values \subseteq Word
  /\ Statuses \subseteq Status /\ Statuses # {}
  /\ Instructions \subseteq Instruction

VARIABLES
  cpsr,    \* the current status
  spsr,    \* the status each mode has saved
  pc,      \* the address of the next instruction
  answer,  \* what the last step returned
  setter   \* the last ADDS or CMP, if the flags are still those it has set

vars == <<cpsr, spsr, pc, answer, setter>>

NoSetter == [op |-> "none", a |-> 0, b |-> 0]
Setter == [op : {"ADD", "CMP"}, a : Word, b : Word] \cup {NoSetter}

\* 0x1d3, and a word of zeros, whose mode bits are none of the modes.
ResetStatus == [flags |-> NoFlags, mode |-> "SVC", state |-> 0]
NoStatus == [flags |-> NoFlags, mode |-> "invalid", state |-> 0]

Init ==
  /\ cpsr = ResetStatus
  /\ spsr \in [BankedModes \cap Modes -> Statuses]
  /\ pc = 0
  /\ answer = "RESET"
  /\ setter = NoSetter

-----------------------------------------------------------------------------
(* arm_execute_instruction *)

Has(i, set, clear) == set \subseteq i.bits /\ clear \cap i.bits = {}

\* The handler an instruction gets.
HandlerOf(i) ==
  CASE i.group = 0 -> IF Has(i, {24}, {23, 20}) THEN "miscellaneous"
                      ELSE IF Has(i, {4, 7}, {}) THEN "load_store"
                      ELSE "data_processing"
    [] i.group = 1 -> IF Has(i, {24}, {23, 21, 20}) THEN "undefined"
                      ELSE "data_processing"
    [] i.group = 2 -> "load_store"
    [] i.group = 3 -> IF Has(i, (20 .. 24) \cup (4 .. 7), {}) THEN "undefined"
                      ELSE "load_store"
    [] i.group = 4 -> "load_store"
    [] i.group = 5 -> "branch"
    [] i.group = 6 -> "undefined"
    [] OTHER       -> IF Has(i, {24}, {}) THEN "swi" ELSE "undefined"

\* Mutant: a pc that does not wrap.
FetchedFurther == pc + 1

\* The pc once arm_fetch has moved it.
Fetched == (pc + 1) % Modulus

\* arm_step, of a handler that returns result and leaves this status and pc;
\* arm_exception only does something about RESET here.
Return(result, status, next) ==
  /\ answer' = result
  /\ IF result = "RESET" THEN cpsr' = ResetStatus /\ pc' = 0
     ELSE cpsr' = status /\ pc' = next

Fails(i) == cond_not_respect(i.cond, cpsr.flags) # 0

registers_mode_has_spsr(mode) == mode \notin UserModes
registers_read_spsr(mode) == IF mode \in BankedModes THEN spsr[mode] ELSE NoStatus

-----------------------------------------------------------------------------
(* arm_data_processing.c *)

OperationOf(i) ==
  LET opcode == 8 * Truth(24 \in i.bits) + 4 * Truth(23 \in i.bits)
                  + 2 * Truth(22 \in i.bits) + Truth(21 \in i.bits)
  IN  << "AND", "EOR", "SUB", "RSB", "ADD", "ADC", "SBC", "RSC",
         "TST", "TEQ", "CMP", "CMN", "ORR", "MOV", "BIC", "MVN" >>[opcode + 1]

\* A failed condition returns 1, the number of RESET.
SkipDataProcessing(i) ==
  /\ HandlerOf(i) = "data_processing"
  /\ Fails(i)
  /\ Return("RESET", cpsr, Fetched)
  /\ setter' = NoSetter
  /\ UNCHANGED spsr

\* Mutant: without an spsr the flags are set all the same.
Update_Flags_Anyhow(temp, rd, next) ==
  IF rd = "pc" /\ registers_mode_has_spsr(cpsr.mode)
  THEN Return("NONE", registers_read_spsr(cpsr.mode), next)
  ELSE Return(IF rd = "pc" THEN "UNDEFINED_INSTRUCTION" ELSE "NONE",
              [cpsr EXCEPT !.flags = FlagsOf(temp)], next)

\* Update_Flags with the bit S: with the pc as destination it is the return
\* from an exception, which needs an spsr.
Update_Flags(temp, rd, next) ==
  IF rd = "pc"
  THEN IF registers_mode_has_spsr(cpsr.mode)
       THEN Return("NONE", registers_read_spsr(cpsr.mode), next)
       ELSE Return("UNDEFINED_INSTRUCTION", cpsr, next)
  ELSE Return("NONE", [cpsr EXCEPT !.flags = FlagsOf(temp)], next)

\* The last instruction that has set the flags, among those to remember.
SetterAfter(op, a, b, rd) ==
  IF rd = "pc" THEN IF registers_mode_has_spsr(cpsr.mode) THEN NoSetter ELSE setter
  ELSE IF op \in {"ADD", "CMP"} THEN [op |-> op, a |-> a, b |-> b]
  ELSE NoSetter

\* The destination is written first, and then the status.
Effectuer_Operation(i, a, b) ==
  LET op   == OperationOf(i)
      temp == TempOf(op, a, b, cpsr.flags.C)
      next == IF i.rd = "pc" /\ op \notin Tests THEN Truncated(temp) ELSE Fetched
  IN  IF 20 \in i.bits \/ op \in Tests
      THEN Update_Flags(temp, i.rd, next) /\ setter' = SetterAfter(op, a, b, i.rd)
      ELSE Return("NONE", cpsr, next) /\ UNCHANGED setter

\* The registers hold anything, and so does the second operand, which the
\* shifter makes of one of them or of an immediate.  The test of bit 7 with
\* bit 4 does not fail: the handler would be another.
DataProcessing(i) ==
  /\ HandlerOf(i) = "data_processing"
  /\ ~Fails(i)
  /\ \E a, b \in Values : Effectuer_Operation(i, a, b)
  /\ UNCHANGED spsr

-----------------------------------------------------------------------------
(* arm_branch_other.c *)

\* Condition 15 is BLX, which sets the bit T.  The link register is not kept
\* here, nor the half word BLX may add.
Branch(i) ==
  /\ HandlerOf(i) = "branch"
  /\ IF cond_not_respect(i.cond, cpsr.flags) = 1
     THEN Return("NO_RESULT", cpsr, Fetched)
     ELSE \E offset \in Values :
            Return("NONE",
                   IF i.cond = 15 THEN [cpsr EXCEPT !.state = 1] ELSE cpsr,
                   (Fetched + offset) % Modulus)
  /\ UNCHANGED <<spsr, setter>>

\* The software interrupt looks at no condition.  arm_exception serves two of
\* its numbers itself.
Swi(i) ==
  /\ HandlerOf(i) = "swi"
  /\ \E result \in {"END_SIMULATION", "NONE", "SOFTWARE_INTERRUPT"} :
       Return(result, cpsr, Fetched)
  /\ UNCHANGED <<spsr, setter>>

\* Mutant: a mask of five bits.
MaskedModeFive(mode) == mode

\* PrivMask has the four low bits: without the fifth no mode is left.
MaskedMode(mode) == "invalid"

\* (old & !(mask)) | (operand & mask): the logical not leaves at most the last
\* bit of old, and with it no flag, no mode and no bit T.
Masked(i, operand, state) ==
  [flags |-> IF 19 \in i.bits THEN operand.flags ELSE NoFlags,
   mode  |-> IF 16 \in i.bits THEN MaskedMode(operand.mode) ELSE "invalid",
   state |-> IF 16 \in i.bits /\ state THEN operand.state ELSE 0]

\* fonction_MSR, of an operand whose reserved bits are clear or not.
fonction_MSR(i, operand, reserved) ==
  LET old == cpsr.mode IN
  IF reserved THEN Return("DATA_ABORT", cpsr, Fetched) /\ UNCHANGED <<spsr, setter>>
  ELSE IF 22 \notin i.bits
  THEN IF old # "USR" /\ operand.state = 1
       THEN Return("DATA_ABORT", cpsr, Fetched) /\ UNCHANGED <<spsr, setter>>
       ELSE /\ Return("NONE", Masked(i, operand, FALSE), Fetched)
            /\ setter' = NoSetter
            /\ UNCHANGED spsr
  ELSE /\ IF registers_mode_has_spsr(old)
          THEN /\ spsr' = [m \in DOMAIN spsr |->
                             IF m = old THEN Masked(i, operand, TRUE) ELSE spsr[m]]
               /\ Return("NONE", cpsr, Fetched)
          ELSE Return("DATA_ABORT", cpsr, Fetched) /\ UNCHANGED spsr
       /\ UNCHANGED setter

\* arm_miscellaneous; its second test, that of BX, comes after that of MSR,
\* which BX passes too.
Miscellaneous(i) ==
  /\ HandlerOf(i) = "miscellaneous"
  /\ IF Fails(i) \/ 21 \notin i.bits
     THEN Return("UNDEFINED_INSTRUCTION", cpsr, Fetched) /\ UNCHANGED <<spsr, setter>>
     ELSE \E operand \in Statuses, reserved \in BOOLEAN :
            fonction_MSR(i, operand, reserved)

-----------------------------------------------------------------------------
(* The other handlers, and what writes the status from outside *)

\* A load or store, which may load the pc or write it back, abort or be found
\* undefined half way: see LoadStore.
Transfer(i) ==
  /\ HandlerOf(i) = "load_store"
  /\ IF Fails(i) THEN Return("NO_RESULT", cpsr, Fetched)
     ELSE \E result \in {"NONE", "DATA_ABORT", "UNDEFINED_INSTRUCTION"},
             next \in {Fetched} \cup Values : Return(result, cpsr, next)
  /\ UNCHANGED <<spsr, setter>>

Undefined(i) ==
  /\ HandlerOf(i) = "undefined"
  /\ Return("UNDEFINED_INSTRUCTION", cpsr, Fetched)
  /\ UNCHANGED <<spsr, setter>>

\* The RESET of irq_listener.
Interrupt ==
  /\ Return("RESET", cpsr, pc)
  /\ setter' = NoSetter
  /\ UNCHANGED spsr

\* The registers gdb sends.
GdbWrites(status, next) ==
  /\ Return("written", status, next)
  /\ setter' = NoSetter
  /\ UNCHANGED spsr

Next ==
  \/ \E i \in Instructions :
       \/ SkipDataProcessing(i) \/ DataProcessing(i)
       \/ Branch(i) \/ Swi(i) \/ Miscellaneous(i) \/ Transfer(i) \/ Undefined(i)
  \/ Interrupt
  \/ \E status \in Statuses, next \in Values : GdbWrites(status, next)

Spec == Init /\ [][Next]_vars

-----------------------------------------------------------------------------
(* Properties *)

Answers ==
  {"NONE", "RESET", "DATA_ABORT", "UNDEFINED_INSTRUCTION", "NO_RESULT",
   "SOFTWARE_INTERRUPT", "END_SIMULATION", "written"}

TypeOK ==
  /\ cpsr \in Status
  /\ spsr \in [BankedModes \cap Modes -> Status]
  /\ pc \in Word
  /\ answer \in Answers
  /\ setter \in Setter

\* After a comparison, and whatever has been executed since that does not set
\* the flags, EQ holds exactly when the operands were equal and NE when they
\* differed.
CompareEqual ==
  setter.op = "CMP" =>
    /\ cond_not_respect(0, cpsr.flags) = 0 <=> setter.a = setter.b
    /\ cond_not_respect(1, cpsr.flags) = 0 <=> setter.a # setter.b

\* The addition of numbers of two words by ADDS on the low words and ADC on
\* the high ones, with instructions in between that leave the flags alone:
\* the carry gets through, and the two results are the words of the sum.
CarryChain ==
  setter.op = "ADD" =>
    \A a, b \in Word :
      Truncated(TempOf("ADC", a, b, cpsr.flags.C)) * Modulus
          + Truncated(TempOf("ADD", setter.a, setter.b, 0))
        = ((a * Modulus + setter.a) + (b * Modulus + setter.b))
            % (Modulus * Modulus)

\* EQ/NE, HS/LO, VS/VC, HI/LS and GE/LT are opposites: of the instructions
\* of an if and its else exactly one executes.
OppositeConditions ==
  \A cond \in {0, 2, 6, 8, 10} :
    cond_not_respect(cond, cpsr.flags) = 0
      <=> cond_not_respect(cond + 1, cpsr.flags) # 0

\* The shifter gives the bits it is asked for, and the logical operations give
\* theirs whatever the flags that the instructions before have left.
ShifterCorrect == ShiftsAsBits /\ LogicAsBits(cpsr.flags.C)

\* A processor that is in none of the seven modes, as every MSR to the cpsr
\* leaves it, stays there whatever it executes, returns from exceptions and
\* writes to the saved statuses included, until a reset or gdb gets it out.
LostUntilReset ==
  [][cpsr.mode \notin RealModes /\ cpsr'.mode \in RealModes
       => answer' \in {"RESET", "written"}]_vars

\* An instruction that reports something other than a reset has not touched
\* the status, whatever it has done to the pc.
FailureKeepsStatus ==
  [][answer' \notin {"NONE", "RESET", "written"} => cpsr' = cpsr]_vars

-----------------------------------------------------------------------------
(* What comments, documentation and tests say, and the code does not do.     *)

\* The comments of the cases, "On veut que C=1" and so on: HS, LO, MI, PL, VS,
\* VC, HI, LS, GE, LT, GT and LE, from 2 to 13, after EQ and NE.
Commented(cond, f) ==
  CASE cond = 0  -> f.Z = 1
    [] cond = 1  -> f.Z = 0
    [] cond = 2  -> f.C = 1
    [] cond = 3  -> f.C = 0
    [] cond = 4  -> f.N = 1
    [] cond = 5  -> f.N = 0
    [] cond = 6  -> f.V = 1
    [] cond = 7  -> f.V = 0
    [] cond = 8  -> f.C = 1 /\ f.Z = 0
    [] cond = 9  -> f.C = 0 \/ f.Z = 1
    [] cond = 10 -> f.N = f.V
    [] cond = 11 -> f.N # f.V
    [] cond = 12 -> f.Z = 0 /\ f.N = f.V
    [] OTHER     -> f.Z = 1 \/ f.N # f.V

\* An instruction executes in the cases the comments of cond_not_respect say.
ConditionsAsCommented ==
  \A cond \in 0 .. 13 :
    cond_not_respect(cond, cpsr.flags) = 0 <=> Commented(cond, cpsr.flags)

\* The tests fail an instruction that sets the flags when its 32-bit result
\* is zero and Z is not one.
ZeroMeansZero ==
  setter.op \in {"ADD", "CMP"} =>
    (cpsr.flags.Z = 1
       <=> Truncated(TempOf(setter.op, setter.a, setter.b, 0)) = 0)
===============================================================================
