------------------------------ MODULE RegisterFile ------------------------------
(***************************************************************************)
(* registers.c: the registers of all modes in one array, and the switches  *)
(* that choose the word of the array for a register and a mode.  What      *)
(* instructions, exceptions and gdb do to it are sequences of its          *)
(* accesses; the packets g and G make theirs in one go.                    *)
(***************************************************************************)
EXTENDS RegisterNames

VARIABLES
  registre,  \* the words of the general registers
  spsr,      \* the words of the saved program status registers
  cpsr,      \* the word of the current program status register
  last       \* the last operation, and the value it was given or returned

vars == <<registre, spsr, cpsr, last>>

-----------------------------------------------------------------------------
\* The copy of reg that mode uses; r13 and r14 have none for a mode that the
\* inner switch does not name.
Bank(reg, mode) ==
  CASE reg \in FiqBanked  -> IF mode = "FIQ" THEN "FIQ" ELSE "USR"
    [] reg \in ModeBanked -> IF mode \in BankedModes THEN mode
                             ELSE IF mode \in UserModes THEN "USR"
                             ELSE "none"
    [] OTHER              -> "USR"

\* The words of the array, each named by a register and a bank.
Slots ==
  { s \in Registers \X (BankedModes \cup {"USR"}) :
      \E m \in Modes : s[2] = Bank(s[1], m) }

registers_get_mode == cpsr.mode

registers_mode_has_spsr(mode) == mode \notin UserModes

\* The local variable value of registers_read starts at 0.
registers_read(reg, mode) ==
  IF Bank(reg, mode) = "none" THEN 0 ELSE registre[<<reg, Bank(reg, mode)>>]

\* Mutant: the switch of the writes forgets the case of SYS.
registers_write_no_sys(reg, mode, value) ==
  registre' = IF \/ Bank(reg, mode) = "none"
                 \/ reg \in ModeBanked /\ mode = "SYS"
              THEN registre
              ELSE [registre EXCEPT ![<<reg, Bank(reg, mode)>>] = value]

registers_write(reg, mode, value) ==
  registre' = IF Bank(reg, mode) = "none" THEN registre
              ELSE [registre EXCEPT ![<<reg, Bank(reg, mode)>>] = value]

registers_read_spsr(mode) == IF mode \in BankedModes THEN spsr[mode] ELSE NoPsr

\* Mutant: the write has a word for every mode.
registers_write_spsr_any(mode, value) ==
  spsr' = [m \in DOMAIN spsr \cup {mode} |-> IF m = mode THEN value ELSE spsr[m]]

registers_write_spsr(mode, value) ==
  spsr' = IF mode \in BankedModes THEN [spsr EXCEPT ![mode] = value] ELSE spsr

-----------------------------------------------------------------------------
\* malloc leaves the array as it is, and arm_create raises RESET.
Init ==
  /\ registre \in [Slots -> Words]
  /\ spsr \in [BankedModes \cap Modes -> Psr]
  /\ cpsr = ResetPsr
  /\ last = NoOperation

\* arm_read_register, arm_read_usr_register.
Read(reg, mode) ==
  /\ last' = Operation("read", mode, reg, registers_read(reg, mode))
  /\ UNCHANGED <<registre, spsr, cpsr>>

\* arm_write_register, arm_write_usr_register.
Write(reg, mode, value) ==
  /\ registers_write(reg, mode, value)
  /\ last' = Operation("write", mode, reg, value)
  /\ UNCHANGED <<spsr, cpsr>>

\* arm_write_cpsr, by MSR, by arm_exception, or by gdb.
WriteCpsr(value) ==
  /\ cpsr' = value
  /\ last' = StatusOperation("cpsr", value)
  /\ UNCHANGED <<registre, spsr>>

\* MSR to the spsr, which tests that the mode has one.
WriteSpsr(value) ==
  /\ registers_mode_has_spsr(registers_get_mode)
  /\ registers_write_spsr(registers_get_mode, value)
  /\ last' = StatusOperation("spsr", value)
  /\ UNCHANGED <<registre, cpsr>>

\* A data processing instruction that sets the flags and writes the pc.
RestoreCpsr ==
  /\ registers_mode_has_spsr(registers_get_mode)
  /\ cpsr' = registers_read_spsr(registers_get_mode)
  /\ last' = StatusOperation("restore", cpsr')
  /\ UNCHANGED <<registre, spsr>>

-----------------------------------------------------------------------------
(* The packets g and G of gdb *)

\* read_general_registers: the registers of the current mode and the status.
read_general_registers ==
  /\ last' = GeneralOperation("g",
               [reg \in Registers |-> registers_read(reg, registers_get_mode)], cpsr)
  /\ UNCHANGED <<registre, spsr, cpsr>>

\* write_general_registers: the registers one after the other, and then the
\* status, and with it the mode.
write_general_registers(values, status) ==
  /\ registre' = [slot \in Slots |->
                    IF slot[2] = Bank(slot[1], registers_get_mode)
                    THEN values[slot[1]] ELSE registre[slot]]
  /\ cpsr' = status
  /\ last' = GeneralOperation("G", values, status)
  /\ UNCHANGED spsr

Next ==
  \/ \E mode \in {registers_get_mode} \cup (Modes \cap {"USR"}),
        reg \in Registers :
       Read(reg, mode) \/ \E value \in Words : Write(reg, mode, value)
  \/ \E value \in Psr : WriteCpsr(value) \/ WriteSpsr(value)
  \/ RestoreCpsr
  \/ read_general_registers
  \/ \E values \in Packets, status \in Psr :
       write_general_registers(values, status)

Spec == Init /\ [][Next]_vars

-----------------------------------------------------------------------------
(* Properties *)

TypeOK ==
  /\ registre \in [Slots -> Words]
  /\ spsr \in [BankedModes \cap Modes -> Psr]
  /\ cpsr \in Psr
  /\ last \in Operations

\* The array implements the views of the modes: however modes change and
\* registers are written, a mode finds in a register what was last written
\* there by a mode that shares it, and in its spsr what it saved.
Views ==
  INSTANCE ModeViews
    WITH view  <- [m \in Modes |-> [r \in Registers |-> registers_read(r, m)]],
         saved <- [m \in Modes |-> registers_read_spsr(m)]

RefinesViews == Views!MSpec
===============================================================================
