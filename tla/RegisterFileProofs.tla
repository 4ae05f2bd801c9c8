--------------------------- MODULE RegisterFileProofs ---------------------------
(***************************************************************************)
(* The array of registers.c implements the views of the modes, for every   *)
(* choice of modes, registers and words: two registers share a word of the *)
(* array exactly when registers.h makes them one.                          *)
(***************************************************************************)
EXTENDS RegisterFile, TLAPS

USE RegistersAssumption, ModesAssumption, WordsAssumption, PacketsAssumption

-----------------------------------------------------------------------------
(* The layout of the array *)

LEMMA BankInSlots ==
  ASSUME NEW r \in Registers, NEW m \in Modes, Bank(r, m) # "none"
  PROVE  <<r, Bank(r, m)>> \in Slots
<1>1. Bank(r, m) \in BankedModes \cup {"USR"}
  BY DEF Bank, BankedModes
<1>2. <<r, Bank(r, m)>> \in Registers \X (BankedModes \cup {"USR"})
  BY <1>1
<1>. QED
  BY <1>2 DEF Slots

\* Only a mode the switches do not name is without a register.
LEMMA NoBank ==
  ASSUME NEW r \in Registers, NEW m \in Modes
  PROVE  Bank(r, m) = "none" <=> r \in ModeBanked /\ m \notin RealModes
BY DEF Bank, Registers, BankedModes, UserModes, RealModes

\* The switches send two modes to one word when they share the register.
LEMMA SameBank ==
  ASSUME NEW r \in Registers, NEW m \in Modes, NEW n \in Modes,
         Bank(r, m) # "none"
  PROVE  Bank(r, m) = Bank(r, n) <=> Views!Shares(r, m, n)
<1>. USE DEF Bank, Views!Shares, Registers, RealModes, Views!UserModes,
             UserModes, BankedModes
<1>1. CASE r \in Unbanked
  BY <1>1
<1>2. CASE r \in FiqBanked
  BY <1>2
<1>3. CASE r \in ModeBanked
  BY <1>3
<1>. QED
  BY <1>1, <1>2, <1>3

LEMMA ReadType ==
  ASSUME TypeOK, NEW r \in Registers, NEW m \in Modes
  PROVE  registers_read(r, m) \in Words
BY BankInSlots DEF registers_read, TypeOK

LEMMA ReadSpsrType ==
  ASSUME TypeOK, NEW m \in Modes
  PROVE  registers_read_spsr(m) \in Psr
BY DEF registers_read_spsr, TypeOK, NoPsr, Psr

\* What a mode reads after a write by another.
LEMMA ReadAfterWrite ==
  ASSUME TypeOK, NEW r \in Registers, NEW m \in Modes, NEW v \in Words,
         registers_write(r, m, v), NEW s \in Registers, NEW n \in Modes
  PROVE  registers_read(s, n)' =
           IF s = r /\ Views!Shares(r, m, n) /\ Bank(r, m) # "none"
           THEN v ELSE registers_read(s, n)
<1>1. CASE Bank(r, m) = "none"
  BY <1>1 DEF registers_write, registers_read
<1>2. CASE Bank(r, m) # "none" /\ Bank(s, n) = "none"
  <2>1. ~ (s = r /\ Views!Shares(r, m, n))
    BY <1>2, SameBank
  <2>. QED
    BY <1>2, <2>1 DEF registers_read
<1>3. CASE Bank(r, m) # "none" /\ Bank(s, n) # "none"
  <2>. DEFINE written == <<r, Bank(r, m)>>
              read    == <<s, Bank(s, n)>>
  <2>1. written \in Slots /\ read \in Slots
    BY <1>3, BankInSlots
  <2>2. registre'[read] = IF read = written THEN v ELSE registre[read]
    BY <1>3, <2>1 DEF registers_write, TypeOK
  <2>3. read = written <=> s = r /\ Views!Shares(r, m, n)
    BY <1>3, SameBank
  <2>. QED
    BY <1>3, <2>2, <2>3 DEF registers_read
<1>. QED
  BY <1>1, <1>2, <1>3

\* What a mode reads after the registers of another have all been written.
LEMMA ReadAfterPacket ==
  ASSUME TypeOK, NEW m \in Modes, NEW f \in [Registers -> Words],
         registre' = [slot \in Slots |-> IF slot[2] = Bank(slot[1], m)
                                         THEN f[slot[1]] ELSE registre[slot]],
         NEW s \in Registers, NEW n \in Modes
  PROVE  registers_read(s, n)' =
           IF Views!Shares(s, m, n) /\ Bank(s, m) # "none"
           THEN f[s] ELSE registers_read(s, n)
<1>1. CASE Bank(s, n) = "none"
  <2>1. ~ (Views!Shares(s, m, n) /\ Bank(s, m) # "none")
    BY <1>1, SameBank
  <2>. QED
    BY <1>1, <2>1 DEF registers_read
<1>2. CASE Bank(s, n) # "none"
  <2>. DEFINE read == <<s, Bank(s, n)>>
  <2>1. read \in Slots /\ read[1] = s /\ read[2] = Bank(s, n)
    BY <1>2, BankInSlots
  <2>. HIDE DEF read
  <2>2. registre'[read] = IF Bank(s, n) = Bank(s, m) THEN f[s] ELSE registre[read]
    BY <2>1
  <2>3. Bank(s, n) = Bank(s, m) <=> Views!Shares(s, m, n) /\ Bank(s, m) # "none"
    BY <1>2, SameBank
  <2>. QED
    BY <1>2, <2>2, <2>3 DEF registers_read, read
<1>. QED
  BY <1>1, <1>2

-----------------------------------------------------------------------------
(* Types *)

LEMMA TypeNext == TypeOK /\ [Next]_vars => TypeOK'
<1>. SUFFICES ASSUME TypeOK, [Next]_vars
              PROVE  TypeOK'
  OBVIOUS
<1>1. ASSUME NEW m \in Modes, NEW r \in Registers, Read(r, m)
      PROVE  TypeOK'
  BY <1>1, ReadType DEF Read, TypeOK, Operations, Operation
<1>2. ASSUME NEW m \in Modes, NEW r \in Registers, NEW v \in Words,
             Write(r, m, v)
      PROVE  TypeOK'
  BY <1>2, BankInSlots DEF Write, registers_write, TypeOK, Operations, Operation
<1>3. ASSUME NEW v \in Psr, WriteCpsr(v)
      PROVE  TypeOK'
  BY <1>3 DEF WriteCpsr, TypeOK, Operations, StatusOperation
<1>4. ASSUME NEW v \in Psr, WriteSpsr(v)
      PROVE  TypeOK'
  BY <1>4 DEF WriteSpsr, registers_write_spsr, TypeOK, Operations, StatusOperation
<1>5. CASE RestoreCpsr
  <2>1. registers_read_spsr(cpsr.mode) \in Psr
    BY ReadSpsrType DEF TypeOK, Psr
  <2>. QED
    BY <1>5, <2>1 DEF RestoreCpsr, registers_get_mode, TypeOK, Operations,
                      StatusOperation
<1>6. CASE UNCHANGED vars
  BY <1>6 DEF vars, TypeOK
<1>7. registers_get_mode \in Modes
  BY DEF registers_get_mode, TypeOK, Psr
<1>8. CASE read_general_registers
  <2>1. [reg \in Registers |-> registers_read(reg, registers_get_mode)]
          \in [Registers -> Words]
    BY <1>7, ReadType
  <2>. QED
    BY <1>8, <2>1 DEF read_general_registers, TypeOK, Operations, GeneralOperation
<1>9. ASSUME NEW values \in Packets, NEW status \in Psr,
             write_general_registers(values, status)
      PROVE  TypeOK'
  <2>1. values \in [Registers -> Words]
    OBVIOUS
  <2>2. \A slot \in Slots : slot[1] \in Registers
    BY DEF Slots
  <2>3. registre' \in [Slots -> Words]
    BY <1>9, <2>1, <2>2 DEF write_general_registers, TypeOK
  <2>4. last' \in Operations
    BY <1>9, <2>1 DEF write_general_registers, Operations, GeneralOperation
  <2>. QED
    BY <1>9, <2>3, <2>4 DEF write_general_registers, TypeOK
<1>. QED
  BY <1>1, <1>2, <1>3, <1>4, <1>5, <1>6, <1>7, <1>8, <1>9 DEF Next

\* No operation writes outside the array, and a status restored is a status.
THEOREM TypeCorrect == Spec => []TypeOK
<1>1. Init => TypeOK
  BY DEF Init, TypeOK, ResetPsr, Psr, Operations, NoOperation
<1>. QED
  BY <1>1, TypeNext, PTL DEF Spec

-----------------------------------------------------------------------------
(* The array implements the views *)

View == [m \in Modes |-> [r \in Registers |-> registers_read(r, m)]]
Saved == [m \in Modes |-> registers_read_spsr(m)]

LEMMA SameNames ==
  /\ Views!UserModes = UserModes /\ Views!BankedModes = BankedModes
  /\ Views!RealModes = RealModes /\ Views!Registers = Registers
  /\ Views!Psr = Psr /\ Views!NoPsr = NoPsr /\ Views!ResetPsr = ResetPsr
  /\ Views!NoOperation = NoOperation
BY DEF Views!UserModes, UserModes, Views!BankedModes, BankedModes,
       Views!RealModes, RealModes, Views!Registers, Registers, Views!Psr, Psr,
       Views!NoPsr, NoPsr, Views!ResetPsr, ResetPsr, Views!NoOperation, NoOperation

LEMMA RefinesInit == Init => Views!MInit
<1>. SUFFICES ASSUME Init, TypeOK
              PROVE  Views!MInit
  BY DEF Init, TypeOK, ResetPsr, Psr, Operations, NoOperation
<1>1. View \in [Modes -> [Registers -> Words]]
  BY ReadType DEF View
<1>2. ASSUME NEW m \in Modes, NEW n \in Modes, NEW r \in Registers,
             Views!Shares(r, m, n)
      PROVE  registers_read(r, m) = registers_read(r, n)
  <2>1. CASE Bank(r, m) # "none"
    BY <1>2, <2>1, SameBank DEF registers_read
  <2>2. CASE Bank(r, m) = "none"
    <3>1. r \in ModeBanked /\ m \notin RealModes
      BY <2>2, NoBank
    <3>2. m = n
      BY <1>2, <3>1 DEF Views!Shares, Registers, RealModes, UserModes,
                        Views!UserModes
    <3>. QED
      BY <3>2
  <2>. QED
    BY <2>1, <2>2
<1>3. ASSUME NEW m \in Modes \ RealModes, NEW r \in ModeBanked
      PROVE  registers_read(r, m) = 0
  BY <1>3, NoBank DEF registers_read, Registers
<1>4. Saved \in [Modes -> Psr] /\ \A m \in Modes \ BankedModes : Saved[m] = NoPsr
  BY ReadSpsrType DEF Saved, registers_read_spsr
<1>5. ModeBanked \subseteq Registers
  BY DEF Registers
<1>. QED
  BY <1>1, <1>2, <1>3, <1>4, <1>5, SameNames DEF Views!MInit, Init, View, Saved

LEMMA RefinesWrite ==
  ASSUME TypeOK, NEW r \in Registers, NEW m \in Modes, NEW v \in Words,
         Write(r, m, v)
  PROVE  Views!WriteAs(m, r, v)
<1>1. registers_write(r, m, v) /\ UNCHANGED <<spsr, cpsr>>
     /\ last' = Views!Operation("write", m, r, v)
  BY DEF Write, Operation, Views!Operation
<1>2. ASSUME NEW n \in Modes, NEW s \in Registers
      PROVE  registers_read(s, n)' =
               IF /\ s = r /\ Views!Shares(r, m, n)
                  /\ ~ (r \in ModeBanked /\ m \notin RealModes)
               THEN v ELSE registers_read(s, n)
  BY <1>1, ReadAfterWrite, NoBank
<1>3. View' = [n \in Modes |-> [s \in Registers |->
                 IF /\ s = r /\ Views!Shares(r, m, n)
                    /\ ~ (r \in ModeBanked /\ m \notin RealModes)
                 THEN v ELSE View[n][s]]]
  BY <1>2 DEF View
<1>4. Saved' = Saved
  BY <1>1 DEF Saved, registers_read_spsr
<1>. QED
  BY <1>1, <1>3, <1>4, SameNames DEF Views!WriteAs, View, Saved

\* The operations on the status registers leave the views alone.
LEMMA RefinesStatus ==
  ASSUME TypeOK
  PROVE  /\ \A v \in Psr : WriteCpsr(v) => Views!SetStatus(v)
         /\ \A v \in Psr : WriteSpsr(v) => Views!Save(v)
         /\ RestoreCpsr => Views!Restore
<1>0. cpsr.mode \in Modes
  BY DEF TypeOK, Psr
<1>1. ASSUME NEW v \in Psr, WriteCpsr(v)
      PROVE  Views!SetStatus(v)
  BY <1>1 DEF WriteCpsr, Views!SetStatus, registers_read, registers_read_spsr,
               StatusOperation, Views!StatusOperation
<1>2. ASSUME NEW v \in Psr, WriteSpsr(v)
      PROVE  Views!Save(v)
  <2>1. View' = View
    BY <1>2 DEF WriteSpsr, View, registers_read
  <2>2. ASSUME NEW m \in Modes
        PROVE  registers_read_spsr(m)' =
                 IF m = cpsr.mode /\ m \in BankedModes
                 THEN v ELSE registers_read_spsr(m)
    BY <1>2, <2>2 DEF WriteSpsr, registers_write_spsr, registers_read_spsr,
                      registers_get_mode, TypeOK
  <2>3. Saved' = IF cpsr.mode \in BankedModes
                 THEN [Saved EXCEPT ![cpsr.mode] = v] ELSE Saved
    BY <1>0, <2>2 DEF Saved
  <2>. QED
    BY <1>2, <2>1, <2>3, SameNames
       DEF Views!Save, WriteSpsr, View, Saved, registers_mode_has_spsr,
           registers_get_mode, StatusOperation, Views!StatusOperation
<1>3. ASSUME RestoreCpsr
      PROVE  Views!Restore
  <2>1. View' = View /\ Saved' = Saved
    BY <1>3 DEF RestoreCpsr, View, Saved, registers_read, registers_read_spsr
  <2>2. cpsr' = Saved[cpsr.mode]
    BY <1>0, <1>3 DEF RestoreCpsr, Saved, registers_get_mode
  <2>. QED
    BY <1>3, <2>1, <2>2, SameNames
       DEF Views!Restore, RestoreCpsr, View, Saved, registers_mode_has_spsr,
           registers_get_mode, StatusOperation, Views!StatusOperation
<1>. QED
  BY <1>1, <1>2, <1>3

LEMMA RefinesPackets ==
  ASSUME TypeOK
  PROVE  /\ read_general_registers => Views!ReadAllAs(cpsr.mode)
         /\ \A f \in Packets, s \in Psr :
              write_general_registers(f, s) => Views!WriteAllAs(cpsr.mode, f, s)
<1>0. cpsr.mode \in Modes
  BY DEF TypeOK, Psr
<1>1. ASSUME read_general_registers
      PROVE  Views!ReadAllAs(cpsr.mode)
  <2>1. View[cpsr.mode] = [r \in Registers |-> registers_read(r, cpsr.mode)]
    BY <1>0 DEF View
  <2>2. View' = View /\ Saved' = Saved
    BY <1>1 DEF read_general_registers, View, Saved, registers_read, registers_read_spsr
  <2>. QED
    BY <1>1, <2>1, <2>2
       DEF read_general_registers, Views!ReadAllAs, View, Saved, registers_get_mode,
           GeneralOperation, Views!GeneralOperation
<1>2. ASSUME NEW f \in Packets, NEW s \in Psr, write_general_registers(f, s)
      PROVE  Views!WriteAllAs(cpsr.mode, f, s)
  <2>. DEFINE m == cpsr.mode
  <2>1. f \in [Registers -> Words]
    OBVIOUS
  <2>2. registre' = [slot \in Slots |-> IF slot[2] = Bank(slot[1], m)
                                        THEN f[slot[1]] ELSE registre[slot]]
    BY <1>2 DEF write_general_registers, registers_get_mode
  <2>3. ASSUME NEW n \in Modes, NEW r \in Registers
        PROVE  registers_read(r, n)' =
                 IF /\ Views!Shares(r, m, n)
                    /\ ~ (r \in ModeBanked /\ m \notin RealModes)
                 THEN f[r] ELSE registers_read(r, n)
    BY <1>0, <2>1, <2>2, ReadAfterPacket, NoBank
  <2>. HIDE DEF m
  <2>4. View' = [n \in Modes |-> [r \in Registers |->
                  IF /\ Views!Shares(r, m, n)
                     /\ ~ (r \in ModeBanked /\ m \notin RealModes)
                  THEN f[r] ELSE View[n][r]]]
    BY <2>3 DEF View
  <2>5. Saved' = Saved
    BY <1>2 DEF write_general_registers, Saved, registers_read_spsr
  <2>. QED
    BY <1>2, <2>4, <2>5, SameNames
       DEF Views!WriteAllAs, View, Saved, write_general_registers,
           GeneralOperation, Views!GeneralOperation, m
<1>. QED
  BY <1>1, <1>2

LEMMA RefinesNext == TypeOK /\ [Next]_vars => [Views!MNext]_(Views!mvars)
<1>. SUFFICES ASSUME TypeOK, [Next]_vars
              PROVE  [Views!MNext]_(Views!mvars)
  OBVIOUS
<1>1. ASSUME NEW m \in {registers_get_mode} \cup (Modes \cap {"USR"}),
             NEW r \in Registers,
             Read(r, m) \/ \E v \in Words : Write(r, m, v)
      PROVE  Views!MNext
  <2>1. m \in Modes /\ m \in {cpsr.mode} \cup (Modes \cap {"USR"})
    BY DEF registers_get_mode, TypeOK, Psr
  <2>2. Read(r, m) => Views!ReadAs(m, r)
    BY <2>1 DEF Read, Views!ReadAs, registers_read, registers_read_spsr,
                Operation, Views!Operation
  <2>3. \A v \in Words : Write(r, m, v) => Views!WriteAs(m, r, v)
    BY <2>1, RefinesWrite
  <2>. QED
    BY <1>1, <2>1, <2>2, <2>3, SameNames DEF Views!MNext
<1>2. ASSUME \/ \E v \in Psr : WriteCpsr(v) \/ WriteSpsr(v)
             \/ RestoreCpsr
      PROVE  Views!MNext
  BY <1>2, RefinesStatus, SameNames DEF Views!MNext
<1>3. CASE UNCHANGED vars
  BY <1>3 DEF vars, Views!mvars, registers_read, registers_read_spsr
<1>4. CASE read_general_registers
  BY <1>4, RefinesPackets DEF Views!MNext
<1>5. ASSUME NEW f \in Packets, NEW s \in Psr, write_general_registers(f, s)
      PROVE  Views!MNext
  BY <1>5, RefinesPackets, SameNames DEF Views!MNext
<1>. QED
  BY <1>1, <1>2, <1>3, <1>4, <1>5 DEF Next

\* However modes change, a mode reads in a register what was last written by
\* a mode that shares it, and restores the status it saved.
THEOREM ImplementsViews == Spec => RefinesViews
<1>1. Init => TypeOK
  BY DEF Init, TypeOK, ResetPsr, Psr, Operations, NoOperation
<1>. QED
  BY <1>1, TypeNext, RefinesInit, RefinesNext, PTL
     DEF Spec, RefinesViews, Views!MSpec
===============================================================================
