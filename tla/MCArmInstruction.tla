--------------------------- MODULE MCArmInstruction ---------------------------
(* A small instance of ArmInstruction for TLC: one instruction of each kind   *)
(* of effect, conditional or not.                                              *)
EXTENDS ArmInstruction

MCModes == {"USR", "SVC", "invalid"}

MCStatuses ==
  { [flags |-> NoFlags, mode |-> "SVC", state |-> 1],
    [flags |-> [N |-> 1, Z |-> 0, C |-> 1, V |-> 0], mode |-> "USR", state |-> 0] }

Ins(cond, group, bits, rd) == [cond |-> cond, group |-> group, bits |-> bits, rd |-> rd]

\* All operations with the bit S on immediates; operations on registers with a
\* condition, without the bit S, and with the pc as destination.
DataInstructions ==
  { Ins(14, 1, opcode \cup {20}, "other") : opcode \in SUBSET (21 .. 24) }
    \cup
  { Ins(0, 0, {23, 20, 6}, "other"), Ins(14, 0, {24, 23, 22, 21, 5}, "other"),
    Ins(14, 0, {24, 23, 21, 20}, "pc"), Ins(14, 0, {23}, "pc"),
    Ins(14, 0, {24, 22, 20}, "pc"), Ins(15, 0, {24, 23, 21}, "other") }

\* MSR with any fields, to the cpsr or the spsr, MSR of an immediate, BX, MRS.
StatusInstructions ==
  { Ins(14, 0, {24, 21} \cup fields, "pc") : fields \in SUBSET {16, 19, 22} }
    \cup
  { Ins(14, 1, {24, 21}, "other"), Ins(0, 0, {24, 21, 16, 19, 4}, "pc"),
    Ins(14, 0, {24}, "other") }

OtherInstructions ==
  { Ins(13, 5, {}, "other"), Ins(4, 5, {24}, "other"), Ins(15, 5, {}, "other"),
    Ins(1, 7, {24}, "other"), Ins(14, 7, {}, "other"), Ins(14, 6, {}, "other"),
    Ins(14, 1, {24}, "other"), Ins(14, 3, (4 .. 7) \cup (20 .. 24), "pc"),
    Ins(14, 0, {4, 7, 20}, "pc"), Ins(1, 2, {20}, "pc"), Ins(14, 4, {20}, "other") }

MCInstructions == DataInstructions \cup StatusInstructions \cup OtherInstructions
===============================================================================
