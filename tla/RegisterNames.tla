----------------------------- MODULE RegisterNames -----------------------------
(***************************************************************************)
(* The processor modes and the registers, told apart by how the modes have *)
(* copies of them.                                                         *)
(***************************************************************************)
EXTENDS Naturals

CONSTANTS
  Modes,       \* the modes the five bits of the cpsr are read as
  Unbanked,    \* r0 to r7, common to all modes
  FiqBanked,   \* r8 to r12, of which FIQ has copies
  ModeBanked,  \* r13 and r14, of which all modes but SYS have copies
  Words,       \* the values of a register
  Bits,        \* the values of a status register, its mode aside
  Packets      \* the values of all registers gdb sends that are tried

UserModes == {"USR", "SYS"}
BankedModes == {"SVC", "ABT", "UND", "IRQ", "FIQ"}
RealModes == UserModes \cup BankedModes

Registers == Unbanked \cup FiqBanked \cup ModeBanked

\* "invalid" stands for the mode bits that are none of the seven modes.
ASSUME ModesAssumption ==
  /\ {"SVC", "invalid"} \subseteq Modes
  /\ Modes \subseteq RealModes \cup {"invalid"}
ASSUME RegistersAssumption ==
  /\ Unbanked \cap FiqBanked = {}
  /\ Unbanked \cap ModeBanked = {}
  /\ FiqBanked \cap ModeBanked = {}
ASSUME WordsAssumption == 0 \in Words /\ 0 \in Bits
ASSUME PacketsAssumption == Packets \subseteq [Registers -> Words]

\* A program status register: the mode, and the other bits.
Psr == [mode : Modes, bits : Bits]

\* A status word of zero: no mode has the number 0.
NoPsr == [mode |-> "invalid", bits |-> 0]

\* What an operation did, for the two specifications to agree on: an access
\* to a register of a mode, to a status register, or to all registers.
Operations ==
  [op : {"read", "write"}, mode : Modes, reg : Registers, value : Words]
    \cup [op : {"cpsr", "spsr", "restore"}, psr : Psr]
    \cup [op : {"g", "G"}, values : [Registers -> Words], psr : Psr]
    \cup [op : {"none"}]

NoOperation == [op |-> "none"]
Operation(op, m, r, v) == [op |-> op, mode |-> m, reg |-> r, value |-> v]
StatusOperation(op, s) == [op |-> op, psr |-> s]
GeneralOperation(op, f, s) == [op |-> op, values |-> f, psr |-> s]

\* 0x1d3.
ResetPsr == [mode |-> "SVC", bits |-> 0]
===============================================================================
