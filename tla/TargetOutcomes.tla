----------------------------- MODULE TargetOutcomes -----------------------------
(***************************************************************************)
(* What one step of the simulated processor can do, as far as its threads  *)
(* can tell: where the pc and the mode go, and the exception the step      *)
(* reports.  The instruction set itself is abstracted to a program that    *)
(* gives each address the set of outcomes its instruction may have, the    *)
(* registers and the memory choosing between them.                         *)
(***************************************************************************)
EXTENDS Naturals

CONSTANTS
  MemWords,  \* the number of words of memory; the pc counts words here
  Modes,     \* the processor modes
  Svc,       \* the mode RESET enters
  Outcomes   \* the outcomes of the instruction at each address

\* The words of the memory, and one more address for all that are past it.
Addr == 0 .. MemWords
LastWord == MemWords - 1

\* The address after the one given.
Following(address) == IF address = MemWords THEN address ELSE address + 1

\* What arm_execute_instruction returns, a software interrupt being told
\* apart by its number: 0x123456, 1, or any other.  "NO_RESULT" is the -1 of
\* an instruction whose condition fails, 255 once it has been through the
\* uint8_t parameter of arm_exception.
Results ==
  { "NONE", "RESET", "DATA_ABORT", "UNDEFINED_INSTRUCTION", "NO_RESULT",
    "SWI_END", "SWI_PUTCHAR", "SWI_OTHER" }

Exceptions ==
  { "NONE", "RESET", "DATA_ABORT", "UNDEFINED_INSTRUCTION", "NO_RESULT",
    "END_SIMULATION", "SOFTWARE_INTERRUPT" }

\* "same" is the outcome of an instruction that leaves the mode alone.
Outcome == [pc : Addr, mode : Modes \cup {"same"}, result : Results]

ASSUME MemAssumption == MemWords \in Nat \ {0}
ASSUME ModeAssumption == Svc \in Modes
ASSUME OutcomeAssumption ==
  Outcomes \in [Addr -> (SUBSET Outcome) \ {{}}]

\* What arm_exception returns: END_SIMULATION and my_putchar are handled by
\* the simulator, every other exception is handed back.
ExceptionOf(result) ==
  CASE result = "SWI_END"     -> "END_SIMULATION"
    [] result = "SWI_PUTCHAR" -> "NONE"
    [] result = "SWI_OTHER"   -> "SOFTWARE_INTERRUPT"
    [] OTHER                  -> result

\* Mutant: an instruction that leaves the mode alone writes it all the same.
NewModeRaw(o, mode) == o.mode

NewMode(o, mode) == IF o.mode = "same" THEN mode ELSE o.mode

\* gdb_send_stop_reason.
StopReason(exception) ==
  CASE exception = "UNDEFINED_INSTRUCTION" -> "S04"
    [] exception = "DATA_ABORT"            -> "S0B"
    [] exception = "END_SIMULATION"        -> "X05"
    [] OTHER                               -> "S05"

StopReasons == {"S04", "S0B", "X05", "S05"}

-----------------------------------------------------------------------------
\* The packets of the gdb client, in classes: step, continue, read and write
\* all registers, set and remove a breakpoint, the reason of the last stop,
\* the handlers that touch no state ("q", "H"), kill, and what has no handler.
PlainOps == {"s", "c", "g", "?", "q", "k", "unsupported"}

Packets ==
  [op : PlainOps]
    \cup [op : {"Z", "z"}, address : Addr]
    \cup [op : {"G"}, pc : Addr, mode : Modes]

NoPacket == [op |-> "none"]

\* What the client can be sent, the acknowledgement aside.
Replies ==
  [kind : {"none", "empty", "OK", "E05", "info"}]
    \cup [kind : {"stop"}, reason : StopReasons]
    \cup [kind : {"registers"}, pc : Addr, mode : Modes]

Plain(k) == [kind |-> k]
Stopped(exception) == [kind |-> "stop", reason |-> StopReason(exception)]
Registers(pc, mode) == [kind |-> "registers", pc |-> pc, mode |-> mode]
===============================================================================
