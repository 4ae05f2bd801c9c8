---------------------------- MODULE MCArmSimulator ----------------------------
(* Small instances of ArmSimulator for TLC.                                  *)
EXTENDS ArmSimulator, TLC

MCModes == {"svc", "usr"}

Out(p, m, r) == [pc |-> p, mode |-> m, result |-> r]

\* Two instructions in a loop with what is executed past them.  The first may
\* change the mode, the second is one whose condition may fail (RESET for a
\* data processing instruction, NO_RESULT for a branch) or an my_putchar, and
\* past the memory the program ends or aborts: every turn of the loop reports
\* an exception.
MCEndingProgram ==
  0 :> { Out(1, "same", "NONE"), Out(1, "usr", "NONE") } @@
  1 :> { Out(2, "same", "SWI_PUTCHAR"), Out(2, "same", "RESET"),
         Out(2, "same", "NO_RESULT") } @@
  2 :> { Out(0, "same", "SWI_END"), Out(0, "same", "DATA_ABORT") }

\* A program that waits for an interrupt: an instruction that branches to
\* itself, after one that sets a mode.
MCWaitingProgram ==
  0 :> { Out(1, "usr", "NONE") } @@
  1 :> { Out(1, "same", "NONE") } @@
  2 :> { Out(0, "same", "DATA_ABORT") } @@
  3 :> { Out(0, "same", "DATA_ABORT") }
===============================================================================
