--------------------------- MODULE MCGdbBreakpoints ---------------------------
(* Small instance of GdbBreakpoints for TLC.                                 *)
EXTENDS GdbBreakpoints

\* One address more than the table has slots: it fills up and refuses.
MCAddr == 0 .. MaxBreakpoints
===============================================================================
