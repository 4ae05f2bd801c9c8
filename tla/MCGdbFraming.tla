----------------------------- MODULE MCGdbFraming -----------------------------
(* Small instances of GdbFraming for TLC: their constants are numbers, given *)
(* in the configurations.                                                    *)
EXTENDS GdbFraming
===============================================================================
