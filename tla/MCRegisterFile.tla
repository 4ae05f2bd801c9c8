---------------------------- MODULE MCRegisterFile ----------------------------
(* A small instance of RegisterFile for TLC: one register of each kind, and  *)
(* one mode of each kind, two of those with copies.                          *)
EXTENDS RegisterFile

\* Two packets, of which every register has both values.
MCPackets ==
  { [r \in Registers |-> IF r = 13 THEN n ELSE 1 - n] : n \in Words }

MCModes == {"USR", "SYS", "SVC", "FIQ", "invalid"}
===============================================================================
