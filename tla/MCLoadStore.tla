------------------------------ MODULE MCLoadStore ------------------------------
(* A small instance of LoadStore for TLC: all instructions that transfer two  *)
(* registers and the pc, and the single accesses by an offset of one, of the  *)
(* base itself, of another register and of the pc, and at the pc.             *)
EXTENDS LoadStore

MCSingles ==
  { i \in Block!Singles :
      /\ i.offset = 1 /\ i.u = i.l
      /\ <<i.rn, i.rd>> \in {<<0, 0>>, <<0, 1>>, <<0, Pc>>, <<Pc, 0>>} }

MCInstructions == Block!Multiples \cup MCSingles
===============================================================================
