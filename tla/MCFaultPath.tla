----------------------------- MODULE MCFaultPath -----------------------------
(* A small instance of FaultPath for TLC: a program of two instructions and  *)
(* one address, to which the way is of three tables.                         *)
EXTENDS FaultPath

MCAddr == 0 .. 1
MCIdx == 0 .. 1
MCVA == {<<0, 0, 0>>}
=============================================================================
