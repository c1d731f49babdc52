----------------------------- MODULE MCOperators -----------------------------
(***************************************************************************)
(* The operators for TLC.  Velocity: two ticks to the minute, windows of   *)
(* one and two minutes, one tick of slack between the longest window and   *)
(* the retention, used up by one tick of allowed lateness.                 *)
(***************************************************************************)
EXTENDS Operators, TLC

Symmetry == Permutations(Account) \cup Permutations(Device)
===============================================================================
