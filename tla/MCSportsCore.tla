---------------------------- MODULE MCSportsCore ----------------------------
(***************************************************************************)
(* Small instances of SportsCore for TLC: two leagues and their provider   *)
(* numbers.                                                                *)
(***************************************************************************)
EXTENDS SportsCore

CONSTANTS T, S, I, A, B, n1, n2

MCApiId == [l \in Expected |-> IF l = A THEN n1 ELSE n2]
MCScope == [d \in DataType |-> {A, B}]
MCCovered == DataType \X {A}
=============================================================================
