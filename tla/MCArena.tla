------------------------------- MODULE MCArena -------------------------------
(***************************************************************************)
(* Arena for TLC: the tasks are interchangeable.                           *)
(***************************************************************************)
EXTENDS Arena, TLC

Tasks == Permutations(Task)
=============================================================================
