----------------------------- MODULE MCReassembly -----------------------------
(* Values for Reassembly: one packet in three is regular, the others have   *)
(* two and three fragments, one of them with a last fragment that is full.  *)
EXTENDS Reassembly

MCSize == [s \in Numbers |-> CASE s % 3 = 0 -> 3 [] s % 3 = 1 -> 4 [] OTHER -> 5]
=============================================================================
