------------------------------- MODULE MCClient -------------------------------
(* Two transports: one in use and one being joined.                        *)
EXTENDS Client, TLC

CONSTANTS t1, t2

MCTransportId == {t1, t2}

Permutation == Permutations(MCTransportId)
=============================================================================
