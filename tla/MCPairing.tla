----------------------------- MODULE MCPairing -----------------------------
(* Pairing, with the store of tokens, on the sets that TLC runs it on.       *)
EXTENDS PairEndpoint, TLC

CONSTANTS p1, p2, s1, s2

MCPhones == {p1, p2}
MCSlots == {s1, s2}

\* Phones and slots are interchangeable; PINs are only compared.
Symmetry == Permutations(MCPhones) \cup Permutations(MCSlots)
=============================================================================
