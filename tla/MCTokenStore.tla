---------------------------- MODULE MCTokenStore ----------------------------
(* TokenStore on the small sets that TLC runs it on.      *)
EXTENDS TokenStore

CONSTANTS h1, h2, c1, c2

MCHashes == {h1, h2}
MCCallers == {c1, c2}

=============================================================================
