------------------------------ MODULE MCNToken ------------------------------
(* A small instance of NToken for TLC: two accounts, the minter and the creators.  *)
EXTENDS NToken, TLC

CONSTANTS minter, creators, h1, h2, h3, v1

Symmetry == Permutations(SeedHashes)
=============================================================================
