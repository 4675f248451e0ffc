----------------------------- MODULE MCAutoMint -----------------------------
\* The keyring and the gateway's cache on a small instance.
EXTENDS AutoMint, TLC

CONSTANTS h1, h2, a1, p1

Symmetry == Permutations({h1, h2})
=============================================================================
