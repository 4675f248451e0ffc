------------------------------ MODULE MCChain -------------------------------
(* Chain for TLC. *)
EXTENDS Chain, TLC

Symmetry == Permutations(Keys)

\* Past a window of Departures the chain is broken for good: there is nothing
\* more to learn from what follows.
Undeparted == c.departed = {}
=============================================================================
