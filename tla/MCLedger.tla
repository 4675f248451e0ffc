------------------------------ MODULE MCLedger ------------------------------
(***************************************************************************)
(* Ledger for TLC. A request handler and the operator take a turn each     *)
(* through a queue of one, beside a writer whose file operations fail once *)
(* or twice and may lose a buffered tail.                                  *)
(***************************************************************************)
EXTENDS Ledger
=============================================================================
