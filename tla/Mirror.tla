-------------------------------- MODULE Mirror --------------------------------
(***************************************************************************)
(* What the console promises of a ledger file it is sent: it holds a       *)
(* signed prefix of one history of the file and nothing else, and it never *)
(* changes or gives up a line it holds. A file has a further history when  *)
(* the ledger was removed and begun again under the same key.              *)
(***************************************************************************)
EXTENDS Naturals

CONSTANTS Files, MaxBatches, MaxHistories

Batches == 1 .. MaxBatches
Histories == 1 .. MaxHistories

VARIABLES
  written,  \* per file and history: the batches that were signed in it
  lines     \* per file and batch: the history the stored lines come from, 0 for none

\* The first n batches of history g.
Prefix(g, n) == [i \in Batches |-> IF i <= n THEN g ELSE 0]

Init ==
  /\ written = [f \in Files |-> [g \in Histories |-> 0]]
  /\ lines = [f \in Files |-> Prefix(1, 0)]

Sign(f, g) ==
  /\ written[f][g] < MaxBatches
  /\ written' = [written EXCEPT ![f][g] = @ + 1]
  /\ UNCHANGED lines

Extend(f, g, m, n) ==
  /\ m < n
  /\ n <= written[f][g]
  /\ lines[f] = Prefix(g, m)
  /\ lines' = [lines EXCEPT ![f] = Prefix(g, n)]
  /\ UNCHANGED written

Next ==
  \E f \in Files, g \in Histories :
    \/ Sign(f, g)
    \/ \E m, n \in 0 .. MaxBatches : Extend(f, g, m, n)

Spec == Init /\ [][Next]_<<written, lines>>
=============================================================================
