------------------------------- MODULE Export -------------------------------
(***************************************************************************)
(* What a ledger export is, and what the verifier makes of one.            *)
(*                                                                         *)
(* An export is a directory of segment files; a segment file is a sequence *)
(* of lines, each one a Record of internal/ledger/ledger.go.  The hash of  *)
(* a line is the pair of its sequence number and of the process that wrote *)
(* it: one process never writes two lines with the same seq that both stay *)
(* in one chain, so the pair stands for SHA-256 without collisions.  The   *)
(* verifier is internal/ledger/verify.go (one file) and                    *)
(* cmd/gurdy-verify/main.go (the seams between files).                     *)
(***************************************************************************)
EXTENDS Integers, Sequences, FiniteSets

CONSTANTS Keys,    \* signing keys a state directory may hold
          NoKey    \* the kid of a line that names no key

ASSUME KeysAssumption == Keys # {} /\ NoKey \notin Keys

\* "record" stands for a decision, a response or a coverage record other than
\* "resumed": the ledger treats all of these alike.
Kinds == {"header", "record", "resumed", "retention", "batchsig"}

\* The kinds that open a batch (ledger.go: appendLine).
Evidence == {"record", "resumed"}

\* instance is the process (header instance_id), segment the header's position
\* in the chain, kid the key named by a header or a batchsig, first the
\* first_seq of a batchsig, through the pruned_through_seq of a retention.
Line == [kind : Kinds, seq : Nat, prev : Nat \X Nat, instance : Nat,
         segment : Nat, kid : Keys \cup {NoKey}, first : Nat, through : Nat]

Hash(l) == <<l.seq, l.instance>>
NoHash  == <<0, 0>>
-----------------------------------------------------------------------------
(* VerifyFile: one file.                                                   *)

\* The first line starts the chain, or is the header of a continuation that
\* names a predecessor.
Anchored(f) ==
    IF f[1].kind = "header" /\ f[1].segment > 1
    THEN f[1].prev # NoHash
    ELSE f[1].seq = 1 /\ f[1].prev = NoHash

Linked(f) ==
    \A i \in 2..Len(f) : /\ f[i].seq = f[i-1].seq + 1
                         /\ f[i].prev = Hash(f[i-1])

HeaderFirst(f) == \A i \in 2..Len(f) : f[i].kind # "header"

\* Every batch signature verifies against the one key the header names.
OneKey(f) ==
    \A i \in 1..Len(f) : f[i].kind = "batchsig" => /\ f[1].kind = "header"
                                                   /\ f[i].kid = f[1].kid

\* Lines after the last batch signature.
SigsOf(f)    == {i \in 1..Len(f) : f[i].kind = "batchsig"}
LastSig(f)   == IF SigsOf(f) = {} THEN 0
                ELSE CHOOSE i \in SigsOf(f) : \A j \in SigsOf(f) : j <= i

\* The walk over the lines meets no error (it may end in unsigned lines).
Walks(f) == f # <<>> /\ Anchored(f) /\ Linked(f) /\ HeaderFirst(f) /\ OneKey(f)

VerifyFile(f) ==
    /\ Walks(f)
    /\ (\E i \in 1..Len(f) : f[i].kind = "record") => LastSig(f) # 0

\* VerifyResult.Uncovered: counted by seq, so a file without any signature
\* counts from the beginning of the chain.
Uncovered(f) ==
    f[Len(f)].seq - (IF LastSig(f) = 0 THEN 0 ELSE f[LastSig(f)].seq)

PrunedThrough(f) ==
    LET T == {f[i].through : i \in 1..Len(f)}
    IN  CHOOSE n \in T : \A m \in T : m <= n
-----------------------------------------------------------------------------
(* gurdy-verify over a directory: D maps the segment number in the name of *)
(* each file to its lines.                                                 *)

\* The seam between a file and the next one.
Continues(prev, cur) ==
    /\ cur[1].prev = Hash(prev[Len(prev)])
    /\ cur[1].seq = prev[Len(prev)].seq + 1

\* seamProblems: files are grouped by the instance their header names.
NoSeamProblem(D) ==
    \A g \in {D[s][1].instance : s \in DOMAIN D} :
        LET S     == {s \in DOMAIN D : D[s][1].instance = g}
            start == CHOOSE s \in S : \A t \in S : D[s][1].segment <= D[t][1].segment
            cover == {PrunedThrough(D[s]) : s \in S}
        IN  /\ D[start][1].segment > 1
                 => \E n \in cover : n >= D[start][1].seq - 1
            /\ \A s \in S \ {start} :
                 \E t \in S : /\ D[t][1].segment = D[s][1].segment - 1
                              /\ Continues(D[t], D[s])
            /\ \A s, t \in S : D[s][1].segment = D[t][1].segment => s = t

\* The exit code of gurdy-verify on a delivered directory is 0.
GurdyVerify(D) ==
    /\ \A s \in DOMAIN D : VerifyFile(D[s]) /\ Uncovered(D[s]) = 0
    /\ NoSeamProblem(D)

=============================================================================
