------------------------------- MODULE MCUpload -------------------------------
(***************************************************************************)
(* MCUpload: two runs on one device, under different state directories,    *)
(* and one file that is begun anew once. UploadLive: one run over three    *)
(* files of a device, beside requests that earlier runs left behind: a     *)
(* later segment that never declares why its chain begins late (f3), a     *)
(* first segment, and a later segment that declares it in its second batch *)
(* (MCWhole).                                                              *)
(***************************************************************************)
EXTENDS Upload, TLC

CONSTANTS d1, f1, f2, f3, p1, p2, p3, r1, r2, k1, k2, q1, q2

MCLedgers == [d \in {d1} |-> <<f1>>]
MCLedgersThree == [d \in {d1} |-> <<f3, f1, f2>>]
MCName == [f \in Files |-> CASE f = f1 -> p1 [] f = f2 -> p2 [] f = f3 -> p3]
MCWhole == [f \in Files |-> CASE f = f1 -> 1 [] f = f2 -> 2 [] f = f3 -> MaxBatches + 1]
MCDevice == [r \in Runs |-> d1]
MCLock == [r \in Runs |-> IF r = r1 THEN k1 ELSE k2]
Symmetry == Permutations({q1, q2})
=============================================================================
