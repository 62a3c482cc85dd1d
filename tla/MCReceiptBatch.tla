--------------------------- MODULE MCReceiptBatch ---------------------------
(* Small instances of ReceiptBatch. *)
EXTENDS ReceiptBatch, TLC

CONSTANTS r1, r2, b1, b2, b3, p1, p2, e1, e2

OneHost == e1 :> p1
TwoHosts == e1 :> p1 @@ e2 :> p2

\* Nothing tells runs, or batches, apart.
Symmetry == {f @@ g : f \in Permutations(Run), g \in Permutations(Batch)}
=============================================================================
