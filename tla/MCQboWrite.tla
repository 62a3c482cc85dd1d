----------------------------- MODULE MCQboWrite -----------------------------
(* Small instances of QboWrite for TLC.                                    *)
EXTENDS QboWrite, TLC

CONSTANTS i1, i2, i3, b1, b2, b3

\* Three invoices of one document number.  The second has no currency and is booked in
\* dollars: bills of the first pass for its own, but not the other way round.
\* The third differs from it by its amount alone.
OneDoc == [i \in Invoice |-> "doc"]
Amounts == i1 :> 1000 @@ i2 :> 1003 @@ i3 :> 2000
Currencies == i1 :> "EUR" @@ i2 :> None @@ i3 :> "USD"
Refs == i1 :> "EUR" @@ i2 :> "USD" @@ i3 :> "USD"

\* Nothing tells bills or calls apart.
Symmetry == {f @@ g : f \in Permutations(Bill), g \in Permutations(Call)}
=============================================================================
