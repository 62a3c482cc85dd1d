--------------------------- MODULE MCInvoiceEntry ---------------------------
(* Small instances of InvoiceEntry for TLC.                                *)
EXTENDS InvoiceEntry, TLC

\* Nothing tells uploads, flagged invoices, or calls, apart.
Symmetry == {f @@ g @@ h : f \in Permutations(Uploads),
                          g \in Permutations(Invoice \ Uploads),
                          h \in Permutations(Call)}
=============================================================================
