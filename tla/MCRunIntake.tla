---------------------------- MODULE MCRunIntake -----------------------------
(* Small instances of RunIntake for TLC.                                   *)
EXTENDS RunIntake, TLC

\* Nothing tells requests or passes apart.
Symmetry == Permutations(Request) \cup Permutations(Ticker)
=============================================================================
