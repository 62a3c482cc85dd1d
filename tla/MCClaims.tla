------------------------------ MODULE MCClaims ------------------------------
(* Small instances of Claims for TLC.                                      *)
EXTENDS Claims, TLC

CONSTANTS x1, x2, maker, q1, q2, p1, p2

OneOwner == [x \in Earning |-> maker]
OneHost == [q \in Request |-> p1]
TwoHosts == (q1 :> p1) @@ (q2 :> p2)

\* One process and its request exchanged with the other.
Swap == (p1 :> p2) @@ (p2 :> p1) @@ (q1 :> q2) @@ (q2 :> q1)
Keep == [v \in {p1, p2, q1, q2} |-> v]

\* With one creator, nothing tells claims or earnings apart, nor one process
\* with its request from the other.
Symmetry == {f @@ g @@ h : f \in Permutations(Claim),
                           g \in Permutations(Earning), h \in {Swap, Keep}}
=============================================================================
