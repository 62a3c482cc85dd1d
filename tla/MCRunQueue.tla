----------------------------- MODULE MCRunQueue -----------------------------
(* Small instances of RunQueue for TLC.                                    *)
EXTENDS RunQueue, TLC

CONSTANTS r1, r2, sk, maker, user, e1, e2, p1, p2

\* Two runs of one skill by one wallet that does not own it: they compete for
\* the one credit of the pair.
PairSkill == [r \in {r1, r2} |-> sk]
PairRunner == [r \in {r1, r2} |-> user]
OneOwner == [s \in {sk} |-> maker]

\* A single run, a single execution.
OneSkill == [r \in {r1} |-> sk]
OneRunner == [r \in {r1} |-> user]
OneHost == [e \in {e1} |-> p1]

\* Both executions in one process, or one in each of two.
SameHost == [e \in {e1, e2} |-> p1]
TwoHosts == (e1 :> p1) @@ (e2 :> p2)
=============================================================================
