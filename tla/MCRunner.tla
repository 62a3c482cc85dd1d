------------------------------ MODULE MCRunner ------------------------------
(***************************************************************************)
(* Small instances of Runner for TLC.                                      *)
(***************************************************************************)
EXTENDS Runner

CONSTANTS e1, e2, e3, r1, r2, PlanLength

\* Two executions of one run, and one of another.
TwoOfOne == [e \in Exec |-> IF e = e3 THEN r2 ELSE r1]

Plain == [kind |-> "act", span |-> 0, wait |-> 0, strict |-> TRUE]
SomeSteps == {Plain,
              [kind |-> "wait", span |-> 2, wait |-> 2, strict |-> TRUE],
              [kind |-> "wait", span |-> 3, wait |-> 1, strict |-> FALSE],
              [Plain EXCEPT !.kind = "human", !.span = 1]}
SomePlans == [1..PlanLength -> SomeSteps]
=============================================================================
