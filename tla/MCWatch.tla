------------------------------ MODULE MCWatch ------------------------------
(* Small instances of Watch for TLC.                                       *)
EXTENDS Watch

CONSTANTS lo, hi, junk, c1, c2

Plain(op) == [op |-> op, confirm |-> 1, cooldown |-> FALSE]
Rules == {Plain("changed"), Plain("level"),
          [op |-> "appears", confirm |-> 2, cooldown |-> FALSE],
          [op |-> "level", confirm |-> 1, cooldown |-> TRUE]}
LevelRule == {Plain("level")}

\* Nothing is promised after a race, which a stale notice is bound to be.
Unraced == ~raced /\ notice \in {None, watch.state}
=============================================================================
