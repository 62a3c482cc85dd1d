--------------------------- MODULE PayoutContract ---------------------------
(***************************************************************************)
(* What the earnings ledger promises a creator and the treasury: every     *)
(* transfer pays earnings of one creator that no earlier transfer paid.    *)
(* Claims implements it.                                                   *)
(***************************************************************************)
CONSTANTS Earning, Owner, EarnedBy, Claim

VARIABLES
    earned,      \* the earnings credited so far
    transfers    \* the transfers made: [id : Claim, for : SUBSET Earning]

contractVars == <<earned, transfers>>

Init == earned = {} /\ transfers = {}

Earn(x) == earned' = earned \cup {x} /\ UNCHANGED transfers

Transfer(c, o, S) ==
    /\ S \subseteq {x \in earned : EarnedBy[x] = o}
    /\ \A t \in transfers : t.id # c /\ t.for \cap S = {}
    /\ transfers' = transfers \cup {[id |-> c, for |-> S]}
    /\ UNCHANGED earned

Next ==
    \/ \E x \in Earning : Earn(x)
    \/ \E c \in Claim, o \in Owner, S \in SUBSET Earning : Transfer(c, o, S)

Spec == Init /\ [][Next]_contractVars

=============================================================================
