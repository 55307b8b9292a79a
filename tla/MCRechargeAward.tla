--------------------------- MODULE MCRechargeAward ---------------------------
(***************************************************************************)
(* Small instances of RechargeAward.  Amounts count steps of 50 naira      *)
(* shrunk further: two steps a draw entry, three a point, four the first   *)
(* tier.                                                                   *)
(***************************************************************************)
EXTENDS RechargeAward, TLC

CONSTANTS c1, c2, p1, p2, w1, w2, m1, m2

\* The first recharge reaches the first tier, the second the second.
TwoAmounts == [r \in Recharge |-> IF r \in {c1, p1} THEN 4 ELSE 9]
\* The second recharge is below the minimum.
OneTooSmall == [r \in Recharge |-> IF r \in {c1, p1} THEN 4 ELSE 1]

\* Adjacent bands as migration 067 seeds them; the second exceeds spin_max_per_day.
TwoTiers == {[min |-> 4, max |-> 7, spins |-> 1], [min |-> 8, max |-> 99, spins |-> 3]}

\* The jobs of one kind are interchangeable.
WebhookSymmetry == Permutations({w1, w2})
PushSymmetry == Permutations({m1, m2})
==============================================================================
