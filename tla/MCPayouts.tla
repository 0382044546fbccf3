------------------------------- MODULE MCPayouts -------------------------------
(* Instances of Payouts for TLC: one, two or three withdrawals.            *)
EXTENDS Payouts, TLC

CONSTANTS h1, h2, h3, k1, k2

OneHandler    == {h1}
TwoHandlers   == {h1, h2}
ThreeHandlers == {h1, h2, h3}

OneKey  == {k1}
TwoKeys == {k1, k2}

\* Withdrawals of 2 and 1 cost 3 and 2 with a fee of 1: one credit of 3 cannot serve
\* both, a credit of 6 can.
Amounts == [k \in Keys |-> IF k = k1 THEN 2 ELSE 1]

HandlerSymmetry == Permutations(Handlers)
=============================================================================
