------------------------- MODULE MCBalanceReviews -------------------------
EXTENDS BalanceReviews, TLC

CONSTANT Level     \* readings an ordinary change apart from each other

\* Any other change of the reading is a suspect one.
Jumps == {p \in Value \X Value : p[1] # p[2] /\ ~(p \in Level \X Level)}

Symmetry == Permutations(Sync) \cup Permutations(Level)
=============================================================================
