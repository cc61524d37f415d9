------------------------- MODULE MCRunSubmission -----------------------------
EXTENDS RunSubmission, TLC
MCScopeOf == [v \in Revisions |-> IF v \in Rulesets THEN "asset" ELSE "tenant"]
Symmetry == Permutations(Rulesets) \union Permutations(Approvers) \union Permutations(Requests)
              \union Permutations(Triggers) \union Permutations(RunIds)
=============================================================================
