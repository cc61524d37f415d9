---------------------------- MODULE MCPartUpload ----------------------------
EXTENDS PartUpload, TLC
Symmetry == Permutations(Requests) \union Permutations(Pods) \union Permutations(Contents)
=============================================================================
