------------------------------ MODULE MCWhiteList ------------------------------
EXTENDS WhiteList, TLC

Symmetry == Permutations(Domain) \cup Permutations(Editor) \cup Permutations(Visitor)
=============================================================================
