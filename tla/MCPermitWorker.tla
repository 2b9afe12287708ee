---------------------------- MODULE MCPermitWorker ----------------------------
EXTENDS PermitWorker, TLC

NodeSymmetry == Permutations(Node)
=============================================================================
