---------------------------- MODULE MCQueueCheck ----------------------------
EXTENDS QueueCheck, TLC

\* Every client asks for the same domain.
OneHost == [c \in Client |-> 1]

Symmetry == Permutations(Node) \cup Permutations(Client)
=============================================================================
