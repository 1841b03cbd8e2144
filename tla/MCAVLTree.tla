------------------------------ MODULE MCAVLTree ------------------------------
EXTENDS AVLTree, TLC

\* Threads are compared only with each other.
Symmetry == Permutations(Threads)
=============================================================================
