------------------------- MODULE MCVisitedListPool -------------------------
EXTENDS VisitedListPool, TLC

\* Threads and elements are interchangeable: neither the pool nor a search
\* compares them with anything but themselves.
Symmetry == Permutations(Threads) \cup Permutations(Elements)
=============================================================================
