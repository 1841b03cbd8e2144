------------------------------- MODULE MCHMap -------------------------------
EXTENDS HMap

\* With two buckets, two of three keys share one.
MCHash == [k \in Keys |-> k]
=============================================================================
