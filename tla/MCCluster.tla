----------------------------- MODULE MCCluster -----------------------------
\* A model of two layers, one worker that holds both and two that hold one.
EXTENDS Cluster

CONSTANTS n1, n2, n3

MCNodes == {n1, n2, n3}
MCCap == [n \in MCNodes |-> IF n = n1 THEN 2 ELSE 1]
MCReports == [ready : BOOLEAN, over : {FALSE}, rtt : {TRUE}]
MCSymmetry == Permutations({n2, n3})
=============================================================================
