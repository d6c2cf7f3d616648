------------------------------- MODULE MCPair -------------------------------
\* Two workers that can each hold the whole model of two layers, or share it.
EXTENDS Cluster

CONSTANTS n1, n2

MCNodes == {n1, n2}
MCCap == [n \in MCNodes |-> 2]
MCReports == [ready : BOOLEAN, over : {FALSE}, rtt : {TRUE}]
\* Workers that one request may fill up, once they are ready.
MCLoadReports == {rep \in [ready : BOOLEAN, over : BOOLEAN, rtt : {TRUE}] : rep.over => rep.ready}
MCSymmetry == Permutations(MCNodes)
=============================================================================
