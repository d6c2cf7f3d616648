------------------------------ MODULE MCExpand ------------------------------
(***************************************************************************)
(* A model of two layers, one worker that holds both and six that hold one. *)
(* Six of the workers bootstrap three pipelines, one member of each of two  *)
(* pipelines shuts down, and the seventh worker joins.  The constraint      *)
(* leaves out of the search all that has no part in this.                   *)
(***************************************************************************)
EXTENDS Cluster

CONSTANTS w, a, b, c, d, e, f

MCNodes == {w, a, b, c, d, e, f}
MCCap == [n \in MCNodes |-> IF n = w THEN 2 ELSE 1]
MCReports == {[ready |-> FALSE, over |-> FALSE, rtt |-> TRUE]}

Leavers == {a, c}
Gone == {n \in Leavers : worker[n].pc = "down"}
Started == {n \in Nodes : worker[n].pc # "off"}

Scene ==
  /\ \A n \in Nodes \ Leavers : worker[n].pc \in {"off", "joining"}
  /\ \A n \in Nodes : ~worker[n].ready /\ (state[n] # "none" => obj[n].fresh)
  /\ ev.pc = "joins" /\ ~bootstrapped => Started = Nodes \ {f}
  /\ bootstrapped /\ Gone = {} => Cardinality(DOMAIN pipes) = 3
  /\ Gone # {} => bootstrapped
  /\ f \in Started => Gone = Leavers /\ leaveQ = {}
=============================================================================
