------------------------------ MODULE MCConsole ------------------------------
(* Two models, two nodes, and the reports that tell the console's cases apart: no
   scheduler yet, nodes that do not suffice, and a cluster of the other model that is
   available with one of the two nodes. *)
EXTENDS Console

MCModels == <<"qwen", "kimi">>

Up(id) == [id |-> id, status |-> "available"]

MCReports ==
  {NoScheduler,
   [Started("qwen", 2, "local") EXCEPT !.nodes = <<Up("n1"), Up("n2")>>, !.more = TRUE],
   [Started("kimi", 1, "local") EXCEPT !.nodes = <<Up("n1")>>, !.status = "available"]}
=============================================================================
