----------------------------- MODULE ClusterView -----------------------------
(***************************************************************************)
(* The states of the cluster service of the web frontend                   *)
(* (services/cluster.tsx) as one record, and what its callbacks make of    *)
(* it.  The service keeps two views of a cluster side by side: what the    *)
(* server last said (`info`, `nodes`) and what the user has chosen         *)
(* (`model`, `init`).                                                      *)
(***************************************************************************)
EXTENDS Naturals, Sequences, FiniteSets, SequencesExt

CONSTANTS Models,     \* the models on the list, in the order of the list
          NodeIds     \* the ids of nodes

ASSUME ViewAssumption == Models \in Seq(STRING) /\ "" \notin NodeIds

NoModel == ""
ModelNames == ToSet(Models) \cup {NoModel}

NodeInfo == [id : NodeIds, status : {"waiting", "available", "failed"}]

\* The networks nodes may be in; the command that joins a cluster is made for one of
\* them, NoCommand while there is no scheduler.
Networks == {"local", "remote"}
NoCommand == "none"

\* The data of a cluster_status message; the model is NoModel before the first init.
\* node_list names each node of a dictionary, as waiting or available.
NodeLists == {ns \in Seq(NodeInfo) : /\ \A i \in DOMAIN ns : ns[i].status # "failed"
                                    /\ \A i, j \in DOMAIN ns : ns[i].id = ns[j].id => i = j}
Report == [status : {"waiting", "available"}, model : ModelNames, init : Nat,
           command : Networks \cup {NoCommand}, more : BOOLEAN, nodes : NodeLists]

\* INITIAL_CLUSTER_INFO.  `known`: modelInfo is set.
Unknown == [status |-> "offline", model |-> NoModel, init |-> 4, command |-> NoCommand,
            more |-> FALSE, known |-> FALSE]

\* The states of the service, and of the pages that use it: `listed`: the list of models
\* has arrived; `fresh`: info is a new object, or the list has arrived, since the last
\* commit; `can`: canAutoCommit of the model select on the chat page; `wide`: the side bar
\* of that page is expanded.
Start(path) == [info |-> Unknown, nodes |-> <<>>, listed |-> FALSE, model |-> NoModel,
                init |-> 1, net |-> "local", path |-> path, can |-> FALSE, wide |-> TRUE,
                fresh |-> TRUE]

\* setClusterInfo replaces the object only if it differs.
WithInfo(u, info) == [u EXCEPT !.info = info, !.fresh = @ \/ info # u.info]

\* Nodes that have vanished are kept as failed, as long as the others have not changed.
Has(ns, id) == \E i \in DOMAIN ns : ns[i].id = id

\* Mutation of Merge: all earlier nodes are kept, not only the vanished ones.
MergeAll(prev, next) ==
  next \o [i \in DOMAIN prev |-> [prev[i] EXCEPT !.status = "failed"]]

\* Array.filter: the elements of s at the positions I, in their order.
At(s, I) ==
  LET order == CHOOSE f \in [1 .. Cardinality(I) -> I] :
                 \A i, j \in 1 .. Cardinality(I) : i < j => f[i] < f[j]
  IN [k \in 1 .. Cardinality(I) |-> s[order[k]]]

Merge(prev, next) ==
  LET online == {i \in DOMAIN prev : Has(next, prev[i].id)}
      offline == At(prev, DOMAIN prev \ online)
      failed == [i \in DOMAIN offline |-> [offline[i] EXCEPT !.status = "failed"]]
  IN IF next = At(prev, online) THEN next \o failed ELSE next

\* onMessage, for a cluster_status message s.
WithStatus(u, s) ==
  [WithInfo(u, [status |-> IF s.model = NoModel THEN "idle" ELSE s.status,
                model |-> s.model, init |-> s.init, command |-> s.command,
                more |-> s.more, known |-> FALSE])
   EXCEPT !.nodes = Merge(u.nodes, s.nodes)]

\* onError.
Reset(u) == [WithInfo(u, Unknown) EXCEPT !.nodes = <<>>]

\* What the select shows after an effect on [modelInfoList, clusterInfo]: a waiting
\* cluster's model prevails over the user's, any other gives way to it.
FirstOf(names) == LET i == SelectInSeq(names, LAMBDA m : m # NoModel)
                  IN IF i = 0 THEN NoModel ELSE names[i]

SelectedModel(u) ==
  LET first == IF u.listed /\ Models # <<>> THEN Models[1] ELSE NoModel
  IN CASE u.info.status = "waiting" -> FirstOf(<<u.info.model, u.model, first>>)
       [] u.info.status = "offline" -> u.model
       [] OTHER                     -> FirstOf(<<u.model, u.info.model, first>>)

\* init: what it requires, and what it makes of the view once it is answered; always a
\* new object.
MayInit(u) == u.init >= 1 /\ u.model # NoModel

\* Mutation of Inited: the nodes of the earlier cluster stay.
InitedKeepsNodes(u, model, init) ==
  [u EXCEPT !.info = [@ EXCEPT !.status = "waiting", !.model = model, !.init = init,
                               !.more = FALSE],
            !.fresh = TRUE]

Inited(u, model, init) ==
  [u EXCEPT !.info = [@ EXCEPT !.status = "waiting", !.model = model, !.init = init,
                               !.more = FALSE, !.known = u.listed /\ model \in ToSet(Models)],
            !.nodes = <<>>, !.fresh = TRUE]

----------------------------------------------------------------------------
(* What the pages derive from the states. *)
\* isError of the join page: enough nodes, but no pipeline.
IsError(u) == /\ u.info.init > 0 /\ Len(u.nodes) >= u.info.init
              /\ \A i \in DOMAIN u.nodes : u.nodes[i].status = "available"
              /\ u.info.status = "waiting"

\* The placeholders of the node list.
OpenPlaces(u) == IF u.info.status # "idle" /\ u.info.init > Len(u.nodes)
                 THEN u.info.init - Len(u.nodes) ELSE 0

\* A row of the node list: a node, failed ones dimmed, or a placeholder.
Row(n) == [id |-> n.id, up |-> n.status = "available", dim |-> n.status = "failed"]
Place == [id |-> "", up |-> FALSE, dim |-> FALSE]
Rows(u) == [i \in DOMAIN u.nodes |-> Row(u.nodes[i])] \o [i \in 1 .. OpenPlaces(u) |-> Place]

\* The need of memory is known of a chosen model that is on the list.
VramKnown(u) == u.listed /\ u.model \in ToSet(Models)

\* The alerts of the join page.
JoinAlerts(u) == {IF IsError(u) THEN "error" ELSE "info"}
                   \cup {a \in {"more"} : VramKnown(u) /\ u.info.more}
=============================================================================
