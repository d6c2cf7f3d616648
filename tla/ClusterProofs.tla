--------------------------- MODULE ClusterProofs ---------------------------
(***************************************************************************)
(* Proofs about the registry and the whole system around it, for every set *)
(* of nodes, number of layers and bound.                                   *)
(*                                                                         *)
(* First the registry, under any caller: its type invariant, that mapped   *)
(* nodes are registered stages of a registered pipeline, and that a leave  *)
(* dissolves the whole pipeline.  MappedRegistered is inductive together   *)
(* with a weak type invariant, the shape of the registry, that puts no     *)
(* bound on the pipeline ids: the lemmas about single operations assume no *)
(* more than that.                                                         *)
(*                                                                         *)
(* Then the system: however the event thread, the dispatcher, the RPC      *)
(* handlers and the workers interleave, whichever call raises midway, and  *)
(* for any number of workers, crashes and requests, the registry keeps     *)
(* what its single operations keep.  The scheduler's threads carry lists   *)
(* of pipelines from one critical section to the next (ev.sel, rt[t].sel): *)
(* the invariant adds to the registry's that those are such lists.         *)
(*                                                                         *)
(* Last, that the scheduler implements the registry's specification.       *)
(***************************************************************************)
EXTENDS Cluster, FiniteSetTheorems, SequenceTheorems, TLAPS

Shape == /\ state \in [Nodes -> {"none", "standby", "active"}]
         /\ DOMAIN pipes \subseteq Nat
         /\ DOMAIN n2p \subseteq Nodes

\* Freezing a member's flag changes no stage of the pipeline.
LEMMA FreezeKeepsStages ==
  ASSUME NEW pipe, NEW n
  PROVE  Freeze(pipe, n).ids = pipe.ids
  BY DEF Freeze

\* Stages are sequences of nodes.
LEMMA StagesAreSequences == Stages \subseteq Seq(Nodes)
  BY NMAssumption DEF Stages

\* A node mapped by a registration call is a stage of an inserted pipeline, and
\* is mapped to the id of that pipeline.
LEMMA MappedToInserted ==
  ASSUME NEW list \in Seq(Seq(Nodes)), NEW owned, NEW k \in 1..(Len(list) + 1),
         StopsAt(list, owned, k), NEW base, NEW n \in Mapped(list, owned, k)
  PROVE  \E i \in Inserted(list, k) : /\ PidOf(list, k, base, n) = base + i - 1
                                      /\ n \in Members(list[i])
<1> DEFINE First(i) == n \in Members(list[i]) /\ \A h \in 1..(i - 1) : n \notin Members(list[h])
<1>1. \E i \in Inserted(list, k) : First(i)
  <2>1. CASE n \in UNION {Members(list[i]) : i \in DOMAIN list \cap 1..(k - 1)}
    <3>1. PICK i \in DOMAIN list \cap 1..(k - 1) : n \in Members(list[i])
      BY <2>1
    <3>2. Clean(list, owned, i)
      BY <3>1 DEF StopsAt
    <3>3. First(i)
      BY <3>1, <3>2 DEF Clean, OwnedBefore
    <3> QED BY <3>1, <3>3 DEF Inserted
  <2>2. CASE n \notin UNION {Members(list[i]) : i \in DOMAIN list \cap 1..(k - 1)}
    <3>1. /\ k \in Inserted(list, k)
          /\ \E j \in DOMAIN list[k] :
               n = list[k][j] /\ \A h \in 1..j : list[k][h] \notin OwnedBefore(list, owned, k)
      BY <2>2 DEF Mapped
    <3>2. PICK j \in DOMAIN list[k] :
            n = list[k][j] /\ \A h \in 1..j : list[k][h] \notin OwnedBefore(list, owned, k)
      BY <3>1
    <3>3. k \in DOMAIN list
      BY <3>1 DEF Inserted
    <3>4. j \in 1..j
      BY <3>3
    <3>5. n \in Members(list[k]) /\ n \notin OwnedBefore(list, owned, k)
      BY <3>2, <3>4 DEF Members, Range
    <3>6. First(k)
      BY <3>5 DEF OwnedBefore
    <3> QED BY <3>1, <3>6
  <2> QED BY <2>1, <2>2
<1>2. PICK i \in Inserted(list, k) : i = CHOOSE c \in Inserted(list, k) : First(c)
  BY <1>1
<1>3. First(i)
  BY <1>1, <1>2
<1> QED BY <1>2, <1>3 DEF PidOf

\* An inserted pipeline whose members a registration call maps was well formed,
\* so all its members are registered nodes.
LEMMA InsertedAreRegistrable ==
  ASSUME NEW list \in Seq(Seq(Nodes)), NEW owned, NEW k \in 1..(Len(list) + 1),
         StopsAt(list, owned, k), NEW i \in Inserted(list, k)
  PROVE  i \in DOMAIN list /\ Registrable(list[i])
  BY DEF StopsAt, Clean, Inserted

----------------------------------------------------------------------------
(***************************************************************************)
(* MappedRegistered, operation by operation.                               *)
(***************************************************************************)
\* The initial registry is empty.
LEMMA InitMapped == NMInit => Shape /\ MappedRegistered
  BY DEF NMInit, Shape, MappedRegistered

\* Operations that forget no node and change neither a pipeline's stages nor the
\* mapping.
LEMMA QuietMapped ==
  ASSUME Shape, MappedRegistered,
         DOMAIN pipes' = DOMAIN pipes,
         \A p \in DOMAIN pipes : pipes'[p].ids = pipes[p].ids,
         n2p' = n2p,
         state' \in [Nodes -> {"none", "standby", "active"}],
         \A n \in Nodes : state[n] # "none" => state'[n] # "none"
  PROVE  Shape' /\ MappedRegistered'
  BY DEF Shape, MappedRegistered

\* upsert() replaces a Node object.
LEMMA UpsertMapped ==
  ASSUME Shape, MappedRegistered, NEW n, NEW rep, Upsert(n, rep)
  PROVE  Shape' /\ MappedRegistered'
<1>1. /\ DOMAIN pipes' = DOMAIN pipes
      /\ \A p \in DOMAIN pipes : pipes'[p].ids = pipes[p].ids
  BY FreezeKeepsStages DEF Upsert
<1>2. /\ n2p' = n2p
      /\ state' \in [Nodes -> {"none", "standby", "active"}]
      /\ \A m \in Nodes : state[m] # "none" => state'[m] # "none"
  BY DEF Upsert, Shape
<1> QED BY <1>1, <1>2, QuietMapped

\* The state change of standby() moves ACTIVE nodes only.
LEMMA StandbyMapped ==
  ASSUME Shape, MappedRegistered, NEW ids, NEW moved, StandbyLocked(ids, moved)
  PROVE  Shape' /\ MappedRegistered'
  BY QuietMapped DEF StandbyLocked, Active, Shape

\* Writes to the Node objects touch neither registry dictionary.
LEMMA UnchangedMapped ==
  ASSUME Shape, MappedRegistered, UNCHANGED <<state, pipes, n2p>>
  PROVE  Shape' /\ MappedRegistered'
  BY QuietMapped DEF Shape

\* activate() of a registered node.
LEMMA AllocateMapped ==
  ASSUME Shape, MappedRegistered, NEW n, NEW r, Allocate(n, r)
  PROVE  Shape' /\ MappedRegistered'
  BY QuietMapped DEF Allocate, Shape

\* remove(): the members of the pipeline that goes are exactly the nodes mapped
\* to it, by MappedRegistered, so none is left pointing at it.
LEMMA RemoveMapped ==
  ASSUME Shape, MappedRegistered, NEW n, RemoveNode(n)
  PROVE  Shape' /\ MappedRegistered'
<1>1. Shape'
  BY DEF Shape, RemoveNode
<1>2. ASSUME NEW m \in DOMAIN n2p'
      PROVE  /\ m \in DOMAIN n2p /\ m # n /\ m \in Nodes
             /\ n2p'[m] = n2p[m]
             /\ OwnPipe(n) => m \notin Members(pipes[n2p[n]].ids)
  BY DEF RemoveNode, Shape
<1>3. ASSUME NEW m \in DOMAIN n2p'
      PROVE  state'[m] # "none"
  BY <1>2 DEF MappedRegistered, RemoveNode
<1>4. ASSUME NEW m \in DOMAIN n2p'
      PROVE  n2p'[m] \in DOMAIN pipes' /\ m \in Members(pipes'[n2p'[m]].ids)
  <2>1. n2p[m] \in DOMAIN pipes /\ m \in Members(pipes[n2p[m]].ids)
    BY <1>2, <1>4 DEF MappedRegistered
  <2>2. OwnPipe(n) => n2p[m] # n2p[n]
    BY <1>2, <1>4, <2>1
  <2>3. n2p[m] \in DOMAIN pipes' /\ pipes'[n2p[m]] = Freeze(pipes[n2p[m]], n)
    BY <2>1, <2>2 DEF RemoveNode
  <2> QED BY <1>2, <1>4, <2>1, <2>3, FreezeKeepsStages
<1> QED BY <1>1, <1>3, <1>4 DEF MappedRegistered

\* register_pipelines(): whoever the call maps is a stage of a pipeline it has
\* inserted, and is forced ACTIVE.
LEMMA RegisterMapped ==
  ASSUME Shape, MappedRegistered, NEW list \in Seq(Seq(Nodes)), RegisterPipelines(list)
  PROVE  Shape' /\ MappedRegistered'
<1>1. PICK k \in 1..(Len(list) + 1) :
        /\ StopsAt(list, {}, k)
        /\ pipes' = [p \in {i - 1 : i \in Inserted(list, k)} |-> NewPipe(list[p + 1])]
        /\ n2p' = [n \in Mapped(list, {}, k) |-> PidOf(list, k, 0, n)]
        /\ state' = [n \in Nodes |-> IF n \in Mapped(list, {}, k) THEN "active" ELSE state[n]]
  BY DEF RegisterPipelines
<1>2. ASSUME NEW n \in Mapped(list, {}, k)
      PROVE  n \in Nodes /\ n2p'[n] \in DOMAIN pipes' /\ n \in Members(pipes'[n2p'[n]].ids)
  <2>1. PICK i \in Inserted(list, k) : PidOf(list, k, 0, n) = 0 + i - 1 /\ n \in Members(list[i])
    BY <1>1, <1>2, MappedToInserted
  <2>2. i \in DOMAIN list
    BY DEF Inserted
  <2>3. n2p'[n] = i - 1 /\ i - 1 \in DOMAIN pipes' /\ pipes'[i - 1] = NewPipe(list[i])
    BY <1>1, <1>2, <2>1, <2>2
  <2> QED BY <2>1, <2>2, <2>3 DEF NewPipe, Members, Range
<1>3. DOMAIN pipes' \subseteq Nat
  BY <1>1 DEF Inserted
<1> QED BY <1>1, <1>2, <1>3 DEF Shape, MappedRegistered

\* extend_registered_pipelines(): the new ids lie above the old ones, and the new
\* members are registered nodes that had no pipeline.
LEMMA ExtendMapped ==
  ASSUME Shape, MappedRegistered, NEW list \in Seq(Seq(Nodes)), ExtendRegistered(list)
  PROVE  Shape' /\ MappedRegistered'
<1> DEFINE owned == DOMAIN n2p
<1>1. PICK base \in 0..(MaxPid + 1 - Len(list)), k \in 1..(Len(list) + 1) :
        /\ NextPid(base)
        /\ StopsAt(list, owned, k)
        /\ pipes' = [p \in DOMAIN pipes \cup {base + i - 1 : i \in Inserted(list, k)} |->
                       IF p \in DOMAIN pipes THEN pipes[p] ELSE NewPipe(list[p - base + 1])]
        /\ n2p' = [n \in owned \cup Mapped(list, owned, k) |->
                     IF n \in owned THEN n2p[n] ELSE PidOf(list, k, base, n)]
        /\ UNCHANGED <<state, obj>>
  BY DEF ExtendRegistered
<1>2. ASSUME NEW n \in Mapped(list, owned, k), n \notin owned
      PROVE  /\ n \in Nodes /\ state'[n] # "none"
             /\ n2p'[n] \in DOMAIN pipes' /\ n \in Members(pipes'[n2p'[n]].ids)
  <2>1. PICK i \in Inserted(list, k) : PidOf(list, k, base, n) = base + i - 1 /\ n \in Members(list[i])
    BY <1>1, <1>2, MappedToInserted
  <2>2. i \in DOMAIN list /\ Registrable(list[i])
    BY <1>1, InsertedAreRegistrable
  <2>3. base + i - 1 \notin DOMAIN pipes
    BY <1>1, <2>2 DEF NextPid, Shape
  <2>4. /\ n2p'[n] = base + i - 1 /\ base + i - 1 \in DOMAIN pipes'
        /\ pipes'[base + i - 1] = NewPipe(list[i])
    BY <1>1, <1>2, <2>1, <2>2, <2>3
  <2>5. n \in Nodes /\ state[n] # "none"
    BY <2>1, <2>2 DEF Registrable, Members, Range
  <2> QED BY <1>1, <2>1, <2>4, <2>5 DEF NewPipe
<1>3. ASSUME NEW n \in owned
      PROVE  /\ state'[n] # "none"
             /\ n2p'[n] \in DOMAIN pipes' /\ n \in Members(pipes'[n2p'[n]].ids)
  BY <1>1, <1>3 DEF MappedRegistered
<1>4. DOMAIN pipes' \subseteq Nat
  BY <1>1 DEF Inserted, Shape
<1> QED BY <1>1, <1>2, <1>3, <1>4 DEF Shape, MappedRegistered

\* The second half of clear_registered_pipelines() empties both dictionaries.
LEMMA ResetMapped ==
  ASSUME Shape, MappedRegistered, ResetRegistry
  PROVE  Shape' /\ MappedRegistered'
  BY DEF ResetRegistry, Shape, MappedRegistered

\* The batches of the general client are lists of pipelines.
LEMMA BatchesAreLists == Batches \subseteq Seq(Stages)
<1> SUFFICES ASSUME NEW k \in 0..(MaxBatch - 1), NEW p \in Stages,
                    NEW front \in [1..k -> {q \in Stages : Registrable(q)}]
             PROVE  Append(front, p) \in Seq(Stages)
  BY DEF Batches
<1>1. front \in Seq(Stages)
  BY NMAssumption
<1> QED BY <1>1

\* A batch is a list of stage sequences.
LEMMA ListsOfStages == Seq(Stages) \subseteq Seq(Seq(Nodes))
  BY StagesAreSequences

----------------------------------------------------------------------------
(***************************************************************************)
(* Theorems                                                                *)
(***************************************************************************)
\* remove() of any node keeps the invariant, and every other call does too.
LEMMA NextMapped ==
  ASSUME Shape, MappedRegistered, [NMNext]_registry
  PROVE  Shape' /\ MappedRegistered'
<1>1. CASE \E n \in Nodes, rep \in Reports : Upsert(n, rep)
  BY <1>1, UpsertMapped
<1>2. CASE \E S \in SUBSET Nodes : \E ups \in [S -> Reports] : UpdateInfo(ups)
  BY <1>2, UnchangedMapped DEF UpdateInfo
<1>3. CASE \E n \in Nodes : RemoveNode(n)
  BY <1>3, RemoveMapped
<1>4. CASE \E n \in Nodes : Expire(n)
  BY <1>4, UnchangedMapped DEF Expire
<1>5. CASE \E n \in Nodes, b \in BOOLEAN : AddRequest(n, b)
  BY <1>5, UnchangedMapped DEF AddRequest
<1>6. CASE \E S \in SUBSET Nodes : StandbyLocked(S, S)
  BY <1>6, StandbyMapped
<1>7. CASE \E S \in SUBSET Nodes : ClearServing(S)
  BY <1>7, UnchangedMapped DEF ClearServing
<1>8. CASE \E n \in Nodes, r \in Ranges : Allocate(n, r)
  BY <1>8, AllocateMapped
<1>9. CASE \E n \in Nodes, r \in Ranges : AllocateFailed(n, r)
  BY <1>9, UnchangedMapped DEF AllocateFailed
<1>10. CASE \E list \in Batches : RegisterPipelines(list)
  BY <1>10, BatchesAreLists, ListsOfStages, RegisterMapped
<1>11. CASE \E list \in Batches : ExtendRegistered(list)
  BY <1>11, BatchesAreLists, ListsOfStages, ExtendMapped
<1>12. CASE ResetRegistry
  BY <1>12, ResetMapped
<1>13. CASE UNCHANGED registry
  BY <1>13, UnchangedMapped DEF registry
<1> QED BY <1>1, <1>2, <1>3, <1>4, <1>5, <1>6, <1>7, <1>8, <1>9, <1>10, <1>11, <1>12, <1>13
        DEF NMNext

\* Whoever calls the registry, in whatever order, a mapped node is a registered
\* stage of the registered pipeline it is mapped to (remove, register_pipelines
\* and extend_registered_pipelines, including the calls that raise midway).
THEOREM RegistryIsMapped == NMSpec => []MappedRegistered
<1>1. NMInit => Shape /\ MappedRegistered
  BY InitMapped
<1>2. Shape /\ MappedRegistered /\ [NMNext]_registry => (Shape /\ MappedRegistered)'
  BY NextMapped
<1> QED BY <1>1, <1>2, PTL DEF NMSpec

\* Only remove() makes a node unknown, and it makes only that one unknown.
LEMMA OnlyRemoveForgets ==
  ASSUME Shape, [NMNext]_registry, NEW n \in Nodes, state[n] # "none", state'[n] = "none"
  PROVE  RemoveNode(n)
<1>1. ASSUME NEW m \in Nodes, RemoveNode(m) PROVE m = n
  BY <1>1 DEF RemoveNode, Shape
<1>2. ~ \E S \in SUBSET Nodes : StandbyLocked(S, S)
  BY DEF StandbyLocked, Active
<1>3. ~ \E list \in Batches : RegisterPipelines(list)
  BY DEF RegisterPipelines
<1>4. ~ \E m \in Nodes, rep \in Reports : Upsert(m, rep)
  BY DEF Upsert, Shape
<1>5. ~ \E m \in Nodes, r \in Ranges : Allocate(m, r)
  BY DEF Allocate, Shape
<1>6. state' # state
  OBVIOUS
<1> QED BY <1>1, <1>2, <1>3, <1>4, <1>5, <1>6
        DEF NMNext, registry, UpdateInfo, Expire, AddRequest, ClearServing,
            AllocateFailed, ExtendRegistered, ResetRegistry

\* Leaving any member invalidates its entire registered pipeline, in one step of
\* the registry (remove).
THEOREM LeavesDissolve == NMSpec => LeaveDissolvesPipeline
<1> DEFINE Dissolves ==
      \A n \in DOMAIN n2p :
        (state[n] # "none" /\ state'[n] = "none")
          => /\ n2p[n] \notin DOMAIN pipes'
             /\ \A m \in DOMAIN n2p' : n2p'[m] # n2p[n]
<1>1. ASSUME Shape, MappedRegistered, [NMNext]_registry PROVE Dissolves
  <2> SUFFICES ASSUME NEW n \in DOMAIN n2p, state[n] # "none", state'[n] = "none"
               PROVE  /\ n2p[n] \notin DOMAIN pipes'
                      /\ \A m \in DOMAIN n2p' : n2p'[m] # n2p[n]
    OBVIOUS
  <2>1. n \in Nodes
    BY <1>1 DEF Shape
  <2>2. RemoveNode(n)
    BY <1>1, <2>1, OnlyRemoveForgets
  <2>3. OwnPipe(n)
    BY <1>1 DEF MappedRegistered, OwnPipe
  <2>4. n2p[n] \notin DOMAIN pipes'
    BY <2>2, <2>3 DEF RemoveNode
  <2>5. MappedRegistered'
    BY <1>1, <2>1, <2>2, RemoveMapped
  <2> QED BY <2>4, <2>5 DEF MappedRegistered
<1>2. NMSpec => [](Shape /\ MappedRegistered)
  <2>1. NMInit => Shape /\ MappedRegistered
    BY InitMapped
  <2>2. Shape /\ MappedRegistered /\ [NMNext]_registry => (Shape /\ MappedRegistered)'
    BY NextMapped
  <2> QED BY <2>1, <2>2, PTL DEF NMSpec
<1>3. (Shape /\ MappedRegistered) /\ [NMNext]_registry => [Dissolves]_registry
  BY <1>1
<1> QED BY <1>2, <1>3, PTL DEF NMSpec, LeaveDissolvesPipeline

----------------------------------------------------------------------------
(***************************************************************************)
(* The type invariant.                                                     *)
(***************************************************************************)
\* The Node objects that the operations build.
LEMMA NodeObjects ==
  /\ Blank \in NodeObj
  /\ \A rep \in Reports : FromReport(rep) \in NodeObj
  /\ \A o \in NodeObj : Cleared(o) \in NodeObj
  BY NMAssumption DEF NodeObj, Blank, FromReport, Cleared

\* Freezing the flag of a node makes a pipeline of a pipeline.
LEMMA FreezeType ==
  ASSUME NEW pipe \in PipeObj, NEW n \in Nodes, obj[n].ready \in BOOLEAN
  PROVE  Freeze(pipe, n) \in PipeObj
<1> DEFINE more == [m \in DOMAIN pipe.frozen \cup {n} |->
                      IF m = n THEN obj[n].ready ELSE pipe.frozen[m]]
<1>1. PICK S \in SUBSET Nodes : pipe.frozen \in [S -> BOOLEAN]
  BY DEF PipeObj
<1>2. more \in [S \cup {n} -> BOOLEAN]
  BY <1>1
<1>3. [pipe EXCEPT !.frozen = more] \in PipeObj
  <2>1. S \cup {n} \in SUBSET Nodes
    OBVIOUS
  <2>2. more \in UNION {[T -> BOOLEAN] : T \in SUBSET Nodes}
    BY <1>2, <2>1
  <2> HIDE DEF more
  <2> QED BY <2>2 DEF PipeObj
<1> QED BY <1>3 DEF Freeze

\* A pipeline as it is registered: nothing frozen yet.
LEMMA NewPipeType == ASSUME NEW p \in Seq(Nodes) PROVE NewPipe(p) \in PipeObj
<1>1. [n \in {} |-> FALSE] \in [{} -> BOOLEAN]
  OBVIOUS
<1>2. [n \in {} |-> FALSE] \in UNION {[S -> BOOLEAN] : S \in SUBSET Nodes}
  BY <1>1
<1> QED BY <1>2 DEF NewPipe, PipeObj

\* A Node object per id, a state per id, at every step but those of a
\* registration.
LEMMA UpsertType ==
  ASSUME NMTypeOK, NEW n \in Nodes, NEW rep \in Reports, Upsert(n, rep)
  PROVE  NMTypeOK'
<1>1. state' \in [Nodes -> {"none", "standby", "active"}] /\ obj' \in [Nodes -> NodeObj]
  BY NodeObjects DEF NMTypeOK, Upsert
<1>2. obj[n].ready \in BOOLEAN
  BY DEF NMTypeOK, NodeObj
<1>3. \A p \in DOMAIN pipes' : pipes'[p] \in PipeObj
  BY <1>2, FreezeType DEF NMTypeOK, Upsert
<1> QED BY <1>1, <1>3 DEF NMTypeOK, Upsert

\* remove() keeps the types: a member stood by is a member of a registered pipeline.
LEMMA RemoveType ==
  ASSUME NMTypeOK, NEW n \in Nodes, RemoveNode(n)
  PROVE  NMTypeOK'
<1>1. state' \in [Nodes -> {"none", "standby", "active"}]
  BY DEF NMTypeOK, RemoveNode
<1>2. obj' \in [Nodes -> NodeObj]
  BY NodeObjects DEF NMTypeOK, RemoveNode
<1>3. obj[n].ready \in BOOLEAN
  BY DEF NMTypeOK, NodeObj
<1>4. \A p \in DOMAIN pipes' : pipes'[p] \in PipeObj
  BY <1>3, FreezeType DEF NMTypeOK, RemoveNode
<1>5. /\ DOMAIN pipes' \subseteq DOMAIN pipes /\ DOMAIN n2p' \subseteq DOMAIN n2p
      /\ \A m \in DOMAIN n2p' : n2p'[m] = n2p[m]
  BY DEF RemoveNode
<1> QED BY <1>1, <1>2, <1>4, <1>5 DEF NMTypeOK

\* Operations that write states and Node objects only.
LEMMA ObjectsType ==
  ASSUME NMTypeOK, UNCHANGED <<pipes, n2p>>,
         state' \in [Nodes -> {"none", "standby", "active"}], obj' \in [Nodes -> NodeObj]
  PROVE  NMTypeOK'
  BY DEF NMTypeOK

\* So does moving nodes to STANDBY.
LEMMA StandbyType ==
  ASSUME NMTypeOK, NEW ids, NEW moved, StandbyLocked(ids, moved) PROVE NMTypeOK'
  BY ObjectsType DEF NMTypeOK, StandbyLocked

\* Cleared objects are objects.
LEMMA ClearType ==
  ASSUME NMTypeOK, NEW ids, ClearServing(ids) PROVE NMTypeOK'
<1>1. obj' \in [Nodes -> NodeObj]
  BY NodeObjects DEF NMTypeOK, ClearServing
<1> QED BY <1>1, ObjectsType DEF NMTypeOK, ClearServing

\* A node is allocated a proper range.
LEMMA AllocateType ==
  ASSUME NMTypeOK, NEW n \in Nodes, NEW r \in Ranges, Allocate(n, r) \/ AllocateFailed(n, r)
  PROVE  NMTypeOK'
<1>1. state' \in [Nodes -> {"none", "standby", "active"}]
  BY DEF NMTypeOK, Allocate, AllocateFailed
<1>2. obj[n] \in NodeObj
  BY DEF NMTypeOK
<1>3. \A b \in BOOLEAN : [obj[n] EXCEPT !.range = r, !.over = b] \in NodeObj
  BY <1>2 DEF NodeObj
<1>4. \A s \in Ranges \cup {NoRange} : [obj[n] EXCEPT !.range = s] \in NodeObj
  BY <1>2 DEF NodeObj
<1>5. CASE Allocate(n, r)
  <2>1. obj[n].over \in BOOLEAN
    BY <1>2 DEF NodeObj
  <2>2. (obj[n].over /\ obj[n].range = NoRange) \in BOOLEAN
    BY <2>1
  <2>3. obj' = [obj EXCEPT ![n] = [obj[n] EXCEPT !.range = r,
                                    !.over = obj[n].over /\ obj[n].range = NoRange]]
    BY <1>5 DEF Allocate, NMTypeOK
  <2>4. obj' \in [Nodes -> NodeObj]
    BY <1>3, <2>2, <2>3 DEF NMTypeOK
  <2> QED BY <1>1, <1>5, <2>4, ObjectsType DEF Allocate
<1>6. CASE AllocateFailed(n, r)
  <2>1. (IF state[n] = "active" THEN r ELSE obj[n].range) \in Ranges \cup {NoRange}
    BY <1>2 DEF NodeObj
  <2>2. obj' \in [Nodes -> NodeObj]
    BY <1>4, <1>6, <2>1 DEF AllocateFailed, NMTypeOK
  <2> QED BY <1>1, <1>6, <2>2, ObjectsType DEF AllocateFailed
<1> QED BY <1>5, <1>6

\* A report makes a well-typed object.
LEMMA UpdateType ==
  ASSUME NMTypeOK, NEW S \in SUBSET Nodes, NEW ups \in [S -> Reports], UpdateInfo(ups)
  PROVE  NMTypeOK'
<1>1. ASSUME NEW n \in S
      PROVE  [FromReport(ups[n]) EXCEPT !.range = obj[n].range] \in NodeObj
  <2>1. FromReport(ups[n]) \in NodeObj /\ obj[n] \in NodeObj
    BY NodeObjects DEF NMTypeOK
  <2> QED BY <2>1 DEF NodeObj
<1>2. obj' \in [Nodes -> NodeObj]
  BY <1>1 DEF UpdateInfo, NMTypeOK
<1> QED BY <1>2, ObjectsType DEF UpdateInfo, NMTypeOK

\* Charges and timeouts set one flag.
LEMMA FlagsType ==
  ASSUME NMTypeOK, NEW n \in Nodes, NEW b \in BOOLEAN, AddRequest(n, b) \/ Expire(n)
  PROVE  NMTypeOK'
<1>1. obj[n] \in NodeObj
  BY DEF NMTypeOK
<1>2. [obj[n] EXCEPT !.over = b] \in NodeObj /\ [obj[n] EXCEPT !.fresh = FALSE] \in NodeObj
  BY <1>1 DEF NodeObj
<1>3. obj' \in [Nodes -> NodeObj]
  BY <1>2 DEF AddRequest, Expire, NMTypeOK
<1> QED BY <1>3, ObjectsType DEF AddRequest, Expire, NMTypeOK

\* The ids that a registration gives out.
LEMMA RegisterType ==
  ASSUME NMTypeOK, NEW list \in Seq(Seq(Nodes)), RegisterPipelines(list)
  PROVE  NMTypeOK'
<1>1. Len(list) <= MaxPid + 1
  BY DEF RegisterPipelines
<1>2. PICK k \in 1..(Len(list) + 1) :
        /\ StopsAt(list, {}, k)
        /\ pipes' = [p \in {i - 1 : i \in Inserted(list, k)} |-> NewPipe(list[p + 1])]
        /\ n2p' = [n \in Mapped(list, {}, k) |-> PidOf(list, k, 0, n)]
        /\ state' = [n \in Nodes |-> IF n \in Mapped(list, {}, k) THEN "active" ELSE state[n]]
        /\ UNCHANGED obj
  BY DEF RegisterPipelines
<1>3. ASSUME NEW i \in Inserted(list, k)
      PROVE  i - 1 \in 0..MaxPid /\ list[i] \in Seq(Nodes) /\ NewPipe(list[i]) \in PipeObj
  <2>1. i \in 1..Len(list)
    BY <1>1 DEF Inserted
  <2>2. list[i] \in Seq(Nodes)
    BY <1>1, <2>1
  <2> QED BY <1>1, <2>1, <2>2, NewPipeType, NMAssumption
<1>4. DOMAIN pipes' \subseteq 0..MaxPid /\ \A p \in DOMAIN pipes' : pipes'[p] \in PipeObj
  <2>1. DOMAIN pipes' = {i - 1 : i \in Inserted(list, k)}
    BY <1>2
  <2>2. ASSUME NEW i \in Inserted(list, k) PROVE pipes'[i - 1] = NewPipe(list[i])
    <3>1. i \in DOMAIN list
      BY DEF Inserted
    <3> QED BY <1>1, <1>2, <3>1
  <2> QED BY <1>3, <2>1, <2>2
<1>5. ASSUME NEW n \in DOMAIN n2p' PROVE n \in Nodes /\ n2p'[n] \in 0..MaxPid
  <2>1. n \in Mapped(list, {}, k)
    BY <1>2
  <2>2. PICK i \in Inserted(list, k) : PidOf(list, k, 0, n) = 0 + i - 1 /\ n \in Members(list[i])
    BY <1>1, <1>2, <2>1, MappedToInserted
  <2>3. i - 1 \in 0..MaxPid /\ list[i] \in Seq(Nodes) /\ i \in Int
    BY <1>1, <1>3 DEF Inserted
  <2> QED BY <1>2, <2>1, <2>2, <2>3 DEF Members, Range
<1>6. state' \in [Nodes -> {"none", "standby", "active"}]
  BY <1>2 DEF NMTypeOK
<1> QED BY <1>2, <1>4, <1>5, <1>6 DEF NMTypeOK

\* An extension numbers its pipelines within the bound.
LEMMA ExtendType ==
  ASSUME NMTypeOK, NEW list \in Seq(Seq(Nodes)), ExtendRegistered(list)
  PROVE  NMTypeOK'
<1> DEFINE owned == DOMAIN n2p
<1>2. PICK base \in 0..(MaxPid + 1 - Len(list)), k \in 1..(Len(list) + 1) :
        /\ NextPid(base)
        /\ StopsAt(list, owned, k)
        /\ pipes' = [p \in DOMAIN pipes \cup {base + i - 1 : i \in Inserted(list, k)} |->
                       IF p \in DOMAIN pipes THEN pipes[p] ELSE NewPipe(list[p - base + 1])]
        /\ n2p' = [n \in owned \cup Mapped(list, owned, k) |->
                     IF n \in owned THEN n2p[n] ELSE PidOf(list, k, base, n)]
        /\ UNCHANGED <<state, obj>>
  BY DEF ExtendRegistered
<1>3. ASSUME NEW i \in Inserted(list, k)
      PROVE  /\ base + i - 1 \in 0..MaxPid /\ list[i] \in Seq(Nodes)
             /\ i \in Int /\ NewPipe(list[i]) \in PipeObj
  <2>1. i \in 1..Len(list)
    BY DEF Inserted
  <2>2. list[i] \in Seq(Nodes)
    BY <2>1
  <2>3. base + i - 1 \in 0..MaxPid
    BY <2>1, NMAssumption
  <2> QED BY <2>1, <2>2, <2>3, NewPipeType
<1>4. DOMAIN pipes' = DOMAIN pipes \cup {base + i - 1 : i \in Inserted(list, k)}
  BY <1>2
<1>5. \A p \in DOMAIN pipes : p \in 0..MaxPid /\ pipes'[p] \in PipeObj
  BY <1>2 DEF NMTypeOK
<1>6. ASSUME NEW i \in Inserted(list, k), base + i - 1 \notin DOMAIN pipes
      PROVE  pipes'[base + i - 1] \in PipeObj
  <2> DEFINE q == base + i - 1
  <2>1. pipes'[q] = NewPipe(list[q - base + 1])
    <3>1. q \in DOMAIN pipes \cup {base + j - 1 : j \in Inserted(list, k)} /\ q \notin DOMAIN pipes
      BY <1>6
    <3> HIDE DEF q
    <3> QED BY <1>2, <3>1
  <2>2. base + i - 1 - base + 1 = i
    BY <1>3
  <2> QED BY <1>3, <2>1, <2>2
<1>7. DOMAIN pipes' \subseteq 0..MaxPid /\ \A p \in DOMAIN pipes' : pipes'[p] \in PipeObj
  BY <1>3, <1>4, <1>5, <1>6
<1>8. ASSUME NEW n \in DOMAIN n2p' PROVE n \in Nodes /\ n2p'[n] \in 0..MaxPid
  <2>1. CASE n \in owned
    BY <1>2, <2>1 DEF NMTypeOK
  <2>2. CASE n \notin owned
    <3>1. n \in Mapped(list, owned, k) /\ n2p'[n] = PidOf(list, k, base, n)
      BY <1>2, <2>2
    <3>2. PICK i \in Inserted(list, k) : PidOf(list, k, base, n) = base + i - 1 /\ n \in Members(list[i])
      BY <1>2, <3>1, MappedToInserted
    <3> QED BY <1>3, <3>1, <3>2 DEF Members, Range
  <2> QED BY <2>1, <2>2
<1> QED BY <1>2, <1>7, <1>8 DEF NMTypeOK

\* The empty registry is well typed.
LEMMA ResetType == ASSUME NMTypeOK, ResetRegistry PROVE NMTypeOK'
  BY DEF NMTypeOK, ResetRegistry

\* The types hold initially ...
LEMMA InitType == NMInit => NMTypeOK
  BY NodeObjects DEF NMInit, NMTypeOK

\* ... and every call keeps them.
LEMMA NextType == ASSUME NMTypeOK, [NMNext]_registry PROVE NMTypeOK'
<1>1. CASE \E n \in Nodes, rep \in Reports : Upsert(n, rep)
  BY <1>1, UpsertType
<1>2. CASE \E S \in SUBSET Nodes : \E ups \in [S -> Reports] : UpdateInfo(ups)
  BY <1>2, UpdateType
<1>3. CASE \E n \in Nodes : RemoveNode(n)
  BY <1>3, RemoveType
<1>4. CASE \E n \in Nodes : Expire(n)
  BY <1>4, FlagsType
<1>5. CASE \E n \in Nodes, b \in BOOLEAN : AddRequest(n, b)
  BY <1>5, FlagsType
<1>6. CASE \E S \in SUBSET Nodes : StandbyLocked(S, S)
  BY <1>6, StandbyType
<1>7. CASE \E S \in SUBSET Nodes : ClearServing(S)
  BY <1>7, ClearType
<1>8. CASE \E n \in Nodes, r \in Ranges : Allocate(n, r) \/ AllocateFailed(n, r)
  BY <1>8, AllocateType
<1>9. CASE \E list \in Batches : RegisterPipelines(list)
  BY <1>9, BatchesAreLists, ListsOfStages, RegisterType
<1>10. CASE \E list \in Batches : ExtendRegistered(list)
  BY <1>10, BatchesAreLists, ListsOfStages, ExtendType
<1>11. CASE ResetRegistry
  BY <1>11, ResetType
<1>12. CASE UNCHANGED registry
  BY <1>12 DEF registry, NMTypeOK
<1> QED BY <1>1, <1>2, <1>3, <1>4, <1>5, <1>6, <1>7, <1>8, <1>9, <1>10, <1>11, <1>12
        DEF NMNext

\* The registry's dictionaries keep their types whatever is called: in particular
\* a node's range is a non-empty, ordered interval of layers or absent, and the
\* ids of extend_registered_pipelines stay within the bound of the behaviour.
THEOREM RegistryTypes == NMSpec => []NMTypeOK
<1>1. NMInit => NMTypeOK
  BY InitType
<1>2. NMTypeOK /\ [NMNext]_registry => NMTypeOK'
  BY NextType
<1> QED BY <1>1, <1>2, PTL DEF NMSpec

----------------------------------------------------------------------------
(***************************************************************************)
(* The whole system.                                                       *)
(***************************************************************************)
Lists == Seq(Stages)

\* The locals of the two threads: records whose sel is a list of pipelines.
EvOK == /\ ev = [pc |-> ev.pc, ctx |-> ev.ctx, joined |-> ev.joined,
                 removed |-> ev.removed, before |-> ev.before, plan |-> ev.plan,
                 sel |-> ev.sel, todo |-> ev.todo]
        /\ ev.sel \in Lists
RtPcs == {"idle", "existing", "keys", "clear", "unload", "reset", "select", "register"}
RtRecord == [pc : RtPcs, then : {"none", "plan", "select"}, todo : SUBSET Nodes, sel : Lists]
RtOK == rt \in [Threads -> RtRecord]

RegistryInv == Shape /\ MappedRegistered /\ EvOK /\ RtOK

\* Only finitely many pipelines can be formed: a pipeline is determined by the set
\* of its (position, node) pairs.
LEMMA StagesAreFinite == IsFiniteSet(Stages)
<1> DEFINE Pairs == (1..NumLayers) \X Nodes
           graph == [s \in Stages |-> {<<i, s[i]>> : i \in DOMAIN s}]
<1>1. IsFiniteSet(SUBSET Pairs)
  <2>1. IsFiniteSet(1..NumLayers)
    BY NMAssumption, FS_Interval
  <2>2. IsFiniteSet(Pairs)
    BY <2>1, NMAssumption, FS_Product
  <2> HIDE DEF Pairs
  <2> QED BY <2>2, FS_SUBSET
<1>2. graph \in [Stages -> SUBSET Pairs]
  BY NMAssumption DEF Stages
<1>3. ASSUME NEW s \in Stages, NEW t \in Stages, graph[s] = graph[t]
      PROVE  s = t
  <2>1. PICK k \in 1..NumLayers : s \in [1..k -> Nodes]
    BY DEF Stages
  <2>2. PICK l \in 1..NumLayers : t \in [1..l -> Nodes]
    BY DEF Stages
  <2>0. {<<i, s[i]>> : i \in 1..k} = {<<i, t[i]>> : i \in 1..l}
    BY <1>3, <2>1, <2>2
  <2>3. ASSUME NEW i \in 1..k PROVE i \in 1..l /\ t[i] = s[i]
    <3>1. PICK j \in 1..l : <<i, s[i]>> = <<j, t[j]>>
      BY <2>0
    <3> QED BY <3>1
  <2>4. ASSUME NEW i \in 1..l PROVE i \in 1..k
    <3>1. PICK j \in 1..k : <<j, s[j]>> = <<i, t[i]>>
      BY <2>0
    <3> QED BY <3>1
  <2>5. k = l
    BY <2>3, <2>4, NMAssumption
  <2> QED BY <2>1, <2>2, <2>3, <2>5
<1>4. graph \in Injection(Stages, SUBSET Pairs)
  BY <1>2, <1>3 DEF Injection, IsInjective
<1> QED BY <1>1, <1>4, FS_Injection

\* An ordering of a set of pipelines is a list of pipelines.
LEMMA OrderingsAreLists ==
  ASSUME NEW S \in SUBSET Stages, NEW list \in SetToSeqs(S)
  PROVE  list \in Lists
<1>1. Cardinality(S) \in Nat
  BY StagesAreFinite, FS_Subset, FS_CardinalityType
<1>2. list \in Seq(S)
  BY <1>1 DEF SetToSeqs
<1> QED BY <1>2 DEF Lists

----------------------------------------------------------------------------
(***************************************************************************)
(* The threads' locals.                                                    *)
(***************************************************************************)
\* The locals that both threads start with.
LEMMA IdleLocals == RtIdle \in RtRecord /\ EvIdle.sel \in Lists
<1>1. <<>> \in Lists
  BY DEF Lists
<1>2. \A l \in Lists : [pc |-> "idle", then |-> "none", todo |-> {}, sel |-> l] \in RtRecord
  BY DEF RtRecord, RtPcs
<1>3. RtIdle \in RtRecord
  BY <1>1, <1>2, Zenon DEF RtIdle
<1>4. EvIdle.sel = <<>>
  BY DEF EvIdle
<1> QED BY <1>1, <1>3, <1>4

\* Steps that give the event thread new locals: fresh ones, or the old with
\* another pc and other fields than sel.
LEMMA ResumeOK == ASSUME NEW ok, ev' = Resume(ok) PROVE EvOK'
  BY IdleLocals DEF Resume, EvIdle, EvOK

\* An event thread that starts afresh has no list left to register.
LEMMA FreshOK ==
  ASSUME NEW pc, NEW ctx, ev' = [EvIdle EXCEPT !.pc = pc, !.ctx = ctx] PROVE EvOK'
  BY IdleLocals DEF EvIdle, EvOK

\* Steps of the router's procedure change one thread's record.
LEMMA RouterStartOK ==
  ASSUME RtOK, NEW t, NEW then \in {"plan", "select"}, StartRouter(t, then)
  PROVE  RtOK'
<1>1. \A pc \in RtPcs : [RtIdle EXCEPT !.pc = pc, !.then = then] \in RtRecord
  BY IdleLocals DEF RtRecord, RtIdle
<1> DEFINE pc == IF then = "plan" THEN "keys" ELSE "existing"
<1>2. rt' = [rt EXCEPT ![t] = [RtIdle EXCEPT !.pc = pc, !.then = then]]
  BY DEF StartRouter
<1>3. pc \in RtPcs
  BY DEF RtPcs
<1> HIDE DEF pc
<1> QED BY <1>1, <1>2, <1>3 DEF RtOK

\* A thread that ends the router's bootstrap() drops its locals.
LEMMA RouterEndOK == ASSUME RtOK, NEW t, rt' = [rt EXCEPT ![t] = RtIdle] PROVE RtOK'
  BY IdleLocals DEF RtOK

\* Dropping a Node object takes it out of what the dispatcher is to clear.
LEMMA DropOK == ASSUME RtOK, NEW n, DropObject(n) PROVE RtOK'
  BY DEF RtOK, RtRecord, DropObject, Threads

\* A step that leaves the event thread's list alone keeps it a list.
LEMMA SameListOK ==
  ASSUME EvOK, NEW pc, \/ ev' = [ev EXCEPT !.pc = pc]
                       \/ UNCHANGED ev
  PROVE  EvOK'
  BY DEF EvOK

----------------------------------------------------------------------------
(***************************************************************************)
(* The event thread.                                                       *)
(***************************************************************************)
\* Queued heartbeats rewrite objects, not the mapping.
LEMMA ProcessUpdatesStep == ASSUME RegistryInv, ProcessUpdates PROVE RegistryInv'
<1>1. Shape' /\ MappedRegistered'
  BY UnchangedMapped DEF RegistryInv, ProcessUpdates, UpdateInfo
<1>2. EvOK'
  BY DEF RegistryInv, EvOK, ProcessUpdates
<1>3. RtOK'
  BY DEF RegistryInv, RtOK, ProcessUpdates
<1> QED BY <1>1, <1>2, <1>3 DEF RegistryInv

\* join() registers or replaces one object.
LEMMA ProcessJoinStep == ASSUME RegistryInv, ProcessJoin PROVE RegistryInv'
<1>1. PICK j \in joinQ :
        /\ IF state[j.node] = "none" \/ bootstrapped
             THEN Upsert(j.node, j.report) /\ DropObject(j.node)
             ELSE UNCHANGED <<registry, disp, rt>>
        /\ ev' = IF Expands(j.node)
                    THEN [ev EXCEPT !.joined = TRUE, !.pc = "plan", !.ctx = "expand"]
                    ELSE [ev EXCEPT !.joined = TRUE]
  BY DEF ProcessJoin
<1>2. EvOK'
  BY <1>1 DEF RegistryInv, EvOK
<1>3. CASE state[j.node] = "none" \/ bootstrapped
  BY <1>1, <1>2, <1>3, UpsertMapped, DropOK DEF RegistryInv
<1>4. CASE ~(state[j.node] = "none" \/ bootstrapped)
  BY <1>1, <1>2, <1>4, UnchangedMapped DEF RegistryInv, RtOK, registry
<1> QED BY <1>3, <1>4

\* Steps of the event thread that do not call the registry.
LEMMA QuietStep ==
  ASSUME RegistryInv, UNCHANGED registry, EvOK', RtOK'
  PROVE  RegistryInv'
  BY UnchangedMapped DEF RegistryInv, registry

\* The end of the joins only moves the event thread on.
LEMMA JoinsDoneStep == ASSUME RegistryInv, JoinsDone PROVE RegistryInv'
<1>1. EvOK'
  BY IdleLocals DEF JoinsDone, EvOK, EvIdle
<1> QED BY <1>1, QuietStep DEF RegistryInv, RtOK, JoinsDone

\* A plan assigns ranges of the model.
LEMMA PlanAllocationStep == ASSUME RegistryInv, PlanAllocation PROVE RegistryInv'
<1>1. CASE Capacity(Standby) >= NumLayers
  <2>1. PICK plan \in Plans(Standby) :
          ev' = [ev EXCEPT !.pc = "allocate", !.plan = plan,
                           !.before = IF ev.ctx = "expand" THEN Active ELSE {}]
    BY <1>1 DEF PlanAllocation
  <2>2. EvOK'
    BY <2>1 DEF RegistryInv, EvOK
  <2> QED BY <2>2, QuietStep DEF RegistryInv, RtOK, PlanAllocation
<1>2. CASE ~(Capacity(Standby) >= NumLayers)
  BY <1>2, ResumeOK, QuietStep DEF RegistryInv, RtOK, PlanAllocation
<1> QED BY <1>1, <1>2

\* One node of the plan is allocated, or the allocation raises.
LEMMA AllocateNextStep == ASSUME RegistryInv, AllocateNext PROVE RegistryInv'
<1> DEFINE n == Placed(ev.plan)[1]
           r == Placed(ev.plan)[2]
<1>1. CASE Allocate(n, r) /\ ev' = [ev EXCEPT !.plan = AfterPlaced(@)]
  <2>1. EvOK'
    BY <1>1 DEF RegistryInv, EvOK
  <2> QED BY <1>1, <2>1, AllocateMapped DEF RegistryInv, RtOK, AllocateNext
<1>2. CASE AllocateFailed(n, r) /\ ev' = Resume(FALSE)
  BY <1>2, ResumeOK, UnchangedMapped DEF RegistryInv, RtOK, AllocateNext, AllocateFailed
<1> QED BY <1>1, <1>2 DEF AllocateNext

\* The end of a plan starts the router or the expansion.
LEMMA AllocationDoneStep == ASSUME RegistryInv, AllocationDone PROVE RegistryInv'
<1>1. CASE ~HasFullPipeline
  BY <1>1, ResumeOK, QuietStep DEF RegistryInv, RtOK, AllocationDone
<1>2. CASE HasFullPipeline /\ ev.ctx = "expand"
  BY <1>2, SameListOK, QuietStep DEF RegistryInv, RtOK, AllocationDone
<1>3. CASE HasFullPipeline /\ ev.ctx # "expand"
  BY <1>3, SameListOK, RouterStartOK, QuietStep DEF RegistryInv, AllocationDone
<1> QED BY <1>1, <1>2, <1>3

\* The new pipelines of an expansion are lists of stages.
LEMMA FilterStep == ASSUME RegistryInv, FilterNewPipelines PROVE RegistryInv'
<1> DEFINE new == {p \in ChainsOver(Active \ ev.before) : Members(p) \cap DOMAIN n2p = {}}
<1>1. CASE new = {}
  BY <1>1, ResumeOK, QuietStep DEF RegistryInv, RtOK, FilterNewPipelines
<1>2. CASE new # {}
  <2>1. PICK list \in Discovered(new) : ev' = [ev EXCEPT !.pc = "extend", !.sel = list]
    BY <1>2 DEF FilterNewPipelines
  <2>2. list \in Lists
    BY OrderingsAreLists DEF Discovered, ChainsOver
  <2>3. EvOK'
    BY <2>1, <2>2 DEF RegistryInv, EvOK
  <2> QED BY <2>3, QuietStep DEF RegistryInv, RtOK, FilterNewPipelines
<1> QED BY <1>1, <1>2

\* Expansion registers the pipelines it has filtered.
LEMMA ExtendStep == ASSUME RegistryInv, ExtendPipelines PROVE RegistryInv'
<1>1. Shape' /\ MappedRegistered'
  BY ExtendMapped, ListsOfStages DEF RegistryInv, EvOK, Lists, ExtendPipelines
<1> QED BY <1>1, ResumeOK DEF RegistryInv, RtOK, ExtendPipelines

\* leave() removes one node.
LEMMA ProcessLeaveStep == ASSUME RegistryInv, ProcessLeave PROVE RegistryInv'
<1>1. PICK n \in leaveQ :
        IF state[n] = "none"
          THEN UNCHANGED <<registry, disp, rt, ev>>
          ELSE /\ RemoveNode(n) /\ DropObject(n)
               /\ ev' = [ev EXCEPT !.removed = @ \/ ~RemoveRaises(n)]
  BY DEF ProcessLeave
<1>2. CASE state[n] = "none"
  BY <1>1, <1>2, QuietStep DEF RegistryInv, EvOK, RtOK
<1>3. CASE state[n] # "none"
  <2>1. EvOK'
    BY <1>1, <1>3 DEF RegistryInv, EvOK
  <2> QED BY <1>1, <1>3, <2>1, RemoveMapped, DropOK DEF RegistryInv
<1> QED BY <1>2, <1>3

\* The decision to rebalance reads the registry only.
LEMMA LeavesDoneStep == ASSUME RegistryInv, LeavesDone PROVE RegistryInv'
<1>1. EvOK'
  BY IdleLocals DEF LeavesDone, RegistryInv, EvOK, EvIdle
<1> QED BY <1>1, QuietStep DEF RegistryInv, RtOK, LeavesDone

\* Rebalance first moves nodes to STANDBY ...
LEMMA StandbyAllStep == ASSUME RegistryInv, StandbyAll PROVE RegistryInv'
<1>1. Shape' /\ MappedRegistered'
  BY StandbyMapped DEF RegistryInv, StandbyAll
<1>2. EvOK'
  BY SameListOK, ResumeOK DEF RegistryInv, StandbyAll
<1> QED BY <1>1, <1>2 DEF RegistryInv, RtOK, StandbyAll

\* ... then clears their layers ...
LEMMA UnloadAllStep == ASSUME RegistryInv, UnloadAll PROVE RegistryInv'
<1>1. EvOK'
  BY DEF RegistryInv, EvOK, UnloadAll
<1> QED BY <1>1, UnchangedMapped DEF RegistryInv, RtOK, UnloadAll, ClearServing

\* ... then enters the router's clear_registered_pipelines.
LEMMA RebootStep == ASSUME RegistryInv, Reboot PROVE RegistryInv'
<1>1. CASE Active = {}
  BY <1>1, SameListOK, RouterStartOK, QuietStep DEF RegistryInv, Reboot
<1>2. CASE Active # {}
  BY <1>2, ResumeOK, QuietStep DEF RegistryInv, RtOK, Reboot
<1> QED BY <1>1, <1>2

\* The heartbeat check only queues leaves.
LEMMA HeartbeatStep ==
  ASSUME RegistryInv, SkipHeartbeats \/ CheckHeartbeats PROVE RegistryInv'
<1>1. EvOK'
  BY IdleLocals DEF SkipHeartbeats, CheckHeartbeats, EvOK, EvIdle
<1> QED BY <1>1, QuietStep DEF RegistryInv, RtOK, SkipHeartbeats, CheckHeartbeats

----------------------------------------------------------------------------
(***************************************************************************)
(* The router's bootstrap(), in either thread.                             *)
(***************************************************************************)
\* Returning from the router's bootstrap() keeps the threads' locals well formed.
LEMMA RouterReturnOK ==
  ASSUME RegistryInv, NEW t, RouterReturn(t)
  PROVE  EvOK' /\ RtOK'
  BY ResumeOK, SameListOK, RouterEndOK DEF RegistryInv, EvOK, RouterReturn

\* So does raising out of it.
LEMMA RouterRaiseOK ==
  ASSUME RegistryInv, NEW t, RouterRaise(t)
  PROVE  EvOK' /\ RtOK'
  BY ResumeOK, SameListOK, RouterEndOK DEF RegistryInv, EvOK, RouterRaise

\* The fields of a thread's record, and the records that its steps make of it.
LEMMA RtFields ==
  ASSUME RtOK, NEW t \in Threads
  PROVE  /\ rt[t] = [pc |-> rt[t].pc, then |-> rt[t].then, todo |-> rt[t].todo, sel |-> rt[t].sel]
         /\ rt[t].todo \in SUBSET Nodes /\ rt[t].sel \in Lists
         /\ \A pc \in RtPcs, todo \in SUBSET Nodes, sel \in Lists :
              /\ [rt[t] EXCEPT !.pc = pc] \in RtRecord
              /\ [rt[t] EXCEPT !.pc = pc, !.todo = todo] \in RtRecord
              /\ [rt[t] EXCEPT !.pc = pc, !.sel = sel] \in RtRecord
  BY DEF RtOK, RtRecord

\* Test for registered pipelines.
LEMMA RouterExistingStep ==
  ASSUME RegistryInv, NEW t \in Threads, RouterExisting(t) PROVE RegistryInv'
<1> DEFINE pc == IF DOMAIN pipes # {} THEN "keys" ELSE "select"
<1>1. rt' = [rt EXCEPT ![t] = [rt[t] EXCEPT !.pc = pc]]
  BY DEF RegistryInv, RtOK, RouterExisting
<1>2. pc \in RtPcs
  BY DEF RtPcs
<1> HIDE DEF pc
<1>3. RtOK'
  BY <1>1, <1>2, RtFields DEF RegistryInv, RtOK
<1> QED BY <1>3, SameListOK, QuietStep DEF RegistryInv, RouterExisting

\* Read of the mapped ids, outside the lock.
LEMMA RouterKeysStep ==
  ASSUME RegistryInv, NEW t \in Threads, RouterKeys(t) PROVE RegistryInv'
<1>1. rt' = [rt EXCEPT ![t] = [rt[t] EXCEPT !.pc = "clear", !.todo = DOMAIN n2p]]
  BY DEF RegistryInv, RtOK, RouterKeys
<1>2. "clear" \in RtPcs /\ DOMAIN n2p \in SUBSET Nodes
  BY DEF RtPcs, RegistryInv, Shape
<1>3. RtOK'
  BY <1>1, <1>2, RtFields DEF RegistryInv, RtOK
<1> QED BY <1>3, SameListOK, QuietStep DEF RegistryInv, RouterKeys

\* State change of the ids read.
LEMMA RouterClearStep ==
  ASSUME RegistryInv, NEW t \in Threads, RouterClear(t) PROVE RegistryInv'
<1>1. Shape' /\ MappedRegistered'
  BY StandbyMapped DEF RegistryInv, RouterClear
<1>2. CASE rt[t].todo \subseteq Active
  <2>1. rt' = [rt EXCEPT ![t] = [rt[t] EXCEPT !.pc = "unload"]] /\ UNCHANGED ev
    BY <1>2 DEF RegistryInv, RtOK, RouterClear
  <2>2. RtOK'
    BY <2>1, RtFields DEF RegistryInv, RtOK, RtPcs
  <2> QED BY <1>1, <2>1, <2>2, SameListOK DEF RegistryInv
<1>3. CASE ~(rt[t].todo \subseteq Active)
  BY <1>1, <1>3, RouterRaiseOK DEF RegistryInv, RouterClear
<1> QED BY <1>2, <1>3

\* Clearing of their layers.
LEMMA RouterUnloadStep ==
  ASSUME RegistryInv, NEW t \in Threads, RouterUnload(t) PROVE RegistryInv'
<1>1. Shape' /\ MappedRegistered'
  BY UnchangedMapped DEF RegistryInv, RouterUnload, ClearServing
<1>2. rt' = [rt EXCEPT ![t] = [rt[t] EXCEPT !.pc = "reset", !.todo = {}]]
  BY DEF RegistryInv, RtOK, RouterUnload
<1>3. RtOK'
  BY <1>2, RtFields DEF RegistryInv, RtOK, RtPcs
<1> QED BY <1>1, <1>3, SameListOK DEF RegistryInv, RouterUnload

\* Reset of pipelines and mapping together.
LEMMA RouterResetStep ==
  ASSUME RegistryInv, NEW t \in Threads, RouterReset(t) PROVE RegistryInv'
<1>1. Shape' /\ MappedRegistered'
  BY ResetMapped DEF RegistryInv, RouterReset
<1>2. EvOK'
  BY SameListOK DEF RegistryInv, RouterReset
<1>3. CASE rt[t].then = "plan"
  BY <1>1, <1>2, <1>3, RouterEndOK DEF RegistryInv, RouterReset
<1>4. CASE rt[t].then # "plan"
  <2>1. rt' = [rt EXCEPT ![t] = [rt[t] EXCEPT !.pc = "select"]]
    BY <1>4 DEF RegistryInv, RtOK, RouterReset
  <2>2. RtOK'
    BY <2>1, RtFields DEF RegistryInv, RtOK, RtPcs
  <2> QED BY <1>1, <1>2, <2>2 DEF RegistryInv
<1> QED BY <1>3, <1>4

\* A selection is a list of stages.
LEMMA RouterSelectStep ==
  ASSUME RegistryInv, NEW t \in Threads, RouterSelect(t) PROVE RegistryInv'
<1>1. CASE ~HasFullPipeline
  BY <1>1, RouterReturnOK, QuietStep DEF RouterSelect
<1>2. CASE HasFullPipeline
  <2>0. PICK sel \in Selections({p \in ChainsOver(Active) : Routable(p)}) :
          \E list \in SetToSeqs(sel) :
            rt' = [rt EXCEPT ![t].pc = "register", ![t].sel = list]
    BY <1>2 DEF RouterSelect
  <2>1. PICK list \in SetToSeqs(sel) :
          rt' = [rt EXCEPT ![t].pc = "register", ![t].sel = list]
    BY <2>0
  <2>2. list \in Lists
    BY OrderingsAreLists DEF Selections, ChainsOver
  <2>3. rt' = [rt EXCEPT ![t] = [rt[t] EXCEPT !.pc = "register", !.sel = list]]
    BY <2>1 DEF RegistryInv, RtOK
  <2>4. RtOK'
    BY <2>2, <2>3, RtFields DEF RegistryInv, RtOK, RtPcs
  <2> QED BY <1>2, <2>4, SameListOK, QuietStep DEF RegistryInv, RouterSelect
<1> QED BY <1>1, <1>2

\* Registration of the selection.
LEMMA RouterRegisterStep ==
  ASSUME RegistryInv, NEW t \in Threads, RouterRegister(t) PROVE RegistryInv'
<1>1. Shape' /\ MappedRegistered'
  BY RtFields, RegisterMapped, ListsOfStages DEF RegistryInv, RouterRegister, Lists
<1>2. EvOK' /\ RtOK'
  BY RouterReturnOK, RouterRaiseOK DEF RouterRegister
<1> QED BY <1>1, <1>2 DEF RegistryInv

\* Any step of the router's bootstrap(), in either thread.
LEMMA RouterStep == ASSUME RegistryInv, NEW t \in Threads, Router(t) PROVE RegistryInv'
  BY RouterExistingStep, RouterKeysStep, RouterClearStep, RouterUnloadStep,
     RouterResetStep, RouterSelectStep, RouterRegisterStep DEF Router

\* Any step of the event thread.
LEMMA EventThreadStep == ASSUME RegistryInv, EventThread PROVE RegistryInv'
<1>1. "event" \in Threads
  BY DEF Threads
<1> QED BY <1>1, ProcessUpdatesStep, ProcessJoinStep, JoinsDoneStep, PlanAllocationStep,
           AllocateNextStep, AllocationDoneStep, FilterStep, ExtendStep,
           ProcessLeaveStep, LeavesDoneStep, StandbyAllStep, UnloadAllStep, RebootStep,
           HeartbeatStep, RouterStep DEF EventThread

----------------------------------------------------------------------------
(***************************************************************************)
(* The dispatcher, and everything outside the scheduler's two threads.     *)
(***************************************************************************)
\* Any step of the dispatcher: it writes the registry only through add_request
\* and the router's bootstrap().
LEMMA DispatcherStep == ASSUME RegistryInv, Dispatcher PROVE RegistryInv'
<1>1. ASSUME AwaitRequest \/ AwaitTimeout \/ SnapshotAgain \/ ResolvePath PROVE RegistryInv'
  BY <1>1, SameListOK, QuietStep
     DEF RegistryInv, RtOK, AwaitRequest, AwaitTimeout, SnapshotAgain, ResolvePath
<1>2. ASSUME TakeRequest PROVE RegistryInv'
  <2>1. RtOK'
    BY <1>2, RouterStartOK DEF RegistryInv, RtOK, TakeRequest
  <2> QED BY <1>2, <2>1, SameListOK, QuietStep DEF RegistryInv, TakeRequest
<1>3. ASSUME ChargeNext PROVE RegistryInv'
  <2>1. Shape' /\ MappedRegistered'
    BY <1>3, UnchangedMapped DEF RegistryInv, ChargeNext, AddRequest, registry
  <2> QED BY <1>3, <2>1, SameListOK DEF RegistryInv, RtOK, ChargeNext
<1>4. "dispatcher" \in Threads
  BY DEF Threads
<1> QED BY <1>1, <1>2, <1>3, <1>4, RouterStep DEF Dispatcher

\* Workers reach the registry through the queues; only a timeout writes an object.
LEMMA WorkerStep == ASSUME RegistryInv, NEW n \in Nodes, Worker(n) PROVE RegistryInv'
<1>1. ASSUME Silence(n) PROVE RegistryInv'
  BY <1>1, UnchangedMapped, SameListOK
     DEF RegistryInv, RtOK, Silence, Expire, sched, threads
<1>2. ASSUME Start(n) \/ Announcer(n) \/ JoinTimeout(n) \/ Load(n) \/ Crash(n) \/ Shutdown(n)
      PROVE  UNCHANGED <<registry, ev, rt>>
  BY <1>2 DEF Start, Announcer, JoinAnswered, Heartbeat, HeartbeatUnknown, RejoinAnswered,
              JoinTimeout, Load, Crash, Shutdown, sched, threads
<1>3. ASSUME UNCHANGED <<registry, ev, rt>> PROVE RegistryInv'
  BY <1>3, SameListOK, QuietStep DEF RegistryInv, RtOK
<1> QED BY <1>1, <1>2, <1>3 DEF Worker

\* The invariant holds initially ...
LEMMA InvInit == Init => RegistryInv
<1> SUFFICES ASSUME Init PROVE RegistryInv
  OBVIOUS
<1>1. Shape /\ MappedRegistered
  BY InitMapped DEF Init
<1>2. EvOK
  BY IdleLocals DEF Init, EvOK, EvIdle
<1>3. RtOK
  BY IdleLocals DEF Init, RtOK
<1> QED BY <1>1, <1>2, <1>3 DEF RegistryInv

\* ... and every step of the system keeps it.
LEMMA InvNext == ASSUME RegistryInv, [Next]_vars PROVE RegistryInv'
<1>1. ASSUME ReceiveRequest \/ UNCHANGED vars PROVE RegistryInv'
  BY <1>1, SameListOK, QuietStep DEF RegistryInv, RtOK, ReceiveRequest, threads, vars
<1> QED BY <1>1, EventThreadStep, DispatcherStep, WorkerStep DEF Next

----------------------------------------------------------------------------
(***************************************************************************)
(* Theorems                                                                *)
(***************************************************************************)
\* In the running system too, with two threads in the registry, a mapped node is
\* a registered stage of the registered pipeline it is mapped to.
THEOREM ClusterIsMapped == Spec => []MappedRegistered
<1>1. Init => RegistryInv
  BY InvInit
<1>2. RegistryInv /\ [Next]_vars => RegistryInv'
  BY InvNext
<1>3. RegistryInv => MappedRegistered
  BY DEF RegistryInv
<1> QED BY <1>1, <1>2, <1>3, PTL DEF Spec

\* In the running system only the processing of a leave makes a node unknown.
LEMMA OnlyLeavesForget ==
  ASSUME RegistryInv, [Next]_vars, NEW n \in Nodes, state[n] # "none", state'[n] = "none"
  PROVE  RemoveNode(n)
<1>1. state \in [Nodes -> {"none", "standby", "active"}] /\ state' # state
  BY DEF RegistryInv, Shape
<1>2. ASSUME NEW m, RemoveNode(m) PROVE m = n
  BY <1>1, <1>2 DEF RemoveNode
<1>3. \A ids, moved : ~StandbyLocked(ids, moved)
  BY DEF StandbyLocked, Active
<1>4. \A list : ~RegisterPipelines(list)
  BY DEF RegisterPipelines
<1>5. \A m, rep : ~Upsert(m, rep)
  BY <1>1 DEF Upsert
<1>6. \A m, r : ~Allocate(m, r)
  BY <1>1 DEF Allocate
<1>7. \A t : ~Router(t)
  BY <1>1, <1>3, <1>4
     DEF Router, RouterExisting, RouterKeys, RouterClear, RouterUnload, RouterReset,
         RouterSelect, RouterRegister, ClearServing, ResetRegistry, registry
<1>8. ASSUME EventThread PROVE ProcessLeave
  BY <1>1, <1>3, <1>5, <1>6, <1>7, <1>8
     DEF EventThread, ProcessUpdates, UpdateInfo, ProcessJoin, JoinsDone, PlanAllocation,
         AllocateNext, AllocateFailed, AllocationDone, FilterNewPipelines, ExtendPipelines,
         ExtendRegistered, LeavesDone, StandbyAll, UnloadAll, ClearServing, Reboot,
         CheckHeartbeats, SkipHeartbeats, registry
<1>9. ~Dispatcher
  BY <1>1, <1>7
     DEF Dispatcher, AwaitRequest, AwaitTimeout, TakeRequest, SnapshotAgain, ResolvePath,
         ChargeNext, AddRequest, registry
<1>10. ~ \E m \in Nodes : Worker(m)
  BY <1>1 DEF Worker, Silence, Expire, Start, Announcer, JoinAnswered, Heartbeat,
              HeartbeatUnknown, RejoinAnswered, JoinTimeout, Load, Crash, Shutdown, registry
<1>11. ~ReceiveRequest /\ ~UNCHANGED vars
  BY <1>1 DEF ReceiveRequest, vars, registry
<1>12. ProcessLeave
  BY <1>8, <1>9, <1>10, <1>11 DEF Next
<1>13. \E m \in leaveQ : RemoveNode(m)
  BY <1>1, <1>12 DEF ProcessLeave, registry
<1> QED BY <1>2, <1>13

\* In the running system too, a leave dissolves the whole pipeline of the node in
\* one step: no thread ever sees a pipeline with a missing stage still registered
\* under the id that a node is mapped to.
THEOREM ClusterLeavesDissolve == Spec => LeaveDissolvesPipeline
<1> DEFINE Dissolves ==
      \A n \in DOMAIN n2p :
        (state[n] # "none" /\ state'[n] = "none")
          => /\ n2p[n] \notin DOMAIN pipes'
             /\ \A m \in DOMAIN n2p' : n2p'[m] # n2p[n]
<1>1. ASSUME RegistryInv, [Next]_vars PROVE Dissolves
  <2> SUFFICES ASSUME NEW n \in DOMAIN n2p, state[n] # "none", state'[n] = "none"
               PROVE  /\ n2p[n] \notin DOMAIN pipes'
                      /\ \A m \in DOMAIN n2p' : n2p'[m] # n2p[n]
    OBVIOUS
  <2>1. n \in Nodes
    BY <1>1 DEF RegistryInv, Shape
  <2>2. RemoveNode(n)
    BY <1>1, <2>1, OnlyLeavesForget
  <2>3. OwnPipe(n)
    BY <1>1 DEF RegistryInv, MappedRegistered, OwnPipe
  <2>4. n2p[n] \notin DOMAIN pipes'
    BY <2>2, <2>3 DEF RemoveNode
  <2>5. MappedRegistered'
    BY <1>1, InvNext DEF RegistryInv
  <2> QED BY <2>4, <2>5 DEF MappedRegistered
<1>2. Spec => []RegistryInv
  BY InvInit, InvNext, PTL DEF Spec
<1>3. RegistryInv /\ [Next]_vars => [Dissolves]_registry
  BY <1>1
<1> QED BY <1>2, <1>3, PTL DEF Spec, LeaveDissolvesPipeline

----------------------------------------------------------------------------
(***************************************************************************)
(* The type invariant of the system.  Besides the types of the variables   *)
(* it says where the two threads can be: which operation the event thread  *)
(* is in the middle of (ev.ctx), that it is in the router's bootstrap()    *)
(* exactly when its activation of it is running, and that only it clears   *)
(* the pipelines for a reboot.                                             *)
(***************************************************************************)
EvPcs == {"updates", "joins", "plan", "allocate", "filter", "extend",
          "router", "leaves", "standby", "unload", "reboot", "heartbeat", "dead"}
Contexts == {"none", "expand", "join", "leave"}
Placement == Nodes \X Ranges
PlanLists == Seq(Seq(Placement) \ {<<>>})
EvRecord == [pc : EvPcs, ctx : Contexts, joined : BOOLEAN, removed : BOOLEAN,
             before : SUBSET Nodes, plan : PlanLists, sel : Lists, todo : SUBSET Nodes]
DispPcs == {"idle", "await", "router", "snapshot", "resolve", "charge", "dead"}
DispRecord == [pc : DispPcs, snap : SUBSET PipeObj, path : Seq(Nodes)]

Control ==
  /\ ev.pc \in {"plan", "allocate"} => ev.ctx # "none"
  /\ ev.pc \in {"filter", "extend"} => ev.ctx = "expand"
  /\ ev.pc \in {"standby", "unload", "reboot"} => ev.ctx = "leave"
  /\ ev.pc = "router" => ev.ctx \in {"join", "leave"}
  /\ ev.pc = "router" => rt["event"].pc # "idle"
  /\ rt["event"].pc # "idle" => ev.pc = "router"
  /\ rt["dispatcher"].then # "plan"

EvType == ev \in EvRecord /\ bootstrapped \in BOOLEAN
DispType == disp \in DispRecord
QueueType == /\ joinQ \subseteq [node : Nodes, report : Reports]
             /\ leaveQ \subseteq Nodes
             /\ DOMAIN updQ \subseteq Nodes
             /\ updQ \in [DOMAIN updQ -> Reports]

\* The locals with which a pass of the event loop begins.
LEMMA EvIdleType == EvIdle \in EvRecord
<1>1. <<>> \in Lists /\ <<>> \in PlanLists
  BY DEF Lists, PlanLists
<1> HIDE DEF Lists, PlanLists
<1> QED BY <1>1 DEF EvIdle, EvRecord, EvPcs, Contexts

\* Whatever operation ends, the event thread goes on outside any.
LEMMA ResumeType ==
  ASSUME ev \in EvRecord, ev.ctx # "none", NEW ok \in BOOLEAN
  PROVE  /\ Resume(ok) \in EvRecord
         /\ Resume(ok).pc \in {"joins", "leaves", "heartbeat", "dead"}
         /\ Resume(ok).ctx = "none"
         /\ (ok \/ ev.ctx # "leave") => Resume(ok).pc # "dead"
<1> DEFINE pc == CASE ev.ctx = "expand" -> "joins"
                   [] ev.ctx = "join"   -> "leaves"
                   [] ev.ctx = "leave"  -> IF ok THEN "heartbeat" ELSE "dead"
<1>1. ev.ctx \in {"expand", "join", "leave"}
  BY DEF EvRecord, Contexts
<1>2. /\ pc \in {"joins", "leaves", "heartbeat", "dead"}
      /\ (ok \/ ev.ctx # "leave") => pc # "dead"
  BY <1>1
<1> DEFINE joined == ev.joined /\ ev.ctx = "expand"
<1> HIDE DEF pc
<1>3. joined \in BOOLEAN
  BY DEF EvRecord
<1>4. \A p \in EvPcs, j \in BOOLEAN : [EvIdle EXCEPT !.pc = p, !.joined = j] \in EvRecord
  BY EvIdleType DEF EvRecord
<1>5. \A p, j : /\ [EvIdle EXCEPT !.pc = p, !.joined = j].pc = p
                /\ [EvIdle EXCEPT !.pc = p, !.joined = j].ctx = "none"
  BY DEF EvIdle
<1>6. Resume(ok) = [EvIdle EXCEPT !.pc = pc, !.joined = joined]
  BY DEF Resume, pc
<1>7. pc \in EvPcs
  BY <1>2 DEF EvPcs
<1> HIDE DEF joined
<1>8. [EvIdle EXCEPT !.pc = pc, !.joined = joined] \in EvRecord
  BY <1>3, <1>4, <1>7
<1>9. Resume(ok).pc = pc /\ Resume(ok).ctx = "none"
  BY <1>5, <1>6
<1> QED BY <1>2, <1>6, <1>8, <1>9

\* What an allocation assigns is a list of pipelines with at least one stage each.
LEMMA PlansAreLists == ASSUME NEW S \in SUBSET Nodes PROVE Plans(S) \subseteq PlanLists
<1>1. Placements(S) \subseteq Seq(Placement) \ {<<>>}
  <2> SUFFICES ASSUME NEW k \in 1..NumLayers, NEW q \in [1..k -> S \X Ranges]
               PROVE  q \in Seq(Placement) \ {<<>>}
    BY DEF Placements
  <2>1. k \in Nat \ {0}
    BY NMAssumption
  <2>2. S \X Ranges \subseteq Placement
    BY DEF Placement
  <2>3. q \in Seq(Placement)
    BY <2>1, <2>2
  <2>4. q # <<>>
    BY <2>1
  <2> QED BY <2>3, <2>4
<1> SUFFICES ASSUME NEW k \in 1..MaxBatch, NEW b \in [1..k -> Placements(S)]
             PROVE  b \in PlanLists
  BY DEF Plans
<1>2. k \in Nat
  BY NMAssumption
<1>3. b \in Seq(Placements(S))
  BY <1>2
<1> HIDE DEF Placements
<1> QED BY <1>1, <1>3 DEF PlanLists

\* The first of them names a node and its layers, and what is left is such a list.
LEMMA TailOfPlan ==
  ASSUME NEW plan \in PlanLists, plan # <<>>
  PROVE  /\ Placed(plan) \in Placement
         /\ AfterPlaced(plan) \in PlanLists
<1> DEFINE Q == Seq(Placement) \ {<<>>}
<1>1. Head(plan) \in Q /\ Tail(plan) \in Seq(Q)
  BY HeadTailProperties DEF PlanLists
<1>2. Head(plan) \in Seq(Placement) /\ Head(plan) # <<>>
  BY <1>1
<1>3. Placed(plan) \in Placement
  BY <1>2, HeadTailProperties DEF Placed
<1>4. Tail(Head(plan)) \in Seq(Placement) /\ Len(Tail(Head(plan))) = Len(Head(plan)) - 1
  BY <1>2, HeadTailProperties
<1>5. CASE Len(Head(plan)) = 1
  BY <1>1, <1>3, <1>5 DEF AfterPlaced, PlanLists
<1>6. CASE Len(Head(plan)) # 1
  <2>1. Len(Head(plan)) \in Nat /\ Len(Head(plan)) # 0
    BY <1>2, EmptySeq, LenProperties
  <2>2. Len(Tail(Head(plan))) # 0
    BY <2>1, <1>4, <1>6
  <2>3. Len(<<>>) = 0
    OBVIOUS
  <2>4. Tail(Head(plan)) # <<>>
    BY <2>2, <2>3, Zenon
  <2>5. Tail(Head(plan)) \in Q
    BY <1>4, <2>4
  <2> HIDE DEF Q
  <2>6. <<Tail(Head(plan))>> \in Seq(Q)
    BY <2>5
  <2>7. <<Tail(Head(plan))>> \o Tail(plan) \in Seq(Q)
    BY <1>1, <2>6, ConcatProperties, Zenon
  <2>8. AfterPlaced(plan) = <<Tail(Head(plan))>> \o Tail(plan)
    BY <1>6 DEF AfterPlaced
  <2>9. AfterPlaced(plan) \in Seq(Q)
    BY <2>7, <2>8, Zenon
  <2> QED BY <1>3, <2>9, Zenon DEF PlanLists, Q
<1> QED BY <1>3, <1>5, <1>6

\* The registry's types depend on nothing else.
LEMMA SameRegistryType == ASSUME NMTypeOK, UNCHANGED registry PROVE NMTypeOK'
  BY DEF NMTypeOK, registry

\* Where the event thread is says all that Control needs to know of its record.
LEMMA EvSteps ==
  ASSUME ev \in EvRecord
  PROVE  \A pc \in EvPcs : /\ [ev EXCEPT !.pc = pc] \in EvRecord
                           /\ [ev EXCEPT !.pc = pc].pc = pc
                           /\ [ev EXCEPT !.pc = pc].ctx = ev.ctx
  BY DEF EvRecord

\* The same for a step that begins an operation.
LEMMA EvStarts ==
  \A pc \in EvPcs, ctx \in Contexts :
    /\ [EvIdle EXCEPT !.pc = pc, !.ctx = ctx] \in EvRecord
    /\ [EvIdle EXCEPT !.pc = pc] \in EvRecord
    /\ [EvIdle EXCEPT !.pc = pc, !.ctx = ctx].pc = pc
    /\ [EvIdle EXCEPT !.pc = pc, !.ctx = ctx].ctx = ctx
    /\ [EvIdle EXCEPT !.pc = pc].pc = pc
    /\ [EvIdle EXCEPT !.pc = pc].ctx = "none"
  BY EvIdleType DEF EvIdle, EvRecord

\* Dropping an object freezes flags in the dispatcher's pipelines and moves no thread.
LEMMA DropType ==
  ASSUME NMTypeOK, DispType, RtOK, NEW n \in Nodes, DropObject(n)
  PROVE  /\ DispType' /\ disp'.pc = disp.pc
         /\ rt'["event"] = rt["event"]
         /\ rt'["dispatcher"].pc = rt["dispatcher"].pc
         /\ rt'["dispatcher"].then = rt["dispatcher"].then
<1>1. obj[n].ready \in BOOLEAN
  BY DEF NMTypeOK, NodeObj
<1>2. {Freeze(p, n) : p \in disp.snap} \subseteq PipeObj
  BY <1>1, FreezeType DEF DispType, DispRecord
<1>3. DispType' /\ disp'.pc = disp.pc
  BY <1>2 DEF DropObject, DispType, DispRecord
<1>4. /\ rt'["event"] = rt["event"]
      /\ rt'["dispatcher"].pc = rt["dispatcher"].pc
      /\ rt'["dispatcher"].then = rt["dispatcher"].then
  BY DEF DropObject, RtOK, RtRecord, Threads
<1> QED BY <1>3, <1>4

LocalsInv == NMTypeOK /\ Control /\ EvType /\ DispType /\ QueueType

\* Queued reports are reports, so the objects they rewrite keep their types.
LEMMA ProcessUpdatesLocals == ASSUME RegistryInv, LocalsInv, ProcessUpdates PROVE LocalsInv'
<1>1. NMTypeOK'
  BY UpdateType DEF LocalsInv, QueueType, ProcessUpdates
<1>2. Control' /\ EvType'
  BY DEF LocalsInv, ProcessUpdates, Control, EvType, EvRecord, EvPcs
<1>3. DispType'
  BY DEF LocalsInv, ProcessUpdates, DispType
<1>4. QueueType'
  BY DEF LocalsInv, ProcessUpdates, QueueType
<1> QED BY <1>1, <1>2, <1>3, <1>4 DEF LocalsInv

\* A join may send the event thread into an expansion.
LEMMA ProcessJoinLocals == ASSUME RegistryInv, LocalsInv, ProcessJoin PROVE LocalsInv'
<1>1. PICK j \in joinQ :
        /\ joinQ' = joinQ \ {j}
        /\ IF state[j.node] = "none" \/ bootstrapped
             THEN Upsert(j.node, j.report) /\ DropObject(j.node)
             ELSE UNCHANGED <<registry, disp, rt>>
        /\ ev' = IF Expands(j.node)
                    THEN [ev EXCEPT !.joined = TRUE, !.pc = "plan", !.ctx = "expand"]
                    ELSE [ev EXCEPT !.joined = TRUE]
  BY DEF ProcessJoin
<1>2. j.node \in Nodes /\ j.report \in Reports
  BY DEF LocalsInv, QueueType
<1>3. EvType' /\ (ev'.pc = "joins" \/ (ev'.pc = "plan" /\ ev'.ctx = "expand"))
  <2>1. ev \in EvRecord /\ ev.pc = "joins" /\ bootstrapped' = bootstrapped
    BY DEF LocalsInv, EvType, ProcessJoin
  <2>2. /\ [ev EXCEPT !.joined = TRUE] \in EvRecord
        /\ [ev EXCEPT !.joined = TRUE, !.pc = "plan", !.ctx = "expand"] \in EvRecord
    BY <2>1 DEF EvRecord, EvPcs, Contexts
  <2>3. CASE Expands(j.node)
    BY <1>1, <2>1, <2>2, <2>3 DEF LocalsInv, EvType, EvRecord
  <2>4. CASE ~Expands(j.node)
    BY <1>1, <2>1, <2>2, <2>4 DEF LocalsInv, EvType, EvRecord
  <2> QED BY <2>3, <2>4
<1>4. QueueType'
  BY <1>1 DEF LocalsInv, QueueType, ProcessJoin
<1>5. /\ NMTypeOK' /\ DispType'
      /\ rt'["event"].pc = rt["event"].pc
      /\ rt'["dispatcher"].then = rt["dispatcher"].then
  BY <1>1, <1>2, UpsertType, DropType, SameRegistryType DEF LocalsInv, RegistryInv, DispType
<1>6. Control'
  BY <1>3, <1>5 DEF LocalsInv, Control, ProcessJoin
<1> QED BY <1>3, <1>4, <1>5, <1>6 DEF LocalsInv

\* A step of the event thread between two of its own operations.
LEMMA EvStepLocals ==
  ASSUME LocalsInv, NMTypeOK', EvType', QueueType', UNCHANGED <<disp, rt>>,
         ev.pc # "router", ev'.pc # "router",
         ev'.pc \in {"plan", "allocate"} => ev'.ctx # "none",
         ev'.pc \in {"filter", "extend"} => ev'.ctx = "expand",
         ev'.pc \in {"standby", "unload", "reboot"} => ev'.ctx = "leave"
  PROVE  LocalsInv'
  BY DEF LocalsInv, Control, DispType

\* The end of the joins may send it into bootstrap().
LEMMA JoinsDoneLocals == ASSUME RegistryInv, LocalsInv, JoinsDone PROVE LocalsInv'
<1>1. /\ ev' \in EvRecord
      /\ (ev'.pc = "plan" /\ ev'.ctx = "join") \/ ev'.pc = "leaves"
  BY EvStarts DEF JoinsDone, EvPcs, Contexts
<1>2. EvType' /\ QueueType'
  BY <1>1 DEF LocalsInv, EvType, QueueType, JoinsDone, queues
<1> QED BY <1>1, <1>2, SameRegistryType, EvStepLocals DEF LocalsInv, JoinsDone

\* An allocation is planned, or impossible.
LEMMA PlanAllocationLocals == ASSUME RegistryInv, LocalsInv, PlanAllocation PROVE LocalsInv'
<1>0. ev \in EvRecord /\ ev.ctx # "none" /\ bootstrapped \in BOOLEAN
  BY DEF LocalsInv, EvType, Control, PlanAllocation
<1>1. CASE Capacity(Standby) >= NumLayers
  <2>1. PICK plan \in Plans(Standby) :
          ev' = [ev EXCEPT !.pc = "allocate", !.plan = plan,
                           !.before = IF ev.ctx = "expand" THEN Active ELSE {}]
    BY <1>1 DEF PlanAllocation
  <2>2. plan \in PlanLists
    BY PlansAreLists DEF Standby
  <2>3. (IF ev.ctx = "expand" THEN Active ELSE {}) \in SUBSET Nodes
    BY DEF Active
  <2>4. ev' \in EvRecord /\ ev'.pc = "allocate" /\ ev'.ctx = ev.ctx
    BY <1>0, <2>1, <2>2, <2>3 DEF EvRecord, EvPcs
  <2>5. EvType' /\ QueueType'
    BY <1>0, <1>1, <2>4 DEF LocalsInv, EvType, QueueType, PlanAllocation, queues
  <2> QED BY <1>0, <2>4, <2>5, SameRegistryType, EvStepLocals DEF LocalsInv, PlanAllocation
<1>2. CASE ~(Capacity(Standby) >= NumLayers)
  <2>1. ev' = Resume(TRUE) /\ bootstrapped' = (bootstrapped /\ ev.ctx = "expand")
    BY <1>2 DEF PlanAllocation
  <2>2. EvType' /\ QueueType'
    BY <1>0, <2>1, ResumeType DEF LocalsInv, EvType, QueueType, PlanAllocation, queues
  <2> QED BY <1>0, <2>1, <2>2, ResumeType, SameRegistryType, EvStepLocals
          DEF LocalsInv, PlanAllocation
<1> QED BY <1>1, <1>2

\* Every entry of a plan is a node with layers of the model.
LEMMA AllocateNextLocals == ASSUME RegistryInv, LocalsInv, AllocateNext PROVE LocalsInv'
<1> DEFINE n == Placed(ev.plan)[1]
           r == Placed(ev.plan)[2]
<1>0. /\ ev \in EvRecord /\ ev.ctx # "none" /\ bootstrapped \in BOOLEAN
      /\ ev.plan \in PlanLists /\ ev.plan # <<>> /\ ev.pc = "allocate"
  BY DEF LocalsInv, EvType, Control, AllocateNext, EvRecord
<1>1. n \in Nodes /\ r \in Ranges
  BY <1>0, TailOfPlan DEF Placement
<1>2. QueueType' /\ bootstrapped' \in BOOLEAN
  BY <1>0 DEF LocalsInv, QueueType, AllocateNext, queues
<1>3. CASE Allocate(n, r) /\ ev' = [ev EXCEPT !.plan = AfterPlaced(@)]
  <2>1. ev' \in EvRecord /\ ev'.pc = "allocate" /\ ev'.ctx = ev.ctx
    BY <1>0, <1>3, TailOfPlan DEF EvRecord
  <2>2. NMTypeOK'
    BY <1>1, <1>3, AllocateType DEF LocalsInv
  <2> QED BY <1>0, <1>2, <2>1, <2>2, EvStepLocals DEF AllocateNext, EvType
<1>4. CASE AllocateFailed(n, r) /\ ev' = Resume(FALSE)
  <2>1. NMTypeOK'
    BY <1>1, <1>4, AllocateType DEF LocalsInv
  <2> QED BY <1>0, <1>2, <1>4, <2>1, ResumeType, EvStepLocals DEF AllocateNext, EvType
<1> QED BY <1>3, <1>4 DEF AllocateNext

\* The event thread enters the router's bootstrap() from bootstrap() or Reboot only.
LEMMA RouterStartLocals ==
  ASSUME RegistryInv, LocalsInv, NMTypeOK', QueueType', EvType', UNCHANGED disp,
         NEW then \in {"plan", "select"}, StartRouter("event", then),
         ev'.pc = "router", ev'.ctx \in {"join", "leave"}
  PROVE  LocalsInv'
<1>1. /\ rt'["event"].pc \in {"keys", "existing"}
      /\ rt'["dispatcher"] = rt["dispatcher"]
  BY DEF StartRouter, RegistryInv, RtOK, Threads, RtIdle
<1> QED BY <1>1 DEF LocalsInv, Control, DispType

\* The end of the allocation: an expansion goes on to filter, a bootstrap to the router.
LEMMA AllocationDoneLocals == ASSUME RegistryInv, LocalsInv, AllocationDone PROVE LocalsInv'
<1>0. /\ ev \in EvRecord /\ ev.ctx # "none" /\ bootstrapped \in BOOLEAN
      /\ ev.pc = "allocate"
  BY DEF LocalsInv, EvType, Control, AllocationDone
<1>1. QueueType' /\ NMTypeOK' /\ bootstrapped' \in BOOLEAN
  BY <1>0, SameRegistryType DEF LocalsInv, QueueType, AllocationDone, queues
<1>2. CASE ~HasFullPipeline
  BY <1>0, <1>1, <1>2, ResumeType, EvStepLocals DEF AllocationDone, EvType
<1>3. CASE HasFullPipeline /\ ev.ctx = "expand"
  <2>1. ev' = [ev EXCEPT !.pc = "filter"]
    BY <1>3 DEF AllocationDone
  <2>2. ev' \in EvRecord /\ ev'.pc = "filter" /\ ev'.ctx = "expand"
    BY <1>0, <1>3, <2>1, EvSteps DEF EvPcs
  <2> QED BY <1>0, <1>1, <1>3, <2>2, EvStepLocals DEF AllocationDone, EvType
<1>4. CASE HasFullPipeline /\ ev.ctx # "expand"
  <2>1. ev' = [ev EXCEPT !.pc = "router"]
    BY <1>4 DEF AllocationDone
  <2>2. ev.ctx \in {"join", "leave"}
    BY <1>0, <1>4 DEF EvRecord, Contexts
  <2>3. ev' \in EvRecord /\ ev'.pc = "router" /\ ev'.ctx \in {"join", "leave"}
    BY <1>0, <2>1, <2>2, EvSteps DEF EvPcs
  <2> QED BY <1>0, <1>1, <1>4, <2>3, RouterStartLocals DEF AllocationDone, EvType
<1> QED BY <1>2, <1>3, <1>4

\* What an expansion keeps of the discovered pipelines is a list of pipelines.
LEMMA FilterLocals == ASSUME RegistryInv, LocalsInv, FilterNewPipelines PROVE LocalsInv'
<1> DEFINE new == {p \in ChainsOver(Active \ ev.before) : Members(p) \cap DOMAIN n2p = {}}
<1>0. ev \in EvRecord /\ ev.ctx = "expand" /\ ev.pc = "filter"
  BY DEF LocalsInv, EvType, Control, FilterNewPipelines
<1>1. QueueType' /\ NMTypeOK' /\ bootstrapped' \in BOOLEAN
  BY SameRegistryType DEF LocalsInv, EvType, QueueType, FilterNewPipelines, queues
<1>2. CASE new = {}
  BY <1>0, <1>1, <1>2, ResumeType, EvStepLocals DEF FilterNewPipelines, EvType
<1>3. CASE new # {}
  <2>1. PICK list \in Discovered(new) : ev' = [ev EXCEPT !.pc = "extend", !.sel = list]
    BY <1>3 DEF FilterNewPipelines
  <2>2. list \in Lists
    BY OrderingsAreLists DEF Discovered, ChainsOver
  <2>3. ev' \in EvRecord /\ ev'.pc = "extend" /\ ev'.ctx = "expand"
    BY <1>0, <2>1, <2>2 DEF EvRecord, EvPcs
  <2> QED BY <1>0, <1>1, <2>3, EvStepLocals DEF FilterNewPipelines, EvType
<1> QED BY <1>2, <1>3

\* The ids it registers them under are within the bound, whatever it raises.
LEMMA ExtendLocals == ASSUME RegistryInv, LocalsInv, ExtendPipelines PROVE LocalsInv'
<1>0. ev \in EvRecord /\ ev.ctx = "expand" /\ ev.pc = "extend" /\ ev.sel \in Seq(Seq(Nodes))
  BY ListsOfStages DEF LocalsInv, EvType, Control, ExtendPipelines, EvRecord, Lists
<1>1. QueueType' /\ bootstrapped' \in BOOLEAN
  BY DEF LocalsInv, EvType, QueueType, ExtendPipelines, queues
<1>2. NMTypeOK'
  BY <1>0, ExtendType DEF LocalsInv, ExtendPipelines
<1> QED BY <1>0, <1>1, <1>2, ResumeType, EvStepLocals DEF ExtendPipelines, EvType

\* A leave moves no thread.
LEMMA ProcessLeaveLocals == ASSUME RegistryInv, LocalsInv, ProcessLeave PROVE LocalsInv'
<1>1. PICK n \in leaveQ :
        IF state[n] = "none"
          THEN UNCHANGED <<registry, disp, rt, ev>>
          ELSE /\ RemoveNode(n) /\ DropObject(n)
               /\ ev' = [ev EXCEPT !.removed = @ \/ ~RemoveRaises(n)]
  BY DEF ProcessLeave
<1>2. n \in Nodes /\ QueueType'
  BY DEF LocalsInv, QueueType, ProcessLeave
<1>3. (ev.removed \/ ~RemoveRaises(n)) \in BOOLEAN
  BY DEF RemoveRaises, LocalsInv, EvType, EvRecord
<1>4. EvType' /\ ev'.pc = "leaves"
  BY <1>1, <1>3 DEF LocalsInv, EvType, EvRecord, ProcessLeave
<1>5. /\ NMTypeOK' /\ DispType'
      /\ rt'["event"].pc = rt["event"].pc
      /\ rt'["dispatcher"].then = rt["dispatcher"].then
  BY <1>1, <1>2, RemoveType, DropType, SameRegistryType DEF LocalsInv, RegistryInv, DispType
<1>6. Control'
  BY <1>4, <1>5 DEF LocalsInv, Control, ProcessLeave
<1> QED BY <1>2, <1>4, <1>5, <1>6 DEF LocalsInv

\* The last leave of a pass may begin a rebalance ...
LEMMA LeavesDoneLocals == ASSUME RegistryInv, LocalsInv, LeavesDone PROVE LocalsInv'
<1>0. ev \in EvRecord /\ ev.pc = "leaves" /\ Active \in SUBSET Nodes
  BY DEF LocalsInv, EvType, LeavesDone, Active
<1>1. QueueType' /\ bootstrapped' \in BOOLEAN
  BY DEF LocalsInv, EvType, QueueType, LeavesDone, queues
<1>2. ASSUME ev' = [ev EXCEPT !.pc = "standby", !.ctx = "leave", !.todo = Active]
      PROVE  ev' \in EvRecord /\ ev'.pc = "standby" /\ ev'.ctx = "leave"
  BY <1>0, <1>2 DEF EvRecord, EvPcs, Contexts
<1>3. ASSUME ev' = [EvIdle EXCEPT !.pc = "heartbeat"]
      PROVE  ev' \in EvRecord /\ ev'.pc = "heartbeat"
  BY <1>3, EvStarts DEF EvPcs, Contexts
<1> QED BY <1>0, <1>1, <1>2, <1>3, SameRegistryType, EvStepLocals DEF LocalsInv, LeavesDone, EvType

\* ... which moves nodes to STANDBY, or raises ...
LEMMA StandbyAllLocals == ASSUME RegistryInv, LocalsInv, StandbyAll PROVE LocalsInv'
<1>0. ev \in EvRecord /\ ev.ctx = "leave" /\ ev.pc = "standby"
  BY DEF LocalsInv, EvType, Control, StandbyAll
<1>1. QueueType' /\ NMTypeOK' /\ bootstrapped' \in BOOLEAN
  BY StandbyType DEF LocalsInv, EvType, QueueType, StandbyAll, queues
<1>2. ASSUME ev' = [ev EXCEPT !.pc = "unload"]
      PROVE  ev' \in EvRecord /\ ev'.pc = "unload" /\ ev'.ctx = "leave"
  BY <1>0, <1>2, EvSteps DEF EvPcs
<1> QED BY <1>0, <1>1, <1>2, ResumeType, EvStepLocals DEF StandbyAll, EvType

\* ... clears their layers ...
LEMMA UnloadAllLocals == ASSUME RegistryInv, LocalsInv, UnloadAll PROVE LocalsInv'
<1>0. ev \in EvRecord /\ ev.ctx = "leave" /\ ev.pc = "unload"
  BY DEF LocalsInv, EvType, Control, UnloadAll
<1>1. QueueType' /\ NMTypeOK' /\ bootstrapped' \in BOOLEAN
  BY ClearType DEF LocalsInv, EvType, QueueType, UnloadAll, queues
<1>2. ev' \in EvRecord /\ ev'.pc = "reboot" /\ ev'.ctx = "leave"
  BY <1>0 DEF UnloadAll, EvRecord, EvPcs
<1> QED BY <1>0, <1>1, <1>2, EvStepLocals DEF UnloadAll, EvType

\* ... and enters the router to clear the pipelines.
LEMMA RebootLocals == ASSUME RegistryInv, LocalsInv, Reboot PROVE LocalsInv'
<1>0. ev \in EvRecord /\ ev.ctx = "leave" /\ ev.pc = "reboot"
  BY DEF LocalsInv, EvType, Control, Reboot
<1>1. QueueType' /\ NMTypeOK' /\ bootstrapped' \in BOOLEAN
  BY SameRegistryType DEF LocalsInv, EvType, QueueType, Reboot, queues
<1>2. CASE Active = {}
  <2>1. ev' \in EvRecord /\ ev'.pc = "router" /\ ev'.ctx = "leave"
    BY <1>0, <1>2, EvSteps DEF Reboot, EvPcs
  <2> QED BY <1>1, <1>2, <2>1, RouterStartLocals DEF Reboot, EvType
<1>3. CASE Active # {}
  BY <1>0, <1>1, <1>3, ResumeType, EvStepLocals DEF Reboot, EvType
<1> QED BY <1>2, <1>3

\* The heartbeat check queues leaves of nodes it knows, and ends the pass.
LEMMA HeartbeatLocals ==
  ASSUME RegistryInv, LocalsInv, SkipHeartbeats \/ CheckHeartbeats PROVE LocalsInv'
<1>1. QueueType'
  BY DEF LocalsInv, QueueType, SkipHeartbeats, CheckHeartbeats, queues, Active
<1>2. ev' \in EvRecord /\ ev'.pc = "updates"
  <2>1. ev' = EvIdle
    BY DEF SkipHeartbeats, CheckHeartbeats
  <2>2. EvIdle.pc = "updates"
    BY DEF EvIdle
  <2> QED BY <2>1, <2>2, EvIdleType
<1>3. NMTypeOK' /\ bootstrapped' \in BOOLEAN /\ ev.pc = "heartbeat" /\ UNCHANGED <<disp, rt>>
  BY SameRegistryType DEF LocalsInv, EvType, SkipHeartbeats, CheckHeartbeats
<1> QED BY <1>1, <1>2, <1>3, EvStepLocals DEF EvType

----------------------------------------------------------------------------
\* A step of the router's bootstrap() that does not end it.
LEMMA RouterStepLocals ==
  ASSUME RegistryInv, LocalsInv, NMTypeOK', QueueType', UNCHANGED <<ev, disp, bootstrapped>>,
         NEW t \in Threads, NEW e, rt' = [rt EXCEPT ![t] = e],
         e.pc # "idle", e.then = rt[t].then, rt[t].pc # "idle"
  PROVE  LocalsInv'
<1>1. \A u \in Threads : rt'[u] = IF u = t THEN e ELSE rt[u]
  BY DEF RegistryInv, RtOK
<1>2. /\ rt'["event"].pc # "idle" => rt["event"].pc # "idle"
      /\ rt["event"].pc # "idle" => rt'["event"].pc # "idle"
      /\ rt'["dispatcher"].then = rt["dispatcher"].then
  BY <1>1 DEF Threads
<1> QED BY <1>2 DEF LocalsInv, Control, EvType, DispType

\* A step that ends it.
LEMMA RouterEndLocals ==
  ASSUME RegistryInv, LocalsInv, NMTypeOK', QueueType',
         NEW t \in Threads, rt[t].pc # "idle", RouterReturn(t) \/ RouterRaise(t)
  PROVE  LocalsInv'
<1>1. \A u \in Threads : rt'[u] = IF u = t THEN RtIdle ELSE rt[u]
  BY DEF RegistryInv, RtOK, RouterReturn, RouterRaise
<1>2. RtIdle.pc = "idle" /\ RtIdle.then = "none"
  BY DEF RtIdle
<1>3. CASE t = "event"
  <2>1. ev \in EvRecord /\ ev.ctx # "none"
    BY <1>3 DEF LocalsInv, EvType, Control
  <2>2. PICK ok \in BOOLEAN : ev' = Resume(ok) /\ bootstrapped' \in {bootstrapped, TRUE}
    BY <1>3 DEF RouterReturn, RouterRaise
  <2>3. EvType' /\ ev'.pc \in {"joins", "leaves", "heartbeat", "dead"}
    BY <2>1, <2>2, ResumeType DEF LocalsInv, EvType
  <2>4. DispType'
    BY <1>3 DEF LocalsInv, DispType, RouterReturn, RouterRaise
  <2>5. Control'
    BY <1>1, <1>2, <1>3, <2>3 DEF LocalsInv, Control, Threads
  <2> QED BY <2>3, <2>4, <2>5 DEF LocalsInv
<1>4. CASE t = "dispatcher"
  <2>1. UNCHANGED <<ev, bootstrapped>>
    BY <1>4 DEF RouterReturn, RouterRaise
  <2>2. DispType'
    BY <1>4 DEF LocalsInv, DispType, DispRecord, DispPcs, RouterReturn, RouterRaise
  <2>3. Control'
    BY <1>1, <1>2, <1>4, <2>1 DEF LocalsInv, Control, Threads
  <2> QED BY <2>1, <2>2, <2>3 DEF LocalsInv, EvType
<1> QED BY <1>3, <1>4 DEF Threads

\* The records that the steps of the router's bootstrap() make.
LEMMA RtUpdates ==
  ASSUME RtOK, NEW t \in Threads, NEW pc
  PROVE  /\ [rt[t] EXCEPT !.pc = pc].pc = pc
         /\ [rt[t] EXCEPT !.pc = pc].then = rt[t].then
         /\ \A todo : /\ [rt[t] EXCEPT !.pc = pc, !.todo = todo].pc = pc
                      /\ [rt[t] EXCEPT !.pc = pc, !.todo = todo].then = rt[t].then
         /\ \A sel : /\ [rt[t] EXCEPT !.pc = pc, !.sel = sel].pc = pc
                     /\ [rt[t] EXCEPT !.pc = pc, !.sel = sel].then = rt[t].then
  BY DEF RtOK, RtRecord

\* Every step of the router's bootstrap(), in either thread.
LEMMA RouterLocals ==
  ASSUME RegistryInv, LocalsInv, NEW t \in Threads, Router(t) PROVE LocalsInv'
<1>1. ASSUME UNCHANGED queues PROVE QueueType'
  BY <1>1 DEF LocalsInv, QueueType, queues
<1>0. RtOK
  BY DEF RegistryInv
<1>2. CASE RouterExisting(t)
  <2> DEFINE pc == IF DOMAIN pipes # {} THEN "keys" ELSE "select"
  <2>1. rt' = [rt EXCEPT ![t] = [rt[t] EXCEPT !.pc = pc]]
    BY <1>0, <1>2 DEF RtOK, RouterExisting
  <2>2. pc # "idle"
    OBVIOUS
  <2> HIDE DEF pc
  <2>3. NMTypeOK' /\ QueueType' /\ rt[t].pc # "idle" /\ UNCHANGED <<ev, disp, bootstrapped>>
    BY <1>1, <1>2, SameRegistryType DEF LocalsInv, RouterExisting
  <2>4. [rt[t] EXCEPT !.pc = pc].pc # "idle" /\ [rt[t] EXCEPT !.pc = pc].then = rt[t].then
    BY <1>0, <2>2, RtUpdates
  <2> QED BY <2>1, <2>3, <2>4, RouterStepLocals
<1>3. CASE RouterKeys(t)
  <2> DEFINE e == [rt[t] EXCEPT !.pc = "clear", !.todo = DOMAIN n2p]
  <2>1. rt' = [rt EXCEPT ![t] = e]
    BY <1>0, <1>3 DEF RtOK, RouterKeys
  <2>2. e.pc # "idle" /\ e.then = rt[t].then
    BY <1>0, RtUpdates
  <2> HIDE DEF e
  <2>3. NMTypeOK' /\ QueueType' /\ rt[t].pc # "idle" /\ UNCHANGED <<ev, disp, bootstrapped>>
    BY <1>1, <1>3, SameRegistryType DEF LocalsInv, RouterKeys
  <2> QED BY <2>1, <2>2, <2>3, RouterStepLocals
<1>4. CASE RouterClear(t)
  <2>1. NMTypeOK' /\ QueueType' /\ rt[t].pc # "idle"
    BY <1>1, <1>4, StandbyType DEF LocalsInv, RouterClear
  <2>2. CASE rt[t].todo \subseteq Active
    <3> DEFINE e == [rt[t] EXCEPT !.pc = "unload"]
    <3>1. rt' = [rt EXCEPT ![t] = e] /\ UNCHANGED <<ev, disp, bootstrapped>>
      BY <1>0, <1>4, <2>2 DEF RtOK, RouterClear
    <3>2. e.pc # "idle" /\ e.then = rt[t].then
      BY <1>0, RtUpdates
    <3> HIDE DEF e
    <3> QED BY <2>1, <3>1, <3>2, RouterStepLocals
  <2>3. CASE ~(rt[t].todo \subseteq Active)
    BY <1>4, <2>1, <2>3, RouterEndLocals DEF RouterClear
  <2> QED BY <2>2, <2>3
<1>5. CASE RouterUnload(t)
  <2> DEFINE e == [rt[t] EXCEPT !.pc = "reset", !.todo = {}]
  <2>1. rt' = [rt EXCEPT ![t] = e]
    BY <1>0, <1>5 DEF RtOK, RouterUnload
  <2>2. e.pc # "idle" /\ e.then = rt[t].then
    BY <1>0, RtUpdates
  <2> HIDE DEF e
  <2>3. NMTypeOK' /\ QueueType' /\ rt[t].pc # "idle" /\ UNCHANGED <<ev, disp, bootstrapped>>
    BY <1>1, <1>5, ClearType DEF LocalsInv, RouterUnload
  <2> QED BY <2>1, <2>2, <2>3, RouterStepLocals
<1>6. CASE RouterReset(t)
  <2>1. NMTypeOK' /\ QueueType' /\ rt[t].pc # "idle" /\ UNCHANGED disp
    BY <1>1, <1>6, ResetType DEF LocalsInv, RouterReset
  <2>2. CASE rt[t].then = "plan"
    <3>1. t = "event" /\ ev \in EvRecord /\ ev.ctx \in {"join", "leave"}
      BY <2>1, <2>2 DEF LocalsInv, Control, EvType, Threads
    <3>2. ev' = [ev EXCEPT !.pc = "plan"] /\ bootstrapped' = FALSE /\ rt' = [rt EXCEPT ![t] = RtIdle]
      BY <1>6, <2>2 DEF RouterReset
    <3>3. ev' \in EvRecord /\ ev'.pc = "plan" /\ ev'.ctx = ev.ctx
      BY <3>1, <3>2, EvSteps DEF EvPcs
    <3>4. rt'["event"].pc = "idle" /\ rt'["dispatcher"] = rt["dispatcher"]
      BY <1>0, <3>1, <3>2 DEF RtOK, RtIdle, Threads
    <3> QED BY <2>1, <3>1, <3>2, <3>3, <3>4 DEF LocalsInv, Control, EvType, DispType
  <2>3. CASE rt[t].then # "plan"
    <3> DEFINE e == [rt[t] EXCEPT !.pc = "select"]
    <3>1. rt' = [rt EXCEPT ![t] = e] /\ UNCHANGED <<ev, bootstrapped>>
      BY <1>0, <1>6, <2>3 DEF RtOK, RouterReset
    <3>2. e.pc # "idle" /\ e.then = rt[t].then
      BY <1>0, RtUpdates
    <3> HIDE DEF e
    <3> QED BY <2>1, <3>1, <3>2, RouterStepLocals
  <2> QED BY <2>2, <2>3
<1>7. CASE RouterSelect(t)
  <2>1. NMTypeOK' /\ QueueType' /\ rt[t].pc # "idle"
    BY <1>1, <1>7, SameRegistryType DEF LocalsInv, RouterSelect
  <2>2. CASE ~HasFullPipeline
    BY <1>7, <2>1, <2>2, RouterEndLocals DEF RouterSelect
  <2>3. CASE HasFullPipeline
    <3>0. PICK sel \in Selections({p \in ChainsOver(Active) : Routable(p)}) :
            \E list \in SetToSeqs(sel) :
              rt' = [rt EXCEPT ![t].pc = "register", ![t].sel = list]
      BY <1>7, <2>3 DEF RouterSelect
    <3>1. PICK list \in SetToSeqs(sel) :
            rt' = [rt EXCEPT ![t].pc = "register", ![t].sel = list]
      BY <3>0
    <3> DEFINE e == [rt[t] EXCEPT !.pc = "register", !.sel = list]
    <3>2. rt' = [rt EXCEPT ![t] = e] /\ UNCHANGED <<ev, disp, bootstrapped>>
      BY <1>0, <1>7, <2>3, <3>1 DEF RtOK, RouterSelect
    <3>3. e.pc # "idle" /\ e.then = rt[t].then
      BY <1>0, RtUpdates
    <3> HIDE DEF e
    <3> QED BY <2>1, <3>2, <3>3, RouterStepLocals
  <2> QED BY <2>2, <2>3
<1>8. CASE RouterRegister(t)
  <2>1. rt[t].sel \in Seq(Seq(Nodes))
    BY <1>0, RtFields, ListsOfStages DEF Lists
  <2>2. NMTypeOK' /\ QueueType' /\ rt[t].pc # "idle"
    BY <1>1, <1>8, <2>1, RegisterType DEF LocalsInv, RouterRegister
  <2> QED BY <1>8, <2>2, RouterEndLocals DEF RouterRegister
<1> QED BY <1>2, <1>3, <1>4, <1>5, <1>6, <1>7, <1>8 DEF Router

----------------------------------------------------------------------------
\* A step that leaves the event thread and both activations of the router alone.
LEMMA OtherLocals ==
  ASSUME LocalsInv, NMTypeOK', DispType', QueueType', UNCHANGED <<bootstrapped, ev, rt>>
  PROVE  LocalsInv'
  BY DEF LocalsInv, Control, EvType

\* The dispatcher's lists of pipelines are pipelines, its path a list of nodes.
LEMMA DispatcherLocals == ASSUME RegistryInv, LocalsInv, Dispatcher PROVE LocalsInv'
<1>0. disp \in DispRecord /\ {pipes[p] : p \in DOMAIN pipes} \subseteq PipeObj
  BY DEF LocalsInv, DispType, NMTypeOK
<1>1. ASSUME UNCHANGED queues PROVE QueueType'
  BY <1>1 DEF LocalsInv, QueueType, queues
<1>2. CASE AwaitRequest \/ AwaitTimeout \/ SnapshotAgain
  <2>1. DispType'
    BY <1>0, <1>2 DEF AwaitRequest, AwaitTimeout, SnapshotAgain, DispGoto, DispType, DispRecord, DispPcs
  <2> QED BY <1>1, <1>2, <2>1, SameRegistryType, OtherLocals
          DEF LocalsInv, AwaitRequest, AwaitTimeout, SnapshotAgain
<1>3. CASE ResolvePath
  <2>1. \A pipe \in disp.snap : pipe.ids \in Seq(Nodes)
    BY <1>0 DEF DispRecord, PipeObj
  <2>2. <<>> \in Seq(Nodes)
    OBVIOUS
  <2>3. \A pc \in DispPcs, path \in Seq(Nodes) : [pc |-> pc, snap |-> {}, path |-> path] \in DispRecord
    BY DEF DispRecord
  <2>4. DispType'
    BY <1>3, <2>1, <2>2, <2>3 DEF ResolvePath, DispType, DispPcs
  <2> QED BY <1>1, <1>3, <2>4, SameRegistryType, OtherLocals DEF LocalsInv, ResolvePath
<1>4. CASE ChargeNext
  <2>1. disp.path \in Seq(Nodes) /\ disp.path # <<>>
    BY <1>0, <1>4 DEF DispRecord, ChargeNext
  <2>2. Head(disp.path) \in Nodes /\ Tail(disp.path) \in Seq(Nodes)
    BY <2>1, HeadTailProperties
  <2>3. <<>> \in Seq(Nodes)
    OBVIOUS
  <2>4. \A pc \in DispPcs, path \in Seq(Nodes) :
          /\ [disp EXCEPT !.pc = pc, !.path = path] \in DispRecord
          /\ [disp EXCEPT !.path = path, !.pc = pc] \in DispRecord
    BY <1>0 DEF DispRecord
  <2>5. DispType'
    <3>1. CASE AddRequestRaises(Head(disp.path))
      <4>1. disp' = [disp EXCEPT !.pc = "dead", !.path = <<>>]
        BY <1>4, <3>1 DEF ChargeNext
      <4> QED BY <2>3, <2>4, <4>1 DEF DispType, DispPcs
    <3>2. CASE ~AddRequestRaises(Head(disp.path))
      <4> DEFINE pc == IF Len(disp.path) = 1 THEN "idle" ELSE "charge"
      <4>1. disp' = [disp EXCEPT !.path = Tail(disp.path), !.pc = pc]
        BY <1>4, <3>2 DEF ChargeNext
      <4>2. pc \in DispPcs
        BY DEF DispPcs
      <4> HIDE DEF pc
      <4> QED BY <2>2, <2>4, <4>1, <4>2 DEF DispType
    <3> QED BY <3>1, <3>2
  <2>6. NMTypeOK'
    BY <1>4, <2>2, FlagsType, SameRegistryType DEF LocalsInv, ChargeNext
  <2> QED BY <1>1, <1>4, <2>5, <2>6, OtherLocals DEF ChargeNext
<1>5. CASE TakeRequest
  <2>1. NMTypeOK' /\ QueueType' /\ UNCHANGED <<ev, bootstrapped>>
    BY <1>1, <1>5, SameRegistryType DEF LocalsInv, TakeRequest
  <2>2. DispType'
    BY <1>0, <1>5 DEF TakeRequest, DispGoto, DispType, DispRecord, DispPcs
  <2>3. CASE DOMAIN pipes = {}
    <3>1. rt'["event"] = rt["event"] /\ rt'["dispatcher"].then = "select"
      BY <1>5, <2>3 DEF TakeRequest, StartRouter, RegistryInv, RtOK, RtIdle, Threads
    <3> QED BY <2>1, <2>2, <3>1 DEF LocalsInv, Control, EvType
  <2>4. CASE DOMAIN pipes # {}
    BY <1>5, <2>1, <2>2, <2>4, OtherLocals DEF TakeRequest
  <2> QED BY <2>3, <2>4
<1>6. "dispatcher" \in Threads
  BY DEF Threads
<1> QED BY <1>2, <1>3, <1>4, <1>5, <1>6, RouterLocals DEF Dispatcher

\* What a worker may report is one of the reports.
LEMMA WorkerLocals == ASSUME RegistryInv, LocalsInv, NEW n \in Nodes, Worker(n) PROVE LocalsInv'
<1>0. NodeInfo(n) \subseteq Reports
  BY DEF NodeInfo
<1>1. UNCHANGED <<bootstrapped, ev, disp, rt>>
  BY DEF Worker, Start, Announcer, JoinAnswered, Heartbeat, HeartbeatUnknown, RejoinAnswered,
         JoinTimeout, Load, Crash, Shutdown, Silence, sched, threads
<1>2. NMTypeOK'
  <2>1. CASE Silence(n)
    BY <2>1, FlagsType DEF LocalsInv, Silence
  <2>2. CASE ~Silence(n)
    BY <2>2, SameRegistryType
       DEF LocalsInv, Worker, Start, Announcer, JoinAnswered, Heartbeat, HeartbeatUnknown,
           RejoinAnswered, JoinTimeout, Load, Crash, Shutdown
  <2> QED BY <2>1, <2>2
<1>3. QueueType'
  <2>1. CASE Start(n) \/ HeartbeatUnknown(n)
    BY <1>0, <2>1 DEF LocalsInv, QueueType, Start, HeartbeatUnknown, EnqueueJoin
  <2>2. CASE Heartbeat(n)
    BY <1>0, <2>2 DEF LocalsInv, QueueType, Heartbeat
  <2>3. CASE Shutdown(n)
    BY <2>3 DEF LocalsInv, QueueType, Shutdown
  <2>4. CASE JoinAnswered(n) \/ RejoinAnswered(n) \/ JoinTimeout(n) \/ Load(n) \/ Crash(n) \/ Silence(n)
    BY <2>4 DEF LocalsInv, QueueType, JoinAnswered, RejoinAnswered, JoinTimeout, Load, Crash,
                Silence, queues
  <2> QED BY <2>1, <2>2, <2>3, <2>4 DEF Worker, Announcer
<1> QED BY <1>1, <1>2, <1>3, OtherLocals DEF LocalsInv, DispType

\* The invariant holds initially ...
LEMMA LocalsInit == Init => LocalsInv
<1> SUFFICES ASSUME Init PROVE LocalsInv
  OBVIOUS
<1>1. NMTypeOK
  BY InitType DEF Init
<1>2. EvType /\ ev.pc = "updates"
  <2>1. EvIdle.pc = "updates"
    BY DEF EvIdle
  <2> QED BY <2>1, EvIdleType DEF Init, EvType
<1>3. DispType
  <2>1. <<>> \in Seq(Nodes)
    OBVIOUS
  <2>2. \A path \in Seq(Nodes) : [pc |-> "idle", snap |-> {}, path |-> path] \in DispRecord
    BY DEF DispRecord, DispPcs
  <2> QED BY <2>1, <2>2 DEF Init, DispType
<1>4. QueueType
  BY DEF Init, QueueType
<1>5. Control
  <2>1. rt["event"].pc = "idle" /\ rt["dispatcher"].then = "none"
    BY DEF Init, RtIdle, Threads
  <2> QED BY <1>2, <2>1 DEF Control
<1> QED BY <1>1, <1>2, <1>3, <1>4, <1>5 DEF LocalsInv

\* ... and every step keeps it.
LEMMA LocalsNext == ASSUME RegistryInv, LocalsInv, [Next]_vars PROVE LocalsInv'
<1>1. CASE EventThread
  <2>1. "event" \in Threads
    BY DEF Threads
  <2> QED BY <1>1, <2>1, ProcessUpdatesLocals, ProcessJoinLocals, JoinsDoneLocals,
             PlanAllocationLocals, AllocateNextLocals, AllocationDoneLocals, FilterLocals,
             ExtendLocals, ProcessLeaveLocals, LeavesDoneLocals, StandbyAllLocals,
             UnloadAllLocals, RebootLocals, HeartbeatLocals, RouterLocals DEF EventThread
<1>2. CASE Dispatcher
  BY <1>2, DispatcherLocals
<1>3. CASE ReceiveRequest \/ UNCHANGED vars
  <2>1. UNCHANGED <<registry, bootstrapped, queues, ev, disp, rt>>
    BY <1>3 DEF ReceiveRequest, vars, threads
  <2> QED BY <2>1, SameRegistryType, OtherLocals DEF LocalsInv, DispType, QueueType, queues
<1>4. CASE \E n \in Nodes : Worker(n)
  BY <1>4, WorkerLocals
<1> QED BY <1>1, <1>2, <1>3, <1>4 DEF Next

TypeInv == RegistryInv /\ LocalsInv

\* Both parts of the invariant hold of every behaviour.
LEMMA TypesHold == Spec => []TypeInv
<1>1. Init => TypeInv
  BY InvInit, LocalsInit DEF TypeInv
<1>2. TypeInv /\ [Next]_vars => TypeInv'
  BY InvNext, LocalsNext DEF TypeInv
<1> QED BY <1>1, <1>2, PTL DEF Spec

\* However threads and workers interleave, the variables keep their types, and the
\* event thread, whatever raises in it, is always at one of its known points.
THEOREM ClusterTypes == Spec => []TypeOK
<1>1. TypeInv => TypeOK
  BY DEF TypeInv, LocalsInv, EvType, DispType, QueueType, EvRecord, EvPcs, DispRecord, DispPcs, TypeOK
<1> QED BY <1>1, TypesHold, PTL

----------------------------------------------------------------------------
(***************************************************************************)
(* The scheduler implements the registry: between them, two threads change *)
(* its tables only by the calls of NMNext.  The threads' registrations     *)
(* carry lists of any pipelines, those of NMNext only batches, which are   *)
(* good up to the last one: a call never looks beyond where it stops.      *)
(***************************************************************************)
\* The bound of NMNext on batches leaves room for a registration call on all nodes.
Roomy == Cardinality(Nodes) < MaxBatch

\* What a registration call looks at of its list: all up to the pipeline it stops at.
Upto(list, k) == SubSeq(list, 1, IF k <= Len(list) THEN k ELSE Len(list))

\* The pipelines ahead of the one a registration call stops at share no node, so there
\* are no more of them than nodes.
LEMMA FewAhead ==
  ASSUME NEW list \in Lists, NEW owned, NEW k \in 1..(Len(list) + 1), StopsAt(list, owned, k)
  PROVE  k - 1 <= Cardinality(Nodes)
<1> DEFINE head == [i \in 1..(k - 1) |-> list[i][1]]
<1>1. \A i \in 1..(k - 1) : list[i] \in Stages
  BY DEF Lists
<1>2. \A s \in Stages : 1 \in DOMAIN s /\ s[1] \in Nodes /\ s[1] \in Members(s)
  BY NMAssumption DEF Stages, Members, Range
<1>3. head \in [1..(k - 1) -> Nodes]
  BY <1>1, <1>2
<1>4. ASSUME NEW i \in 1..(k - 1), NEW j \in 1..(k - 1), i < j PROVE head[i] # head[j]
  <2>1. Members(list[j]) \cap OwnedBefore(list, owned, j) = {}
    BY DEF StopsAt, Clean
  <2>2. list[i][1] \in OwnedBefore(list, owned, j)
    BY <1>1, <1>2, <1>4 DEF OwnedBefore
  <2> QED BY <1>1, <1>2, <2>1, <2>2
<1>5. \A i, j \in 1..(k - 1) : head[i] = head[j] => i = j
  BY <1>4
<1>6. head \in Injection(1..(k - 1), Nodes)
  BY <1>3, <1>5 DEF Injection, IsInjective
<1>7. IsFiniteSet(1..(k - 1)) /\ Cardinality(1..(k - 1)) = k - 1
  BY FS_Interval
<1> QED BY <1>6, <1>7, NMAssumption, FS_Injection

\* So that much of the list is a batch of the registry's general client.
LEMMA UptoIsBatch ==
  ASSUME Roomy, NEW list \in Lists, list # <<>>, NEW owned, NEW k \in 1..(Len(list) + 1),
         StopsAt(list, owned, k)
  PROVE  Upto(list, k) \in Batches
<1> DEFINE m == IF k <= Len(list) THEN k ELSE Len(list)
           front == SubSeq(list, 1, m - 1)
<1>1. m \in 1..Len(list) /\ m <= k /\ m - 1 <= k - 1
  BY DEF Lists
<1>2. m - 1 \in 0..(MaxBatch - 1)
  <2>1. Cardinality(Nodes) \in Nat
    BY NMAssumption, FS_CardinalityType
  <2>2. k - 1 <= Cardinality(Nodes)
    BY FewAhead
  <2> QED BY <1>1, <2>1, <2>2, NMAssumption DEF Roomy
<1>3. Upto(list, k) = SubSeq(list, 1, m)
  BY DEF Upto
<1> HIDE DEF m
<1>4. front \in [1..(m - 1) -> {q \in Stages : Registrable(q)}]
  <2>1. front = [i \in 1..(m - 1) |-> list[i]]
    BY <1>1 DEF Lists
  <2>3. \A i \in 1..(m - 1) : list[i] \in Stages
    BY <1>1 DEF Lists
  <2>2. \A i \in 1..(m - 1) : Registrable(list[i])
    BY <1>1 DEF StopsAt, Clean
  <2> QED BY <2>1, <2>2, <2>3
<1>5. list[m] \in Stages
  BY <1>1 DEF Lists
<1>6. SubSeq(list, 1, m) = Append(front, list[m])
  BY <1>1 DEF Lists
<1> HIDE DEF front
<1>7. Append(front, list[m]) \in Batches
  BY <1>2, <1>4, <1>5 DEF Batches
<1> QED BY <1>3, <1>6, <1>7

\* It has the length of the list or ends at the stop, and the same pipelines.
LEMMA UptoAgrees ==
  ASSUME NEW list \in Lists, NEW k \in 1..(Len(list) + 1)
  PROVE  /\ Len(Upto(list, k)) <= Len(list) /\ k \in 1..(Len(Upto(list, k)) + 1)
         /\ Upto(list, k) \in Lists
         /\ k <= Len(Upto(list, k)) <=> k <= Len(list)
         /\ \A i \in 1..Len(list) : i <= k => /\ i \in 1..Len(Upto(list, k))
                                              /\ Upto(list, k)[i] = list[i]
         /\ \A i \in 1..Len(Upto(list, k)) : i \in 1..Len(list) /\ i <= k
  BY DEF Lists, Upto

\* A call on it does what a call on the whole list does.
LEMMA UptoSuffices ==
  ASSUME NEW list \in Lists, NEW owned, NEW k \in 1..(Len(list) + 1), StopsAt(list, owned, k)
  PROVE  LET cut == Upto(list, k)
         IN  /\ StopsAt(cut, owned, k)
             /\ Inserted(cut, k) = Inserted(list, k)
             /\ \A i \in Inserted(list, k) : cut[i] = list[i]
             /\ Mapped(cut, owned, k) = Mapped(list, owned, k)
             /\ \A base \in Nat : \A n \in Mapped(list, owned, k) :
                  PidOf(cut, k, base, n) = PidOf(list, k, base, n)
<1> DEFINE cut == Upto(list, k)
<1>1. /\ Len(cut) <= Len(list) /\ k \in 1..(Len(cut) + 1)
      /\ cut \in Lists
      /\ k <= Len(cut) <=> k <= Len(list)
      /\ \A i \in 1..Len(list) : i <= k => i \in 1..Len(cut) /\ cut[i] = list[i]
      /\ \A i \in 1..Len(cut) : i \in 1..Len(list) /\ i <= k
  BY UptoAgrees
<1> HIDE DEF cut
<1>2. DOMAIN cut = 1..Len(cut) /\ DOMAIN list = 1..Len(list)
  BY <1>1 DEF Lists
<1>3. ASSUME NEW i \in 1..k PROVE OwnedBefore(cut, owned, i) = OwnedBefore(list, owned, i)
  <2>1. \A h \in 1..(i - 1) : cut[h] = list[h]
    BY <1>1
  <2> QED BY <2>1 DEF OwnedBefore
<1>4. ASSUME NEW i \in 1..Len(list), i <= k
      PROVE  Clean(cut, owned, i) <=> Clean(list, owned, i)
  <2>1. cut[i] = list[i]
    BY <1>1, <1>4
  <2>2. OwnedBefore(cut, owned, i) = OwnedBefore(list, owned, i)
    BY <1>3, <1>4
  <2> QED BY <2>1, <2>2 DEF Clean
<1>5. StopsAt(cut, owned, k)
  BY <1>1, <1>4 DEF StopsAt
<1>6. Inserted(cut, k) = Inserted(list, k)
  BY <1>1, <1>2 DEF Inserted
<1>7. \A i \in Inserted(list, k) : i \in 1..Len(list) /\ i <= k /\ cut[i] = list[i]
  BY <1>1, <1>2 DEF Inserted
<1>8. Mapped(cut, owned, k) = Mapped(list, owned, k)
  <2>1. DOMAIN cut \cap 1..(k - 1) = DOMAIN list \cap 1..(k - 1)
    BY <1>1, <1>2
  <2>2. \A i \in DOMAIN list \cap 1..(k - 1) : cut[i] = list[i]
    BY <1>1, <1>2
  <2>3. (UNION {Members(cut[i]) : i \in DOMAIN cut \cap 1..(k - 1)})
          = UNION {Members(list[i]) : i \in DOMAIN list \cap 1..(k - 1)}
    BY <2>1, <2>2
  <2>4. OwnedBefore(cut, owned, k) = OwnedBefore(list, owned, k)
    BY <1>3
  <2>5. CASE k \in Inserted(list, k)
    <3>1. cut[k] = list[k]
      BY <1>7, <2>5
    <3> QED BY <1>6, <2>3, <2>4, <2>5, <3>1 DEF Mapped
  <2>6. CASE k \notin Inserted(list, k)
    BY <1>6, <2>3, <2>6 DEF Mapped
  <2> QED BY <2>5, <2>6
<1>9. ASSUME NEW base \in Nat, NEW n \in Mapped(list, owned, k)
      PROVE  PidOf(cut, k, base, n) = PidOf(list, k, base, n)
  <2> DEFINE P(i) == n \in Members(list[i]) /\ \A h \in 1..(i - 1) : n \notin Members(list[h])
             Q(i) == n \in Members(cut[i]) /\ \A h \in 1..(i - 1) : n \notin Members(cut[h])
  <2>1. ASSUME NEW i \in Inserted(list, k) PROVE P(i) <=> Q(i)
    <3>1. \A h \in 1..(i - 1) : cut[h] = list[h]
      BY <1>1, <1>7
    <3> QED BY <1>7, <3>1
  <2>2. (CHOOSE i \in Inserted(list, k) : P(i)) = (CHOOSE i \in Inserted(list, k) : Q(i))
    BY <2>1
  <2> QED BY <1>6, <2>2 DEF PidOf
<1> QED BY <1>5, <1>6, <1>7, <1>8, <1>9 DEF cut

\* So registration of a list is one of the registry's operations on a batch, or, of an
\* empty list, its reset.
LEMMA RegisterIsCall ==
  ASSUME Roomy, NMTypeOK, NEW list \in Lists, RegisterPipelines(list)
  PROVE  NMNext
<1>1. PICK k \in 1..(Len(list) + 1) :
        /\ StopsAt(list, {}, k)
        /\ pipes' = [p \in {i - 1 : i \in Inserted(list, k)} |-> NewPipe(list[p + 1])]
        /\ n2p' = [n \in Mapped(list, {}, k) |-> PidOf(list, k, 0, n)]
        /\ state' = [n \in Nodes |-> IF n \in Mapped(list, {}, k) THEN "active" ELSE state[n]]
  BY DEF RegisterPipelines
<1>2. UNCHANGED obj /\ Len(list) <= MaxPid + 1
  BY DEF RegisterPipelines
<1>3. CASE list = <<>>
  <2>1. Inserted(list, k) = {} /\ Mapped(list, {}, k) = {}
    BY <1>3 DEF Inserted, Mapped
  <2>2. pipes' = [p \in {} |-> NewPipe(<<>>)] /\ n2p' = [n \in {} |-> 0]
    BY <1>1, <2>1
  <2>3. UNCHANGED state
    BY <1>1, <2>1 DEF NMTypeOK
  <2> QED BY <1>2, <2>2, <2>3 DEF ResetRegistry, NMNext
<1>4. CASE list # <<>>
  <2> DEFINE cut == Upto(list, k)
  <2>1. /\ StopsAt(cut, {}, k)
        /\ Inserted(cut, k) = Inserted(list, k)
        /\ \A i \in Inserted(list, k) : cut[i] = list[i]
        /\ Mapped(cut, {}, k) = Mapped(list, {}, k)
        /\ \A n \in Mapped(list, {}, k) : PidOf(cut, k, 0, n) = PidOf(list, k, 0, n)
    BY <1>1, UptoSuffices
  <2>2. cut \in Batches
    BY <1>1, <1>4, UptoIsBatch
  <2>3. Len(cut) <= MaxPid + 1 /\ k \in 1..(Len(cut) + 1)
    <3>1. Len(list) \in Nat /\ Len(cut) \in Nat /\ Len(cut) <= Len(list)
      BY UptoAgrees DEF Lists
    <3> QED BY <1>2, <3>1, UptoAgrees, NMAssumption
  <2> HIDE DEF cut
  <2>4. pipes' = [p \in {i - 1 : i \in Inserted(cut, k)} |-> NewPipe(cut[p + 1])]
    <3>1. \A p \in {i - 1 : i \in Inserted(list, k)} : cut[p + 1] = list[p + 1]
      BY <2>1 DEF Inserted, Lists
    <3> QED BY <1>1, <2>1, <3>1
  <2>5. n2p' = [n \in Mapped(cut, {}, k) |-> PidOf(cut, k, 0, n)]
    BY <1>1, <2>1
  <2>6. state' = [n \in Nodes |-> IF n \in Mapped(cut, {}, k) THEN "active" ELSE state[n]]
    BY <1>1, <2>1
  <2>7. RegisterPipelines(cut)
    BY <1>2, <2>1, <2>3, <2>4, <2>5, <2>6 DEF RegisterPipelines
  <2> QED BY <2>2, <2>7 DEF NMNext
<1> QED BY <1>3, <1>4

\* And so is an expansion.
LEMMA ExtendIsCall ==
  ASSUME Roomy, NEW list \in Lists, list # <<>>, ExtendRegistered(list)
  PROVE  NMNext
<1>1. PICK base \in 0..(MaxPid + 1 - Len(list)), k \in 1..(Len(list) + 1) :
        /\ NextPid(base)
        /\ StopsAt(list, DOMAIN n2p, k)
        /\ pipes' = [p \in DOMAIN pipes \cup {base + i - 1 : i \in Inserted(list, k)} |->
                       IF p \in DOMAIN pipes THEN pipes[p] ELSE NewPipe(list[p - base + 1])]
        /\ n2p' = [n \in DOMAIN n2p \cup Mapped(list, DOMAIN n2p, k) |->
                     IF n \in DOMAIN n2p THEN n2p[n] ELSE PidOf(list, k, base, n)]
        /\ UNCHANGED <<state, obj>>
  BY DEF ExtendRegistered
<1> DEFINE owned == DOMAIN n2p
           cut == Upto(list, k)
<1>2. /\ StopsAt(cut, owned, k)
      /\ Inserted(cut, k) = Inserted(list, k)
      /\ \A i \in Inserted(list, k) : cut[i] = list[i]
      /\ Mapped(cut, owned, k) = Mapped(list, owned, k)
      /\ \A n \in Mapped(list, owned, k) : PidOf(cut, k, base, n) = PidOf(list, k, base, n)
  BY <1>1, UptoSuffices
<1>3. cut \in Batches
  BY <1>1, UptoIsBatch
<1>4. base \in 0..(MaxPid + 1 - Len(cut)) /\ k \in 1..(Len(cut) + 1)
  <2>1. Len(list) \in Nat /\ Len(cut) \in Nat /\ Len(cut) <= Len(list)
    BY UptoAgrees DEF Lists
  <2> QED BY <1>1, <2>1, UptoAgrees, NMAssumption
<1> HIDE DEF cut
<1>5. pipes' = [p \in DOMAIN pipes \cup {base + i - 1 : i \in Inserted(cut, k)} |->
                  IF p \in DOMAIN pipes THEN pipes[p] ELSE NewPipe(cut[p - base + 1])]
  <2>1. \A p \in {base + i - 1 : i \in Inserted(list, k)} : cut[p - base + 1] = list[p - base + 1]
    BY <1>2 DEF Inserted, Lists
  <2> QED BY <1>1, <1>2, <2>1
<1>6. n2p' = [n \in owned \cup Mapped(cut, owned, k) |->
                IF n \in owned THEN n2p[n] ELSE PidOf(cut, k, base, n)]
  BY <1>1, <1>2
<1>7. ExtendRegistered(cut)
  BY <1>1, <1>2, <1>4, <1>5, <1>6 DEF ExtendRegistered
<1> QED BY <1>3, <1>7 DEF NMNext

\* A standby(ids) that raises does what one of the ids it has moved does.
LEMMA StandbyIsCall ==
  ASSUME NEW S \in SUBSET Nodes, NEW moved \in SUBSET S, StandbyLocked(S, moved)
  PROVE  NMNext
<1>1. StandbyLocked(moved, moved) /\ moved \in SUBSET Nodes
  BY DEF StandbyLocked
<1> QED BY <1>1 DEF NMNext

\* An expansion that has found no pipeline does not get as far as the registration.
HasWork == ev.pc = "extend" => ev.sel # <<>>

\* So it is at the start ...
LEMMA HasWorkInit == Init => HasWork
  BY DEF Init, EvIdle, HasWork

\* ... and after every step.
LEMMA HasWorkNext == ASSUME TypeInv, HasWork, [Next]_vars PROVE HasWork'
<1>0. ev \in EvRecord /\ RtOK /\ Control
  BY DEF TypeInv, LocalsInv, EvType, RegistryInv
<1>1. ASSUME NEW ok \in BOOLEAN, ev.ctx # "none", ev' = Resume(ok) PROVE HasWork'
  BY <1>0, <1>1, ResumeType DEF HasWork
<1>2. ASSUME UNCHANGED ev PROVE HasWork'
  BY <1>2 DEF HasWork
<1>3. CASE FilterNewPipelines
  <2> DEFINE new == {p \in ChainsOver(Active \ ev.before) : Members(p) \cap DOMAIN n2p = {}}
  <2>1. CASE new = {}
    BY <1>0, <1>1, <1>3, <2>1 DEF FilterNewPipelines, Control
  <2>2. CASE new # {}
    <3>1. PICK list \in Discovered(new) : ev' = [ev EXCEPT !.pc = "extend", !.sel = list]
      BY <1>3, <2>2 DEF FilterNewPipelines
    <3>2. IsFiniteSet(new)
      BY StagesAreFinite, FS_Subset DEF ChainsOver
    <3>3. Cardinality(new) \in Nat /\ Cardinality(new) # 0
      BY <2>2, <3>2, FS_CardinalityType, FS_EmptySet
    <3>4. DOMAIN list = 1..Cardinality(new)
      BY <3>1 DEF Discovered, SetToSeqs
    <3>5. list # <<>>
      BY <3>3, <3>4
    <3> QED BY <1>0, <3>1, <3>5 DEF HasWork, EvRecord
  <2> QED BY <2>1, <2>2
<1>4. CASE \/ PlanAllocation \/ AllocateNext \/ AllocationDone \/ ExtendPipelines
           \/ StandbyAll \/ Reboot
  <2>1. ev.ctx # "none"
    BY <1>0, <1>4 DEF Control, PlanAllocation, AllocateNext, AllocationDone, ExtendPipelines,
                      StandbyAll, Reboot
  <2>2. \/ ev' = Resume(TRUE) \/ ev' = Resume(FALSE)
        \/ ev' = [ev EXCEPT !.plan = AfterPlaced(@)] /\ ev.pc = "allocate"
        \/ \E pc \in EvPcs \ {"extend"} : ev' = [ev EXCEPT !.pc = pc]
        \/ \E plan, before : ev' = [ev EXCEPT !.pc = "allocate", !.plan = plan, !.before = before]
    BY <1>4 DEF PlanAllocation, AllocateNext, AllocationDone, ExtendPipelines, StandbyAll,
                Reboot, EvPcs
  <2> QED BY <1>0, <1>1, <2>1, <2>2 DEF HasWork, EvRecord
<1>5. CASE \/ ProcessUpdates \/ ProcessJoin \/ JoinsDone \/ ProcessLeave \/ LeavesDone
           \/ UnloadAll \/ CheckHeartbeats \/ SkipHeartbeats
  <2>1. CASE ProcessUpdates \/ UnloadAll \/ LeavesDone
    BY <1>0, <2>1 DEF ProcessUpdates, UnloadAll, LeavesDone, EvIdle, HasWork, EvRecord
  <2>2. CASE CheckHeartbeats \/ SkipHeartbeats \/ JoinsDone
    <3>1. EvIdle.pc = "updates" /\ \A pc \in EvPcs, ctx \in Contexts :
            /\ [EvIdle EXCEPT !.pc = pc, !.ctx = ctx].pc = pc /\ [EvIdle EXCEPT !.pc = pc].pc = pc
      BY EvStarts DEF EvIdle
    <3>2. \/ ev' = EvIdle \/ ev' = [EvIdle EXCEPT !.pc = "leaves"]
          \/ ev' = [EvIdle EXCEPT !.pc = "plan", !.ctx = "join"]
      BY <2>2 DEF CheckHeartbeats, SkipHeartbeats, JoinsDone
    <3>3. ev'.pc # "extend"
      BY <3>1, <3>2 DEF EvPcs, Contexts
    <3> QED BY <3>3 DEF HasWork
  <2>3. CASE ProcessJoin
    <3>1. ev.pc = "joins" /\ \E n : ev' = IF Expands(n)
                          THEN [ev EXCEPT !.joined = TRUE, !.pc = "plan", !.ctx = "expand"]
                          ELSE [ev EXCEPT !.joined = TRUE]
      BY <2>3 DEF ProcessJoin
    <3> QED BY <1>0, <3>1 DEF HasWork, EvRecord
  <2>4. CASE ProcessLeave
    <3>1. ev.pc = "leaves" /\ (UNCHANGED ev \/ \E b : ev' = [ev EXCEPT !.removed = b])
      BY <2>4 DEF ProcessLeave
    <3> QED BY <1>0, <3>1 DEF HasWork, EvRecord
  <2> QED BY <1>5, <2>1, <2>2, <2>3, <2>4
<1>6. ASSUME NEW t \in Threads, Router(t) PROVE HasWork'
  <2>1. UNCHANGED ev \/ ev' = [ev EXCEPT !.pc = "plan"] \/ ev' = Resume(TRUE) \/ ev' = Resume(FALSE)
    BY <1>6 DEF Router, RouterExisting, RouterKeys, RouterClear, RouterUnload, RouterReset,
                RouterSelect, RouterRegister, RouterReturn, RouterRaise
  <2>2. CASE t = "dispatcher"
    <3>1. UNCHANGED ev
      BY <1>0, <1>6, <2>2 DEF Router, RouterExisting, RouterKeys, RouterClear, RouterUnload,
         RouterReset, RouterSelect, RouterRegister, RouterReturn, RouterRaise, Control
    <3> QED BY <1>2, <3>1
  <2>3. CASE t = "event"
    <3>1. rt["event"].pc # "idle"
      BY <1>6, <2>3 DEF Router, RouterExisting, RouterKeys, RouterClear, RouterUnload,
         RouterReset, RouterSelect, RouterRegister
    <3>2. ev.ctx # "none"
      BY <1>0, <3>1 DEF Control
    <3> QED BY <1>0, <1>1, <1>2, <2>1, <3>2 DEF HasWork, EvRecord
  <2> QED BY <2>2, <2>3 DEF Threads
<1>7. ASSUME AwaitRequest \/ AwaitTimeout \/ TakeRequest \/ SnapshotAgain \/ ResolvePath
             \/ ChargeNext \/ ReceiveRequest \/ UNCHANGED vars \/ \E n \in Nodes : Worker(n)
      PROVE  UNCHANGED ev
  BY <1>7 DEF AwaitRequest, AwaitTimeout, TakeRequest, SnapshotAgain, ResolvePath, ChargeNext,
              ReceiveRequest, vars, threads, sched, Worker, Start, Announcer, JoinAnswered,
              Heartbeat, HeartbeatUnknown, RejoinAnswered, JoinTimeout, Load, Crash, Shutdown,
              Silence
<1>8. "event" \in Threads /\ "dispatcher" \in Threads
  BY DEF Threads
<1> QED BY <1>2, <1>3, <1>4, <1>5, <1>6, <1>7, <1>8 DEF Next, EventThread, Dispatcher

\* Steps of the event thread call the registry ...
LEMMA EventThreadCalls ==
  ASSUME Roomy, TypeInv, HasWork, EventThread, ~Router("event")
  PROVE  [NMNext]_registry
<1>0. /\ NMTypeOK /\ ev.sel \in Lists /\ ev.todo \in SUBSET Nodes /\ ev.plan \in PlanLists
      /\ QueueType
  BY DEF TypeInv, LocalsInv, EvType, EvRecord
<1>1. CASE ProcessUpdates
  <2>1. DOMAIN updQ \in SUBSET Nodes /\ updQ \in [DOMAIN updQ -> Reports] /\ UpdateInfo(updQ)
    BY <1>0, <1>1 DEF QueueType, ProcessUpdates
  <2> QED BY <2>1 DEF NMNext
<1>2. CASE ProcessJoin
  <2>1. PICK j \in joinQ : Upsert(j.node, j.report) \/ UNCHANGED registry
    BY <1>2 DEF ProcessJoin
  <2>2. j.node \in Nodes /\ j.report \in Reports
    BY <1>0 DEF QueueType
  <2> QED BY <2>1, <2>2 DEF NMNext
<1>3. CASE AllocateNext
  <2>1. Placed(ev.plan)[1] \in Nodes /\ Placed(ev.plan)[2] \in Ranges
    BY <1>0, <1>3, TailOfPlan DEF AllocateNext, Placement
  <2> QED BY <1>3, <2>1 DEF AllocateNext, NMNext
<1>4. CASE ExtendPipelines
  BY <1>0, <1>4, ExtendIsCall DEF ExtendPipelines, HasWork
<1>5. CASE ProcessLeave
  <2>1. PICK n \in leaveQ : RemoveNode(n) \/ UNCHANGED registry
    BY <1>5 DEF ProcessLeave
  <2>2. n \in Nodes
    BY <1>0 DEF QueueType
  <2> QED BY <2>1, <2>2 DEF NMNext
<1>6. CASE StandbyAll
  BY <1>0, <1>6, StandbyIsCall DEF StandbyAll
<1>7. CASE UnloadAll
  BY <1>0, <1>7 DEF UnloadAll, NMNext
<1>8. CASE \/ JoinsDone \/ PlanAllocation \/ AllocationDone \/ FilterNewPipelines
           \/ LeavesDone \/ Reboot \/ CheckHeartbeats \/ SkipHeartbeats
  BY <1>8 DEF JoinsDone, PlanAllocation, AllocationDone, FilterNewPipelines, LeavesDone,
              Reboot, CheckHeartbeats, SkipHeartbeats
<1> QED BY <1>1, <1>2, <1>3, <1>4, <1>5, <1>6, <1>7, <1>8 DEF EventThread

\* ... and so do those of the router's bootstrap(), in either thread ...
LEMMA RouterCalls ==
  ASSUME Roomy, TypeInv, NEW t \in Threads, Router(t)
  PROVE  [NMNext]_registry
<1>0. NMTypeOK /\ rt[t].sel \in Lists /\ rt[t].todo \in SUBSET Nodes
  BY RtFields DEF TypeInv, RegistryInv, LocalsInv
<1>1. CASE RouterClear(t)
  BY <1>0, <1>1, StandbyIsCall DEF RouterClear
<1>2. CASE RouterUnload(t)
  BY <1>0, <1>2 DEF RouterUnload, NMNext
<1>3. CASE RouterReset(t)
  BY <1>3 DEF RouterReset, NMNext
<1>4. CASE RouterRegister(t)
  BY <1>0, <1>4, RegisterIsCall DEF RouterRegister
<1>5. CASE RouterExisting(t) \/ RouterKeys(t) \/ RouterSelect(t)
  BY <1>5 DEF RouterExisting, RouterKeys, RouterSelect
<1> QED BY <1>1, <1>2, <1>3, <1>4, <1>5 DEF Router

\* ... the dispatcher's add_request, and a heartbeat that runs out; no other step does.
LEMMA StepCalls == ASSUME Roomy, TypeInv, HasWork, [Next]_vars PROVE [NMNext]_registry
<1>0. "event" \in Threads /\ "dispatcher" \in Threads
  BY DEF Threads
<1>1. CASE EventThread
  BY <1>0, <1>1, EventThreadCalls, RouterCalls
<1>2. CASE ChargeNext
  <2>1. Head(disp.path) \in Nodes
    BY <1>2 DEF ChargeNext, TypeInv, LocalsInv, DispType, DispRecord
  <2> QED BY <1>2, <2>1 DEF ChargeNext, NMNext
<1>3. CASE Router("dispatcher")
  BY <1>0, <1>3, RouterCalls
<1>4. CASE AwaitRequest \/ AwaitTimeout \/ TakeRequest \/ SnapshotAgain \/ ResolvePath
  BY <1>4 DEF AwaitRequest, AwaitTimeout, TakeRequest, SnapshotAgain, ResolvePath
<1>5. ASSUME NEW n \in Nodes, Worker(n) PROVE [NMNext]_registry
  <2>1. CASE Silence(n)
    BY <2>1 DEF Silence, NMNext
  <2>2. CASE Start(n) \/ Announcer(n) \/ JoinTimeout(n) \/ Load(n) \/ Crash(n) \/ Shutdown(n)
    BY <2>2 DEF Start, Announcer, JoinAnswered, Heartbeat, HeartbeatUnknown, RejoinAnswered,
                JoinTimeout, Load, Crash, Shutdown
  <2> QED BY <1>5, <2>1, <2>2 DEF Worker
<1>6. CASE ReceiveRequest \/ UNCHANGED vars
  BY <1>6 DEF ReceiveRequest, vars
<1> QED BY <1>1, <1>2, <1>3, <1>4, <1>5, <1>6 DEF Next, Dispatcher

\* Whatever the threads and workers do, the registry's tables change only as the calls of
\* a single caller would change them, one at a time: the scheduler implements NMSpec.
THEOREM ClusterCallsRegistry == Roomy => (Spec => NMSpec)
<1> SUFFICES ASSUME Roomy PROVE Spec => NMSpec
  OBVIOUS
<1>1. Init => NMInit
  BY DEF Init
<1>2. TypeInv /\ HasWork /\ [Next]_vars => [NMNext]_registry
  BY StepCalls
<1>3. TypeInv /\ HasWork /\ [Next]_vars => HasWork'
  BY HasWorkNext
<1> QED BY <1>1, <1>2, <1>3, HasWorkInit, TypesHold, PTL DEF Spec, NMSpec
=============================================================================
