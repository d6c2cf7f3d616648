---------------------------- MODULE SteadyProofs ----------------------------
(***************************************************************************)
(* Proofs about the event thread's handling of joins, leaves, expansion    *)
(* and rebalance, as long as it is alone with the registry (Steady): what  *)
(* it registers can serve and is given up only when a member leaves, a     *)
(* node holds layers exactly while it is ACTIVE, and no exception escapes  *)
(* the event loop.                                                         *)
(*                                                                         *)
(* Each of these needs the others: no allocation raises because layers and *)
(* states agree, they agree because no removal raises, no removal raises   *)
(* because all members of a registered pipeline are ACTIVE, and that       *)
(* because an allocation never touches a mapped node.  SteadyInv is their  *)
(* conjunction with what the event thread knows at each of its points.     *)
(*                                                                         *)
(* The second half proves that, in a swarm with known RTTs and no overload, *)
(* all layers that are held are in use when a pass of the loop ends, and that *)
(* nothing is registered then only if the nodes are too few.  This takes a *)
(* fact about chains: those chosen until none is left use up any set of    *)
(* nodes that complete chains can be made of (NothingLeft).                *)
(***************************************************************************)
EXTENDS ClusterProofs, WellFoundedInduction

\* Who holds layers.
Settled == \A n \in Nodes : /\ state[n] = "active" => obj[n].range # NoRange
                            /\ obj[n].range # NoRange => state[n] = "active"

\* The dispatcher is not in, nor back from, the router's bootstrap().
Alone == disp.pc \notin {"router", "snapshot"} /\ rt["dispatcher"].pc = "idle"

\* A rebalance takes all nodes through three points at which states and layers are
\* not settled yet, or no node is ACTIVE.
Layers ==
  /\ ev.pc # "unload" => Settled
  /\ ev.pc = "standby" => ev.todo = Active
  /\ ev.pc = "unload" => Active = {} /\ \A n \in Nodes \ ev.todo : obj[n].range = NoRange
  /\ ev.pc = "reboot" => Active = {}

\* Nothing is registered before the first bootstrap, nor while a bootstrap or a
\* rebalance is under way.
Empty == DOMAIN pipes = {} /\ DOMAIN n2p = {}
EmptyUntil ==
  /\ ev.ctx = "expand" => bootstrapped
  /\ (~bootstrapped \/ ev.ctx \in {"join", "leave"}) => Empty

\* So the event thread's runs of clear_registered_pipelines have nothing to clear.
EventRouter ==
  /\ rt["event"].todo = {}
  /\ rt["event"].pc \in {"keys", "clear", "unload", "reset"} => rt["event"].then = "plan"
  /\ rt["event"].pc \in {"existing", "select", "register"} => rt["event"].then = "select"

Serves(p) ==
  /\ pipes[p].ids \in Stages
  /\ Registrable(pipes[p].ids)
  /\ \A n \in Members(pipes[p].ids) : state[n] = "active" /\ n \in DOMAIN n2p /\ n2p[n] = p
Serve == \A p \in DOMAIN pipes : Serves(p)

\* What the event thread carries from one critical section to the next is still so
\* when it uses it.
PlanIsFree ==
  \A i \in DOMAIN ev.plan : \A j \in DOMAIN ev.plan[i] : ev.plan[i][j][1] \notin DOMAIN n2p
AreChains(list) == \A i \in DOMAIN list : list[i] \in ChainsOver(Active)
Disjoint(list) ==
  \A i, j \in DOMAIN list : i # j => Members(list[i]) \cap Members(list[j]) = {}
Chosen ==
  /\ ev.pc = "allocate" => PlanIsFree
  /\ ev.pc = "extend" => AreChains(ev.sel)
  /\ rt["event"].pc = "register" => AreChains(rt["event"].sel) /\ Disjoint(rt["event"].sel)

Undisturbed == Alone /\ Layers /\ EmptyUntil /\ EventRouter /\ Serve /\ Chosen /\ ev.pc # "dead"
SteadyInv == Steady => Undisturbed

----------------------------------------------------------------------------
(***************************************************************************)
(* What pipelines need of the registry.                                    *)
(***************************************************************************)
\* A pipeline is as registrable as before if its nodes stay, with their layers.
LEMMA RegistrableKept ==
  ASSUME NEW p \in Seq(Nodes), Registrable(p),
         \A n \in Members(p) : state'[n] # "none" /\ obj'[n].range = obj[n].range
  PROVE  Registrable(p)'
<1>1. \A i \in DOMAIN p : p[i] \in Members(p)
  BY DEF Members, Range
<1>2. \A i \in DOMAIN p : state'[p[i]] # "none" /\ obj'[p[i]].range = obj[p[i]].range
  BY <1>1
<1>3. 1 \in DOMAIN p /\ Len(p) \in DOMAIN p
  BY DEF Registrable
<1>4. \A i \in 1..(Len(p) - 1) : i \in DOMAIN p /\ i + 1 \in DOMAIN p
  OBVIOUS
<1> QED BY <1>2, <1>3, <1>4 DEF Registrable

\* A registered pipeline serves on if its stages, their states, layers and mapping
\* are left alone.
LEMMA ServesOn ==
  ASSUME NEW p \in DOMAIN pipes, Serves(p), pipes'[p].ids = pipes[p].ids,
         \A n \in Members(pipes[p].ids) :
           /\ state'[n] = state[n] /\ obj'[n].range = obj[n].range
           /\ n \in DOMAIN n2p' /\ n2p'[n] = n2p[n]
  PROVE  Serves(p)'
<1>1. PICK ids \in Seq(Nodes) : ids = pipes[p].ids /\ ids \in Stages
  BY StagesAreSequences DEF Serves
<1>2. \A n \in Members(ids) : state'[n] # "none" /\ obj'[n].range = obj[n].range
  BY <1>1 DEF Serves
<1>3. Registrable(ids)'
  BY <1>1, <1>2, RegistrableKept DEF Serves
<1>4. \A n \in Members(ids) : state'[n] = "active" /\ n \in DOMAIN n2p' /\ n2p'[n] = p
  BY <1>1 DEF Serves
<1> QED BY <1>1, <1>3, <1>4 DEF Serves

\* Writes that leave states, layers, stages and mapping alone.
SameLayers == /\ UNCHANGED <<state, n2p>>
              /\ DOMAIN pipes' = DOMAIN pipes
              /\ \A p \in DOMAIN pipes : pipes'[p].ids = pipes[p].ids
              /\ \A n \in Nodes : obj'[n].range = obj[n].range

\* Such writes keep what is said of states, layers and pipelines.
LEMMA SameLayersKeep ==
  ASSUME SameLayers
  PROVE  /\ Active' = Active /\ Standby' = Standby
         /\ Settled => Settled'
         /\ Serve => Serve'
         /\ Empty => Empty'
         /\ ChainsOver(Active)' = ChainsOver(Active)
<1>1. Active' = Active /\ Standby' = Standby
  BY DEF Active, Standby, SameLayers
<1>2. Settled => Settled'
  BY DEF Settled, SameLayers
<1>3. ASSUME Serve PROVE Serve'
  <2> SUFFICES ASSUME NEW p \in DOMAIN pipes PROVE Serves(p)'
    BY DEF Serve, SameLayers
  <2>1. Serves(p) /\ Members(pipes[p].ids) \subseteq Nodes
    BY <1>3, StagesAreSequences DEF Serve, Serves, Members, Range
  <2> QED BY <2>1, ServesOn DEF SameLayers, Serves
<1>4. Empty => Empty'
  BY DEF Empty, SameLayers
<1>5. ChainsOver(Active)' = ChainsOver(Active)
  <2>1. ASSUME NEW p \in Stages PROVE Registrable(p)' <=> Registrable(p)
    <3>1. p \in Seq(Nodes) /\ \A i \in DOMAIN p : p[i] \in Nodes
      BY StagesAreSequences
    <3>2. \A i \in DOMAIN p : state'[p[i]] = state[p[i]] /\ obj'[p[i]].range = obj[p[i]].range
      BY <3>1 DEF SameLayers
    <3>3. CASE p = <<>>
      BY <3>3 DEF Registrable
    <3>4. CASE p # <<>>
      <4>1. 1 \in DOMAIN p /\ Len(p) \in DOMAIN p
        BY <3>1, <3>4
      <4>2. \A i \in 1..(Len(p) - 1) : i \in DOMAIN p /\ i + 1 \in DOMAIN p
        BY <3>1
      <4> QED BY <3>2, <4>1, <4>2 DEF Registrable
    <3> QED BY <3>3, <3>4
  <2> QED BY <1>1, <2>1 DEF ChainsOver
<1> QED BY <1>1, <1>2, <1>3, <1>4, <1>5

\* In particular, calls that leave the registry alone.
LEMMA NoCall == ASSUME UNCHANGED registry PROVE SameLayers
  BY DEF registry, SameLayers

\* Mapped nodes are ACTIVE.
LEMMA MappedAreActive ==
  ASSUME TypeInv, Serve PROVE DOMAIN n2p \subseteq Active
<1> SUFFICES ASSUME NEW n \in DOMAIN n2p PROVE n \in Active
  OBVIOUS
<1>1. n \in Nodes /\ n2p[n] \in DOMAIN pipes /\ n \in Members(pipes[n2p[n]].ids)
  BY DEF TypeInv, RegistryInv, Shape, MappedRegistered
<1> QED BY <1>1 DEF Serve, Serves, Active

\* A registered pipeline is a complete chain of ACTIVE nodes.
LEMMA ServingIsFull ==
  ASSUME Serve, NEW p \in DOMAIN pipes PROVE HasFullPipeline
<1>1. pipes[p].ids \in Stages /\ Registrable(pipes[p].ids)
  BY DEF Serve, Serves
<1>2. Members(pipes[p].ids) \subseteq Nodes
  BY <1>1, StagesAreSequences DEF Members, Range
<1>3. Members(pipes[p].ids) \subseteq Active
  BY <1>2 DEF Serve, Serves, Active
<1> QED BY <1>1, <1>3 DEF HasFullPipeline, ChainsOver

\* A registration call that does not raise inserts all its pipelines, which no
\* other has nodes of, and maps exactly their members.
LEMMA CleanRegistration ==
  ASSUME NEW list \in Seq(Seq(Nodes)), NEW owned, NEW k \in 1..(Len(list) + 1),
         StopsAt(list, owned, k), ~RegistrationRaises(list, owned)
  PROVE  /\ Inserted(list, k) = DOMAIN list
         /\ Mapped(list, owned, k) = UNION {Members(list[i]) : i \in DOMAIN list}
         /\ \A i \in DOMAIN list : \A n \in Members(list[i]) :
              n \notin owned /\ \A base \in Int : PidOf(list, k, base, n) = base + i - 1
<1>1. \A i \in DOMAIN list : Clean(list, owned, i)
  BY DEF RegistrationRaises
<1>2. k = Len(list) + 1
  <2>1. k <= Len(list) => k \in DOMAIN list
    OBVIOUS
  <2> QED BY <1>1, <2>1 DEF StopsAt
<1>3. k \notin DOMAIN list /\ DOMAIN list \cap 1..(k - 1) = DOMAIN list
  <2>1. DOMAIN list = 1..Len(list) /\ Len(list) \in Nat
    OBVIOUS
  <2>2. k - 1 = Len(list) /\ k \notin 1..Len(list)
    BY <1>2, <2>1
  <2> QED BY <2>1, <2>2
<1>4. Inserted(list, k) = DOMAIN list
  <2>1. \A i \in DOMAIN list : i < k
    BY <1>2
  <2> QED BY <2>1 DEF Inserted
<1>5. Mapped(list, owned, k) = UNION {Members(list[i]) : i \in DOMAIN list}
  BY <1>3, <1>4 DEF Mapped
<1>6. ASSUME NEW i \in DOMAIN list, NEW j \in DOMAIN list, NEW n \in Members(list[i]),
             n \in Members(list[j]) PROVE i = j
  <2>1. ASSUME NEW h \in DOMAIN list, NEW m \in DOMAIN list, h < m,
               n \in Members(list[h]), n \in Members(list[m]) PROVE FALSE
    <3>1. h \in 1..(m - 1)
      BY <2>1
    <3>2. Members(list[m]) \cap OwnedBefore(list, owned, m) = {}
      BY <1>1 DEF Clean
    <3> QED BY <2>1, <3>1, <3>2 DEF OwnedBefore
  <2>2. i < j \/ j < i \/ i = j
    OBVIOUS
  <2> QED BY <1>6, <2>1, <2>2
<1>7. ASSUME NEW i \in DOMAIN list, NEW n \in Members(list[i])
      PROVE  n \notin owned /\ \A base \in Int : PidOf(list, k, base, n) = base + i - 1
  <2>1. n \notin owned
    BY <1>1 DEF Clean, OwnedBefore
  <2>2. n \in Mapped(list, owned, k)
    BY <1>5
  <2>3. ASSUME NEW base \in Int PROVE PidOf(list, k, base, n) = base + i - 1
    <3>1. PICK j \in Inserted(list, k) :
            PidOf(list, k, base, n) = base + j - 1 /\ n \in Members(list[j])
      BY <2>2, MappedToInserted
    <3> QED BY <1>4, <1>6, <3>1
  <2> QED BY <2>1, <2>3
<1> QED BY <1>4, <1>5, <1>7

\* Chains that share no node are registered without an exception, and all serve.
LEMMA RegisterServes ==
  ASSUME NEW list \in Seq(Seq(Nodes)), AreChains(list), Disjoint(list), TypeInv,
         RegisterPipelines(list)
  PROVE  /\ ~RegistrationRaises(list, {})
         /\ UNCHANGED <<state, obj>>
         /\ Serve'
<1>1. ASSUME NEW i \in DOMAIN list PROVE Clean(list, {}, i)
  <2>1. Registrable(list[i])
    BY DEF AreChains, ChainsOver
  <2>2. ASSUME NEW h \in 1..(i - 1) PROVE Members(list[i]) \cap Members(list[h]) = {}
    <3>1. h \in DOMAIN list /\ h # i
      OBVIOUS
    <3> QED BY <3>1 DEF Disjoint
  <2> QED BY <2>1, <2>2 DEF Clean, OwnedBefore
<1>2. ~RegistrationRaises(list, {})
  BY <1>1 DEF RegistrationRaises
<1>3. PICK k \in 1..(Len(list) + 1) :
        /\ StopsAt(list, {}, k)
        /\ pipes' = [p \in {i - 1 : i \in Inserted(list, k)} |-> NewPipe(list[p + 1])]
        /\ n2p' = [n \in Mapped(list, {}, k) |-> PidOf(list, k, 0, n)]
        /\ state' = [n \in Nodes |-> IF n \in Mapped(list, {}, k) THEN "active" ELSE state[n]]
        /\ UNCHANGED obj
  BY DEF RegisterPipelines
<1>4. /\ Inserted(list, k) = DOMAIN list
      /\ Mapped(list, {}, k) = UNION {Members(list[i]) : i \in DOMAIN list}
      /\ \A i \in DOMAIN list : \A n \in Members(list[i]) : PidOf(list, k, 0, n) = 0 + i - 1
  BY <1>2, <1>3, CleanRegistration
<1>5. \A i \in DOMAIN list : \A n \in Members(list[i]) : n \in Nodes /\ state[n] = "active"
  BY DEF AreChains, ChainsOver, Active
<1>6. state' = state
  <2>1. state \in [Nodes -> {"none", "standby", "active"}]
    BY DEF TypeInv, RegistryInv, Shape
  <2> QED BY <1>3, <1>4, <1>5, <2>1
<1>7. ASSUME NEW p \in DOMAIN pipes' PROVE Serves(p)'
  <2>1. PICK i \in DOMAIN list : p = i - 1
    BY <1>3, <1>4
  <2>2. i \in Nat /\ p + 1 = i
    BY <2>1
  <2>3. pipes'[p].ids = list[i]
    BY <1>3, <2>2 DEF NewPipe
  <2>4. list[i] \in Stages /\ Registrable(list[i]) /\ list[i] \in Seq(Nodes)
    BY DEF AreChains, ChainsOver
  <2>5. Registrable(list[i])'
    <3>1. \A n \in Members(list[i]) : state'[n] # "none" /\ obj'[n].range = obj[n].range
      BY <1>3, <1>5, <1>6
    <3> QED BY <2>4, <3>1, RegistrableKept
  <2>6. \A n \in Members(list[i]) : state'[n] = "active" /\ n \in DOMAIN n2p' /\ n2p'[n] = p
    BY <1>3, <1>4, <1>5, <1>6, <2>1, <2>2
  <2> QED BY <2>3, <2>4, <2>5, <2>6 DEF Serves
<1> QED BY <1>2, <1>3, <1>6, <1>7 DEF Serve

\* An expansion that meets no node of a registered pipeline adds pipelines that
\* serve and leaves the others as they are.
LEMMA ExtendServes ==
  ASSUME NEW list \in Seq(Seq(Nodes)), AreChains(list), TypeInv, Serve,
         ~RegistrationRaises(list, DOMAIN n2p), ExtendRegistered(list)
  PROVE  /\ UNCHANGED <<state, obj>>
         /\ \A p \in DOMAIN pipes : p \in DOMAIN pipes' /\ pipes'[p] = pipes[p]
         /\ Serve'
<1> DEFINE owned == DOMAIN n2p
<1>1. PICK base \in 0..(MaxPid + 1 - Len(list)), k \in 1..(Len(list) + 1) :
        /\ NextPid(base)
        /\ StopsAt(list, owned, k)
        /\ pipes' = [p \in DOMAIN pipes \cup {base + i - 1 : i \in Inserted(list, k)} |->
                       IF p \in DOMAIN pipes THEN pipes[p] ELSE NewPipe(list[p - base + 1])]
        /\ n2p' = [n \in owned \cup Mapped(list, owned, k) |->
                     IF n \in owned THEN n2p[n] ELSE PidOf(list, k, base, n)]
        /\ UNCHANGED <<state, obj>>
  BY DEF ExtendRegistered
<1>2. /\ Inserted(list, k) = DOMAIN list
      /\ Mapped(list, owned, k) = UNION {Members(list[i]) : i \in DOMAIN list}
      /\ \A i \in DOMAIN list : \A n \in Members(list[i]) :
           n \notin owned /\ PidOf(list, k, base, n) = base + i - 1
  BY <1>1, CleanRegistration
<1>3. \A p \in DOMAIN pipes : p \in DOMAIN pipes' /\ pipes'[p] = pipes[p]
  BY <1>1
<1>4. ASSUME NEW p \in DOMAIN pipes PROVE Serves(p)'
  <2>1. Serves(p)
    BY DEF Serve
  <2>2. \A n \in Members(pipes[p].ids) : n \in DOMAIN n2p' /\ n2p'[n] = n2p[n]
    BY <1>1, <2>1 DEF Serves
  <2> QED BY <1>1, <1>3, <2>1, <2>2, ServesOn
<1>5. ASSUME NEW i \in DOMAIN list PROVE Serves(base + i - 1)'
  <2> DEFINE q == base + i - 1
  <2>1. i \in Nat /\ i >= 1 /\ base \in Nat /\ q - base + 1 = i /\ q >= base
    OBVIOUS
  <2>2. q \notin DOMAIN pipes
    BY <1>1, <2>1 DEF NextPid, TypeInv, RegistryInv, Shape
  <2>3. q \in DOMAIN pipes' /\ pipes'[q].ids = list[i]
    <3>1. q \in {base + j - 1 : j \in Inserted(list, k)}
      BY <1>2
    <3> HIDE DEF q
    <3> QED BY <1>1, <2>1, <2>2, <3>1 DEF NewPipe
  <2>4. list[i] \in Stages /\ Registrable(list[i]) /\ list[i] \in Seq(Nodes)
    BY DEF AreChains, ChainsOver
  <2>5. \A n \in Members(list[i]) : state[n] = "active"
    BY DEF AreChains, ChainsOver, Active
  <2>6. Registrable(list[i])'
    <3>1. \A n \in Members(list[i]) : state'[n] # "none" /\ obj'[n].range = obj[n].range
      BY <1>1, <2>5
    <3> QED BY <2>4, <3>1, RegistrableKept
  <2>7. \A n \in Members(list[i]) : state'[n] = "active" /\ n \in DOMAIN n2p' /\ n2p'[n] = q
    BY <1>1, <1>2, <2>5
  <2> QED BY <2>3, <2>4, <2>6, <2>7 DEF Serves
<1>6. Serve'
  <2>1. DOMAIN pipes' = DOMAIN pipes \cup {base + i - 1 : i \in DOMAIN list}
    BY <1>1, <1>2
  <2> QED BY <1>4, <1>5, <2>1 DEF Serve
<1> QED BY <1>1, <1>3, <1>6

\* remove(): no member of the node's pipeline makes it raise; the pipeline goes, its
\* other members lose their layers with their state, and the others serve on.
LEMMA RemoveServes ==
  ASSUME TypeInv, Serve, Settled, NEW n \in Nodes, RemoveNode(n)
  PROVE  /\ ~RemoveRaises(n)
         /\ Serve' /\ Settled'
         /\ DOMAIN pipes' \subseteq DOMAIN pipes /\ DOMAIN n2p' \subseteq DOMAIN n2p
         /\ \A p \in DOMAIN pipes :
              n \notin Members(pipes[p].ids)
                => p \in DOMAIN pipes' /\ pipes'[p].ids = pipes[p].ids
<1>0. /\ state \in [Nodes -> {"none", "standby", "active"}] /\ DOMAIN n2p \subseteq Nodes
      /\ \A m \in DOMAIN n2p : n2p[m] \in DOMAIN pipes /\ m \in Members(pipes[n2p[m]].ids)
  BY DEF TypeInv, RegistryInv, Shape, MappedRegistered
<1>1. \A m \in Rest(n) : state[m] = "active"
  BY DEF Rest, OwnPipe, Serve, Serves
<1>2. ~RemoveRaises(n)
  BY <1>1 DEF RemoveRaises
<1>3. Settled'
  <2> DEFINE stood == IF OwnPipe(n) THEN StoodBy(n) ELSE {}
  <2>1. ASSUME NEW m \in Nodes
        PROVE  /\ state'[m] = "active" => obj'[m].range # NoRange
               /\ obj'[m].range # NoRange => state'[m] = "active"
    <3>1. CASE m = n
      BY <3>1 DEF RemoveNode, Blank
    <3>2. CASE m # n /\ m \in stood
      <4>1. obj'[m] = Cleared(obj[m]) /\ state'[m] = "standby"
        BY <1>2, <3>2 DEF RemoveNode
      <4>2. obj[m] \in NodeObj
        BY DEF TypeInv, LocalsInv, NMTypeOK
      <4>3. Cleared(obj[m]).range = NoRange
        BY <4>2 DEF Cleared, NodeObj
      <4> QED BY <4>1, <4>3
    <3>3. CASE m # n /\ m \notin stood
      BY <3>3 DEF RemoveNode, Settled
    <3> QED BY <3>1, <3>2, <3>3
  <2> QED BY <2>1 DEF Settled
<1>4. /\ DOMAIN pipes' \subseteq DOMAIN pipes /\ DOMAIN n2p' \subseteq DOMAIN n2p
      /\ \A p \in DOMAIN pipes' : pipes'[p].ids = pipes[p].ids
  BY FreezeKeepsStages DEF RemoveNode
<1>5. ASSUME NEW p \in DOMAIN pipes, ~(OwnPipe(n) /\ p = n2p[n])
      PROVE  p \in DOMAIN pipes' /\ Serves(p)'
  <2>1. p \in DOMAIN pipes'
    BY <1>5 DEF RemoveNode
  <2>2. Serves(p) /\ Members(pipes[p].ids) \subseteq Nodes
    BY StagesAreSequences DEF Serve, Serves, Members, Range
  <2>3. ASSUME NEW m \in Members(pipes[p].ids)
        PROVE  /\ state'[m] = state[m] /\ obj'[m].range = obj[m].range
               /\ m \in DOMAIN n2p' /\ n2p'[m] = n2p[m]
    <3>1. m \in DOMAIN n2p /\ n2p[m] = p /\ m \in Nodes
      BY <2>2 DEF Serves
    <3>2. m # n
      BY <1>0, <1>5, <3>1 DEF OwnPipe
    <3>3. ASSUME OwnPipe(n) PROVE m \notin Members(pipes[n2p[n]].ids)
      BY <1>5, <3>1, <3>3 DEF OwnPipe, Serve, Serves
    <3>4. OwnPipe(n) => m \notin StoodBy(n)
      BY <3>3 DEF StoodBy, Rest
    <3> QED BY <3>1, <3>2, <3>3, <3>4 DEF RemoveNode
  <2> QED BY <1>4, <2>1, <2>2, <2>3, ServesOn
<1>6. ASSUME NEW p \in DOMAIN pipes' PROVE Serves(p)'
  BY <1>4, <1>5 DEF RemoveNode
<1>7. ASSUME NEW p \in DOMAIN pipes, n \notin Members(pipes[p].ids)
      PROVE  p \in DOMAIN pipes' /\ pipes'[p].ids = pipes[p].ids
  BY <1>0, <1>4, <1>5, <1>7 DEF OwnPipe
<1> QED BY <1>2, <1>3, <1>4, <1>6, <1>7 DEF Serve

----------------------------------------------------------------------------
(***************************************************************************)
(* Joins.  Only the processing of a join enrols a node, and at most one    *)
(* join of a node is pending, none once it is enrolled: upsert() always    *)
(* meets an id that is new.                                                *)
(***************************************************************************)
WorkerRecord == [pc : {"off", "joining", "up", "rejoining", "down"},
                 range : Ranges \cup {NoRange}, ready : BOOLEAN]
Pending ==
  /\ worker \in [Nodes -> WorkerRecord]
  /\ \A j \in joinQ : state[j.node] = "none"
  /\ \A j, k \in joinQ : j.node = k.node => j = k
  /\ \A n \in Nodes : worker[n].pc = "off" => state[n] = "none" /\ PendingJoins(n) = {}

\* Registration calls map registered nodes only.
LEMMA MappedAreRegistered ==
  ASSUME NEW list \in Seq(Seq(Nodes)), NEW owned, NEW k \in 1..(Len(list) + 1),
         StopsAt(list, owned, k), NEW n \in Mapped(list, owned, k)
  PROVE  state[n] # "none"
<1>1. PICK i \in Inserted(list, k) : n \in Members(list[i])
  BY MappedToInserted
<1>2. Registrable(list[i])
  BY InsertedAreRegistrable
<1> QED BY <1>1, <1>2 DEF Registrable, Members, Range

\* No step of the router's bootstrap() enrols a node.
LEMMA RouterEnrolsNone ==
  ASSUME TypeInv, NEW t \in Threads, Router(t), NEW n \in Nodes, state[n] = "none"
  PROVE  state'[n] = "none"
<1>1. state \in [Nodes -> {"none", "standby", "active"}]
  BY DEF TypeInv, RegistryInv, Shape
<1>2. CASE RouterClear(t)
  BY <1>2 DEF RouterClear, StandbyLocked, Active
<1>3. CASE RouterRegister(t)
  <2>1. rt[t].sel \in Seq(Seq(Nodes))
    BY RtFields, ListsOfStages DEF TypeInv, RegistryInv, Lists
  <2>2. PICK k \in 1..(Len(rt[t].sel) + 1) :
          /\ StopsAt(rt[t].sel, {}, k)
          /\ state' = [m \in Nodes |-> IF m \in Mapped(rt[t].sel, {}, k) THEN "active" ELSE state[m]]
    BY <1>3 DEF RouterRegister, RegisterPipelines
  <2>3. n \notin Mapped(rt[t].sel, {}, k)
    BY <2>1, <2>2, MappedAreRegistered
  <2> QED BY <2>2, <2>3
<1>4. CASE ~RouterClear(t) /\ ~RouterRegister(t)
  <2>1. UNCHANGED state
    BY <1>4 DEF Router, RouterExisting, RouterKeys, RouterUnload, RouterReset, RouterSelect,
                ClearServing, ResetRegistry, registry
  <2> QED BY <2>1
<1> QED BY <1>2, <1>3, <1>4

\* Nor does any other step but the processing of its join.
LEMMA OnlyJoinsEnrol ==
  ASSUME TypeInv, [Next]_vars, ~ProcessJoin, NEW n \in Nodes, state[n] = "none"
  PROVE  state'[n] = "none"
<1>1. state \in [Nodes -> {"none", "standby", "active"}]
  BY DEF TypeInv, RegistryInv, Shape
<1>2. CASE EventThread
  <2>1. ASSUME NEW m \in Nodes, RemoveNode(m) PROVE state'[n] = "none"
    BY <2>1 DEF RemoveNode, StoodBy, Rest
  <2>2. ASSUME NEW ids, NEW moved, StandbyLocked(ids, moved) PROVE state'[n] = "none"
    BY <2>2 DEF StandbyLocked, Active
  <2>3. ASSUME NEW m, NEW r, Allocate(m, r) PROVE state'[n] = "none"
    BY <1>1, <2>3 DEF Allocate
  <2>4. "event" \in Threads
    BY DEF Threads
  <2>5. leaveQ \subseteq Nodes
    BY DEF TypeInv, LocalsInv, QueueType
  <2>6. CASE Router("event")
    BY <2>4, <2>6, RouterEnrolsNone
  <2>7. CASE ProcessLeave
    BY <2>1, <2>5, <2>7 DEF ProcessLeave, registry
  <2>8. CASE AllocateNext
    BY <2>3, <2>8 DEF AllocateNext, AllocateFailed
  <2>9. CASE StandbyAll
    BY <2>2, <2>9 DEF StandbyAll
  <2>10. CASE ~Router("event") /\ ~ProcessLeave /\ ~AllocateNext /\ ~StandbyAll
    <3>1. UNCHANGED state
      BY <1>2, <2>10
         DEF EventThread, ProcessUpdates, UpdateInfo, JoinsDone, PlanAllocation, AllocationDone,
             FilterNewPipelines, ExtendPipelines, ExtendRegistered, LeavesDone, UnloadAll,
             ClearServing, Reboot, CheckHeartbeats, SkipHeartbeats, registry
    <3> QED BY <3>1
  <2> QED BY <2>6, <2>7, <2>8, <2>9, <2>10
<1>3. CASE Router("dispatcher")
  BY <1>3, RouterEnrolsNone DEF Threads
<1>4. CASE ~EventThread /\ ~Router("dispatcher")
  <2>1. UNCHANGED state
    BY <1>4
       DEF Next, Dispatcher, AwaitRequest, AwaitTimeout, TakeRequest, SnapshotAgain, ResolvePath,
           ChargeNext, AddRequest, Worker, Silence, Expire, Start, Announcer, JoinAnswered,
           Heartbeat, HeartbeatUnknown, RejoinAnswered, JoinTimeout, Load, Crash, Shutdown,
           ReceiveRequest, vars, registry
  <2> QED BY <2>1
<1> QED BY <1>2, <1>3, <1>4

\* What the workers do keeps their records; a join is queued for a node that is
\* neither enrolled nor waiting to be.
LEMMA WorkerPending ==
  ASSUME TypeInv, Pending, NEW n \in Nodes, Worker(n)
  PROVE  /\ worker' \in [Nodes -> WorkerRecord]
         /\ \A m \in Nodes :
              worker'[m].pc = "off" =>
                worker[m].pc = "off" /\ m \notin {j.node : j \in joinQ' \ joinQ}
         /\ \A j \in joinQ' \ joinQ : j.node = n /\ state[n] = "none" /\ PendingJoins(n) = {}
         /\ \A j, k \in joinQ' \ joinQ : j = k
<1>1. /\ worker \in [Nodes -> WorkerRecord] /\ worker[n] \in WorkerRecord
  BY DEF Pending
<1>2. Allocation(n) \in Ranges \cup {NoRange}
  BY DEF Allocation, TypeInv, LocalsInv, NMTypeOK, NodeObj
<1>3. ASSUME NEW e \in WorkerRecord, worker' = [worker EXCEPT ![n] = e], e.pc # "off"
      PROVE  /\ worker' \in [Nodes -> WorkerRecord]
             /\ \A m \in Nodes : worker'[m].pc = "off" => worker[m].pc = "off" /\ m # n
  BY <1>1, <1>3
<1>4. CASE Start(n)
  <2> DEFINE e == [worker[n] EXCEPT !.pc = "joining"]
  <2>1. e \in WorkerRecord /\ e.pc # "off" /\ worker' = [worker EXCEPT ![n] = e]
    BY <1>1, <1>4 DEF Start, WorkerRecord
  <2> HIDE DEF e
  <2>2. state[n] = "none" /\ PendingJoins(n) = {}
    BY <1>4 DEF Start, Pending
  <2>3. PICK rep \in NodeInfo(n) : joinQ' = joinQ \cup {[node |-> n, report |-> rep]}
    BY <1>4 DEF Start, EnqueueJoin
  <2>4. \A j \in joinQ' \ joinQ : j = [node |-> n, report |-> rep] /\ j.node = n
    BY <2>3
  <2>5. \A m \in Nodes : m # n => m \notin {j.node : j \in joinQ' \ joinQ}
    BY <2>4
  <2> QED BY <1>3, <2>1, <2>2, <2>4, <2>5
<1>5. CASE HeartbeatUnknown(n)
  <2> DEFINE e == [worker[n] EXCEPT !.pc = "rejoining"]
  <2>1. e \in WorkerRecord /\ e.pc # "off" /\ worker' = [worker EXCEPT ![n] = e]
    BY <1>1, <1>5 DEF HeartbeatUnknown, WorkerRecord
  <2> HIDE DEF e
  <2>2. state[n] = "none" /\ PendingJoins(n) = {}
    BY <1>5 DEF HeartbeatUnknown
  <2>3. PICK rep \in NodeInfo(n) : joinQ' = joinQ \cup {[node |-> n, report |-> rep]}
    BY <1>5 DEF HeartbeatUnknown, EnqueueJoin
  <2>4. \A j \in joinQ' \ joinQ : j = [node |-> n, report |-> rep] /\ j.node = n
    BY <2>3
  <2>5. \A m \in Nodes : m # n => m \notin {j.node : j \in joinQ' \ joinQ}
    BY <2>4
  <2> QED BY <1>3, <2>1, <2>2, <2>4, <2>5
<1>6. CASE JoinAnswered(n) \/ Heartbeat(n) \/ RejoinAnswered(n)
  <2> DEFINE r == Allocation(n)
             ready == worker[n].ready /\ r # NoRange /\ r = worker[n].range
             e == [worker[n] EXCEPT !.pc = "up", !.range = r, !.ready = ready]
  <2>1. worker' = [worker EXCEPT ![n] = e]
    BY <1>1, <1>6 DEF JoinAnswered, Heartbeat, RejoinAnswered, Adopt
  <2>2. ready \in BOOLEAN
    BY <1>1 DEF WorkerRecord
  <2> HIDE DEF ready
  <2>3. e \in WorkerRecord /\ e.pc # "off"
    BY <1>1, <1>2, <2>2 DEF WorkerRecord
  <2> HIDE DEF e
  <2>4. UNCHANGED joinQ
    BY <1>6 DEF JoinAnswered, Heartbeat, RejoinAnswered, queues
  <2> QED BY <1>3, <2>1, <2>3, <2>4
<1>7. CASE Crash(n) \/ Shutdown(n)
  <2> DEFINE e == [pc |-> "down", range |-> NoRange, ready |-> FALSE]
  <2>1. worker' = [worker EXCEPT ![n] = e] /\ UNCHANGED joinQ
    BY <1>7 DEF Crash, Shutdown, queues
  <2>2. e \in WorkerRecord /\ e.pc # "off"
    BY DEF WorkerRecord
  <2> HIDE DEF e
  <2> QED BY <1>3, <2>1, <2>2
<1>8. CASE JoinTimeout(n)
  <2> DEFINE e == [worker[n] EXCEPT !.pc = "down"]
  <2>1. e \in WorkerRecord /\ e.pc # "off" /\ worker' = [worker EXCEPT ![n] = e] /\ UNCHANGED joinQ
    BY <1>1, <1>8 DEF JoinTimeout, WorkerRecord, queues
  <2> HIDE DEF e
  <2> QED BY <1>3, <2>1
<1>9. CASE Load(n)
  <2> DEFINE e == [worker[n] EXCEPT !.ready = TRUE]
  <2>1. e \in WorkerRecord /\ e.pc # "off" /\ worker' = [worker EXCEPT ![n] = e] /\ UNCHANGED joinQ
    BY <1>1, <1>9 DEF Load, WorkerRecord, queues
  <2> HIDE DEF e
  <2> QED BY <1>3, <2>1
<1>10. CASE Silence(n)
  BY <1>1, <1>10 DEF Silence, queues
<1> QED BY <1>4, <1>5, <1>6, <1>7, <1>8, <1>9, <1>10 DEF Worker, Announcer

\* Nobody has joined when the scheduler starts.
LEMMA PendingInit == Init => Pending
<1> SUFFICES ASSUME Init PROVE Pending
  OBVIOUS
<1>1. worker \in [Nodes -> WorkerRecord]
  BY DEF Init, WorkerRecord
<1>2. joinQ = {} /\ \A n \in Nodes : state[n] = "none" /\ PendingJoins(n) = {}
  BY DEF Init, NMInit, PendingJoins
<1> QED BY <1>1, <1>2 DEF Pending

\* A join is removed from its queue by the step that enrols its node, and no other step
\* enrols one.
LEMMA PendingNext == ASSUME TypeInv, Pending, [Next]_vars PROVE Pending'
<1>0. joinQ \subseteq [node : Nodes, report : Reports]
  BY DEF TypeInv, LocalsInv, QueueType
<1>1. CASE ProcessJoin
  <2>1. PICK j \in joinQ :
          /\ joinQ' = joinQ \ {j}
          /\ IF state[j.node] = "none" \/ bootstrapped
               THEN Upsert(j.node, j.report) /\ DropObject(j.node)
               ELSE UNCHANGED <<registry, disp, rt>>
    BY <1>1 DEF ProcessJoin
  <2>2. \A n \in Nodes : n # j.node => state'[n] = state[n]
    BY <2>1 DEF Upsert, registry, Pending, TypeInv, RegistryInv, Shape
  <2>3. \A k \in joinQ' : k \in joinQ /\ k.node # j.node /\ k.node \in Nodes
    BY <1>0, <2>1 DEF Pending
  <2>4. UNCHANGED worker
    BY <1>1 DEF ProcessJoin, world
  <2>5. \A n \in Nodes : worker[n].pc = "off" => n # j.node
    BY DEF Pending, PendingJoins
  <2> QED BY <2>1, <2>2, <2>3, <2>4, <2>5 DEF Pending, PendingJoins
<1>2. CASE ~ProcessJoin
  <2>1. \A n \in Nodes : state[n] = "none" => state'[n] = "none"
    BY <1>2, OnlyJoinsEnrol
  <2>2. CASE \E n \in Nodes : Worker(n)
    <3>1. PICK n \in Nodes : Worker(n)
      BY <2>2
    <3>2. /\ worker' \in [Nodes -> WorkerRecord]
          /\ \A m \in Nodes :
               worker'[m].pc = "off" =>
                 worker[m].pc = "off" /\ m \notin {j.node : j \in joinQ' \ joinQ}
          /\ \A j \in joinQ' \ joinQ : j.node = n /\ state[n] = "none" /\ PendingJoins(n) = {}
          /\ \A j, k \in joinQ' \ joinQ : j = k
      BY <3>1, WorkerPending
    <3>3. \A j \in joinQ' : state'[j.node] = "none"
      BY <1>0, <2>1, <3>2 DEF Pending
    <3>4. ASSUME NEW j \in joinQ', NEW k \in joinQ', j.node = k.node PROVE j = k
      BY <3>2, <3>4 DEF Pending, PendingJoins
    <3>5. ASSUME NEW m \in Nodes, worker'[m].pc = "off"
          PROVE  state'[m] = "none" /\ PendingJoins(m)' = {}
      BY <2>1, <3>2, <3>5 DEF Pending, PendingJoins
    <3> QED BY <3>2, <3>3, <3>4, <3>5 DEF Pending
  <2>3. CASE ~ \E n \in Nodes : Worker(n)
    <3>1. UNCHANGED <<joinQ, worker>>
      BY <1>2, <2>3
         DEF Next, EventThread, ProcessUpdates, JoinsDone, PlanAllocation, AllocateNext,
             AllocationDone, FilterNewPipelines, ExtendPipelines, ProcessLeave, LeavesDone,
             StandbyAll, UnloadAll, Reboot, CheckHeartbeats, SkipHeartbeats, Router,
             RouterExisting, RouterKeys, RouterClear, RouterUnload, RouterReset, RouterSelect,
             RouterRegister, Dispatcher, AwaitRequest, AwaitTimeout, TakeRequest, SnapshotAgain,
             ResolvePath, ChargeNext, ReceiveRequest, vars, queues, world
    <3> QED BY <1>0, <2>1, <3>1 DEF Pending, PendingJoins
  <2> QED BY <2>2, <2>3
<1> QED BY <1>1, <1>2

----------------------------------------------------------------------------
(***************************************************************************)
(* The event thread's steps.                                               *)
(***************************************************************************)
\* What the registry promises, whatever the event thread is doing.
Sound == Settled /\ Serve

\* A step of the event thread outside the router leaves the router's activations as
\* they are, and the dispatcher's point as it is.
SameRouter == /\ disp'.pc = disp.pc
              /\ rt'["dispatcher"].pc = rt["dispatcher"].pc
              /\ rt'["event"] = rt["event"]

\* A step after which the event thread is at none of the points where more is known.
LEMMA Plain ==
  ASSUME Alone', EventRouter', Sound', EmptyUntil',
         ev'.pc \in {"updates", "joins", "plan", "filter", "leaves", "heartbeat"},
         rt'["event"].pc = "idle"
  PROVE  Undisturbed'
  BY DEF Undisturbed, Sound, Layers, Chosen

\* An operation that returns, or raises where the loop catches the exception.
LEMMA Resumed ==
  ASSUME TypeInv, Alone', EventRouter', Sound', ~bootstrapped' => Empty',
         rt'["event"].pc = "idle", ev.ctx # "none", NEW ok \in BOOLEAN, ev' = Resume(ok),
         ok \/ ev.ctx # "leave"
  PROVE  Undisturbed'
<1>1. ev \in EvRecord
  BY DEF TypeInv, LocalsInv, EvType
<1>2. ev'.pc \in {"joins", "leaves", "heartbeat"} /\ ev'.ctx = "none"
  BY <1>1, ResumeType
<1>3. EmptyUntil'
  BY <1>2 DEF EmptyUntil
<1> QED BY <1>2, <1>3, Plain

\* Steps of others: the event thread and its router stay where they are, and nothing
\* they know of the registry changes.
LEMMA Elsewhere ==
  ASSUME Undisturbed, SameLayers, UNCHANGED <<ev, bootstrapped>>, rt'["event"] = rt["event"],
         Alone'
  PROVE  Undisturbed'
<1>1. /\ Active' = Active /\ n2p' = n2p /\ Serve'
      /\ ChainsOver(Active)' = ChainsOver(Active)
      /\ Settled => Settled'
      /\ Empty => Empty'
  BY SameLayersKeep DEF Undisturbed, SameLayers
<1>2. Layers'
  BY <1>1 DEF Undisturbed, Layers, SameLayers
<1>3. EmptyUntil' /\ EventRouter'
  BY <1>1 DEF Undisturbed, EmptyUntil, EventRouter
<1>4. Chosen'
  BY <1>1 DEF Undisturbed, Chosen, PlanIsFree, AreChains, Disjoint
<1> QED BY <1>1, <1>2, <1>3, <1>4 DEF Undisturbed

\* The facts about the present state that the steps below start from.
LEMMA Now ==
  ASSUME TypeInv, Undisturbed, ev.pc # "router"
  PROVE  /\ rt["event"].pc = "idle" /\ ev \in EvRecord
         /\ ev.pc # "unload" => Sound
  BY DEF TypeInv, LocalsInv, EvType, Control, Undisturbed, Layers, Sound

\* Such a step keeps what is said of the router's activations.
LEMMA SameRouterKeeps ==
  ASSUME Undisturbed, SameRouter PROVE Alone' /\ EventRouter'
  BY DEF Undisturbed, SameRouter, Alone, EventRouter

\* Reports carry flags, no layers.
LEMMA ProcessUpdatesSteady ==
  ASSUME TypeInv, Undisturbed, ProcessUpdates PROVE Undisturbed'
<1>1. SameLayers
  <2>1. \A n \in Nodes : obj'[n].range = obj[n].range
    BY DEF ProcessUpdates, UpdateInfo, FromReport
  <2> QED BY <2>1 DEF SameLayers, ProcessUpdates, UpdateInfo
<1>2. ev'.pc = "joins" /\ ev'.ctx = ev.ctx /\ ev.pc = "updates"
  BY DEF ProcessUpdates, TypeInv, LocalsInv, EvType, EvRecord
<1>3. SameRouter
  BY DEF SameRouter, ProcessUpdates
<1>4. EmptyUntil'
  BY <1>1, <1>2, SameLayersKeep DEF Undisturbed, EmptyUntil, ProcessUpdates
<1> QED BY <1>1, <1>2, <1>3, <1>4, Now, SameLayersKeep, SameRouterKeeps, Plain
        DEF Sound, SameRouter

\* A join enrols its node STANDBY and without layers.
LEMMA ProcessJoinSteady ==
  ASSUME TypeInv, Pending, Undisturbed, ProcessJoin PROVE Undisturbed'
<1>1. PICK j \in joinQ :
        /\ Upsert(j.node, j.report) /\ DropObject(j.node)
        /\ state[j.node] = "none" /\ j.node \in Nodes
        /\ ev' = IF Expands(j.node)
                    THEN [ev EXCEPT !.joined = TRUE, !.pc = "plan", !.ctx = "expand"]
                    ELSE [ev EXCEPT !.joined = TRUE]
  BY DEF ProcessJoin, Pending, TypeInv, LocalsInv, QueueType
<1> DEFINE n == j.node
<1>2. SameRouter
  BY <1>1, DropType DEF SameRouter, TypeInv, RegistryInv, LocalsInv
<1>3. ev.pc = "joins" /\ ev \in EvRecord /\ Sound /\ rt["event"].pc = "idle"
  BY Now DEF ProcessJoin
<1>4. state \in [Nodes -> {"none", "standby", "active"}] /\ obj \in [Nodes -> NodeObj]
  BY DEF TypeInv, LocalsInv, NMTypeOK
<1>5. /\ n2p' = n2p /\ DOMAIN pipes' = DOMAIN pipes
      /\ \A p \in DOMAIN pipes : pipes'[p].ids = pipes[p].ids
      /\ state'[n] = "standby" /\ obj'[n].range = NoRange
      /\ \A m \in Nodes : m # n => state'[m] = state[m] /\ obj'[m] = obj[m]
  BY <1>1, <1>4, FreezeKeepsStages DEF Upsert, FromReport
<1>6. Settled'
  BY <1>3, <1>5 DEF Sound, Settled
<1>7. Serve'
  <2> SUFFICES ASSUME NEW p \in DOMAIN pipes PROVE Serves(p)'
    BY <1>5 DEF Serve
  <2>1. Serves(p) /\ Members(pipes[p].ids) \subseteq Nodes
    BY <1>3, StagesAreSequences DEF Sound, Serve, Serves, Members, Range
  <2>2. n \notin Members(pipes[p].ids)
    BY <1>1, <2>1 DEF Serves
  <2> HIDE DEF n
  <2> QED BY <1>5, <2>1, <2>2, ServesOn DEF Serves
<1>8. Empty => Empty'
  BY <1>5 DEF Empty
<1>9. ev'.pc \in {"joins", "plan"} /\ EmptyUntil'
  <2>1. UNCHANGED bootstrapped
    BY DEF ProcessJoin
  <2>2. CASE Expands(n)
    <3>1. ev'.pc = "plan" /\ ev'.ctx = "expand" /\ bootstrapped
      BY <1>1, <1>3, <2>2 DEF Expands, EvRecord
    <3> QED BY <2>1, <3>1 DEF EmptyUntil
  <2>3. CASE ~Expands(n)
    <3>1. ev'.pc = "joins" /\ ev'.ctx = ev.ctx
      BY <1>1, <1>3, <2>3 DEF EvRecord
    <3> QED BY <1>8, <2>1, <3>1 DEF EmptyUntil, Undisturbed
  <2> QED BY <2>2, <2>3
<1> QED BY <1>2, <1>3, <1>6, <1>7, <1>9, SameRouterKeeps, Plain DEF Sound, SameRouter

\* A bootstrap is begun with nothing registered yet.
LEMMA JoinsDoneSteady == ASSUME TypeInv, Undisturbed, JoinsDone PROVE Undisturbed'
<1>1. SameLayers /\ SameRouter /\ ev.pc = "joins" /\ UNCHANGED bootstrapped
  BY NoCall DEF JoinsDone, SameRouter
<1>2. \/ ev'.pc = "plan" /\ ev'.ctx = "join" /\ ~bootstrapped
      \/ ev'.pc = "leaves" /\ ev'.ctx = "none"
  BY EvStarts DEF JoinsDone, EvPcs, Contexts
<1>3. EmptyUntil'
  BY <1>1, <1>2, SameLayersKeep DEF EmptyUntil, Undisturbed
<1> QED BY <1>1, <1>2, <1>3, Now, SameLayersKeep, SameRouterKeeps, Plain DEF Sound, SameRouter

\* A plan is made of STANDBY nodes, none of which is mapped.
LEMMA PlansAreFree ==
  ASSUME TypeInv, Serve, NEW plan \in Plans(Standby), NEW i \in DOMAIN plan,
         NEW j \in DOMAIN plan[i]
  PROVE  plan[i][j][1] \notin DOMAIN n2p
<1>1. plan[i] \in Placements(Standby)
  BY DEF Plans
<1>2. plan[i][j] \in Standby \X Ranges
  BY <1>1 DEF Placements
<1>3. plan[i][j][1] \in Standby
  BY <1>2
<1> QED BY <1>3, MappedAreActive DEF Standby, Active

\* An allocation that fails ends the operation; one that succeeds leaves a free plan.
LEMMA PlanAllocationSteady ==
  ASSUME TypeInv, Undisturbed, PlanAllocation PROVE Undisturbed'
<1>1. SameLayers /\ SameRouter /\ ev.pc = "plan" /\ ev.ctx # "none"
  BY NoCall DEF PlanAllocation, SameRouter, TypeInv, LocalsInv, Control
<1>2. ev \in EvRecord /\ Sound /\ Sound' /\ rt["event"].pc = "idle" /\ (Empty => Empty')
  BY <1>1, Now, SameLayersKeep DEF Sound
<1>3. Alone' /\ EventRouter'
  BY <1>1, SameRouterKeeps
<1>4. CASE Capacity(Standby) >= NumLayers
  <2>1. PICK plan \in Plans(Standby) :
          ev' = [ev EXCEPT !.pc = "allocate", !.plan = plan,
                           !.before = IF ev.ctx = "expand" THEN Active ELSE {}]
    BY <1>4 DEF PlanAllocation
  <2>2. ev'.pc = "allocate" /\ ev'.ctx = ev.ctx /\ ev'.plan = plan
    BY <1>2, <2>1 DEF EvRecord
  <2>3. PlanIsFree'
    BY <1>1, <1>2, <2>2, PlansAreFree DEF PlanIsFree, Sound, SameLayers
  <2>4. EmptyUntil'
    BY <1>2, <1>4, <2>2 DEF EmptyUntil, Undisturbed, PlanAllocation
  <2>5. rt'["event"].pc = "idle"
    BY <1>1, <1>2 DEF SameRouter
  <2> QED BY <1>2, <1>3, <2>2, <2>3, <2>4, <2>5 DEF Undisturbed, Sound, Layers, Chosen
<1>5. CASE ~(Capacity(Standby) >= NumLayers)
  <2>1. ev' = Resume(TRUE) /\ bootstrapped' = (bootstrapped /\ ev.ctx = "expand")
    BY <1>5 DEF PlanAllocation
  <2>2. ~bootstrapped' => Empty
    BY <1>2, <1>1, <2>1 DEF Undisturbed, EmptyUntil, EvRecord, Contexts
  <2> QED BY <1>1, <1>2, <1>3, <2>1, <2>2, Resumed DEF SameRouter
<1> QED BY <1>4, <1>5

\* What is left of a plan was in the plan.
LEMMA AfterPlacedWasThere ==
  ASSUME NEW plan \in PlanLists, plan # <<>>, NEW i \in DOMAIN AfterPlaced(plan),
         NEW j \in DOMAIN AfterPlaced(plan)[i]
  PROVE  \E a \in DOMAIN plan : \E b \in DOMAIN plan[a] : plan[a][b] = AfterPlaced(plan)[i][j]
<1> DEFINE head == Head(plan)
           tail == Tail(plan)
           left == AfterPlaced(plan)
<1>1. /\ plan \in Seq(Seq(Placement) \ {<<>>}) /\ Len(plan) \in Nat /\ Len(plan) # 0
      /\ 1 \in DOMAIN plan /\ head = plan[1]
      /\ tail \in Seq(Seq(Placement) \ {<<>>}) /\ Len(tail) = Len(plan) - 1
      /\ \A h \in 1..Len(tail) : tail[h] = plan[h + 1] /\ h + 1 \in DOMAIN plan
  BY DEF PlanLists
<1>2. head \in Seq(Placement) /\ head # <<>>
  BY <1>1
<1> HIDE DEF head, tail
<1>3. CASE Len(head) = 1
  <2>1. left = tail
    BY <1>3 DEF AfterPlaced, head, tail
  <2>2. i \in 1..Len(tail) /\ j \in DOMAIN tail[i] /\ left[i][j] = tail[i][j]
    BY <1>1, <2>1
  <2> QED BY <1>1, <2>2
<1>4. CASE Len(head) # 1
  <2> DEFINE rest == Tail(head)
  <2>1. left = <<rest>> \o tail
    BY <1>4 DEF AfterPlaced, head, tail
  <2>2. /\ rest \in Seq(Placement) /\ DOMAIN rest = 1..(Len(head) - 1)
        /\ \A h \in DOMAIN rest : rest[h] = head[h + 1] /\ h + 1 \in DOMAIN head
    BY <1>2
  <2> HIDE DEF rest
  <2>3. <<rest>> \in Seq(Seq(Placement)) /\ tail \in Seq(Seq(Placement))
    BY <1>1, <2>2
  <2>4. /\ DOMAIN left = 1..(Len(tail) + 1) /\ left[1] = rest
        /\ \A h \in DOMAIN left : h # 1 => h - 1 \in 1..Len(tail) /\ left[h] = tail[h - 1]
    BY <2>1, <2>3
  <2>5. CASE i = 1
    BY <1>1, <2>2, <2>4, <2>5
  <2>6. CASE i # 1
    <3>1. i - 1 \in 1..Len(tail) /\ left[i] = tail[i - 1]
      BY <2>4, <2>6
    <3> QED BY <1>1, <3>1
  <2> QED BY <2>5, <2>6
<1> QED BY <1>3, <1>4

\* No allocation raises: a node holds layers exactly if it is ACTIVE.  A node that
\* is allocated is not mapped, so the registered pipelines serve on.
LEMMA AllocateNextSteady == ASSUME TypeInv, Undisturbed, AllocateNext PROVE Undisturbed'
<1> DEFINE n == Placed(ev.plan)[1]
           r == Placed(ev.plan)[2]
<1>0. /\ ev \in EvRecord /\ Sound /\ rt["event"].pc = "idle" /\ ev.pc = "allocate"
      /\ ev.plan \in PlanLists /\ ev.plan # <<>>
  BY Now DEF AllocateNext, EvRecord
<1>1. n \in Nodes /\ r \in Ranges /\ r # NoRange
  BY <1>0, TailOfPlan, NMAssumption DEF Placement, Ranges
<1>2. state \in [Nodes -> {"none", "standby", "active"}] /\ obj \in [Nodes -> NodeObj]
  BY DEF TypeInv, LocalsInv, NMTypeOK
<1>3. n \notin DOMAIN n2p
  <2>1. Placed(ev.plan) = ev.plan[1][1] /\ 1 \in DOMAIN ev.plan /\ 1 \in DOMAIN ev.plan[1]
    BY <1>0 DEF Placed, PlanLists
  <2> QED BY <1>0, <2>1 DEF Undisturbed, Chosen, PlanIsFree
<1>4. Allocate(n, r) /\ ev' = [ev EXCEPT !.plan = AfterPlaced(@)]
  <2>1. ~(state[n] # "none" /\ AllocateRaises(n))
    BY <1>0, <1>1, <1>2 DEF AllocateRaises, Sound, Settled
  <2> QED BY <2>1 DEF AllocateNext, AllocateFailed
<1>5. /\ ev'.pc = "allocate" /\ ev'.ctx = ev.ctx /\ ev'.plan = AfterPlaced(ev.plan)
      /\ SameRouter /\ UNCHANGED bootstrapped
  BY <1>0, <1>4 DEF EvRecord, SameRouter, AllocateNext
<1>6. /\ UNCHANGED <<pipes, n2p>> /\ state'[n] = "active" /\ obj'[n].range = r
      /\ \A m \in Nodes : m # n => state'[m] = state[m] /\ obj'[m] = obj[m]
  <2>1. obj[n] \in NodeObj
    BY <1>1, <1>2
  <2>2. obj'[n] = [obj[n] EXCEPT !.range = r, !.over = obj[n].over /\ obj[n].range = NoRange]
    BY <1>1, <1>2, <1>4 DEF Allocate
  <2>3. obj'[n].range = r
    BY <2>1, <2>2 DEF NodeObj
  <2> HIDE DEF r
  <2> QED BY <1>1, <1>2, <1>4, <2>3 DEF Allocate
<1>7. Settled'
  BY <1>0, <1>1, <1>6 DEF Sound, Settled
<1>8. Serve'
  <2> SUFFICES ASSUME NEW p \in DOMAIN pipes PROVE Serves(p)'
    BY <1>6 DEF Serve
  <2>1. Serves(p) /\ Members(pipes[p].ids) \subseteq Nodes
    BY <1>0, StagesAreSequences DEF Sound, Serve, Serves, Members, Range
  <2>2. n \notin Members(pipes[p].ids)
    BY <1>3, <2>1 DEF Serves
  <2> HIDE DEF n, r
  <2> QED BY <1>6, <2>1, <2>2, ServesOn DEF Serves
<1>9. PlanIsFree'
  <2> SUFFICES ASSUME NEW i \in DOMAIN AfterPlaced(ev.plan),
                      NEW j \in DOMAIN AfterPlaced(ev.plan)[i]
               PROVE  AfterPlaced(ev.plan)[i][j][1] \notin DOMAIN n2p
    BY <1>5, <1>6 DEF PlanIsFree
  <2>1. PICK a \in DOMAIN ev.plan : \E b \in DOMAIN ev.plan[a] :
          ev.plan[a][b] = AfterPlaced(ev.plan)[i][j]
    BY <1>0, AfterPlacedWasThere
  <2> QED BY <1>0, <2>1 DEF Undisturbed, Chosen, PlanIsFree
<1>10. EmptyUntil' /\ Alone' /\ EventRouter' /\ rt'["event"].pc = "idle"
  BY <1>0, <1>5, <1>6, SameRouterKeeps DEF Undisturbed, EmptyUntil, Empty, SameRouter
<1> QED BY <1>5, <1>7, <1>8, <1>9, <1>10 DEF Undisturbed, Layers, Chosen

\* The event thread enters the router with nothing registered.
LEMMA RouterEntered ==
  ASSUME TypeInv, Undisturbed, SameLayers, disp' = disp, UNCHANGED bootstrapped,
         NEW then \in {"plan", "select"}, StartRouter("event", then),
         Settled, ev'.pc = "router", ev'.ctx = ev.ctx
  PROVE  Undisturbed'
<1>1. /\ rt'["dispatcher"] = rt["dispatcher"]
      /\ rt'["event"] = [RtIdle EXCEPT !.pc = IF then = "plan" THEN "keys" ELSE "existing",
                                       !.then = then]
  BY DEF StartRouter, TypeInv, RegistryInv, RtOK, Threads
<1>2. /\ rt'["event"].pc = IF then = "plan" THEN "keys" ELSE "existing"
      /\ rt'["event"].then = then /\ rt'["event"].todo = {}
  BY <1>1 DEF RtIdle
<1>3. Alone' /\ EventRouter'
  BY <1>1, <1>2 DEF Undisturbed, Alone, EventRouter
<1>4. Settled' /\ Serve' /\ EmptyUntil'
  BY SameLayersKeep DEF Undisturbed, EmptyUntil
<1> QED BY <1>2, <1>3, <1>4 DEF Undisturbed, Layers, Chosen

\* After the last placement an expansion goes on to the chains it has made, a bootstrap
\* to the router.
LEMMA AllocationDoneSteady == ASSUME TypeInv, Undisturbed, AllocationDone PROVE Undisturbed'
<1>1. SameLayers /\ ev.pc = "allocate" /\ ev.ctx # "none" /\ disp' = disp
  BY NoCall DEF AllocationDone, TypeInv, LocalsInv, Control
<1>2. ev \in EvRecord /\ Sound /\ Sound' /\ rt["event"].pc = "idle" /\ (Empty => Empty')
  BY <1>1, Now, SameLayersKeep DEF Sound
<1>3. CASE ~HasFullPipeline
  <2>1. /\ SameRouter /\ ev' = Resume(TRUE)
        /\ bootstrapped' = (bootstrapped /\ ev.ctx = "expand")
    BY <1>3 DEF AllocationDone, SameRouter
  <2>2. ~bootstrapped' => Empty
    BY <1>1, <1>2, <2>1 DEF Undisturbed, EmptyUntil, EvRecord, Contexts
  <2> QED BY <1>1, <1>2, <2>1, <2>2, SameRouterKeeps, Resumed DEF SameRouter
<1>4. CASE HasFullPipeline /\ ev.ctx = "expand"
  <2>1. SameRouter /\ ev'.pc = "filter" /\ ev'.ctx = "expand" /\ UNCHANGED bootstrapped
    BY <1>2, <1>4 DEF AllocationDone, SameRouter, EvRecord
  <2>2. EmptyUntil'
    BY <1>2, <1>4, <2>1 DEF Undisturbed, EmptyUntil
  <2> QED BY <1>2, <2>1, <2>2, SameRouterKeeps, Plain DEF SameRouter
<1>5. CASE HasFullPipeline /\ ev.ctx # "expand"
  <2>1. ev' = [ev EXCEPT !.pc = "router"] /\ StartRouter("event", "select") /\ UNCHANGED bootstrapped
    BY <1>5 DEF AllocationDone
  <2>2. ev'.pc = "router" /\ ev'.ctx = ev.ctx
    BY <1>2, <2>1 DEF EvRecord
  <2> QED BY <1>1, <1>2, <2>1, <2>2, RouterEntered DEF Sound
<1> QED BY <1>3, <1>4, <1>5

\* The list of an expansion holds chains of ACTIVE nodes.
LEMMA FilterSteady == ASSUME TypeInv, Undisturbed, FilterNewPipelines PROVE Undisturbed'
<1> DEFINE new == {p \in ChainsOver(Active \ ev.before) : Members(p) \cap DOMAIN n2p = {}}
<1>1. /\ SameLayers /\ SameRouter /\ ev.pc = "filter" /\ ev.ctx = "expand"
      /\ UNCHANGED bootstrapped
  BY NoCall DEF FilterNewPipelines, SameRouter, TypeInv, LocalsInv, Control
<1>2. /\ ev \in EvRecord /\ Sound /\ Sound' /\ rt["event"].pc = "idle" /\ (Empty => Empty')
      /\ ChainsOver(Active)' = ChainsOver(Active)
  BY <1>1, Now, SameLayersKeep DEF Sound
<1>3. CASE new = {}
  <2>1. ev' = Resume(TRUE)
    BY <1>3 DEF FilterNewPipelines
  <2>2. ~bootstrapped' => Empty
    BY <1>1 DEF Undisturbed, EmptyUntil
  <2> QED BY <1>1, <1>2, <2>1, <2>2, SameRouterKeeps, Resumed DEF SameRouter
<1>4. CASE new # {}
  <2>1. PICK list \in Discovered(new) : ev' = [ev EXCEPT !.pc = "extend", !.sel = list]
    BY <1>4 DEF FilterNewPipelines
  <2>2. list \in SetToSeqs(new)
    BY <2>1 DEF Discovered
  <2>3. ev'.pc = "extend" /\ ev'.ctx = "expand" /\ ev'.sel = list
    BY <1>1, <1>2, <2>1 DEF EvRecord
  <2>4. \A i \in DOMAIN list : list[i] \in new
    BY <2>2 DEF SetToSeqs
  <2>5. new \subseteq ChainsOver(Active)
    BY DEF ChainsOver
  <2> HIDE DEF new
  <2>6. AreChains(ev.sel)'
    BY <1>2, <2>3, <2>4, <2>5 DEF AreChains
  <2>7. EmptyUntil' /\ rt'["event"].pc = "idle"
    BY <1>1, <1>2, <2>3 DEF Undisturbed, EmptyUntil, SameRouter
  <2> QED BY <1>1, <1>2, <2>3, <2>6, <2>7, SameRouterKeeps DEF Undisturbed, Sound, Layers, Chosen
<1> QED BY <1>3, <1>4

\* An expansion that meets no registered node registers pipelines that serve.
LEMMA ExtendSteady ==
  ASSUME TypeInv, Undisturbed, ExtendPipelines, ~clashed' PROVE Undisturbed'
<1>1. /\ SameRouter /\ ev.pc = "extend" /\ ev.ctx = "expand" /\ ev' = Resume(TRUE)
      /\ UNCHANGED bootstrapped
      /\ ExtendRegistered(ev.sel) /\ ~RegistrationRaises(ev.sel, DOMAIN n2p)
  BY DEF ExtendPipelines, SameRouter, TypeInv, LocalsInv, Control
<1>2. /\ ev \in EvRecord /\ Sound /\ rt["event"].pc = "idle"
      /\ AreChains(ev.sel) /\ ev.sel \in Seq(Seq(Nodes))
  BY <1>1, Now, ListsOfStages DEF Undisturbed, Chosen, EvRecord, Lists
<1>3. UNCHANGED <<state, obj>> /\ Serve'
  BY <1>1, <1>2, ExtendServes DEF Sound
<1>4. Sound'
  BY <1>2, <1>3 DEF Sound, Settled
<1>5. bootstrapped'
  BY <1>1 DEF Undisturbed, EmptyUntil
<1> QED BY <1>1, <1>2, <1>4, <1>5, SameRouterKeeps, Resumed DEF SameRouter

\* A leave is the removal of a node that is registered, or nothing.
LEMMA ProcessLeaveSteady == ASSUME TypeInv, Undisturbed, ProcessLeave PROVE Undisturbed'
<1>1. PICK n \in leaveQ :
        IF state[n] = "none"
          THEN UNCHANGED <<registry, disp, rt, ev>>
          ELSE /\ RemoveNode(n) /\ DropObject(n)
               /\ ev' = [ev EXCEPT !.removed = @ \/ ~RemoveRaises(n)]
  BY DEF ProcessLeave
<1>2. /\ n \in Nodes /\ ev.pc = "leaves" /\ UNCHANGED bootstrapped
      /\ ev \in EvRecord /\ Sound /\ rt["event"].pc = "idle"
  BY Now DEF ProcessLeave, TypeInv, LocalsInv, QueueType
<1>3. CASE state[n] = "none"
  BY <1>1, <1>2, <1>3, NoCall, Elsewhere DEF Undisturbed, Alone
<1>4. CASE state[n] # "none"
  <2>1. SameRouter
    BY <1>1, <1>2, <1>4, DropType DEF SameRouter, TypeInv, RegistryInv, LocalsInv
  <2>2. ev'.pc = "leaves" /\ ev'.ctx = ev.ctx
    BY <1>1, <1>2, <1>4 DEF EvRecord
  <2>3. Sound' /\ (Empty => Empty')
    BY <1>1, <1>2, <1>4, RemoveServes DEF Sound, Empty
  <2>4. EmptyUntil'
    BY <1>2, <2>2, <2>3 DEF Undisturbed, EmptyUntil
  <2> QED BY <1>2, <2>1, <2>2, <2>3, <2>4, SameRouterKeeps, Plain DEF SameRouter
<1> QED BY <1>3, <1>4

\* A rebalance begins only when there is no complete chain, so nothing is registered.
LEMMA LeavesDoneSteady == ASSUME TypeInv, Undisturbed, LeavesDone PROVE Undisturbed'
<1>1. SameLayers /\ SameRouter /\ ev.pc = "leaves" /\ UNCHANGED bootstrapped
  BY NoCall DEF LeavesDone, SameRouter
<1>2. /\ ev \in EvRecord /\ Sound /\ Sound' /\ rt["event"].pc = "idle" /\ (Empty => Empty')
      /\ Active' = Active
  BY <1>1, Now, SameLayersKeep DEF Sound
<1>3. Alone' /\ EventRouter' /\ rt'["event"].pc = "idle"
  BY <1>1, <1>2, SameRouterKeeps DEF SameRouter
<1>4. CASE ShouldRebalance
  <2>1. ev' = [ev EXCEPT !.pc = "standby", !.ctx = "leave", !.todo = Active]
    BY <1>4 DEF LeavesDone
  <2>2. ev'.pc = "standby" /\ ev'.ctx = "leave" /\ ev'.todo = Active
    BY <1>2, <2>1 DEF EvRecord
  <2>3. DOMAIN pipes = {}
    BY <1>2, <1>4, ServingIsFull DEF ShouldRebalance, Sound
  <2>4. Empty
    BY <2>3 DEF Empty, TypeInv, RegistryInv, MappedRegistered
  <2>5. EmptyUntil'
    BY <1>2, <2>2, <2>4 DEF EmptyUntil
  <2> QED BY <1>2, <1>3, <2>2, <2>5 DEF Undisturbed, Sound, Layers, Chosen
<1>5. CASE ~ShouldRebalance
  <2>1. ev'.pc = "heartbeat" /\ ev'.ctx = "none"
    BY <1>5, EvStarts DEF LeavesDone, EvPcs, Contexts
  <2>2. EmptyUntil'
    BY <1>1, <1>2, <2>1 DEF Undisturbed, EmptyUntil
  <2> QED BY <1>2, <1>3, <2>1, <2>2, Plain
<1> QED BY <1>4, <1>5

\* All nodes that were ACTIVE when it began still are, so it moves them all ...
LEMMA StandbyAllSteady == ASSUME TypeInv, Undisturbed, StandbyAll PROVE Undisturbed'
<1>1. /\ SameRouter /\ ev.pc = "standby" /\ ev.ctx = "leave" /\ ev.todo = Active
      /\ UNCHANGED bootstrapped
  BY DEF StandbyAll, SameRouter, TypeInv, LocalsInv, Control, Undisturbed, Layers
<1>2. ev \in EvRecord /\ Sound /\ rt["event"].pc = "idle" /\ Empty
  BY <1>1, Now DEF Undisturbed, EmptyUntil
<1>3. PICK moved \in SUBSET ev.todo : StandbyLocked(ev.todo, moved) /\ moved = Active
  BY <1>1 DEF StandbyAll, StandbyLocked
<1>4. /\ state' = [n \in Nodes |-> IF n \in Active THEN "standby" ELSE state[n]]
      /\ UNCHANGED <<obj, pipes, n2p>>
  BY <1>3 DEF StandbyLocked
<1>5. ev'.pc = "unload" /\ ev'.ctx = "leave" /\ ev'.todo = Active
  BY <1>1, <1>2 DEF StandbyAll, EvRecord
<1>6. Active' = {} /\ \A n \in Nodes \ Active : obj'[n].range = NoRange
  BY <1>2, <1>4 DEF Active, Sound, Settled
<1>7. Serve' /\ Empty'
  BY <1>2, <1>4 DEF Serve, Empty
<1>8. EmptyUntil' /\ rt'["event"].pc = "idle"
  BY <1>1, <1>2, <1>5, <1>7 DEF EmptyUntil, SameRouter
<1> QED BY <1>1, <1>5, <1>6, <1>7, <1>8, SameRouterKeeps DEF Undisturbed, Layers, Chosen

\* ... clears the layers of them all ...
LEMMA UnloadAllSteady == ASSUME TypeInv, Undisturbed, UnloadAll PROVE Undisturbed'
<1>1. /\ SameRouter /\ ev.pc = "unload" /\ ev.ctx = "leave" /\ Active = {}
      /\ \A n \in Nodes \ ev.todo : obj[n].range = NoRange
      /\ UNCHANGED bootstrapped
  BY DEF UnloadAll, SameRouter, TypeInv, LocalsInv, Control, Undisturbed, Layers
<1>2. ev \in EvRecord /\ Serve /\ rt["event"].pc = "idle" /\ Empty
  BY <1>1, Now DEF Undisturbed, EmptyUntil
<1>3. /\ obj' = [n \in Nodes |-> IF n \in ev.todo THEN Cleared(obj[n]) ELSE obj[n]]
      /\ UNCHANGED <<state, pipes, n2p>>
  BY DEF UnloadAll, ClearServing
<1>4. ev'.pc = "reboot" /\ ev'.ctx = "leave"
  BY <1>1, <1>2 DEF UnloadAll, EvRecord
<1>5. \A n \in Nodes : obj'[n].range = NoRange
  <2>1. \A n \in Nodes : obj[n] \in NodeObj
    BY DEF TypeInv, LocalsInv, NMTypeOK
  <2> QED BY <1>1, <1>3, <2>1 DEF Cleared, NodeObj
<1>6. Settled' /\ Active' = {}
  BY <1>1, <1>3, <1>5 DEF Settled, Active
<1>7. Serve' /\ Empty'
  BY <1>2, <1>3 DEF Serve, Empty
<1>8. EmptyUntil' /\ rt'["event"].pc = "idle"
  BY <1>1, <1>2, <1>4, <1>7 DEF EmptyUntil, SameRouter
<1> QED BY <1>1, <1>4, <1>6, <1>7, <1>8, SameRouterKeeps DEF Undisturbed, Layers, Chosen

\* ... and finds none ACTIVE.
LEMMA RebootSteady == ASSUME TypeInv, Undisturbed, Reboot PROVE Undisturbed'
<1>1. /\ SameLayers /\ ev.pc = "reboot" /\ Active = {} /\ disp' = disp
      /\ ev' = [ev EXCEPT !.pc = "router"] /\ StartRouter("event", "plan")
      /\ UNCHANGED bootstrapped
  BY NoCall DEF Reboot, Undisturbed, Layers
<1>2. ev'.pc = "router" /\ ev'.ctx = ev.ctx /\ Settled
  BY <1>1, Now DEF EvRecord, Sound
<1> QED BY <1>1, <1>2, RouterEntered

\* The heartbeat check writes to the queue of leaves only.
LEMMA HeartbeatSteady ==
  ASSUME TypeInv, Undisturbed, SkipHeartbeats \/ CheckHeartbeats PROVE Undisturbed'
<1>1. SameLayers /\ SameRouter /\ ev.pc = "heartbeat" /\ UNCHANGED bootstrapped
  BY NoCall DEF SkipHeartbeats, CheckHeartbeats, SameRouter
<1>2. ev'.pc = "updates" /\ ev'.ctx = "none"
  BY DEF SkipHeartbeats, CheckHeartbeats, EvIdle
<1>3. EmptyUntil'
  BY <1>1, <1>2, SameLayersKeep DEF EmptyUntil, Undisturbed
<1> QED BY <1>1, <1>2, <1>3, Now, SameLayersKeep, SameRouterKeeps, Plain DEF Sound, SameRouter

----------------------------------------------------------------------------
(***************************************************************************)
(* The router's bootstrap() in the event thread.                           *)
(***************************************************************************)
\* A step that goes on to another point of it.
LEMMA RouterGoesOn ==
  ASSUME TypeInv, Undisturbed, SameLayers, UNCHANGED <<ev, disp, bootstrapped>>,
         ev.pc = "router", NEW e, rt' = [rt EXCEPT !["event"] = e], e.todo = {},
         e.pc \in {"keys", "clear", "unload", "reset"} => e.then = "plan",
         e.pc \in {"existing", "select", "register"} => e.then = "select",
         e.pc = "register" => (AreChains(e.sel) /\ Disjoint(e.sel))'
  PROVE  Undisturbed'
<1>1. rt'["event"] = e /\ rt'["dispatcher"] = rt["dispatcher"]
  BY DEF TypeInv, RegistryInv, RtOK, Threads
<1>2. Settled' /\ Serve' /\ EmptyUntil'
  BY SameLayersKeep DEF Undisturbed, Layers, EmptyUntil
<1>3. Alone' /\ EventRouter'
  BY <1>1 DEF Undisturbed, Alone, EventRouter
<1>4. Chosen'
  BY <1>1 DEF Chosen
<1> QED BY <1>2, <1>3, <1>4 DEF Undisturbed, Layers

\* It returns with all that is registered serving.
LEMMA RouterReturns ==
  ASSUME TypeInv, Undisturbed, ev.pc = "router", Sound', RouterReturn("event")
  PROVE  Undisturbed'
<1>1. /\ rt'["event"] = RtIdle /\ rt'["dispatcher"] = rt["dispatcher"] /\ disp' = disp
      /\ ev' = Resume(TRUE) /\ bootstrapped'
  BY DEF RouterReturn, TypeInv, RegistryInv, RtOK, Threads
<1>2. Alone' /\ EventRouter' /\ rt'["event"].pc = "idle"
  BY <1>1 DEF Undisturbed, Alone, EventRouter, RtIdle
<1>3. ev.ctx # "none"
  BY DEF TypeInv, LocalsInv, Control
<1> QED BY <1>1, <1>2, <1>3, Resumed

\* With nothing registered, the clearing clears nothing, and the selection registers
\* disjoint chains of ACTIVE nodes.
LEMMA RouterSteady == ASSUME TypeInv, Undisturbed, Router("event") PROVE Undisturbed'
<1> DEFINE r == rt["event"]
<1>0. /\ ev.pc = "router" /\ ev \in EvRecord /\ Sound /\ Empty
      /\ "event" \in Threads /\ r \in RtRecord
  <2>1. r.pc # "idle"
    BY DEF Router, RouterExisting, RouterKeys, RouterClear, RouterUnload, RouterReset,
           RouterSelect, RouterRegister
  <2>2. ev.pc = "router" /\ ev.ctx \in {"join", "leave"} /\ ev \in EvRecord
    BY <2>1 DEF TypeInv, LocalsInv, Control, EvType
  <2>3. "event" \in Threads /\ r \in RtRecord
    BY DEF TypeInv, RegistryInv, RtOK, Threads
  <2> QED BY <2>2, <2>3 DEF Undisturbed, Layers, EmptyUntil, Sound
<1>1. r.todo = {} /\ rt = [rt EXCEPT !["event"] = r]
  BY DEF Undisturbed, EventRouter, TypeInv, RegistryInv, RtOK
<1>2. CASE RouterExisting("event")
  <2> DEFINE e == [r EXCEPT !.pc = "select"]
  <2>1. r.pc = "existing" /\ rt' = [rt EXCEPT !["event"] = e]
    BY <1>0, <1>2 DEF RouterExisting, Empty
  <2>2. e.pc = "select" /\ e.then = "select" /\ e.todo = {}
    BY <1>0, <1>1, <2>1 DEF RtRecord, Undisturbed, EventRouter
  <2>3. SameLayers /\ UNCHANGED <<ev, disp, bootstrapped>>
    BY <1>2, NoCall DEF RouterExisting
  <2> HIDE DEF e
  <2> QED BY <1>0, <2>1, <2>2, <2>3, RouterGoesOn
<1>3. CASE RouterKeys("event")
  <2> DEFINE e == [r EXCEPT !.pc = "clear", !.todo = {}]
  <2>1. r.pc = "keys" /\ rt' = [rt EXCEPT !["event"] = e]
    BY <1>0, <1>3 DEF RouterKeys, Empty
  <2>2. e.pc = "clear" /\ e.then = "plan" /\ e.todo = {}
    BY <1>0, <1>1, <2>1 DEF RtRecord, Undisturbed, EventRouter
  <2>3. SameLayers /\ UNCHANGED <<ev, disp, bootstrapped>>
    BY <1>3, NoCall DEF RouterKeys
  <2> HIDE DEF e
  <2> QED BY <1>0, <2>1, <2>2, <2>3, RouterGoesOn
<1>4. CASE RouterClear("event")
  <2> DEFINE e == [r EXCEPT !.pc = "unload"]
  <2>1. r.pc = "clear" /\ rt' = [rt EXCEPT !["event"] = e] /\ UNCHANGED <<ev, disp, bootstrapped>>
    BY <1>0, <1>1, <1>4 DEF RouterClear
  <2>2. e.pc = "unload" /\ e.then = "plan" /\ e.todo = {}
    BY <1>0, <1>1, <2>1 DEF RtRecord, Undisturbed, EventRouter
  <2>3. StandbyLocked({}, {})
    BY <1>1, <1>4 DEF RouterClear
  <2>4. state' = state
    <3>1. state \in [Nodes -> {"none", "standby", "active"}]
      BY DEF TypeInv, RegistryInv, Shape
    <3> QED BY <2>3, <3>1 DEF StandbyLocked
  <2>5. SameLayers
    BY <2>3, <2>4 DEF SameLayers, StandbyLocked
  <2> HIDE DEF e
  <2> QED BY <1>0, <2>1, <2>2, <2>5, RouterGoesOn
<1>5. CASE RouterUnload("event")
  <2> DEFINE e == [r EXCEPT !.pc = "reset", !.todo = {}]
  <2>1. r.pc = "unload" /\ rt' = [rt EXCEPT !["event"] = e] /\ UNCHANGED <<ev, disp, bootstrapped>>
    BY <1>0, <1>5 DEF RouterUnload
  <2>2. e.pc = "reset" /\ e.then = "plan" /\ e.todo = {}
    BY <1>0, <1>1, <2>1 DEF RtRecord, Undisturbed, EventRouter
  <2>3. SameLayers
    BY <1>1, <1>5 DEF RouterUnload, ClearServing, SameLayers
  <2> HIDE DEF e
  <2> QED BY <1>0, <2>1, <2>2, <2>3, RouterGoesOn
<1>6. CASE RouterReset("event")
  <2>1. r.then = "plan" /\ UNCHANGED <<disp, state, obj>> /\ DOMAIN pipes' = {} /\ DOMAIN n2p' = {}
    BY <1>6 DEF RouterReset, ResetRegistry, Undisturbed, EventRouter
  <2>2. ev' = [ev EXCEPT !.pc = "plan"] /\ rt' = [rt EXCEPT !["event"] = RtIdle]
    BY <1>6, <2>1 DEF RouterReset
  <2>3. ev'.pc = "plan" /\ ev'.ctx = ev.ctx /\ ev.ctx \in {"join", "leave"}
    BY <1>0, <2>2 DEF EvRecord, TypeInv, LocalsInv, Control
  <2>4. rt'["event"] = RtIdle /\ rt'["dispatcher"] = rt["dispatcher"]
    BY <2>2 DEF TypeInv, RegistryInv, RtOK, Threads
  <2>5. Alone' /\ EventRouter' /\ rt'["event"].pc = "idle"
    BY <2>1, <2>4 DEF Undisturbed, Alone, EventRouter, RtIdle
  <2>6. Sound' /\ EmptyUntil'
    BY <1>0, <2>1, <2>3 DEF Sound, Settled, Serve, EmptyUntil, Empty
  <2> QED BY <2>3, <2>5, <2>6, Plain
<1>7. CASE RouterSelect("event")
  <2>1. SameLayers /\ UNCHANGED <<registry>> /\ r.pc = "select"
    BY <1>7, NoCall DEF RouterSelect
  <2>2. CASE ~HasFullPipeline
    <3>1. RouterReturn("event")
      BY <1>7, <2>2 DEF RouterSelect
    <3> QED BY <1>0, <2>1, <3>1, SameLayersKeep, RouterReturns DEF Sound
  <2>3. CASE HasFullPipeline
    <3> DEFINE chains == {p \in ChainsOver(Active) : Routable(p)}
    <3>1. PICK sel \in Selections(chains) :
            \E list \in SetToSeqs(sel) :
              rt' = [rt EXCEPT !["event"].pc = "register", !["event"].sel = list]
      BY <1>7, <2>3 DEF RouterSelect
    <3>2. PICK list \in SetToSeqs(sel) :
            rt' = [rt EXCEPT !["event"].pc = "register", !["event"].sel = list]
      BY <3>1
    <3>0. PICK e : e = [r EXCEPT !.pc = "register", !.sel = list]
      OBVIOUS
    <3>3. rt' = [rt EXCEPT !["event"] = e] /\ UNCHANGED <<ev, disp, bootstrapped>>
      BY <1>0, <1>7, <2>3, <3>0, <3>2 DEF RouterSelect, TypeInv, RegistryInv, RtOK
    <3>4. e.pc = "register" /\ e.then = "select" /\ e.todo = {} /\ e.sel = list
      BY <1>0, <1>1, <2>1, <3>0 DEF RtRecord, Undisturbed, EventRouter
    <3>5. \A i \in DOMAIN list : list[i] \in sel
      BY <3>2 DEF SetToSeqs
    <3>6. \A i, j \in DOMAIN list : i # j => list[i] # list[j]
      BY <3>2 DEF SetToSeqs, IsInjective
    <3>7. sel \subseteq ChainsOver(Active) /\ \A p, q \in sel : p # q => Members(p) \cap Members(q) = {}
      BY <3>1 DEF Selections
    <3>8. (AreChains(list) /\ Disjoint(list))'
      BY <2>1, <3>5, <3>6, <3>7, SameLayersKeep DEF AreChains, Disjoint
    <3>9. (AreChains(e.sel) /\ Disjoint(e.sel))'
      BY <3>4, <3>8
    <3> QED BY <1>0, <2>1, <3>3, <3>4, <3>9, RouterGoesOn
  <2> QED BY <2>2, <2>3
<1>8. CASE RouterRegister("event")
  <2>1. r.sel \in Seq(Seq(Nodes)) /\ r.pc = "register" /\ RegisterPipelines(r.sel)
    BY <1>0, <1>8, ListsOfStages DEF RtRecord, Lists, RouterRegister
  <2>2. AreChains(r.sel) /\ Disjoint(r.sel)
    BY <2>1 DEF Undisturbed, Chosen
  <2>3. ~RegistrationRaises(r.sel, {}) /\ UNCHANGED <<state, obj>> /\ Serve'
    BY <2>1, <2>2, RegisterServes
  <2>4. RouterReturn("event")
    BY <1>8, <2>3 DEF RouterRegister
  <2>5. Sound'
    BY <1>0, <2>3 DEF Sound, Settled
  <2> QED BY <1>0, <2>4, <2>5, RouterReturns
<1> QED BY <1>2, <1>3, <1>4, <1>5, <1>6, <1>7, <1>8 DEF Router
----------------------------------------------------------------------------
(***************************************************************************)
(* The other threads and the workers.                                      *)
(***************************************************************************)
\* Until it runs the router's bootstrap(), the dispatcher only reads the registry and
\* charges requests to nodes.
LEMMA DispatcherWrites ==
  ASSUME Undisturbed, Dispatcher, ~lazyRan'
  PROVE  /\ SameLayers /\ UNCHANGED <<ev, bootstrapped, rt>>
         /\ ~Router("dispatcher") /\ ~SnapshotAgain
<1>1. ~Router("dispatcher") /\ ~SnapshotAgain
  BY DEF Undisturbed, Alone, Router, RouterExisting, RouterKeys, RouterClear, RouterUnload,
         RouterReset, RouterSelect, RouterRegister, SnapshotAgain
<1>2. UNCHANGED <<ev, bootstrapped>>
  BY <1>1 DEF Dispatcher, AwaitRequest, AwaitTimeout, TakeRequest, ResolvePath, ChargeNext
<1>3. SameLayers
  <2>1. CASE ChargeNext
    <3>1. CASE AddRequestRaises(Head(disp.path))
      BY <2>1, <3>1, NoCall DEF ChargeNext
    <3>2. CASE ~AddRequestRaises(Head(disp.path))
      <4>1. PICK over \in BOOLEAN : AddRequest(Head(disp.path), over)
        BY <2>1, <3>2 DEF ChargeNext
      <4> QED BY <4>1 DEF AddRequest, SameLayers
    <3> QED BY <3>1, <3>2
  <2>2. CASE ~ChargeNext
    BY <1>1, <2>2, NoCall DEF Dispatcher, AwaitRequest, AwaitTimeout, TakeRequest, ResolvePath
  <2> QED BY <2>1, <2>2
<1>4. UNCHANGED rt
  BY <1>1 DEF Dispatcher, AwaitRequest, AwaitTimeout, TakeRequest, ResolvePath, ChargeNext
<1> QED BY <1>1, <1>2, <1>3, <1>4

\* So pipelines serve on.
LEMMA DispatcherSteady ==
  ASSUME TypeInv, Undisturbed, Dispatcher, ~lazyRan' PROVE Undisturbed'
<1>1. /\ SameLayers /\ UNCHANGED <<ev, bootstrapped, rt>>
      /\ ~Router("dispatcher") /\ ~SnapshotAgain
  BY DispatcherWrites
<1>2. disp'.pc \notin {"router", "snapshot"}
  <2>0. disp \in DispRecord
    BY DEF TypeInv, LocalsInv, DispType
  <2>1. CASE ChargeNext
    <3>1. CASE AddRequestRaises(Head(disp.path))
      BY <2>0, <2>1, <3>1 DEF ChargeNext, DispRecord
    <3>2. CASE ~AddRequestRaises(Head(disp.path))
      <4> DEFINE pc == IF Len(disp.path) = 1 THEN "idle" ELSE "charge"
      <4>1. disp' = [disp EXCEPT !.path = Tail(disp.path), !.pc = pc]
        BY <2>1, <3>2 DEF ChargeNext
      <4>2. pc \notin {"router", "snapshot"}
        OBVIOUS
      <4> HIDE DEF pc
      <4> QED BY <2>0, <4>1, <4>2 DEF DispRecord
    <3> QED BY <3>1, <3>2
  <2>2. CASE AwaitRequest \/ AwaitTimeout \/ ResolvePath
    BY <2>0, <2>2 DEF AwaitRequest, AwaitTimeout, ResolvePath, DispGoto, DispRecord
  <2>3. CASE TakeRequest
    BY <2>0, <2>3 DEF TakeRequest, DispRecord
  <2> QED BY <1>1, <2>1, <2>2, <2>3 DEF Dispatcher
<1>3. Alone'
  BY <1>1, <1>2 DEF Undisturbed, Alone
<1> QED BY <1>1, <1>3, Elsewhere

\* What a worker does reaches the registry by the queues, and by its silence.
LEMMA WorkerWrites ==
  ASSUME NEW n \in Nodes, Worker(n)
  PROVE  SameLayers /\ UNCHANGED <<ev, bootstrapped, disp, rt>>
<1>1. UNCHANGED <<ev, bootstrapped, disp, rt>>
  BY DEF Worker, Start, Announcer, JoinAnswered, Heartbeat, HeartbeatUnknown, RejoinAnswered,
         JoinTimeout, Load, Crash, Shutdown, Silence, sched, threads
<1>2. SameLayers
  <2>1. CASE Silence(n)
    BY <2>1 DEF Silence, Expire, SameLayers
  <2>2. CASE ~Silence(n)
    BY <2>2, NoCall DEF Worker, Start, Announcer, JoinAnswered, Heartbeat, HeartbeatUnknown,
                        RejoinAnswered, JoinTimeout, Load, Crash, Shutdown
  <2> QED BY <2>1, <2>2
<1> QED BY <1>1, <1>2

\* And pipelines serve on.
LEMMA WorkerSteady ==
  ASSUME TypeInv, Undisturbed, NEW n \in Nodes, Worker(n) PROVE Undisturbed'
  BY WorkerWrites, Elsewhere DEF Undisturbed, Alone

----------------------------------------------------------------------------
(***************************************************************************)
(* The invariant, and the theorems.                                        *)
(***************************************************************************)
\* What history remembers is not forgotten.
LEMMA HistoryLasts == ASSUME [Next]_vars, Steady' PROVE Steady
<1>1. ASSUME NEW t \in Threads, Router(t) PROVE UNCHANGED history
  BY <1>1 DEF Router, RouterExisting, RouterKeys, RouterClear, RouterUnload, RouterReset,
              RouterSelect, RouterRegister
<1>2. CASE EventThread
  <2>1. CASE ExtendPipelines
    BY <2>1 DEF ExtendPipelines, Steady
  <2>2. CASE ~ExtendPipelines /\ ~Router("event")
    <3>1. UNCHANGED history
      BY <1>2, <2>2
         DEF EventThread, ProcessUpdates, ProcessJoin, JoinsDone, PlanAllocation, AllocateNext,
             AllocationDone, FilterNewPipelines, ProcessLeave, LeavesDone, StandbyAll,
             UnloadAll, Reboot, CheckHeartbeats, SkipHeartbeats
    <3> QED BY <3>1 DEF history, Steady
  <2> QED BY <1>1, <2>1, <2>2 DEF history, Steady, Threads
<1>3. CASE Dispatcher
  <2>1. CASE TakeRequest
    BY <2>1 DEF TakeRequest, history, Steady
  <2>2. CASE ~TakeRequest
    <3>1. UNCHANGED history
      BY <1>1, <1>3, <2>2 DEF Dispatcher, AwaitRequest, AwaitTimeout, SnapshotAgain,
                              ResolvePath, ChargeNext, Threads
    <3> QED BY <3>1 DEF history, Steady
  <2> QED BY <2>1, <2>2
<1>4. CASE ~EventThread /\ ~Dispatcher
  <2>1. UNCHANGED history
    BY <1>4 DEF Next, ReceiveRequest, Worker, Start, Announcer, JoinAnswered, Heartbeat,
                HeartbeatUnknown, RejoinAnswered, JoinTimeout, Load, Crash, Shutdown,
                Silence, vars, sched, threads
  <2> QED BY <2>1 DEF history, Steady
<1> QED BY <1>2, <1>3, <1>4

\* Nothing is registered when the scheduler starts.
LEMMA SteadyInit == Init => SteadyInv
<1> SUFFICES ASSUME Init PROVE Undisturbed
  BY DEF SteadyInv
<1>1. /\ ev.pc = "updates" /\ ev.ctx = "none" /\ rt["event"] = RtIdle
      /\ rt["dispatcher"].pc = "idle" /\ disp.pc = "idle"
  BY DEF Init, EvIdle, RtIdle, Threads
<1>2. DOMAIN pipes = {} /\ DOMAIN n2p = {}
  BY DEF Init, NMInit
<1>3. Settled
  BY DEF Init, NMInit, Blank, Settled
<1> QED BY <1>1, <1>2, <1>3
        DEF Undisturbed, Alone, Layers, EmptyUntil, Empty, EventRouter, RtIdle, Serve, Chosen

\* Every step of the event thread keeps what is registered serving ...
LEMMA EventThreadSteady ==
  ASSUME TypeInv, Pending, Undisturbed, EventThread, Steady' PROVE Undisturbed'
<1>1. ~clashed'
  BY DEF Steady
<1> QED BY <1>1, ProcessUpdatesSteady, ProcessJoinSteady, JoinsDoneSteady, PlanAllocationSteady,
           AllocateNextSteady, AllocationDoneSteady, FilterSteady, ExtendSteady,
           ProcessLeaveSteady, LeavesDoneSteady, StandbyAllSteady, UnloadAllSteady,
           RebootSteady, HeartbeatSteady, RouterSteady DEF EventThread

\* ... and so does every step of the others.
LEMMA SteadyNext == ASSUME TypeInv, Pending, SteadyInv, [Next]_vars PROVE SteadyInv'
<1> SUFFICES ASSUME Steady' PROVE Undisturbed'
  BY DEF SteadyInv
<1>1. Undisturbed /\ ~lazyRan'
  BY HistoryLasts DEF SteadyInv, Steady
<1>2. CASE EventThread
  BY <1>1, <1>2, EventThreadSteady
<1>3. CASE Dispatcher
  BY <1>1, <1>3, DispatcherSteady
<1>4. CASE \E n \in Nodes : Worker(n)
  BY <1>1, <1>4, WorkerSteady
<1>5. CASE ReceiveRequest \/ UNCHANGED vars
  <2>1. UNCHANGED <<registry, ev, bootstrapped, disp, rt>>
    BY <1>5 DEF ReceiveRequest, vars, threads
  <2> QED BY <1>1, <2>1, NoCall, Elsewhere DEF Undisturbed, Alone
<1> QED BY <1>2, <1>3, <1>4, <1>5 DEF Next

\* All of it holds of every behaviour.
LEMMA SteadyHolds == Spec => [](TypeInv /\ Pending /\ SteadyInv)
<1>1. Init => Pending /\ SteadyInv
  BY PendingInit, SteadyInit
<1>2. TypeInv /\ Pending /\ SteadyInv /\ [Next]_vars => Pending' /\ SteadyInv'
  BY PendingNext, SteadyNext
<1> QED BY <1>1, <1>2, TypesHold, PTL DEF Spec
\* While the event thread is alone with the registry and no expansion has clashed,
\* whatever it registers, expands, removes or rebalances, and however joins, leaves,
\* heartbeats and requests interleave with it, every registered pipeline can serve.
THEOREM ClusterServes == Spec => []RegisteredPipelinesServe
<1>1. SteadyInv => RegisteredPipelinesServe
  BY DEF SteadyInv, Undisturbed, Serve, Serves, RegisteredPipelinesServe
<1> QED BY <1>1, SteadyHolds, PTL

\* So no node is in two of them: the strict rule of node_management.py is broken only
\* by an expansion that clashes, or once the dispatcher has run the router's bootstrap().
THEOREM ClusterIsDisjoint == Spec => [](Steady => OnePipelinePerNode)
<1>1. SteadyInv => (Steady => OnePipelinePerNode)
  <2> SUFFICES ASSUME Serve PROVE OnePipelinePerNode
    BY DEF SteadyInv, Undisturbed
  <2> QED BY DEF Serve, Serves, OnePipelinePerNode
<1> QED BY <1>1, SteadyHolds, PTL

\* No exception escapes the event loop: neither standby() nor an assertion of
\* _process_leaves fails, since what is moved to STANDBY is still ACTIVE when it is.
THEOREM ClusterLoopSurvives == Spec => []EventLoopSurvives
<1>1. SteadyInv => EventLoopSurvives
  BY DEF SteadyInv, Undisturbed, EventLoopSurvives
<1> QED BY <1>1, SteadyHolds, PTL

\* The layers that remove(), standby(), activate() and the allocator write in several
\* steps agree with the states between any two of them.
THEOREM ClusterLayersFollow == Spec => []LayersFollowState
<1>1. TypeInv /\ SteadyInv => LayersFollowState
  BY DEF SteadyInv, Undisturbed, Layers, Settled, LayersFollowState
<1> QED BY <1>1, SteadyHolds, PTL

\* Writes that leave states, layers and stages alone keep the pipelines.
LEMMA SameLayersOutlive ==
  ASSUME SameLayers, NEW p \in DOMAIN pipes PROVE Kept(p)
  BY DEF SameLayers, Kept

\* Nothing but the departure of one of its members takes a pipeline down.
LEMMA OutliveNext ==
  ASSUME TypeInv, Pending, SteadyInv, [Next]_vars, Steady', NEW p \in DOMAIN pipes
  PROVE  Kept(p) \/ \E n \in Members(pipes[p].ids) : state'[n] = "none"
<1>1. Undisturbed /\ ~lazyRan' /\ ~clashed'
  BY HistoryLasts DEF SteadyInv, Steady
<1>2. CASE ProcessJoin
  <2>1. CASE UNCHANGED registry
    BY <2>1, NoCall, SameLayersOutlive
  <2>2. CASE ~UNCHANGED registry
    <3>1. PICK j \in joinQ : Upsert(j.node, j.report)
      BY <1>2, <2>2 DEF ProcessJoin
    <3> QED BY <3>1, FreezeKeepsStages DEF Upsert, Kept
  <2> QED BY <2>1, <2>2
<1>3. CASE ExtendPipelines
  <2>1. ev.pc = "extend" /\ ExtendRegistered(ev.sel) /\ ~RegistrationRaises(ev.sel, DOMAIN n2p)
    BY <1>1, <1>3 DEF ExtendPipelines
  <2>2. Serve /\ AreChains(ev.sel) /\ ev.sel \in Seq(Seq(Nodes))
    BY <1>1, <2>1, ListsOfStages DEF Undisturbed, Chosen, TypeInv, LocalsInv, EvType, EvRecord, Lists
  <2> QED BY <2>1, <2>2, ExtendServes DEF Kept
<1>4. CASE ProcessLeave
  <2>1. CASE UNCHANGED registry
    BY <2>1, NoCall, SameLayersOutlive
  <2>2. CASE ~UNCHANGED registry
    <3>1. PICK n \in Nodes : RemoveNode(n)
      BY <1>4, <2>2 DEF ProcessLeave, TypeInv, LocalsInv, QueueType
    <3>2. state'[n] = "none"
      BY <3>1 DEF RemoveNode, TypeInv, RegistryInv, Shape
    <3>3. Serve /\ Settled
      BY <1>1, <1>4 DEF Undisturbed, Layers, ProcessLeave
    <3> QED BY <3>1, <3>2, <3>3, RemoveServes DEF Kept
  <2> QED BY <2>1, <2>2
<1>5. CASE Router("event")
  <2>1. rt["event"].pc # "idle"
    BY <1>5 DEF Router, RouterExisting, RouterKeys, RouterClear, RouterUnload, RouterReset,
                RouterSelect, RouterRegister
  <2>2. ev.ctx \in {"join", "leave"}
    BY <2>1 DEF TypeInv, LocalsInv, Control
  <2> QED BY <1>1, <2>2 DEF Undisturbed, EmptyUntil, Empty
<1>6. CASE ProcessUpdates
  BY <1>6 DEF ProcessUpdates, UpdateInfo, Kept
<1>7. CASE EventThread /\ ~ProcessJoin /\ ~ExtendPipelines /\ ~ProcessLeave /\ ~Router("event")
           /\ ~ProcessUpdates
  <2>1. UNCHANGED pipes
    BY <1>7
       DEF EventThread, JoinsDone, PlanAllocation, AllocateNext, Allocate, AllocateFailed,
           AllocationDone, FilterNewPipelines, LeavesDone, StandbyAll, StandbyLocked, UnloadAll,
           ClearServing, Reboot, CheckHeartbeats, SkipHeartbeats, registry
  <2> QED BY <2>1 DEF Kept
<1>8. CASE Dispatcher
  <2>1. UNCHANGED pipes
    <3>1. ~Router("dispatcher")
      BY <1>1 DEF Undisturbed, Alone, Router, RouterExisting, RouterKeys, RouterClear,
                  RouterUnload, RouterReset, RouterSelect, RouterRegister
    <3> QED BY <1>8, <3>1 DEF Dispatcher, AwaitRequest, AwaitTimeout, TakeRequest, SnapshotAgain,
                              ResolvePath, ChargeNext, AddRequest, registry
  <2> QED BY <2>1 DEF Kept
<1>9. CASE ~EventThread /\ ~Dispatcher
  <2>1. UNCHANGED pipes
    BY <1>9 DEF Next, ReceiveRequest, Worker, Start, Announcer, JoinAnswered, Heartbeat,
                HeartbeatUnknown, RejoinAnswered, JoinTimeout, Load, Crash, Shutdown,
                Silence, Expire, vars, registry
  <2> QED BY <2>1 DEF Kept
<1> QED BY <1>2, <1>3, <1>4, <1>5, <1>6, <1>7, <1>8, <1>9

\* A pipeline that serves is given up only when one of its own members leaves: the
\* departure of others, expansion and rebalancing never take it down or replace it.
THEOREM ClusterOutlives == Spec => PipelinesOutliveOthers
<1>1. TypeInv /\ Pending /\ SteadyInv /\ [Next]_vars =>
        [\A p \in DOMAIN pipes :
           Kept(p) \/ ~Steady' \/ \E n \in Members(pipes[p].ids) : state'[n] = "none"]_vars
  BY OutliveNext
<1> QED BY <1>1, SteadyHolds, PTL DEF Spec, PipelinesOutliveOthers

----------------------------------------------------------------------------
(***************************************************************************)
(* Sets of nodes that chains use up.  A set U of nodes with layers rg is    *)
(* balanced if below the last layer as many of its nodes end as begin.     *)
(* What disjoint complete chains are made of is balanced, so is the         *)
(* difference of two balanced sets, and a balanced set that is not empty    *)
(* has a complete chain.  So chains chosen from a balanced set until none   *)
(* is left in the rest use up all of it.                                   *)
(***************************************************************************)
Ends(U, rg, k) == {n \in U : rg[n][2] = k}
Begins(U, rg, k) == {n \in U : rg[n][1] = k}
Balanced(U, rg) ==
  /\ U \subseteq Nodes
  /\ \A n \in U : rg[n] \in Ranges
  /\ \A k \in 1..(NumLayers - 1) : Cardinality(Ends(U, rg, k)) = Cardinality(Begins(U, rg, k))

\* A chain of nodes with the layers rg, complete or from the first layer on.
Linked(p, rg) == /\ p # <<>> /\ rg[p[1]][1] = 0
                 /\ \A i \in 1..(Len(p) - 1) : rg[p[i]][2] = rg[p[i + 1]][1]
Complete(p, rg) == Linked(p, rg) /\ rg[p[Len(p)]][2] = NumLayers
Rising(p, rg) == /\ \A i \in DOMAIN p : i <= rg[p[i]][2]
                 /\ \A i, j \in DOMAIN p : i < j => rg[p[i]][2] <= rg[p[j]][1]

\* A set of natural numbers that is not empty has a least element.
LEMMA Least ==
  ASSUME NEW T, T \subseteq Nat, T # {}
  PROVE  \E k \in T : \A l \in T : k <= l
<1> DEFINE R == OpToRel(<, Nat)
<1>1. IsWellFoundedOn(R, Nat)
  BY NatLessThanWellFounded
<1>2. \A k, l \in Nat : k < l => <<k, l>> \in R
  BY DEF OpToRel
<1> HIDE DEF R
<1>3. PICK k \in T : \A l \in T : ~(<<l, k>> \in R)
  BY <1>1, WFMin
<1>4. ASSUME NEW l \in T PROVE k <= l
  <2>1. k \in Nat /\ l \in Nat /\ ~(l < k)
    BY <1>2, <1>3
  <2> QED BY <2>1
<1> QED BY <1>4

\* The parts of a range.
LEMMA RangeIs ==
  ASSUME NEW r \in Ranges
  PROVE  /\ r[1] \in 0..NumLayers /\ r[2] \in 0..NumLayers /\ r[1] < r[2]
         /\ r[1] \in Nat /\ r[2] \in Nat
  BY NMAssumption DEF Ranges

\* A chain can be lengthened by a node that begins where it ends.
LEMMA RisesOn ==
  ASSUME NEW U, U \subseteq Nodes, NEW rg, \A n \in U : rg[n] \in Ranges,
         NEW p \in Seq(U), Linked(p, rg), Rising(p, rg),
         NEW m \in U, rg[m][1] = rg[p[Len(p)]][2]
  PROVE  /\ Append(p, m) \in Seq(U) /\ Linked(Append(p, m), rg) /\ Rising(Append(p, m), rg)
         /\ Append(p, m)[Len(Append(p, m))] = m
<1> DEFINE q == Append(p, m)
           l == Len(p)
<1>1. /\ q \in Seq(U) /\ Len(q) = l + 1 /\ q[l + 1] = m /\ \A i \in 1..l : q[i] = p[i]
      /\ DOMAIN p = 1..l /\ DOMAIN q = 1..(l + 1) /\ l \in Nat /\ l >= 1 /\ q # <<>>
  BY DEF Linked
<1>2. \A i \in 1..l : p[i] \in U /\ rg[p[i]] \in Ranges
  BY <1>1
<1>3. /\ \A i \in 1..l : rg[p[i]][1] \in Nat /\ rg[p[i]][2] \in Nat /\ rg[p[i]][1] < rg[p[i]][2]
      /\ rg[m][1] \in Nat /\ rg[m][2] \in Nat /\ rg[m][1] < rg[m][2]
  BY <1>2, RangeIs
<1> HIDE DEF q, l
<1>4. l \in 1..l /\ rg[m][1] = rg[p[l]][2]
  BY <1>1 DEF l
<1>5. Linked(q, rg)
  <2>1. rg[q[1]][1] = 0
    BY <1>1 DEF Linked
  <2>2. ASSUME NEW i \in 1..l PROVE rg[q[i]][2] = rg[q[i + 1]][1]
    <3>1. CASE i = l
      BY <1>1, <1>4, <3>1
    <3>2. CASE i # l
      <4>1. i \in 1..(l - 1) /\ i + 1 \in 1..l
        BY <1>1, <3>2
      <4>2. rg[p[i]][2] = rg[p[i + 1]][1]
        BY <4>1 DEF Linked, l
      <4> QED BY <1>1, <4>1, <4>2
    <3> QED BY <3>1, <3>2
  <2>3. Len(q) - 1 = l
    BY <1>1
  <2> QED BY <1>1, <2>1, <2>2, <2>3 DEF Linked
<1>6. ASSUME NEW i \in DOMAIN q PROVE i <= rg[q[i]][2]
  <2>1. CASE i \in 1..l
    BY <1>1, <2>1 DEF Rising
  <2>2. CASE i = l + 1
    <3>1. l <= rg[p[l]][2]
      BY <1>1, <1>4 DEF Rising
    <3> QED BY <1>1, <1>3, <1>4, <2>2, <3>1
  <2> QED BY <1>1, <2>1, <2>2
<1>7. ASSUME NEW i \in DOMAIN q, NEW j \in DOMAIN q, i < j PROVE rg[q[i]][2] <= rg[q[j]][1]
  <2>0. i \in 1..l
    BY <1>1, <1>7
  <2>1. CASE j \in 1..l
    <3>1. rg[p[i]][2] <= rg[p[j]][1]
      BY <1>1, <1>7, <2>0, <2>1 DEF Rising
    <3> QED BY <1>1, <2>0, <2>1, <3>1
  <2>2. CASE j = l + 1
    <3>1. CASE i = l
      BY <1>1, <1>3, <1>4, <2>2, <3>1
    <3>2. CASE i # l
      <4>1. i < l
        BY <1>1, <2>0, <3>2
      <4>2. rg[p[i]][2] <= rg[p[l]][1]
        BY <1>1, <1>4, <2>0, <4>1 DEF Rising
      <4>3. rg[p[l]][1] < rg[p[l]][2] /\ rg[p[l]][1] \in Nat /\ rg[p[l]][2] \in Nat /\ rg[p[i]][2] \in Nat
        BY <1>3, <1>4, <2>0
      <4>4. rg[p[i]][2] <= rg[m][1]
        BY <1>4, <4>2, <4>3
      <4> QED BY <1>1, <2>0, <2>2, <4>4
    <3> QED BY <3>1, <3>2
  <2> QED BY <1>1, <2>1, <2>2
<1>8. q[Len(q)] = m
  BY <1>1
<1> QED BY <1>1, <1>5, <1>6, <1>7, <1>8 DEF Rising, q

\* Nodes whose layers follow upon each other are all different, and no more than
\* there are layers.
LEMMA RisingAreStages ==
  ASSUME NEW U, U \subseteq Nodes, NEW rg, \A n \in U : rg[n] \in Ranges,
         NEW p \in Seq(U), p # <<>>, Rising(p, rg)
  PROVE  p \in Stages
<1>1. DOMAIN p = 1..Len(p) /\ Len(p) \in Nat /\ Len(p) >= 1 /\ \A i \in DOMAIN p : p[i] \in U
  OBVIOUS
<1>2. \A i \in DOMAIN p : rg[p[i]][1] \in Nat /\ rg[p[i]][2] \in Nat /\ rg[p[i]][1] < rg[p[i]][2]
                          /\ rg[p[i]][2] \in 0..NumLayers
  BY <1>1, RangeIs
<1>3. Len(p) \in 1..NumLayers
  <2>1. Len(p) \in DOMAIN p
    BY <1>1
  <2>2. Len(p) <= rg[p[Len(p)]][2]
    BY <2>1 DEF Rising
  <2>3. rg[p[Len(p)]][2] \in 0..NumLayers
    BY <1>2, <2>1
  <2> QED BY <1>1, <2>2, <2>3, NMAssumption
<1>4. ASSUME NEW i \in DOMAIN p, NEW j \in DOMAIN p, p[i] = p[j] PROVE i = j
  <2>1. ~(i < j)
    <3>1. ASSUME i < j PROVE FALSE
      <4>1. rg[p[i]][2] <= rg[p[i]][1]
        BY <1>4, <3>1 DEF Rising
      <4> QED BY <1>2, <4>1
    <3> QED BY <3>1
  <2>2. ~(j < i)
    <3>1. ASSUME j < i PROVE FALSE
      <4>1. rg[p[j]][2] <= rg[p[j]][1]
        BY <1>4, <3>1 DEF Rising
      <4> QED BY <1>2, <4>1
    <3> QED BY <3>1
  <2> QED BY <1>1, <2>1, <2>2
<1>5. p \in [1..Len(p) -> Nodes] /\ IsInjective(p)
  BY <1>1, <1>4 DEF IsInjective
<1> QED BY <1>3, <1>5 DEF Stages

\* If a node of a balanced set ends below the last layer, one begins there, and
\* the other way round.
LEMMA BalancedLinks ==
  ASSUME NEW U, NEW rg, Balanced(U, rg), NEW k \in 1..(NumLayers - 1)
  PROVE  Ends(U, rg, k) # {} <=> Begins(U, rg, k) # {}
<1>1. IsFiniteSet(U)
  BY NMAssumption, FS_Subset DEF Balanced
<1>2. IsFiniteSet(Ends(U, rg, k)) /\ IsFiniteSet(Begins(U, rg, k))
  BY <1>1, FS_Subset DEF Ends, Begins
<1>3. Cardinality(Ends(U, rg, k)) = Cardinality(Begins(U, rg, k))
  BY DEF Balanced
<1> HIDE DEF Ends, Begins
<1> QED BY <1>2, <1>3, FS_EmptySet

\* A balanced set has a node that begins at the first layer, and a chain from there to
\* the last.
LEMMA BalancedHasChain ==
  ASSUME NEW U, NEW rg, Balanced(U, rg), U # {}
  PROVE  \E p \in Stages : Members(p) \subseteq U /\ Complete(p, rg)
<1>0. /\ U \subseteq Nodes /\ \A n \in U : rg[n] \in Ranges
      /\ \A n \in U : /\ rg[n][1] \in Nat /\ rg[n][2] \in Nat /\ rg[n][1] < rg[n][2]
                      /\ rg[n][2] \in 0..NumLayers
  BY RangeIs DEF Balanced
<1>1. \E n \in U : rg[n][1] = 0
  <2> DEFINE T == {rg[n][1] : n \in U}
  <2>1. T \subseteq Nat /\ T # {}
    BY <1>0
  <2>2. PICK k \in T : \A l \in T : k <= l
    BY <2>1, Least
  <2>3. PICK n \in U : k = rg[n][1]
    OBVIOUS
  <2>4. CASE k = 0
    BY <2>3, <2>4
  <2>5. CASE k # 0
    <3>1. k \in 1..(NumLayers - 1)
      BY <1>0, <2>3, <2>5, NMAssumption
    <3>2. Begins(U, rg, k) # {}
      BY <2>3 DEF Begins
    <3>3. Ends(U, rg, k) # {}
      BY <3>1, <3>2, BalancedLinks
    <3>4. PICK m \in U : rg[m][2] = k
      BY <3>3 DEF Ends
    <3>5. k <= rg[m][1]
      BY <2>2
    <3> QED BY <1>0, <3>4, <3>5
  <2> QED BY <2>4, <2>5
<1> DEFINE Paths == {p \in Seq(U) : Linked(p, rg) /\ Rising(p, rg)}
           T == {NumLayers - rg[p[Len(p)]][2] : p \in Paths}
<1>2. \A p \in Paths : p # <<>> /\ Len(p) \in DOMAIN p /\ p[Len(p)] \in U /\ p \in Seq(U)
  BY DEF Linked
<1>3. \E p \in Paths : TRUE
  <2>1. PICK n \in U : rg[n][1] = 0
    BY <1>1
  <2> DEFINE p == <<n>>
  <2>2. p \in Seq(U) /\ Len(p) = 1 /\ p[1] = n /\ DOMAIN p = {1} /\ p # <<>>
    OBVIOUS
  <2> HIDE DEF p
  <2>3. Linked(p, rg)
    BY <2>1, <2>2 DEF Linked
  <2>4. Rising(p, rg)
    <3>1. 1 <= rg[n][2]
      BY <1>0
    <3> QED BY <2>2, <3>1 DEF Rising
  <2> QED BY <2>2, <2>3, <2>4
<1>4. \A p \in Paths : NumLayers - rg[p[Len(p)]][2] \in Nat
  BY <1>0, <1>2, NMAssumption
<1> HIDE DEF Paths
<1>5. T \subseteq Nat /\ T # {}
  BY <1>3, <1>4
<1>6. PICK p \in Paths : \A q \in Paths : NumLayers - rg[p[Len(p)]][2] <= NumLayers - rg[q[Len(q)]][2]
  <2>1. PICK k \in T : \A l \in T : k <= l
    BY <1>5, Least
  <2>2. PICK p \in Paths : k = NumLayers - rg[p[Len(p)]][2]
    OBVIOUS
  <2> QED BY <2>1, <2>2
<1>7. p \in Seq(U) /\ Linked(p, rg) /\ Rising(p, rg) /\ p # <<>> /\ p[Len(p)] \in U
  BY <1>2 DEF Paths
<1>8. rg[p[Len(p)]][2] = NumLayers
  <2> DEFINE e == rg[p[Len(p)]][2]
  <2>0. e \in 1..NumLayers
    <3>1. e \in Nat /\ e \in 0..NumLayers /\ rg[p[Len(p)]][1] \in Nat /\ rg[p[Len(p)]][1] < e
      BY <1>0, <1>7
    <3> HIDE DEF e
    <3> QED BY <3>1, NMAssumption
  <2>1. CASE e # NumLayers
    <3>1. e \in 1..(NumLayers - 1)
      <4> HIDE DEF e
      <4> QED BY <2>0, <2>1, NMAssumption
    <3>2. Ends(U, rg, e) # {}
      BY <1>7 DEF Ends
    <3>3. Begins(U, rg, e) # {}
      BY <3>1, <3>2, BalancedLinks
    <3>4. PICK m \in U : rg[m][1] = e
      BY <3>3 DEF Begins
    <3>5. PICK q : q = Append(p, m)
      OBVIOUS
    <3>6. q \in Paths /\ q[Len(q)] = m
      BY <1>0, <1>7, <3>4, <3>5, RisesOn DEF Paths
    <3>7. NumLayers - e <= NumLayers - rg[m][2]
      BY <1>6, <3>6
    <3>8. rg[m][2] \in Nat /\ e < rg[m][2]
      BY <1>0, <3>4
    <3> HIDE DEF e
    <3> QED BY <2>0, <3>7, <3>8, NMAssumption
  <2> QED BY <2>1
<1>9. p \in Stages
  BY <1>0, <1>7, RisingAreStages
<1>10. Members(p) \subseteq U
  BY <1>7 DEF Members, Range
<1> QED BY <1>7, <1>8, <1>9, <1>10 DEF Complete

\* What is left of a balanced set without a balanced part is balanced.
LEMMA RestBalanced ==
  ASSUME NEW U, NEW C, NEW rg, Balanced(U, rg), Balanced(C, rg), C \subseteq U
  PROVE  Balanced(U \ C, rg)
<1>1. ASSUME NEW k \in 1..(NumLayers - 1)
      PROVE  Cardinality(Ends(U \ C, rg, k)) = Cardinality(Begins(U \ C, rg, k))
  <2>1. IsFiniteSet(U)
    BY NMAssumption, FS_Subset DEF Balanced
  <2>2. IsFiniteSet(Ends(U, rg, k)) /\ IsFiniteSet(Begins(U, rg, k))
    BY <2>1, FS_Subset DEF Ends, Begins
  <2>3. /\ Ends(U \ C, rg, k) = Ends(U, rg, k) \ Ends(C, rg, k)
        /\ Ends(U, rg, k) \cap Ends(C, rg, k) = Ends(C, rg, k)
    BY DEF Ends
  <2>4. /\ Begins(U \ C, rg, k) = Begins(U, rg, k) \ Begins(C, rg, k)
        /\ Begins(U, rg, k) \cap Begins(C, rg, k) = Begins(C, rg, k)
    BY DEF Begins
  <2>5. /\ Cardinality(Ends(U, rg, k)) = Cardinality(Begins(U, rg, k))
        /\ Cardinality(Ends(C, rg, k)) = Cardinality(Begins(C, rg, k))
    BY DEF Balanced
  <2>6. Cardinality(Ends(U \ C, rg, k)) = Cardinality(Ends(U, rg, k)) - Cardinality(Ends(C, rg, k))
    BY <2>2, <2>3, FS_Difference
  <2>7. Cardinality(Begins(U \ C, rg, k)) = Cardinality(Begins(U, rg, k)) - Cardinality(Begins(C, rg, k))
    BY <2>2, <2>4, FS_Difference
  <2> QED BY <2>5, <2>6, <2>7
<1>2. U \ C \subseteq Nodes /\ \A n \in U \ C : rg[n] \in Ranges
  BY DEF Balanced
<1> QED BY <1>1, <1>2 DEF Balanced

\* Complete chains of different nodes, no two of which share one, are balanced: each node
\* that ends below the last layer is followed by another in its chain.
LEMMA ChainsBalanced ==
  ASSUME NEW list \in Seq(Seq(Nodes)), NEW rg, Disjoint(list),
         \A i \in DOMAIN list : IsInjective(list[i]) /\ Complete(list[i], rg),
         \A i \in DOMAIN list : \A n \in Members(list[i]) : rg[n] \in Ranges
  PROVE  Balanced(UNION {Members(list[i]) : i \in DOMAIN list}, rg)
<1> DEFINE C == UNION {Members(list[i]) : i \in DOMAIN list}
           At(n, i, j) == i \in DOMAIN list /\ j \in DOMAIN list[i] /\ list[i][j] = n
<1>0. \A i \in DOMAIN list : /\ list[i] \in Seq(Nodes) /\ Len(list[i]) \in Nat /\ Len(list[i]) >= 1
                             /\ DOMAIN list[i] = 1..Len(list[i])
                             /\ \A j \in DOMAIN list[i] : list[i][j] \in Nodes
  BY DEF Complete, Linked
<1>1. \A n : n \in C <=> \E i, j : At(n, i, j)
  BY DEF Members, Range
<1>2. ASSUME NEW n, NEW i, NEW j, NEW h, NEW k, At(n, i, j), At(n, h, k)
      PROVE  i = h /\ j = k
  <2>1. n \in Members(list[i]) /\ n \in Members(list[h])
    BY <1>2 DEF Members, Range
  <2>2. i = h
    BY <1>2, <2>1 DEF Disjoint
  <2> QED BY <1>2, <2>2 DEF IsInjective
<1>3. C \subseteq Nodes
  BY <1>0, <1>1
<1>4. \A n \in C : rg[n] \in Ranges
  OBVIOUS
<1>5. \A i \in DOMAIN list : /\ rg[list[i][1]][1] = 0
                             /\ rg[list[i][Len(list[i])]][2] = NumLayers
                             /\ \A j \in 1..(Len(list[i]) - 1) : rg[list[i][j]][2] = rg[list[i][j + 1]][1]
  BY DEF Complete, Linked
<1>6. ASSUME NEW k \in 1..(NumLayers - 1)
      PROVE  Cardinality(Ends(C, rg, k)) = Cardinality(Begins(C, rg, k))
  <2> DEFINE E == Ends(C, rg, k)
             B == Begins(C, rg, k)
  <2>0. k # 0 /\ k # NumLayers
    BY NMAssumption
  <2>1. ASSUME NEW n \in E, NEW i, NEW j, At(n, i, j)
        PROVE  j \in 1..(Len(list[i]) - 1) /\ At(list[i][j + 1], i, j + 1) /\ list[i][j + 1] \in B
    <3>1. rg[n][2] = k
      BY DEF Ends
    <3>2. j # Len(list[i])
      BY <1>5, <2>0, <2>1, <3>1
    <3>3. j \in 1..(Len(list[i]) - 1) /\ j + 1 \in DOMAIN list[i]
      BY <1>0, <2>1, <3>2
    <3>4. At(list[i][j + 1], i, j + 1)
      BY <2>1, <3>3
    <3>5. rg[list[i][j + 1]][1] = k
      BY <1>5, <2>1, <3>1, <3>3
    <3>6. list[i][j + 1] \in C
      BY <1>1, <3>4
    <3> QED BY <3>3, <3>4, <3>5, <3>6 DEF Begins
  <2>2. ASSUME NEW m \in B
        PROVE  \E n \in E : \E i, j : At(n, i, j) /\ At(m, i, j + 1)
    <3>1. rg[m][1] = k /\ m \in C
      BY DEF Begins
    <3>2. PICK i, l : At(m, i, l)
      BY <1>1, <3>1
    <3>3. l # 1
      BY <1>5, <2>0, <3>1, <3>2
    <3>4. PICK j : j = l - 1
      OBVIOUS
    <3>5. j \in 1..(Len(list[i]) - 1) /\ j \in DOMAIN list[i] /\ l = j + 1
      BY <1>0, <3>2, <3>3, <3>4
    <3>6. At(list[i][j], i, j)
      BY <3>2, <3>5
    <3>7. rg[list[i][j]][2] = k
      BY <1>5, <3>1, <3>2, <3>5
    <3>8. list[i][j] \in E
      BY <1>1, <3>6, <3>7 DEF Ends
    <3> QED BY <3>2, <3>5, <3>6, <3>8
  <2> DEFINE Succ(n, m) == \E i, j : At(n, i, j) /\ At(m, i, j + 1)
             next == [n \in E |-> CHOOSE m \in B : Succ(n, m)]
  <2>3. \A n \in E : \E i, j : At(n, i, j)
    BY <1>1 DEF Ends
  <2>4. \A n \in E : \E m \in B : Succ(n, m)
    BY <2>1, <2>3
  <2>5. \A n \in E : next[n] \in B /\ Succ(n, next[n])
    BY <2>4
  <2>6. ASSUME NEW n, NEW m, NEW o, Succ(n, m), Succ(n, o) PROVE m = o
    BY <1>2, <2>6
  <2>7. ASSUME NEW n, NEW m, NEW o, Succ(n, m), Succ(o, m), n \in E, o \in E PROVE n = o
    <3>1. PICK i, j : At(n, i, j) /\ At(m, i, j + 1)
      BY <2>7
    <3>2. PICK h, l : At(o, h, l) /\ At(m, h, l + 1)
      BY <2>7
    <3>3. i = h /\ j + 1 = l + 1
      BY <1>2, <3>1, <3>2
    <3>4. j \in Nat /\ l \in Nat
      BY <1>0, <3>1, <3>2
    <3>5. j = l
      BY <3>3, <3>4
    <3> QED BY <3>1, <3>2, <3>3, <3>5
  <2>8. \A m \in B : \E n \in E : Succ(n, m)
    BY <2>2
  <2>9. next \in [E -> B]
    BY <2>5
  <2> HIDE DEF next, Succ, E, B, C
  <2>10. \A n, o \in E : next[n] = next[o] => n = o
    BY <2>5, <2>7
  <2>11. \A m \in B : \E n \in E : next[n] = m
    BY <2>5, <2>6, <2>8
  <2>12. next \in Bijection(E, B)
    BY <2>9, <2>10, <2>11 DEF Bijection, Injection, Surjection, IsInjective
  <2>13. IsFiniteSet(C)
    BY <1>3, NMAssumption, FS_Subset
  <2>14. IsFiniteSet(E)
    BY <2>13, FS_Subset DEF E, Ends
  <2>15. Cardinality(B) = Cardinality(E)
    BY <2>12, <2>14, FS_Bijection DEF ExistsBijection
  <2> QED BY <2>15 DEF E, B
<1> QED BY <1>3, <1>4, <1>6 DEF Balanced

\* Disjoint chains, chosen from a balanced set until every other chain meets one of
\* them, use up the whole set.
LEMMA NothingLeft ==
  ASSUME NEW U, NEW rg, Balanced(U, rg), NEW list \in Seq(Seq(Nodes)), Disjoint(list),
         \A i \in DOMAIN list : /\ IsInjective(list[i]) /\ Complete(list[i], rg)
                                /\ Members(list[i]) \subseteq U,
         \A p \in Stages : Members(p) \subseteq U /\ Complete(p, rg)
                             => \E i \in DOMAIN list : Members(p) \cap Members(list[i]) # {}
  PROVE  U = UNION {Members(list[i]) : i \in DOMAIN list}
<1> DEFINE C == UNION {Members(list[i]) : i \in DOMAIN list}
<1>1. C \subseteq U
  OBVIOUS
<1>2. \A i \in DOMAIN list : \A n \in Members(list[i]) : rg[n] \in Ranges
  BY DEF Balanced
<1>3. Balanced(C, rg)
  BY <1>2, ChainsBalanced
<1>4. ASSUME U \ C # {} PROVE FALSE
  <2> HIDE DEF C
  <2>1. Balanced(U \ C, rg)
    BY <1>1, <1>3, RestBalanced
  <2>2. PICK p \in Stages : Members(p) \subseteq U \ C /\ Complete(p, rg)
    BY <1>4, <2>1, BalancedHasChain
  <2>3. PICK i \in DOMAIN list : Members(p) \cap Members(list[i]) # {}
    BY <2>2
  <2> QED BY <2>2, <2>3 DEF C
<1> QED BY <1>1, <1>4

----------------------------------------------------------------------------
(***************************************************************************)
(* Who uses the layers that are held.                                      *)
(***************************************************************************)
\* The ACTIVE nodes of no pipeline, and the layers of all nodes.
Loose == Active \ DOMAIN n2p
Held == [n \in Nodes |-> obj[n].range]

\* While a plan is carried out: the loose nodes and those still to be placed make a
\* balanced set U, with the layers rg that they hold or will be given.
Covers(plan, U, rg) ==
  /\ U # {} /\ Balanced(U, rg)
  /\ \A i \in DOMAIN plan : \A j \in DOMAIN plan[i] :
       plan[i][j][1] \in U /\ rg[plan[i][j][1]] = plan[i][j][2]
Planned(plan, n) == \E i \in DOMAIN plan : \E j \in DOMAIN plan[i] : plan[i][j][1] = n
Filling(plan) ==
  \E U, rg :
    /\ Covers(plan, U, rg)
    /\ \A n \in Loose : n \in U /\ rg[n] = obj[n].range
    /\ \A n \in U : n \in Loose \/ Planned(plan, n)

\* Afterwards they hold layers that chains use up.
Filled == Loose # {} /\ Balanced(Loose, Held)

\* A plan places different nodes, in complete chains.
LEMMA PlanCovers ==
  ASSUME NEW plan \in Plans(Standby)
  PROVE  \E U, rg : Covers(plan, U, rg) /\ \A n \in U : Planned(plan, n)
<1>1. PICK k \in 1..MaxBatch : plan \in [1..k -> Placements(Standby)]
  BY DEF Plans
<1>2. \A i, j \in DOMAIN plan : i # j => PlacedNodes(plan[i]) \cap PlacedNodes(plan[j]) = {}
  BY DEF Plans
<1>3. ASSUME NEW i \in DOMAIN plan
      PROVE  /\ \E l \in 1..NumLayers : plan[i] \in [1..l -> Standby \X Ranges]
             /\ \A j, h \in DOMAIN plan[i] : plan[i][j][1] = plan[i][h][1] => j = h
             /\ plan[i][1][2][1] = 0 /\ plan[i][Len(plan[i])][2][2] = NumLayers
             /\ \A j \in 1..(Len(plan[i]) - 1) : plan[i][j][2][2] = plan[i][j + 1][2][1]
  <2>1. PICK q : q = plan[i]
    OBVIOUS
  <2>2. q \in Placements(Standby)
    BY <1>1, <2>1
  <2>3. IsInjective([j \in DOMAIN q |-> q[j][1]])
    BY <2>2 DEF Placements
  <2>4. \A j, h \in DOMAIN q : q[j][1] = q[h][1] => j = h
    BY <2>3 DEF IsInjective
  <2>5. /\ \E l \in 1..NumLayers : q \in [1..l -> Standby \X Ranges]
        /\ q[1][2][1] = 0 /\ q[Len(q)][2][2] = NumLayers
        /\ \A j \in 1..(Len(q) - 1) : q[j][2][2] = q[j + 1][2][1]
    BY <2>2 DEF Placements
  <2> QED BY <2>1, <2>4, <2>5
<1>4. ASSUME NEW i \in DOMAIN plan
      PROVE  /\ Len(plan[i]) \in Nat /\ Len(plan[i]) >= 1 /\ DOMAIN plan[i] = 1..Len(plan[i])
             /\ \A j \in DOMAIN plan[i] : plan[i][j][1] \in Nodes /\ plan[i][j][2] \in Ranges
  <2>1. PICK l \in 1..NumLayers : plan[i] \in [1..l -> Standby \X Ranges]
    BY <1>3
  <2>2. \A j \in 1..l : plan[i][j] \in Standby \X Ranges
    BY <2>1
  <2>3. l \in Nat /\ l >= 1 /\ DOMAIN plan[i] = 1..l
    BY <2>1, NMAssumption
  <2>4. Len(plan[i]) = l
    <3>1. plan[i] \in Seq(Standby \X Ranges)
      BY <2>1, <2>3
    <3> QED BY <2>3, <3>1
  <2>5. \A j \in 1..l : plan[i][j][1] \in Standby /\ plan[i][j][2] \in Ranges
    BY <2>2
  <2> QED BY <2>3, <2>4, <2>5 DEF Standby
<1> DEFINE On(n, i, j) == i \in DOMAIN plan /\ j \in DOMAIN plan[i] /\ plan[i][j][1] = n
           rg == [n \in Nodes |-> CHOOSE r : \E i, j : On(n, i, j) /\ r = plan[i][j][2]]
           list == [i \in DOMAIN plan |-> [j \in DOMAIN plan[i] |-> plan[i][j][1]]]
           U == UNION {Members(list[i]) : i \in DOMAIN list}
<1>5. ASSUME NEW n, NEW i, NEW j, NEW h, NEW l, On(n, i, j), On(n, h, l) PROVE i = h /\ j = l
  <2>1. n \in PlacedNodes(plan[i]) /\ n \in PlacedNodes(plan[h])
    BY <1>5 DEF PlacedNodes
  <2>2. i = h
    BY <1>2, <1>5, <2>1
  <2> QED BY <1>3, <1>5, <2>2
<1>6. ASSUME NEW i \in DOMAIN plan, NEW j \in DOMAIN plan[i]
      PROVE  rg[plan[i][j][1]] = plan[i][j][2] /\ plan[i][j][1] \in Nodes
  <2>1. PICK n : n = plan[i][j][1]
    OBVIOUS
  <2>2. On(n, i, j) /\ n \in Nodes
    BY <1>4, <2>1
  <2> DEFINE Is(r) == \E h, l : On(n, h, l) /\ r = plan[h][l][2]
  <2>3. Is(plan[i][j][2])
    BY <2>2
  <2>4. \A r : Is(r) => r = plan[i][j][2]
    BY <1>5, <2>2
  <2>5. rg[n] = CHOOSE r : Is(r)
    BY <2>2
  <2> HIDE DEF Is, rg
  <2>6. (CHOOSE r : Is(r)) = plan[i][j][2]
    BY <2>3, <2>4, Zenon
  <2> QED BY <2>1, <2>2, <2>5, <2>6
<1> HIDE DEF rg
<1>7. /\ DOMAIN list = 1..k /\ DOMAIN list = DOMAIN plan
      /\ \A i \in DOMAIN plan : /\ DOMAIN list[i] = DOMAIN plan[i]
                                /\ \A j \in DOMAIN plan[i] : list[i][j] = plan[i][j][1]
  BY <1>1
<1>8. \A i \in DOMAIN plan : list[i] \in Seq(Nodes) /\ Len(list[i]) = Len(plan[i])
  <2> SUFFICES ASSUME NEW i \in DOMAIN plan PROVE list[i] \in Seq(Nodes) /\ Len(list[i]) = Len(plan[i])
    OBVIOUS
  <2>1. list[i] \in [1..Len(plan[i]) -> Nodes]
    BY <1>4
  <2>2. list[i] \in Seq(Nodes)
    BY <1>4, <2>1
  <2> QED BY <1>4, <2>1, <2>2
<1>9. list \in Seq(Seq(Nodes)) /\ k \in DOMAIN plan
  <2>1. k \in Nat /\ 1 <= k
    BY NMAssumption
  <2>2. list \in [1..k -> Seq(Nodes)]
    BY <1>1, <1>8
  <2> QED BY <1>1, <2>1, <2>2
<1> HIDE DEF list
<1>10. Disjoint(list)
  <2> SUFFICES ASSUME NEW i \in DOMAIN list, NEW h \in DOMAIN list, i # h,
                      NEW n \in Members(list[i]), n \in Members(list[h])
               PROVE  FALSE
    BY DEF Disjoint
  <2>1. n \in PlacedNodes(plan[i]) /\ n \in PlacedNodes(plan[h])
    BY <1>7 DEF Members, Range, PlacedNodes
  <2> QED BY <1>2, <1>7, <2>1
<1>11. ASSUME NEW i \in DOMAIN list PROVE IsInjective(list[i]) /\ Complete(list[i], rg)
  <2>0. i \in DOMAIN plan /\ list[i] \in Seq(Nodes) /\ Len(list[i]) = Len(plan[i])
    BY <1>7, <1>8
  <2>1. IsInjective(list[i])
    BY <1>3, <1>7, <2>0 DEF IsInjective
  <2>2. \A j \in DOMAIN plan[i] : rg[list[i][j]] = plan[i][j][2]
    BY <1>6, <1>7, <2>0
  <2>3. /\ 1 \in DOMAIN plan[i] /\ Len(plan[i]) \in DOMAIN plan[i]
        /\ \A j \in 1..(Len(plan[i]) - 1) : j \in DOMAIN plan[i] /\ j + 1 \in DOMAIN plan[i]
    BY <1>4, <2>0
  <2>4. rg[list[i][1]][1] = 0 /\ rg[list[i][Len(list[i])]][2] = NumLayers
    BY <1>3, <2>0, <2>2, <2>3
  <2>5. \A j \in 1..(Len(list[i]) - 1) : rg[list[i][j]][2] = rg[list[i][j + 1]][1]
    <3>1. ASSUME NEW j \in 1..(Len(plan[i]) - 1) PROVE rg[list[i][j]][2] = rg[list[i][j + 1]][1]
      <4>1. rg[list[i][j]] = plan[i][j][2] /\ rg[list[i][j + 1]] = plan[i][j + 1][2]
        BY <2>2, <2>3
      <4>2. plan[i][j][2][2] = plan[i][j + 1][2][1]
        BY <1>3, <2>0
      <4> QED BY <4>1, <4>2
    <3> QED BY <2>0, <3>1
  <2>6. list[i] # <<>>
    BY <1>4, <2>0
  <2> QED BY <2>1, <2>4, <2>5, <2>6 DEF Complete, Linked
<1>12. \A i \in DOMAIN list : \A n \in Members(list[i]) : rg[n] \in Ranges
  BY <1>4, <1>6, <1>7 DEF Members, Range
<1>13. Balanced(U, rg)
  BY <1>9, <1>10, <1>11, <1>12, ChainsBalanced
<1>14. \A n : n \in U <=> Planned(plan, n)
  BY <1>7 DEF Members, Range, Planned
<1>15. U # {}
  <2>1. 1 \in DOMAIN plan[k]
    BY <1>4, <1>9
  <2> QED BY <1>9, <1>14, <2>1 DEF Planned
<1>16. \A i \in DOMAIN plan : \A j \in DOMAIN plan[i] : plan[i][j][1] \in U /\ rg[plan[i][j][1]] = plan[i][j][2]
  BY <1>6, <1>14 DEF Planned
<1> HIDE DEF U
<1>17. Covers(plan, U, rg)
  BY <1>13, <1>15, <1>16 DEF Covers
<1> QED BY <1>14, <1>17

\* What is not placed yet after the next node was in the plan, and only that node is
\* not there any more.
LEMMA OthersStayPlanned ==
  ASSUME NEW plan \in PlanLists, plan # <<>>, NEW n, Planned(plan, n), n # Placed(plan)[1]
  PROVE  Planned(AfterPlaced(plan), n)
<1> DEFINE head == Head(plan)
           tail == Tail(plan)
           left == AfterPlaced(plan)
<1>1. /\ plan \in Seq(Seq(Placement) \ {<<>>}) /\ Len(plan) \in Nat /\ Len(plan) # 0
      /\ 1 \in DOMAIN plan /\ head = plan[1] /\ DOMAIN plan = 1..Len(plan)
      /\ tail \in Seq(Seq(Placement) \ {<<>>}) /\ Len(tail) = Len(plan) - 1
      /\ DOMAIN tail = 1..Len(tail)
      /\ \A h \in 1..Len(tail) : tail[h] = plan[h + 1] /\ h + 1 \in DOMAIN plan
  BY DEF PlanLists
<1>2. head \in Seq(Placement) /\ head # <<>> /\ Len(head) \in Nat /\ DOMAIN head = 1..Len(head)
  BY <1>1
<1>3. Placed(plan) = head[1]
  BY <1>2 DEF Placed
<1>4. PICK i \in DOMAIN plan : \E j \in DOMAIN plan[i] : plan[i][j][1] = n
  BY DEF Planned
<1>5. PICK j \in DOMAIN plan[i] : plan[i][j][1] = n
  BY <1>4
<1>6. i # 1 => i - 1 \in DOMAIN tail /\ tail[i - 1] = plan[i]
  <2>1. i # 1 => i - 1 \in 1..Len(tail) /\ (i - 1) + 1 = i
    BY <1>1
  <2> QED BY <1>1, <2>1
<1>7. i = 1 => j \in 1..Len(head) /\ j # 1 /\ head[j][1] = n
  BY <1>1, <1>2, <1>3, <1>5
<1> HIDE DEF head, tail
<1>8. CASE Len(head) = 1
  <2>1. left = tail
    BY <1>8 DEF AfterPlaced, head, tail
  <2>2. i # 1
    BY <1>7, <1>8
  <2> QED BY <1>5, <1>6, <2>1, <2>2 DEF Planned
<1>9. CASE Len(head) # 1
  <2> DEFINE rest == Tail(head)
  <2>1. left = <<rest>> \o tail
    BY <1>9 DEF AfterPlaced, head, tail
  <2>2. /\ rest \in Seq(Placement) /\ DOMAIN rest = 1..(Len(head) - 1)
        /\ \A h \in DOMAIN rest : rest[h] = head[h + 1]
    BY <1>2
  <2> HIDE DEF rest
  <2>3. <<rest>> \in Seq(Seq(Placement)) /\ tail \in Seq(Seq(Placement))
    BY <1>1, <2>2
  <2>4. /\ DOMAIN left = 1..(Len(tail) + 1) /\ left[1] = rest
        /\ \A h \in DOMAIN tail : h + 1 \in DOMAIN left /\ left[h + 1] = tail[h]
    <3>1. /\ DOMAIN left = 1..(Len(tail) + 1) /\ left[1] = rest
          /\ \A h \in DOMAIN left : h # 1 => left[h] = tail[h - 1]
      BY <2>1, <2>3
    <3>2. ASSUME NEW h \in DOMAIN tail PROVE h + 1 \in DOMAIN left /\ left[h + 1] = tail[h]
      <4>1. PICK l : l = h + 1
        OBVIOUS
      <4>0. h \in 1..Len(tail) /\ Len(tail) \in Int
        BY <1>1
      <4>2. l \in 1..(Len(tail) + 1) /\ l # 1 /\ l - 1 = h
        BY <4>0, <4>1
      <4>3. l \in DOMAIN left
        BY <3>1, <4>2
      <4> QED BY <3>1, <4>1, <4>2, <4>3
    <3> QED BY <3>1, <3>2
  <2>5. CASE i = 1
    <3>1. PICK h : h = j - 1
      OBVIOUS
    <3>2. h \in DOMAIN rest /\ rest[h] = head[j]
      <4>1. h \in 1..(Len(head) - 1) /\ h + 1 = j
        BY <1>2, <1>7, <2>5, <3>1
      <4> QED BY <2>2, <4>1
    <3>3. 1 \in DOMAIN left
      BY <1>1, <2>4
    <3> QED BY <1>7, <2>4, <2>5, <3>2, <3>3 DEF Planned
  <2>6. CASE i # 1
    <3>1. PICK h : h = i - 1
      OBVIOUS
    <3>2. h \in DOMAIN tail /\ tail[h] = plan[i]
      BY <1>6, <2>6, <3>1
    <3>3. h + 1 \in DOMAIN left /\ left[h + 1] = plan[i]
      BY <2>4, <3>2
    <3> QED BY <1>5, <3>3 DEF Planned
  <2> QED BY <2>5, <2>6
<1> QED BY <1>8, <1>9

\* A list that is chosen so that every other chain of loose nodes meets one of it.
Maximal(list) ==
  \A p \in ChainsOver(Loose) : \E i \in DOMAIN list : Members(p) \cap Members(list[i]) # {}

\* Balance is a matter of the layers of the nodes in the set.
LEMMA BalancedAlike ==
  ASSUME NEW U, NEW rg, NEW rh, Balanced(U, rg), \A n \in U : rg[n] = rh[n]
  PROVE  Balanced(U, rh)
<1>1. \A k : Ends(U, rh, k) = Ends(U, rg, k) /\ Begins(U, rh, k) = Begins(U, rg, k)
  BY DEF Ends, Begins
<1> QED BY <1>1 DEF Balanced

\* A complete chain of loose nodes is one that can be registered.
LEMMA ChainsOfLoose ==
  ASSUME TypeInv, NEW p \in Stages, Members(p) \subseteq Loose, Balanced(Loose, Held)
  PROVE  p \in ChainsOver(Loose) <=> Complete(p, Held)
<1>1. p \in Seq(Nodes)
  BY StagesAreSequences
<1>2. \A i \in DOMAIN p : p[i] \in Loose /\ p[i] \in Nodes /\ Held[p[i]] = obj[p[i]].range
  BY <1>1 DEF Members, Range, Held
<1>3. \A i \in DOMAIN p : state[p[i]] # "none" /\ obj[p[i]].range # NoRange
  BY <1>2, NMAssumption DEF Loose, Active, Balanced, Ranges
<1>4. p # <<>> => 1 \in DOMAIN p /\ Len(p) \in DOMAIN p
  BY <1>1
<1>5. \A i \in 1..(Len(p) - 1) : i \in DOMAIN p /\ i + 1 \in DOMAIN p
  BY <1>1
<1>6. (\A i \in 1..(Len(p) - 1) : obj[p[i]].range[2] = obj[p[i + 1]].range[1])
        <=> \A i \in 1..(Len(p) - 1) : Held[p[i]][2] = Held[p[i + 1]][1]
  BY <1>2, <1>5
<1> HIDE DEF Held
<1>7. Registrable(p) <=> Complete(p, Held)
  BY <1>2, <1>3, <1>4, <1>6 DEF Registrable, Complete, Linked
<1> QED BY <1>7 DEF ChainsOver

\* So there is one when an allocation has been carried out.
LEMMA FilledHasChain ==
  ASSUME TypeInv, Filled PROVE ChainsOver(Loose) # {} /\ HasFullPipeline
<1>1. PICK p \in Stages : Members(p) \subseteq Loose /\ Complete(p, Held)
  BY BalancedHasChain DEF Filled
<1>2. p \in ChainsOver(Loose)
  BY <1>1, ChainsOfLoose DEF Filled
<1>3. p \in ChainsOver(Active)
  BY <1>2 DEF ChainsOver, Loose
<1> QED BY <1>2, <1>3 DEF HasFullPipeline

\* And disjoint chains that leave no other use up all loose nodes.
LEMMA UsedUp ==
  ASSUME TypeInv, Filled, NEW list \in Seq(Seq(Nodes)), Disjoint(list), Maximal(list),
         \A i \in DOMAIN list : list[i] \in ChainsOver(Loose)
  PROVE  Loose = UNION {Members(list[i]) : i \in DOMAIN list} /\ DOMAIN list # {}
<1>1. ASSUME NEW i \in DOMAIN list
      PROVE  IsInjective(list[i]) /\ Complete(list[i], Held) /\ Members(list[i]) \subseteq Loose
  <2>1. list[i] \in Stages /\ Members(list[i]) \subseteq Loose
    BY DEF ChainsOver
  <2>2. IsInjective(list[i])
    BY <2>1 DEF Stages
  <2> QED BY <2>1, <2>2, ChainsOfLoose DEF Filled
<1>2. ASSUME NEW p \in Stages, Members(p) \subseteq Loose, Complete(p, Held)
      PROVE  \E i \in DOMAIN list : Members(p) \cap Members(list[i]) # {}
  <2>1. p \in ChainsOver(Loose)
    BY <1>2, ChainsOfLoose DEF Filled
  <2> QED BY <2>1 DEF Maximal
<1>3. Loose = UNION {Members(list[i]) : i \in DOMAIN list}
  BY <1>1, <1>2, NothingLeft DEF Filled
<1>4. DOMAIN list # {}
  BY <1>3 DEF Filled
<1> QED BY <1>3, <1>4

\* A list of a set of pipelines has all of them.
LEMMA ListsAll ==
  ASSUME NEW S \in SUBSET Stages, NEW list \in SetToSeqs(S)
  PROVE  /\ \A i \in DOMAIN list : list[i] \in S
         /\ \A p \in S : \E i \in DOMAIN list : list[i] = p
<1> DEFINE D == 1..Cardinality(S)
<1>1. IsFiniteSet(S)
  BY StagesAreFinite, FS_Subset
<1>2. Cardinality(S) \in Nat
  BY <1>1, FS_CardinalityType
<1>3. list \in [D -> S] /\ \A i, j \in D : i # j => list[i] # list[j]
  BY DEF SetToSeqs
<1>4. IsFiniteSet(D) /\ Cardinality(D) = Cardinality(S)
  <2>1. Cardinality(D) = IF 1 > Cardinality(S) THEN 0 ELSE Cardinality(S) - 1 + 1
    BY <1>2, FS_Interval
  <2>2. IsFiniteSet(D)
    BY <1>2, FS_Interval
  <2> QED BY <1>2, <2>1, <2>2
<1> HIDE DEF D
<1>5. list \in Injection(D, S)
  BY <1>3 DEF Injection, IsInjective
<1>6. list \in Surjection(D, S)
  BY <1>1, <1>4, <1>5, FS_Injection
<1> QED BY <1>3, <1>6 DEF Surjection

\* A plan that is carried out has filled its nodes.
LEMMA FilledAtLast ==
  ASSUME TypeInv, Filling(<<>>) PROVE Filled
<1>1. PICK U, rg : /\ Covers(<<>>, U, rg)
                   /\ \A n \in Loose : n \in U /\ rg[n] = obj[n].range
                   /\ \A n \in U : n \in Loose \/ Planned(<<>>, n)
  BY DEF Filling
<1>2. \A n : ~Planned(<<>>, n)
  BY DEF Planned
<1>3. U = Loose /\ Loose \subseteq Nodes
  BY <1>1, <1>2 DEF Loose, Active
<1>4. \A n \in U : rg[n] = Held[n]
  BY <1>1, <1>3 DEF Held
<1>5. Balanced(U, Held) /\ U # {}
  BY <1>1, <1>4, BalancedAlike DEF Covers
<1> QED BY <1>3, <1>5 DEF Filled

\* Writes that leave states, layers and mapping alone.
LEMMA SameUse ==
  ASSUME SameLayers
  PROVE  /\ Loose' = Loose /\ Held' = Held /\ Registered' = Registered
         /\ ChainsOver(Loose)' = ChainsOver(Loose)
         /\ DOMAIN pipes' = DOMAIN pipes /\ n2p' = n2p
<1>1. Loose' = Loose /\ Registered' = Registered
  BY DEF Loose, Registered, Active, Standby, SameLayers
<1>2. Held' = Held
  BY DEF Held, SameLayers
<1>3. ChainsOver(Loose)' = ChainsOver(Loose)
  <2>1. ASSUME NEW p \in Stages PROVE Registrable(p)' <=> Registrable(p)
    <3>1. p \in Seq(Nodes) /\ \A i \in DOMAIN p : p[i] \in Nodes
      BY StagesAreSequences
    <3>2. \A i \in DOMAIN p : state'[p[i]] = state[p[i]] /\ obj'[p[i]].range = obj[p[i]].range
      BY <3>1 DEF SameLayers
    <3>3. p # <<>> => 1 \in DOMAIN p /\ Len(p) \in DOMAIN p
      BY <3>1
    <3>4. \A i \in 1..(Len(p) - 1) : i \in DOMAIN p /\ i + 1 \in DOMAIN p
      BY <3>1
    <3>5. CASE p = <<>>
      BY <3>5 DEF Registrable
    <3>6. CASE p # <<>>
      BY <3>2, <3>3, <3>4, <3>6 DEF Registrable
    <3> QED BY <3>5, <3>6
  <2> QED BY <1>1, <2>1 DEF ChainsOver
<1> QED BY <1>1, <1>2, <1>3 DEF SameLayers

\* They keep what is said of the layers that are not used yet.
LEMMA SameUseKeeps ==
  ASSUME SameLayers, TypeInv
  PROVE  /\ Filled => Filled'
         /\ \A plan : Filling(plan) => Filling(plan)'
         /\ \A list : Maximal(list) => Maximal(list)'
<1>1. Filled => Filled'
  BY SameUse DEF Filled
<1>2. ASSUME NEW plan, Filling(plan) PROVE Filling(plan)'
  <2>1. Loose \subseteq Nodes /\ \A n \in Nodes : obj'[n].range = obj[n].range
    BY DEF Loose, Active, SameLayers
  <2> QED BY <1>2, <2>1, SameUse DEF Filling
<1>3. ASSUME NEW list, Maximal(list) PROVE Maximal(list)'
  BY <1>3, SameUse DEF Maximal
<1> QED BY <1>1, <1>2, <1>3

----------------------------------------------------------------------------
(***************************************************************************)
(* Capacities are numbers.  A capacity is a sum over a set, added up by a  *)
(* recursion over its subsets: it has a solution, since the sets get smaller, *)
(* and its values are numbers.                                             *)
(***************************************************************************)
\* The recursion on the subsets of a set, or on the small ones of them.
First(s) == CHOOSE x \in s : TRUE
Adds(f, D) == f = [s \in D |-> IF s = {} THEN 0 ELSE Cap[First(s)] + f[s \ {First(s)}]]
SmallerThan(S, k) == {s \in SUBSET S : Cardinality(s) < k}

\* It has a solution on the subsets of one element more, and so on all of them.
LEMMA AddsExists ==
  ASSUME NEW S \in SUBSET Nodes
  PROVE  \E f : Adds(f, SUBSET S)
<1> DEFINE Solved(k) == \E f : Adds(f, SmallerThan(S, k))
           T == {k \in Nat : ~Solved(k)}
<1>1. IsFiniteSet(S) /\ \A s \in SUBSET S : IsFiniteSet(s) /\ Cardinality(s) \in Nat
  BY NMAssumption, FS_Subset, FS_CardinalityType
<1>2. ASSUME NEW s \in SUBSET S, s # {}
      PROVE  /\ First(s) \in s /\ s \ {First(s)} \in SUBSET S
             /\ Cardinality(s \ {First(s)}) = Cardinality(s) - 1
  <2>1. First(s) \in s
    BY <1>2 DEF First
  <2>2. Cardinality(s \ {First(s)}) = Cardinality(s) - 1
    BY <1>1, <2>1, FS_RemoveElement
  <2> QED BY <2>1, <2>2
<1>3. Solved(0)
  <2> DEFINE f == [s \in {} |-> IF s = {} THEN 0 ELSE 0]
  <2>1. SmallerThan(S, 0) = {}
    BY <1>1 DEF SmallerThan
  <2>2. Adds(f, {})
    BY DEF Adds
  <2> QED BY <2>1, <2>2
<1>4. ASSUME NEW k \in Nat, Solved(k) PROVE Solved(k + 1)
  <2>1. PICK g : Adds(g, SmallerThan(S, k))
    BY <1>4
  <2> DEFINE D == SmallerThan(S, k + 1)
             h == [s \in D |-> IF s = {} THEN 0 ELSE Cap[First(s)] + g[s \ {First(s)}]]
  <2>2. ASSUME NEW s \in D, s # {} PROVE s \ {First(s)} \in SmallerThan(S, k)
    <3>1. s \in SUBSET S /\ Cardinality(s) \in Nat /\ Cardinality(s) < k + 1
      BY <1>1 DEF SmallerThan
    <3>2. Cardinality(s) - 1 < k
      BY <3>1
    <3> QED BY <1>2, <2>2, <3>1, <3>2 DEF SmallerThan
  <2>3. \A s \in SmallerThan(S, k) : s \in D
    BY <1>1 DEF SmallerThan
  <2>4. ASSUME NEW s \in SmallerThan(S, k) PROVE h[s] = g[s]
    <3>1. g[s] = IF s = {} THEN 0 ELSE Cap[First(s)] + g[s \ {First(s)}]
      BY <2>1, <2>4 DEF Adds
    <3> QED BY <2>3, <3>1
  <2>5. \A s \in D : h[s] = IF s = {} THEN 0 ELSE Cap[First(s)] + h[s \ {First(s)}]
    BY <2>2, <2>4
  <2>6. h = [s \in D |-> h[s]]
    OBVIOUS
  <2> HIDE DEF h, D
  <2>7. h = [s \in D |-> IF s = {} THEN 0 ELSE Cap[First(s)] + h[s \ {First(s)}]]
    BY <2>5, <2>6
  <2>8. Adds(h, D)
    BY <2>7 DEF Adds
  <2> QED BY <2>8 DEF D
<1> HIDE DEF Solved
<1>5. T = {}
  <2> SUFFICES ASSUME T # {} PROVE FALSE
    OBVIOUS
  <2>1. PICK k \in T : \A l \in T : k <= l
    BY Least
  <2>2. k \in Nat /\ k # 0 /\ ~Solved(k)
    BY <1>3, <2>1
  <2>3. PICK l : l = k - 1
    OBVIOUS
  <2>4. l \in Nat /\ ~(k <= l) /\ k = l + 1
    BY <2>2, <2>3
  <2>5. Solved(l)
    BY <2>1, <2>4
  <2> QED BY <1>4, <2>2, <2>4, <2>5
<1>6. SmallerThan(S, Cardinality(S) + 1) = SUBSET S
  <2>1. \A s \in SUBSET S : Cardinality(s) <= Cardinality(S)
    BY <1>1, FS_Subset
  <2>2. \A s \in SUBSET S : Cardinality(s) < Cardinality(S) + 1
    BY <1>1, <2>1
  <2> QED BY <2>2 DEF SmallerThan
<1>7. Solved(Cardinality(S) + 1)
  BY <1>1, <1>5
<1> QED BY <1>6, <1>7 DEF Solved

\* The solution is a number for every subset.
LEMMA AddsUp ==
  ASSUME NEW S \in SUBSET Nodes, NEW f, Adds(f, SUBSET S)
  PROVE  f[{}] = 0 /\ \A s \in SUBSET S : f[s] \in Nat
<1>1. IsFiniteSet(S) /\ \A s \in SUBSET S : IsFiniteSet(s) /\ Cardinality(s) \in Nat
  BY NMAssumption, FS_Subset, FS_CardinalityType
<1>2. \A s \in SUBSET S : f[s] = IF s = {} THEN 0 ELSE Cap[First(s)] + f[s \ {First(s)}]
  BY DEF Adds
<1> DEFINE T == {Cardinality(s) : s \in {r \in SUBSET S : f[r] \notin Nat}}
<1>3. T = {}
  <2> SUFFICES ASSUME T # {} PROVE FALSE
    OBVIOUS
  <2>1. T \subseteq Nat
    BY <1>1
  <2>2. PICK k \in T : \A l \in T : k <= l
    BY <2>1, Least
  <2>3. PICK s \in SUBSET S : f[s] \notin Nat /\ k = Cardinality(s)
    BY <2>2
  <2>4. s # {}
    <3>1. f[{}] = 0 /\ {} \in SUBSET S
      BY <1>2
    <3>2. f[s] # 0
      BY <2>3
    <3> QED BY <3>1, <3>2
  <2>5. First(s) \in s
    BY <2>4 DEF First
  <2>6. PICK r : r = s \ {First(s)}
    OBVIOUS
  <2>7. r \in SUBSET S /\ Cardinality(r) = Cardinality(s) - 1
    BY <1>1, <2>5, <2>6, FS_RemoveElement
  <2>8. Cardinality(r) \notin T
    BY <1>1, <2>2, <2>3, <2>7
  <2>9. f[r] \in Nat
    BY <2>7, <2>8
  <2>10. Cap[First(s)] \in Nat
    BY <2>5, CSAssumption
  <2>11. f[s] = Cap[First(s)] + f[r]
    BY <1>2, <2>4, <2>6
  <2> QED BY <2>3, <2>9, <2>10, <2>11
<1> QED BY <1>2, <1>3

\* So a capacity is a number, and that of no nodes is 0.
LEMMA CapacityType ==
  ASSUME NEW S \in SUBSET Nodes PROVE Capacity(S) \in Nat /\ (S = {} => Capacity(S) = 0)
<1> DEFINE iter == CHOOSE f : Adds(f, SUBSET S)
<1>1. Adds(iter, SUBSET S)
  <2> DEFINE A(f) == Adds(f, SUBSET S)
  <2>1. \E f : A(f)
    BY AddsExists
  <2> HIDE DEF A
  <2>2. A(CHOOSE f : A(f))
    BY <2>1, Zenon
  <2> QED BY <2>2 DEF A
<1>2. Capacity(S) = iter[S]
  BY DEF Capacity, FoldSet, MapThenFoldSet, Adds, First
<1> HIDE DEF iter
<1>3. iter[{}] = 0 /\ iter[S] \in Nat
  BY <1>1, AddsUp
<1> QED BY <1>2, <1>3

----------------------------------------------------------------------------
(***************************************************************************)
(* What the registry knows of its nodes.                                   *)
(***************************************************************************)
\* Every worker reports RTTs, and none that it is overloaded.
Healthy == \A rep \in Reports : rep.rtt /\ ~rep.over

\* The registry then knows RTTs of all its nodes, and no overload.
Known == \A n \in Nodes : state[n] # "none" => obj[n].rtt /\ ~obj[n].over

\* Registered objects are made from reports, and updated from them.
LEMMA KnownNext ==
  ASSUME Healthy, TypeInv, Known, [Next]_vars PROVE Known'
<1>0. /\ state \in [Nodes -> {"none", "standby", "active"}] /\ obj \in [Nodes -> NodeObj]
  BY DEF TypeInv, LocalsInv, NMTypeOK
<1> DEFINE Good(o) == o.rtt /\ ~o.over
           Keeps == \A n \in Nodes : state[n] # "none" /\ Good(obj[n]) => Good(obj'[n]) \/ state'[n] = "none"
<1>1. CASE ProcessJoin
  <2>1. CASE UNCHANGED registry
    BY <2>1 DEF registry, Known
  <2>2. CASE ~UNCHANGED registry
    <3>1. PICK j \in joinQ : Upsert(j.node, j.report)
      BY <1>1, <2>2 DEF ProcessJoin
    <3>2. j.node \in Nodes /\ j.report \in Reports
      BY DEF TypeInv, LocalsInv, QueueType
    <3>3. obj' = [obj EXCEPT ![j.node] = FromReport(j.report)]
      BY <3>1 DEF Upsert
    <3>4. \A n \in Nodes : n # j.node => state'[n] = state[n] /\ obj'[n] = obj[n]
      BY <1>0, <3>1, <3>3 DEF Upsert
    <3>5. obj'[j.node] = FromReport(j.report)
      BY <1>0, <3>2, <3>3
    <3>6. Good(obj'[j.node])
      BY <3>2, <3>5 DEF Healthy, FromReport
    <3> QED BY <3>4, <3>6 DEF Known
  <2> QED BY <2>1, <2>2
<1>2. CASE ~ProcessJoin
  <2>0. \A n \in Nodes : state[n] = "none" => state'[n] = "none"
    BY <1>2, OnlyJoinsEnrol
  <2>1. ASSUME NEW ids, ClearServing(ids) PROVE Keeps
    BY <1>0, <2>1 DEF ClearServing, Cleared, NodeObj
  <2>2. ASSUME ProcessUpdates PROVE Keeps
    <3>1. UpdateInfo(updQ) /\ updQ \in [DOMAIN updQ -> Reports]
      BY <2>2 DEF ProcessUpdates, TypeInv, LocalsInv, QueueType
    <3>2. \A n \in DOMAIN updQ : updQ[n] \in Reports
      BY <3>1
    <3>3. ASSUME NEW n \in Nodes, Good(obj[n]) PROVE Good(obj'[n])
      <4>1. CASE n \in DOMAIN updQ /\ state[n] # "none"
        <5>1. obj'[n] = [FromReport(updQ[n]) EXCEPT !.range = obj[n].range]
          BY <3>1, <4>1 DEF UpdateInfo
        <5> QED BY <3>2, <4>1, <5>1 DEF FromReport, Healthy
      <4>2. CASE ~(n \in DOMAIN updQ /\ state[n] # "none")
        BY <3>1, <3>3, <4>2 DEF UpdateInfo
      <4> QED BY <4>1, <4>2
    <3> QED BY <3>3
  <2>3. ASSUME AllocateNext PROVE Keeps
    <3>1. PICK n, r : Allocate(n, r) \/ AllocateFailed(n, r)
      BY <2>3 DEF AllocateNext
    <3>2. CASE Allocate(n, r)
      BY <1>0, <3>2 DEF Allocate, NodeObj
    <3>3. CASE AllocateFailed(n, r)
      BY <1>0, <3>3 DEF AllocateFailed, NodeObj
    <3> QED BY <3>1, <3>2, <3>3
  <2>4. ASSUME ProcessLeave PROVE Keeps
    <3>1. CASE UNCHANGED registry
      BY <3>1 DEF registry
    <3>2. CASE ~UNCHANGED registry
      <4>1. PICK n \in leaveQ : RemoveNode(n)
        BY <2>4, <3>2 DEF ProcessLeave
      <4>2. obj' = [m \in Nodes |-> IF m = n THEN Blank
                                    ELSE IF m \in (IF OwnPipe(n) THEN StoodBy(n) ELSE {}) /\ ~RemoveRaises(n)
                                           THEN Cleared(obj[m]) ELSE obj[m]]
        BY <4>1 DEF RemoveNode
      <4>3. state'[n] = "none" \/ n \notin Nodes
        BY <4>1 DEF RemoveNode
      <4>4. \A m \in Nodes : m # n => obj'[m] = Cleared(obj[m]) \/ obj'[m] = obj[m]
        BY <4>2
      <4>5. \A m \in Nodes : Good(obj[m]) => Good(Cleared(obj[m]))
        BY <1>0 DEF Cleared, NodeObj
      <4> QED BY <4>3, <4>4, <4>5
    <3> QED BY <3>1, <3>2
  <2>5. ASSUME UnloadAll PROVE Keeps
    BY <2>1, <2>5 DEF UnloadAll
  <2>6. ASSUME \E t \in Threads : RouterUnload(t) PROVE Keeps
    BY <2>1, <2>6 DEF RouterUnload
  <2>7. ASSUME ChargeNext PROVE Keeps
    <3>1. CASE AddRequestRaises(Head(disp.path))
      BY <2>7, <3>1 DEF ChargeNext, registry
    <3>2. CASE ~AddRequestRaises(Head(disp.path))
      <4>1. PICK n, over : AddRequest(n, over) /\ over \in BOOLEAN
        BY <2>7, <3>2 DEF ChargeNext
      <4>2. over \in {obj[n].over} \cup {rep.over : rep \in Reports} /\ obj' = [obj EXCEPT ![n].over = over]
        BY <4>1 DEF AddRequest
      <4>3. ASSUME NEW m \in Nodes, Good(obj[m]) PROVE Good(obj'[m])
        <5>1. CASE m = n
          <6>1. over = FALSE
            BY <4>2, <4>3, <5>1 DEF Healthy
          <6>2. obj'[m] = [obj[m] EXCEPT !.over = over]
            BY <1>0, <4>2, <5>1
          <6> QED BY <1>0, <4>3, <6>1, <6>2 DEF NodeObj
        <5>2. CASE m # n
          BY <1>0, <4>2, <4>3, <5>2
        <5> QED BY <5>1, <5>2
      <4> QED BY <4>3
    <3> QED BY <3>1, <3>2
  <2>8. ASSUME \E n \in Nodes : Silence(n) PROVE Keeps
    <3>1. PICK n \in Nodes : Expire(n)
      BY <2>8 DEF Silence
    <3> QED BY <1>0, <3>1 DEF Expire, NodeObj
  <2>9. ASSUME ~ProcessUpdates, ~AllocateNext, ~ProcessLeave, ~UnloadAll, ~ChargeNext,
               ~ \E t \in Threads : RouterUnload(t), ~ \E n \in Nodes : Silence(n)
        PROVE  Keeps
    <3>1. ASSUME NEW t \in Threads, Router(t) PROVE UNCHANGED obj
      BY <2>9, <3>1 DEF Router, RouterExisting, RouterKeys, RouterClear, StandbyLocked, RouterReset,
           ResetRegistry, RouterSelect, RouterRegister, RegisterPipelines, registry
    <3>2. CASE Router("event") \/ Router("dispatcher")
      BY <3>1, <3>2 DEF Threads
    <3>3. CASE ~Router("event") /\ ~Router("dispatcher")
      <4>1. UNCHANGED obj
        BY <1>2, <2>9, <3>3
           DEF Next, EventThread, JoinsDone, PlanAllocation, AllocationDone, FilterNewPipelines,
               ExtendPipelines, ExtendRegistered, LeavesDone, StandbyAll, StandbyLocked, Reboot,
               CheckHeartbeats, SkipHeartbeats, Dispatcher, AwaitRequest, AwaitTimeout, TakeRequest,
               SnapshotAgain, ResolvePath, ReceiveRequest, Worker, Start, Announcer, JoinAnswered,
               Heartbeat, HeartbeatUnknown, RejoinAnswered, JoinTimeout, Load, Crash, Shutdown,
               vars, registry
      <4> QED BY <4>1
    <3> QED BY <3>2, <3>3
  <2>10. Keeps
    BY <2>2, <2>3, <2>4, <2>5, <2>6, <2>7, <2>8, <2>9
  <2> QED BY <2>0, <2>10 DEF Known
<1> QED BY <1>1, <1>2

----------------------------------------------------------------------------
(***************************************************************************)
(* All layers are in use but between an allocation and its registration, and *)
(* nothing is registered but when the nodes are too few.                   *)
(***************************************************************************)
\* The points at which nodes hold layers that no pipeline uses yet.
Placing == ev.pc = "allocate"
Joining == \/ ev.pc \in {"filter", "extend"}
           \/ rt["event"].pc \in {"existing", "select", "register"}
Usage ==
  /\ ~Placing /\ ~Joining => Loose = {}
  /\ Placing => Filling(ev.plan)
  /\ Joining => Filled
  /\ ev.ctx = "expand" /\ ev.pc \in {"allocate", "filter"} => ev.before = DOMAIN n2p
  /\ ev.pc = "extend" => /\ Maximal(ev.sel)
                         /\ \A i \in DOMAIN ev.sel : Members(ev.sel[i]) \cap DOMAIN n2p = {}
  /\ rt["event"].pc = "register" => Maximal(rt["event"].sel)

\* With nothing registered, the nodes are too few, unless the pass has yet to deal with
\* the joins and leaves that it has processed.
TooSmall == \/ Capacity(Registered) < NumLayers
            \/ ~bootstrapped /\ Cardinality(Registered) < MinNodes
IdleOK == DOMAIN pipes = {} => TooSmall
Idling ==
  /\ ev.pc \in {"updates", "heartbeat"} => IdleOK
  /\ ev.pc = "joins" /\ (~ev.joined \/ bootstrapped) => IdleOK
  /\ ev.pc = "leaves" /\ ~ev.removed => IdleOK

InUse == Usage /\ Idling

\* A step to a point at which all layers are in use.
LEMMA AllUsed ==
  ASSUME Loose' = {}, ev'.pc \notin {"allocate", "filter", "extend"},
         rt'["event"].pc \notin {"existing", "select", "register"}
  PROVE  Usage'
  BY DEF Usage, Placing, Joining

\* A step to a point at which nothing is said of a swarm at rest.
LEMMA NotIdle ==
  ASSUME ev'.pc \notin {"updates", "heartbeat", "joins", "leaves"} PROVE Idling'
  BY DEF Idling

\* What is idle stays so if nothing is registered, enrolled or bootstrapped.
LEMMA SameIdle ==
  ASSUME IdleOK, SameLayers, UNCHANGED bootstrapped PROVE IdleOK'
<1>1. Registered' = Registered /\ DOMAIN pipes' = DOMAIN pipes
  BY SameUse
<1> QED BY <1>1 DEF IdleOK, TooSmall

\* With nothing registered nothing is mapped, so if all layers are in use all nodes
\* are STANDBY.
LEMMA NothingActive ==
  ASSUME TypeInv, Loose = {}, DOMAIN pipes = {}
  PROVE  Active = {} /\ Registered = Standby /\ ~HasFullPipeline
<1>1. DOMAIN n2p = {}
  BY DEF TypeInv, RegistryInv, MappedRegistered
<1>2. Active = {}
  BY <1>1 DEF Loose
<1>3. ~HasFullPipeline
  <2> SUFFICES ASSUME NEW p \in ChainsOver(Active) PROVE FALSE
    BY DEF HasFullPipeline
  <2>1. p \in Seq(Nodes) /\ Members(p) \subseteq {} /\ p # <<>>
    BY <1>2, StagesAreSequences DEF ChainsOver, Registrable
  <2> QED BY <2>1 DEF Members, Range
<1> QED BY <1>2, <1>3 DEF Registered

\* Where an operation returns to.
LEMMA ResumeUse ==
  ASSUME TypeInv, NEW ok \in BOOLEAN, ev.ctx # "none", ev' = Resume(ok), Loose' = {},
         rt'["event"].pc = "idle", IdleOK'
  PROVE  InUse'
<1>1. ev'.pc \in {"joins", "leaves", "heartbeat", "dead"}
  BY ResumeType DEF TypeInv, LocalsInv, EvType
<1> QED BY <1>1, AllUsed DEF InUse, Idling

\* The event thread and its router stay where they are.
LEMMA ElsewhereUse ==
  ASSUME TypeInv, InUse, SameLayers, UNCHANGED <<ev, bootstrapped>>, rt'["event"] = rt["event"]
  PROVE  InUse'
<1>1. Idling'
  BY SameIdle DEF InUse, Idling
<1>2. /\ Loose' = Loose /\ n2p' = n2p /\ (Filled => Filled')
      /\ \A plan : Filling(plan) => Filling(plan)'
      /\ \A list : Maximal(list) => Maximal(list)'
  BY SameUse, SameUseKeeps
<1>3. ev.pc = "extend" => Maximal(ev.sel)'
  BY <1>2 DEF InUse, Usage
<1>4. rt["event"].pc = "register" => Maximal(rt["event"].sel)'
  BY <1>2 DEF InUse, Usage
<1>5. Placing => Filling(ev.plan)'
  BY <1>2 DEF InUse, Usage
<1>6. Usage'
  <2>1. Placing' = Placing /\ Joining' = Joining
    BY DEF Placing, Joining
  <2>2. Placing' => Filling(ev.plan)'
    BY <1>5, <2>1
  <2>3. ev'.pc = "extend" => Maximal(ev.sel)'
    BY <1>3
  <2>4. rt'["event"].pc = "register" => Maximal(rt["event"].sel)'
    <3>1. PICK l : l = rt["event"].sel
      OBVIOUS
    <3>2. rt["event"].pc = "register" => Maximal(l)'
      BY <1>2, <3>1 DEF InUse, Usage
    <3>3. l = rt'["event"].sel
      BY <3>1
    <3> QED BY <3>2, <3>3 DEF Maximal
  <2>5. /\ ~Placing' /\ ~Joining' => Loose' = {}
        /\ Joining' => Filled'
    BY <1>2, <2>1 DEF InUse, Usage
  <2>6. ev'.ctx = "expand" /\ ev'.pc \in {"allocate", "filter"} => ev'.before = DOMAIN n2p'
    BY <1>2 DEF InUse, Usage
  <2>7. ev'.pc = "extend" => \A i \in DOMAIN ev'.sel : Members(ev'.sel[i]) \cap DOMAIN n2p' = {}
    BY <1>2 DEF InUse, Usage
  <2> QED BY <2>2, <2>3, <2>4, <2>5, <2>6, <2>7 DEF Usage
<1> QED BY <1>1, <1>6 DEF InUse

\* Heartbeats change neither layers nor who is registered.
LEMMA ProcessUpdatesUse == ASSUME TypeInv, Undisturbed, InUse, ProcessUpdates PROVE InUse'
<1>1. SameLayers
  <2>1. \A n \in Nodes : obj'[n].range = obj[n].range
    BY DEF ProcessUpdates, UpdateInfo, FromReport
  <2> QED BY <2>1 DEF SameLayers, ProcessUpdates, UpdateInfo
<1>2. ev'.pc = "joins" /\ ev.pc = "updates" /\ UNCHANGED <<rt, bootstrapped>>
  BY DEF ProcessUpdates, TypeInv, LocalsInv, EvType, EvRecord
<1>3. rt["event"].pc = "idle"
  BY <1>2, Now
<1>4. Loose = {} /\ IdleOK
  BY <1>2, <1>3 DEF InUse, Usage, Placing, Joining, Idling
<1>5. Loose' = {} /\ IdleOK'
  BY <1>1, <1>2, <1>4, SameUse, SameIdle
<1> QED BY <1>2, <1>3, <1>5, AllUsed DEF InUse, Idling

\* A node that joins has no layers; once bootstrapped, it starts an expansion.
LEMMA ProcessJoinUse ==
  ASSUME TypeInv, Pending, Undisturbed, InUse, ProcessJoin PROVE InUse'
<1>1. PICK j \in joinQ :
        /\ Upsert(j.node, j.report) /\ DropObject(j.node)
        /\ state[j.node] = "none" /\ j.node \in Nodes
        /\ ev' = IF Expands(j.node)
                    THEN [ev EXCEPT !.joined = TRUE, !.pc = "plan", !.ctx = "expand"]
                    ELSE [ev EXCEPT !.joined = TRUE]
  BY DEF ProcessJoin, Pending, TypeInv, LocalsInv, QueueType
<1>2. rt'["event"] = rt["event"]
  BY <1>1, DropType DEF TypeInv, RegistryInv, LocalsInv
<1>3. ev.pc = "joins" /\ ev \in EvRecord /\ rt["event"].pc = "idle" /\ UNCHANGED bootstrapped
  BY Now DEF ProcessJoin
<1>4. Loose = {}
  BY <1>3 DEF InUse, Usage, Placing, Joining
<1>5. Loose' = {}
  <2>1. state' = [state EXCEPT ![j.node] = "standby"] /\ n2p' = n2p
    BY <1>1 DEF Upsert
  <2>2. state \in [Nodes -> {"none", "standby", "active"}]
    BY DEF TypeInv, RegistryInv, Shape
  <2>3. Active' \subseteq Active
    BY <2>1, <2>2 DEF Active
  <2> QED BY <1>4, <2>1, <2>3 DEF Loose
<1>6. CASE bootstrapped
  <2>1. ev'.pc = "plan"
    BY <1>1, <1>3, <1>6 DEF Expands, EvRecord
  <2> QED BY <1>2, <1>3, <1>5, <2>1, AllUsed, NotIdle DEF InUse
<1>7. CASE ~bootstrapped
  <2>1. ev'.pc = "joins" /\ ev'.joined
    BY <1>1, <1>3, <1>7 DEF Expands, EvRecord
  <2> QED BY <1>2, <1>3, <1>5, <1>7, <2>1, AllUsed DEF InUse, Idling
<1> QED BY <1>6, <1>7

\* After the last join a bootstrap is tried, unless the nodes are too few.
LEMMA JoinsDoneUse == ASSUME TypeInv, Undisturbed, InUse, JoinsDone PROVE InUse'
<1>1. SameLayers /\ ev.pc = "joins" /\ UNCHANGED <<bootstrapped, rt>>
  BY NoCall DEF JoinsDone
<1>2. rt["event"].pc = "idle"
  BY <1>1, Now
<1>3. Loose = {} /\ Loose' = {}
  BY <1>1, <1>2, SameUse DEF InUse, Usage, Placing, Joining
<1>4. CASE ev.joined /\ ~bootstrapped /\ Cardinality(Standby) >= MinNodes
  <2>1. ev'.pc = "plan"
    BY <1>4, EvStarts DEF JoinsDone, EvPcs, Contexts
  <2> QED BY <1>1, <1>2, <1>3, <2>1, AllUsed, NotIdle DEF InUse
<1>5. CASE ~(ev.joined /\ ~bootstrapped /\ Cardinality(Standby) >= MinNodes)
  <2>1. ev'.pc = "leaves"
    BY <1>5, EvStarts DEF JoinsDone, EvPcs, Contexts
  <2>2. IdleOK
    <3>1. CASE ~ev.joined \/ bootstrapped
      BY <1>1, <3>1 DEF InUse, Idling
    <3>2. CASE ev.joined /\ ~bootstrapped
      <4>1. ~(Cardinality(Standby) >= MinNodes)
        BY <1>5, <3>2
      <4>2. Cardinality(Standby) \in Nat /\ MinNodes \in Nat
        <5>1. IsFiniteSet(Standby)
          BY NMAssumption, FS_Subset DEF Standby
        <5> QED BY <5>1, FS_CardinalityType, CSAssumption
      <4>3. Cardinality(Standby) < MinNodes
        BY <4>1, <4>2
      <4>4. DOMAIN pipes = {} => Registered = Standby
        BY <1>3, NothingActive
      <4> QED BY <3>2, <4>3, <4>4 DEF IdleOK, TooSmall
    <3> QED BY <1>5, <3>1, <3>2
  <2>3. IdleOK'
    BY <1>1, <2>2, SameIdle
  <2> QED BY <1>1, <1>2, <1>3, <2>1, <2>3, AllUsed DEF InUse, Idling
<1> QED BY <1>4, <1>5

\* It plans to fill a balanced set of nodes, or their capacity is too small.
LEMMA PlanAllocationUse ==
  ASSUME TypeInv, Undisturbed, InUse, PlanAllocation PROVE InUse'
<1>1. /\ SameLayers /\ ev.pc = "plan" /\ ev.ctx # "none" /\ ev \in EvRecord /\ UNCHANGED rt
      /\ UNCHANGED registry
  BY NoCall DEF PlanAllocation, TypeInv, LocalsInv, Control, EvType
<1>2. rt["event"].pc = "idle" /\ Serve
  BY <1>1, Now DEF Undisturbed
<1>3. Loose = {} /\ Loose' = {}
  BY <1>1, <1>2, SameUse DEF InUse, Usage, Placing, Joining
<1>4. CASE Capacity(Standby) >= NumLayers
  <2>1. PICK plan \in Plans(Standby) :
          ev' = [ev EXCEPT !.pc = "allocate", !.plan = plan,
                           !.before = IF ev.ctx = "expand" THEN Active ELSE {}]
    BY <1>4 DEF PlanAllocation
  <2>2. ev'.pc = "allocate" /\ ev'.ctx = ev.ctx /\ ev'.plan = plan
    BY <1>1, <2>1 DEF EvRecord
  <2>3. Filling(plan)'
    <3>1. PICK U, rg : Covers(plan, U, rg) /\ \A n \in U : Planned(plan, n)
      BY PlanCovers
    <3> QED BY <1>3, <3>1 DEF Filling
  <2>4. Filling(ev.plan)'
    BY <2>2, <2>3 DEF Filling
  <2>5. ev.ctx = "expand" => ev'.before = DOMAIN n2p'
    <3>1. ev.ctx = "expand" => ev'.before = Active
      BY <1>1, <2>1 DEF EvRecord
    <3>2. Active = DOMAIN n2p
      BY <1>2, <1>3, MappedAreActive DEF Loose
    <3> QED BY <1>1, <3>1, <3>2 DEF SameLayers
  <2>6. Usage'
    BY <1>1, <1>2, <1>3, <2>2, <2>4, <2>5 DEF Usage, Placing, Joining
  <2> QED BY <2>2, <2>6, NotIdle DEF InUse
<1>5. CASE ~(Capacity(Standby) >= NumLayers)
  <2>1. ev' = Resume(TRUE)
    BY <1>5 DEF PlanAllocation
  <2>2. IdleOK'
    <3>1. ASSUME DOMAIN pipes' = {} PROVE Capacity(Registered)' < NumLayers
      <4>1. DOMAIN pipes = {}
        BY <1>1, <3>1 DEF SameLayers
      <4>2. Registered' = Standby
        BY <1>1, <1>3, <4>1, NothingActive, SameUse
      <4>3. Capacity(Standby) \in Nat
        BY CapacityType DEF Standby
      <4>4. Capacity(Standby) < NumLayers
        BY <1>5, <4>3, NMAssumption
      <4> QED BY <4>2, <4>4
    <3> QED BY <3>1 DEF IdleOK, TooSmall
  <2> QED BY <1>1, <1>2, <1>3, <2>1, <2>2, ResumeUse
<1> QED BY <1>4, <1>5

\* A node that is placed is one of those that the plan is to fill.
LEMMA AllocateNextUse == ASSUME TypeInv, Undisturbed, InUse, AllocateNext PROVE InUse'
<1> DEFINE n == Placed(ev.plan)[1]
           r == Placed(ev.plan)[2]
           left == AfterPlaced(ev.plan)
<1>0. /\ ev \in EvRecord /\ Sound /\ rt["event"].pc = "idle" /\ ev.pc = "allocate"
      /\ ev.plan \in PlanLists /\ ev.plan # <<>>
  BY Now DEF AllocateNext, EvRecord
<1>1. n \in Nodes /\ r \in Ranges /\ r # NoRange
  BY <1>0, TailOfPlan, NMAssumption DEF Placement, Ranges
<1>2. state \in [Nodes -> {"none", "standby", "active"}] /\ obj \in [Nodes -> NodeObj]
  BY DEF TypeInv, LocalsInv, NMTypeOK
<1>3. /\ Placed(ev.plan) = ev.plan[1][1] /\ 1 \in DOMAIN ev.plan /\ 1 \in DOMAIN ev.plan[1]
  BY <1>0 DEF Placed, PlanLists
<1>4. n \notin DOMAIN n2p
  BY <1>0, <1>3 DEF Undisturbed, Chosen, PlanIsFree
<1>5. Allocate(n, r) /\ ev' = [ev EXCEPT !.plan = AfterPlaced(@)]
  <2>1. ~(state[n] # "none" /\ AllocateRaises(n))
    BY <1>0, <1>1, <1>2 DEF AllocateRaises, Sound, Settled
  <2> QED BY <2>1 DEF AllocateNext, AllocateFailed
<1>6. /\ ev'.pc = "allocate" /\ ev'.ctx = ev.ctx /\ ev'.plan = left /\ ev'.before = ev.before
      /\ UNCHANGED rt
  BY <1>0, <1>5 DEF EvRecord, AllocateNext
<1>7. /\ UNCHANGED <<pipes, n2p>> /\ state'[n] = "active" /\ obj'[n].range = r
      /\ \A m \in Nodes : m # n => state'[m] = state[m] /\ obj'[m] = obj[m]
  <2>1. obj[n] \in NodeObj
    BY <1>1, <1>2
  <2>2. obj'[n] = [obj[n] EXCEPT !.range = r, !.over = obj[n].over /\ obj[n].range = NoRange]
    BY <1>1, <1>2, <1>5 DEF Allocate
  <2>3. obj'[n].range = r
    BY <2>1, <2>2 DEF NodeObj
  <2> HIDE DEF r
  <2> QED BY <1>1, <1>2, <1>5, <2>3 DEF Allocate
<1>8. PICK U, rg : /\ Covers(ev.plan, U, rg)
                   /\ \A m \in Loose : m \in U /\ rg[m] = obj[m].range
                   /\ \A m \in U : m \in Loose \/ Planned(ev.plan, m)
  BY <1>0 DEF InUse, Usage, Placing, Filling
<1>9. n \in U /\ rg[n] = r
  BY <1>3, <1>8 DEF Covers
<1>10. ASSUME NEW i \in DOMAIN left, NEW j \in DOMAIN left[i]
       PROVE  left[i][j][1] \in U /\ rg[left[i][j][1]] = left[i][j][2]
  <2>1. PICK a \in DOMAIN ev.plan : \E b \in DOMAIN ev.plan[a] : ev.plan[a][b] = left[i][j]
    BY <1>0, AfterPlacedWasThere
  <2> HIDE DEF left
  <2> QED BY <1>8, <2>1 DEF Covers
<1>11. \A m \in U : m \in Nodes
  BY <1>8 DEF Covers, Balanced
<1>12. ASSUME NEW m, Planned(ev.plan, m), m # n PROVE Planned(left, m)
  BY <1>0, <1>12, OthersStayPlanned
<1> HIDE DEF n, r, left
<1>13. Covers(left, U, rg)
  BY <1>8, <1>10 DEF Covers
<1>14. Loose' = Loose \cup {n}
  BY <1>1, <1>4, <1>7 DEF Loose, Active
<1>15. \A m \in Loose' : m \in U /\ rg[m] = obj'[m].range
  <2> SUFFICES ASSUME NEW m \in Loose' PROVE m \in U /\ rg[m] = obj'[m].range
    OBVIOUS
  <2>1. CASE m = n
    BY <1>7, <1>9, <2>1
  <2>2. CASE m # n
    <3>1. m \in Loose /\ m \in Nodes
      BY <1>14, <2>2 DEF Loose, Active
    <3> QED BY <1>7, <1>8, <2>2, <3>1
  <2> QED BY <2>1, <2>2
<1>16. \A m \in U : m \in Loose' \/ Planned(left, m)
  BY <1>8, <1>12, <1>14
<1>17. PICK l : l = left
  OBVIOUS
<1>18. Filling(ev.plan)'
  <2>1. Covers(l, U, rg) /\ \A m \in U : m \in Loose' \/ Planned(l, m)
    BY <1>13, <1>16, <1>17
  <2>2. Filling(l)'
    BY <1>15, <2>1 DEF Filling
  <2>3. l = ev'.plan
    BY <1>6, <1>17
  <2> QED BY <2>2, <2>3 DEF Filling
<1>19. Usage'
  <2>1. ev'.ctx = "expand" => ev'.before = DOMAIN n2p'
    BY <1>0, <1>6, <1>7 DEF InUse, Usage
  <2> QED BY <1>0, <1>6, <1>18, <2>1 DEF Usage, Placing, Joining
<1> QED BY <1>6, <1>19, NotIdle DEF InUse

\* After the last placement the nodes that are loose make a complete chain, so the
\* operation goes on.
LEMMA AllocationDoneUse == ASSUME TypeInv, Undisturbed, InUse, AllocationDone PROVE InUse'
<1>1. SameLayers /\ ev.pc = "allocate" /\ ev.plan = <<>> /\ ev.ctx # "none" /\ ev \in EvRecord
  BY NoCall, Now DEF AllocationDone, TypeInv, LocalsInv, Control
<1>2. rt["event"].pc = "idle"
  BY <1>1, Now
<1>3. Filled
  <2>1. Filling(<<>>)
    BY <1>1 DEF InUse, Usage, Placing
  <2> QED BY <2>1, FilledAtLast
<1>4. Filled' /\ HasFullPipeline
  BY <1>1, <1>3, FilledHasChain, SameUseKeeps
<1>5. CASE ev.ctx = "expand"
  <2>1. ev' = [ev EXCEPT !.pc = "filter"] /\ UNCHANGED rt
    BY <1>4, <1>5 DEF AllocationDone
  <2>2. ev'.pc = "filter" /\ ev'.ctx = "expand" /\ ev'.before = ev.before
    BY <1>1, <1>5, <2>1 DEF EvRecord
  <2>3. ev'.before = DOMAIN n2p'
    BY <1>1, <1>5, <2>2 DEF InUse, Usage, SameLayers
  <2>4. Usage'
    BY <1>2, <1>4, <2>1, <2>2, <2>3 DEF Usage, Placing, Joining
  <2> QED BY <2>2, <2>4, NotIdle DEF InUse
<1>6. CASE ev.ctx # "expand"
  <2>1. ev' = [ev EXCEPT !.pc = "router"] /\ StartRouter("event", "select")
    BY <1>4, <1>6 DEF AllocationDone
  <2>2. ev'.pc = "router"
    BY <1>1, <2>1 DEF EvRecord
  <2>3. rt'["event"].pc = "existing"
    BY <2>1 DEF StartRouter, RtIdle, TypeInv, RegistryInv, RtOK, Threads
  <2>4. Usage'
    BY <1>4, <2>2, <2>3 DEF Usage, Placing, Joining
  <2> QED BY <2>2, <2>4, NotIdle DEF InUse
<1> QED BY <1>5, <1>6

\* A chain has members.
LEMMA ChainHasMembers ==
  ASSUME NEW S, NEW p \in ChainsOver(S) PROVE Members(p) # {}
<1>1. p \in Seq(Nodes) /\ p # <<>>
  BY StagesAreSequences DEF ChainsOver, Registrable
<1>2. 1 \in DOMAIN p
  BY <1>1
<1>3. p[1] \in Members(p)
  BY <1>2 DEF Members, Range
<1> QED BY <1>3

\* The list of an expansion has all chains of the nodes that it has made ACTIVE.
LEMMA FilterUse == ASSUME TypeInv, Undisturbed, InUse, FilterNewPipelines PROVE InUse'
<1> DEFINE new == {p \in ChainsOver(Active \ ev.before) : Members(p) \cap DOMAIN n2p = {}}
<1>1. SameLayers /\ ev.pc = "filter" /\ ev.ctx = "expand" /\ ev \in EvRecord /\ UNCHANGED rt
  BY NoCall, Now DEF FilterNewPipelines, TypeInv, LocalsInv, Control
<1>2. rt["event"].pc = "idle"
  BY <1>1, Now
<1>3. Filled
  BY <1>1 DEF InUse, Usage, Joining
<1>4. new = ChainsOver(Loose)
  <2>1. Active \ ev.before = Loose
    BY <1>1 DEF InUse, Usage, Loose
  <2>2. \A p \in ChainsOver(Loose) : Members(p) \cap DOMAIN n2p = {}
    BY DEF ChainsOver, Loose
  <2> QED BY <2>1, <2>2
<1>5. new # {} /\ new \in SUBSET Stages
  BY <1>3, <1>4, FilledHasChain DEF ChainsOver
<1>6. PICK list \in Discovered(new) : ev' = [ev EXCEPT !.pc = "extend", !.sel = list]
  BY <1>5 DEF FilterNewPipelines
<1>7. list \in SetToSeqs(new)
  BY <1>6 DEF Discovered
<1>8. ev'.pc = "extend" /\ ev'.ctx = "expand" /\ ev'.sel = list
  BY <1>1, <1>6 DEF EvRecord
<1> HIDE DEF new
<1>9. /\ \A i \in DOMAIN list : list[i] \in new
      /\ \A p \in new : \E i \in DOMAIN list : list[i] = p
  BY <1>5, <1>7, ListsAll
<1>10. Maximal(list)
  BY <1>4, <1>9, ChainHasMembers DEF Maximal
<1>11. Maximal(list)' /\ Filled'
  BY <1>1, <1>3, <1>10, SameUseKeeps
<1>12. \A i \in DOMAIN list : Members(list[i]) \cap DOMAIN n2p' = {}
  BY <1>1, <1>9 DEF new, SameLayers
<1>13. Maximal(ev.sel)'
  BY <1>8, <1>11 DEF Maximal
<1>14. Usage'
  BY <1>1, <1>2, <1>8, <1>11, <1>12, <1>13 DEF Usage, Placing, Joining
<1> QED BY <1>8, <1>14, NotIdle DEF InUse

\* The pipelines of a registration call that does not raise are disjoint.
LEMMA CleanIsDisjoint ==
  ASSUME NEW list \in Seq(Seq(Nodes)), NEW owned, ~RegistrationRaises(list, owned)
  PROVE  Disjoint(list)
<1>1. \A i \in DOMAIN list : Members(list[i]) \cap OwnedBefore(list, owned, i) = {}
  BY DEF RegistrationRaises, Clean
<1>2. ASSUME NEW h \in DOMAIN list, NEW i \in DOMAIN list, h < i
      PROVE  Members(list[h]) \cap Members(list[i]) = {}
  <2>1. h \in 1..(i - 1)
    BY <1>2
  <2>2. Members(list[h]) \subseteq OwnedBefore(list, owned, i)
    BY <2>1 DEF OwnedBefore
  <2> QED BY <1>1, <2>2
<1>3. \A h, i \in DOMAIN list : h # i => h < i \/ i < h
  OBVIOUS
<1> QED BY <1>2, <1>3 DEF Disjoint

\* An expansion registers all that it has made ACTIVE.
LEMMA ExtendUse ==
  ASSUME TypeInv, Undisturbed, InUse, ExtendPipelines, ~clashed' PROVE InUse'
<1> DEFINE list == ev.sel
           owned == DOMAIN n2p
<1>1. /\ ev.pc = "extend" /\ ev.ctx = "expand" /\ ev' = Resume(TRUE)
      /\ UNCHANGED <<bootstrapped, rt>>
      /\ ExtendRegistered(list) /\ ~RegistrationRaises(list, owned)
  BY DEF ExtendPipelines, TypeInv, LocalsInv, Control
<1>2. /\ ev \in EvRecord /\ rt["event"].pc = "idle"
      /\ AreChains(list) /\ list \in Seq(Seq(Nodes))
  BY <1>1, Now, ListsOfStages DEF Undisturbed, Chosen, EvRecord, Lists
<1>3. PICK base \in 0..(MaxPid + 1 - Len(list)), k \in 1..(Len(list) + 1) :
        /\ StopsAt(list, owned, k)
        /\ pipes' = [p \in DOMAIN pipes \cup {base + i - 1 : i \in Inserted(list, k)} |->
                       IF p \in DOMAIN pipes THEN pipes[p] ELSE NewPipe(list[p - base + 1])]
        /\ n2p' = [n \in owned \cup Mapped(list, owned, k) |->
                     IF n \in owned THEN n2p[n] ELSE PidOf(list, k, base, n)]
        /\ UNCHANGED <<state, obj>>
  BY <1>1 DEF ExtendRegistered
<1>4. /\ Inserted(list, k) = DOMAIN list
      /\ Mapped(list, owned, k) = UNION {Members(list[i]) : i \in DOMAIN list}
  BY <1>1, <1>2, <1>3, CleanRegistration
<1>5. Maximal(list) /\ Filled /\ \A i \in DOMAIN list : Members(list[i]) \cap owned = {}
  BY <1>1 DEF InUse, Usage, Joining
<1>6. \A i \in DOMAIN list : list[i] \in ChainsOver(Loose)
  BY <1>2, <1>5 DEF AreChains, ChainsOver, Loose
<1>7. Disjoint(list)
  BY <1>1, <1>2, CleanIsDisjoint
<1> HIDE DEF list
<1>8. Loose = UNION {Members(list[i]) : i \in DOMAIN list} /\ DOMAIN list # {}
  BY <1>2, <1>5, <1>6, <1>7, UsedUp
<1>9. Loose' = {}
  <2>1. DOMAIN n2p' = owned \cup Loose
    BY <1>3, <1>4, <1>8
  <2>2. Active' = Active
    BY <1>3 DEF Active
  <2> QED BY <2>1, <2>2 DEF Loose
<1>10. DOMAIN pipes' # {}
  <2>1. DOMAIN pipes' = DOMAIN pipes \cup {base + i - 1 : i \in DOMAIN list}
    BY <1>3, <1>4
  <2> QED BY <1>8, <2>1
<1>11. IdleOK'
  BY <1>10 DEF IdleOK
<1> QED BY <1>1, <1>2, <1>9, <1>11, ResumeUse

\* A removal leaves no ACTIVE node unmapped: the other members of the pipeline that it
\* dissolves are moved to STANDBY.
LEMMA ProcessLeaveUse == ASSUME TypeInv, Undisturbed, InUse, ProcessLeave PROVE InUse'
<1>1. PICK n \in leaveQ :
        IF state[n] = "none"
          THEN UNCHANGED <<registry, disp, rt, ev>>
          ELSE /\ RemoveNode(n) /\ DropObject(n)
               /\ ev' = [ev EXCEPT !.removed = @ \/ ~RemoveRaises(n)]
  BY DEF ProcessLeave
<1>2. /\ n \in Nodes /\ ev.pc = "leaves" /\ UNCHANGED bootstrapped
      /\ ev \in EvRecord /\ Sound /\ rt["event"].pc = "idle"
  BY Now DEF ProcessLeave, TypeInv, LocalsInv, QueueType
<1>3. CASE state[n] = "none"
  BY <1>1, <1>2, <1>3, NoCall, ElsewhereUse
<1>4. CASE state[n] # "none"
  <2>1. ~RemoveRaises(n)
    BY <1>1, <1>2, <1>4, RemoveServes DEF Sound
  <2>2. ev'.pc = "leaves" /\ ev'.removed
    BY <1>1, <1>2, <1>4, <2>1 DEF EvRecord
  <2>3. rt'["event"] = rt["event"]
    BY <1>1, <1>2, <1>4, DropType DEF TypeInv, RegistryInv, LocalsInv
  <2>4. Loose = {}
    BY <1>2 DEF InUse, Usage, Placing, Joining
  <2>5. Loose' = {}
    <3> DEFINE stood == IF OwnPipe(n) THEN StoodBy(n) ELSE {}
               freed == IF OwnPipe(n) THEN Members(pipes[n2p[n]].ids) \cup {n} ELSE {n}
    <3>1. /\ state' = [m \in Nodes |-> IF m = n THEN "none"
                                       ELSE IF m \in stood THEN "standby" ELSE state[m]]
          /\ DOMAIN n2p' = DOMAIN n2p \ freed
      BY <1>1, <1>4 DEF RemoveNode
    <3>2. ASSUME OwnPipe(n), NEW m \in Members(pipes[n2p[n]].ids), m # n, state[m] = "active"
          PROVE  m \in StoodBy(n)
      <4> DEFINE ids == pipes[n2p[n]].ids
      <4>1. \A h \in Rest(n) : state[h] = "active"
        BY <2>1 DEF RemoveRaises
      <4>2. m \in Rest(n)
        BY <3>2 DEF Rest
      <4>3. PICK i \in DOMAIN ids : ids[i] = m
        BY DEF Members, Range
      <4> QED BY <4>1, <4>2, <4>3 DEF StoodBy
    <3>3. ASSUME NEW m \in Active' PROVE m \in DOMAIN n2p'
      <4> HIDE DEF stood
      <4>1. m \in Nodes /\ m # n /\ m \notin stood /\ state[m] = "active"
        BY <3>1, <3>3 DEF Active
      <4>2. m \in DOMAIN n2p
        BY <2>4, <4>1 DEF Loose, Active
      <4>3. m \notin freed
        BY <3>2, <4>1 DEF stood
      <4> QED BY <3>1, <4>2, <4>3
    <3> QED BY <3>3 DEF Loose
  <2> QED BY <1>2, <2>2, <2>3, <2>5, AllUsed DEF InUse, Idling
<1> QED BY <1>3, <1>4

\* After the last leave a swarm with nothing registered is rebalanced, unless nobody is
\* left.
LEMMA LeavesDoneUse == ASSUME TypeInv, Undisturbed, InUse, LeavesDone PROVE InUse'
<1>1. SameLayers /\ ev.pc = "leaves" /\ UNCHANGED <<bootstrapped, rt>> /\ ev \in EvRecord
  BY NoCall, Now DEF LeavesDone
<1>2. rt["event"].pc = "idle"
  BY <1>1, Now
<1>3. Loose = {} /\ Loose' = {}
  BY <1>1, <1>2, SameUse DEF InUse, Usage, Placing, Joining
<1>4. CASE ShouldRebalance
  <2>1. ev'.pc = "standby"
    BY <1>1, <1>4 DEF LeavesDone, EvRecord
  <2> QED BY <1>1, <1>2, <1>3, <2>1, AllUsed, NotIdle DEF InUse
<1>5. CASE ~ShouldRebalance
  <2>1. ev'.pc = "heartbeat"
    BY <1>5, EvStarts DEF LeavesDone, EvPcs, Contexts
  <2>2. IdleOK
    <3>1. CASE ~ev.removed
      BY <1>1, <3>1 DEF InUse, Idling
    <3>2. CASE ev.removed
      <4>1. ASSUME DOMAIN pipes = {} PROVE Capacity(Registered) < NumLayers
        <5>1. ~HasFullPipeline
          BY <1>3, <4>1, NothingActive
        <5>2. Registered = {}
          BY <1>5, <3>2, <5>1 DEF ShouldRebalance
        <5>3. Capacity(Registered) = 0
          BY <5>2, CapacityType
        <5> QED BY <5>3, NMAssumption
      <4> QED BY <4>1 DEF IdleOK, TooSmall
    <3> QED BY <3>1, <3>2
  <2>3. IdleOK'
    BY <1>1, <2>2, SameIdle
  <2> QED BY <1>1, <1>2, <1>3, <2>1, <2>3, AllUsed DEF InUse, Idling
<1> QED BY <1>4, <1>5

\* A rebalance takes all nodes to STANDBY ...
LEMMA StandbyAllUse == ASSUME TypeInv, Undisturbed, InUse, StandbyAll PROVE InUse'
<1>1. ev.pc = "standby" /\ ev.todo = Active /\ ev \in EvRecord /\ rt["event"].pc = "idle" /\ UNCHANGED rt
  BY Now DEF StandbyAll, Undisturbed, Layers
<1>2. PICK moved \in SUBSET ev.todo : StandbyLocked(ev.todo, moved) /\ moved = Active
  BY <1>1 DEF StandbyAll, StandbyLocked
<1>3. Loose' = {}
  BY <1>2 DEF StandbyLocked, Active, Loose
<1>4. ev'.pc = "unload"
  BY <1>1 DEF StandbyAll, EvRecord
<1> QED BY <1>1, <1>3, <1>4, AllUsed, NotIdle DEF InUse

\* ... clears their layers ...
LEMMA UnloadAllUse == ASSUME TypeInv, Undisturbed, InUse, UnloadAll PROVE InUse'
<1>1. /\ ev.pc = "unload" /\ Active = {} /\ ev \in EvRecord /\ rt["event"].pc = "idle"
      /\ UNCHANGED <<rt, state>>
  BY Now DEF UnloadAll, ClearServing, Undisturbed, Layers
<1>2. Loose' = {}
  BY <1>1 DEF Loose, Active
<1>3. ev'.pc = "reboot"
  BY <1>1 DEF UnloadAll, EvRecord
<1> QED BY <1>1, <1>2, <1>3, AllUsed, NotIdle DEF InUse

\* ... and plans anew.
LEMMA RebootUse == ASSUME TypeInv, Undisturbed, InUse, Reboot PROVE InUse'
<1>1. /\ SameLayers /\ ev.pc = "reboot" /\ Active = {} /\ ev \in EvRecord
      /\ ev' = [ev EXCEPT !.pc = "router"] /\ StartRouter("event", "plan")
  BY NoCall, Now DEF Reboot, Undisturbed, Layers
<1>2. Loose' = {}
  BY <1>1, SameUse DEF Loose
<1>3. ev'.pc = "router"
  BY <1>1 DEF EvRecord
<1>4. rt'["event"].pc = "keys"
  BY <1>1 DEF StartRouter, RtIdle, TypeInv, RegistryInv, RtOK, Threads
<1> QED BY <1>2, <1>3, <1>4, AllUsed, NotIdle DEF InUse

\* A pass ends as its last leave has left it.
LEMMA HeartbeatUse ==
  ASSUME TypeInv, Undisturbed, InUse, SkipHeartbeats \/ CheckHeartbeats PROVE InUse'
<1>1. SameLayers /\ ev.pc = "heartbeat" /\ UNCHANGED <<bootstrapped, rt>>
  BY NoCall DEF SkipHeartbeats, CheckHeartbeats
<1>2. rt["event"].pc = "idle"
  BY <1>1, Now
<1>3. ev'.pc = "updates"
  BY DEF SkipHeartbeats, CheckHeartbeats, EvIdle
<1>4. IdleOK'
  BY <1>1, SameIdle DEF InUse, Idling
<1>5. Loose' = {}
  BY <1>1, <1>2, SameUse DEF InUse, Usage, Placing, Joining
<1> QED BY <1>1, <1>2, <1>3, <1>4, <1>5, AllUsed DEF InUse, Idling

----------------------------------------------------------------------------
(***************************************************************************)
(* The router's bootstrap() in the event thread, and the others.           *)
(***************************************************************************)
\* A selection of the router leaves no chain of loose nodes that meets none of it:
\* every chain can be routed over, since all RTTs are known and no node is overloaded.
LEMMA SelectionUse ==
  ASSUME TypeInv, Known, DOMAIN n2p = {},
         NEW sel \in Selections({p \in ChainsOver(Active) : Routable(p)}),
         NEW list \in SetToSeqs(sel)
  PROVE  Maximal(list)
<1>1. Loose = Active
  BY DEF Loose
<1>2. ASSUME NEW p \in ChainsOver(Active) PROVE Routable(p)
  <2>1. p \in Seq(Nodes) /\ Members(p) \subseteq Active
    BY StagesAreSequences DEF ChainsOver
  <2>2. \A i \in DOMAIN p : p[i] \in Nodes /\ state[p[i]] # "none"
    BY <2>1 DEF Members, Range, Active
  <2>3. \A i \in DOMAIN p : obj[p[i]].rtt /\ ~obj[p[i]].over
    BY <2>2 DEF Known
  <2>4. \A i \in 1..(Len(p) - 1) : i \in DOMAIN p
    BY <2>1
  <2> QED BY <2>3, <2>4 DEF Routable
<1>3. {p \in ChainsOver(Active) : Routable(p)} = ChainsOver(Active)
  BY <1>2
<1>4. /\ sel \in SUBSET Stages
      /\ \A p \in ChainsOver(Active) \ sel : \E q \in sel : Members(p) \cap Members(q) # {}
  BY <1>3 DEF Selections, ChainsOver
<1>5. \A q \in sel : \E i \in DOMAIN list : list[i] = q
  BY <1>4, ListsAll
<1>6. ASSUME NEW p \in ChainsOver(Active)
      PROVE  \E i \in DOMAIN list : Members(p) \cap Members(list[i]) # {}
  <2>1. CASE p \in sel
    <3>1. PICK i \in DOMAIN list : list[i] = p
      BY <1>5, <2>1
    <3>2. Members(p) # {}
      BY ChainHasMembers
    <3> QED BY <3>1, <3>2
  <2>2. CASE p \notin sel
    <3>1. PICK q \in sel : Members(p) \cap Members(q) # {}
      BY <1>4, <2>2
    <3>2. PICK i \in DOMAIN list : list[i] = q
      BY <1>5
    <3> QED BY <3>1, <3>2
  <2> QED BY <2>1, <2>2
<1> QED BY <1>1, <1>6 DEF Maximal

\* The router registers pipelines until no chain is left, so all that is loose is used.
LEMMA RouterUse ==
  ASSUME TypeInv, Undisturbed, InUse, Known, Router("event") PROVE InUse'
<1> DEFINE r == rt["event"]
<1>0. /\ ev.pc = "router" /\ ev.ctx # "none" /\ ev \in EvRecord /\ Empty
      /\ "event" \in Threads /\ r \in RtRecord /\ r.todo = {}
      /\ \A e : rt' = [rt EXCEPT !["event"] = e] => rt'["event"] = e
  <2>1. r.pc # "idle"
    BY DEF Router, RouterExisting, RouterKeys, RouterClear, RouterUnload, RouterReset,
           RouterSelect, RouterRegister
  <2>2. ev.pc = "router" /\ ev.ctx \in {"join", "leave"} /\ ev \in EvRecord
    BY <2>1 DEF TypeInv, LocalsInv, Control, EvType
  <2>3. "event" \in Threads /\ r \in RtRecord /\ r.todo = {}
    BY DEF TypeInv, RegistryInv, RtOK, Threads, Undisturbed, EventRouter
  <2>4. ASSUME NEW e, rt' = [rt EXCEPT !["event"] = e] PROVE rt'["event"] = e
    BY <2>4 DEF TypeInv, RegistryInv, RtOK, Threads
  <2> QED BY <2>2, <2>3, <2>4 DEF Undisturbed, EmptyUntil
<1>1. CASE RouterExisting("event")
  <2> DEFINE e == [r EXCEPT !.pc = "select"]
  <2>1. r.pc = "existing" /\ rt' = [rt EXCEPT !["event"] = e] /\ SameLayers /\ UNCHANGED ev
    BY <1>0, <1>1, NoCall DEF RouterExisting, Empty
  <2>2. e.pc = "select"
    BY <1>0 DEF RtRecord
  <2> HIDE DEF e
  <2>3. rt'["event"].pc = "select"
    BY <1>0, <2>1, <2>2
  <2>4. Filled'
    BY <2>1, SameUseKeeps DEF InUse, Usage, Joining
  <2>5. Usage'
    BY <1>0, <2>1, <2>3, <2>4 DEF Usage, Placing, Joining
  <2> QED BY <1>0, <2>1, <2>5, NotIdle DEF InUse
<1>2. CASE RouterKeys("event")
  <2> DEFINE e == [r EXCEPT !.pc = "clear", !.todo = DOMAIN n2p]
  <2>1. r.pc = "keys" /\ rt' = [rt EXCEPT !["event"] = e] /\ SameLayers /\ UNCHANGED ev
    BY <1>0, <1>2, NoCall DEF RouterKeys
  <2>2. e.pc = "clear"
    BY <1>0 DEF RtRecord
  <2> HIDE DEF e
  <2>3. rt'["event"].pc = "clear" /\ ev'.pc = "router"
    BY <1>0, <2>1, <2>2
  <2>4. Loose' = {}
    BY <1>0, <2>1, SameUse DEF InUse, Usage, Placing, Joining
  <2> QED BY <2>3, <2>4, AllUsed, NotIdle DEF InUse
<1>3. CASE RouterClear("event")
  <2> DEFINE e == [r EXCEPT !.pc = "unload"]
  <2>1. r.pc = "clear" /\ rt' = [rt EXCEPT !["event"] = e] /\ UNCHANGED ev
    BY <1>0, <1>3 DEF RouterClear
  <2>2. e.pc = "unload"
    BY <1>0 DEF RtRecord
  <2> HIDE DEF e
  <2>3. rt'["event"].pc = "unload" /\ ev'.pc = "router"
    BY <1>0, <2>1, <2>2
  <2>4. StandbyLocked({}, {})
    BY <1>0, <1>3 DEF RouterClear
  <2>5. \A n \in Nodes : state'[n] = state[n]
    BY <2>4 DEF StandbyLocked
  <2>6. Loose' = Loose
    BY <2>4, <2>5 DEF Loose, Active, StandbyLocked
  <2>7. Loose' = {}
    BY <1>0, <2>1, <2>6 DEF InUse, Usage, Placing, Joining
  <2> QED BY <2>3, <2>7, AllUsed, NotIdle DEF InUse
<1>4. CASE RouterUnload("event")
  <2> DEFINE e == [r EXCEPT !.pc = "reset", !.todo = {}]
  <2>1. r.pc = "unload" /\ rt' = [rt EXCEPT !["event"] = e] /\ UNCHANGED <<ev, state, n2p>>
    BY <1>0, <1>4 DEF RouterUnload, ClearServing
  <2>2. e.pc = "reset"
    BY <1>0 DEF RtRecord
  <2> HIDE DEF e
  <2>3. rt'["event"].pc = "reset" /\ ev'.pc = "router"
    BY <1>0, <2>1, <2>2
  <2>4. Loose' = {}
    BY <1>0, <2>1 DEF InUse, Usage, Placing, Joining, Loose, Active
  <2> QED BY <2>3, <2>4, AllUsed, NotIdle DEF InUse
<1>5. CASE RouterReset("event")
  <2>1. /\ r.pc = "reset" /\ r.then = "plan" /\ UNCHANGED state /\ DOMAIN n2p' = {}
    BY <1>5 DEF RouterReset, ResetRegistry, Undisturbed, EventRouter
  <2>2. ev' = [ev EXCEPT !.pc = "plan"] /\ rt' = [rt EXCEPT !["event"] = RtIdle]
    BY <1>5, <2>1 DEF RouterReset
  <2>3. ev'.pc = "plan" /\ rt'["event"].pc = "idle"
    <3>1. ev'.pc = "plan"
      BY <1>0, <2>2 DEF EvRecord
    <3>2. rt'["event"] = RtIdle
      BY <1>0, <2>2
    <3> QED BY <3>1, <3>2 DEF RtIdle
  <2>4. Loose' = {}
    <3>1. Loose = {}
      BY <1>0, <2>1 DEF InUse, Usage, Placing, Joining
    <3> QED BY <1>0, <2>1, <3>1 DEF Loose, Active, Empty
  <2> QED BY <2>3, <2>4, AllUsed, NotIdle DEF InUse
<1>6. CASE RouterSelect("event")
  <2>1. SameLayers /\ r.pc = "select"
    BY <1>6, NoCall DEF RouterSelect
  <2>2. Filled /\ HasFullPipeline
    BY <2>1, FilledHasChain DEF InUse, Usage, Joining
  <2>3. PICK sel \in Selections({p \in ChainsOver(Active) : Routable(p)}) :
          \E list \in SetToSeqs(sel) :
            rt' = [rt EXCEPT !["event"].pc = "register", !["event"].sel = list]
    BY <1>6, <2>2 DEF RouterSelect
  <2>4. PICK list \in SetToSeqs(sel) :
          rt' = [rt EXCEPT !["event"].pc = "register", !["event"].sel = list]
    BY <2>3
  <2>5. Maximal(list)
    BY <1>0, SelectionUse DEF Empty
  <2>6. Maximal(list)' /\ Filled'
    BY <2>1, <2>2, <2>5, SameUseKeeps
  <2>7. PICK e : e = [r EXCEPT !.pc = "register", !.sel = list]
    OBVIOUS
  <2>8. rt' = [rt EXCEPT !["event"] = e] /\ UNCHANGED ev
    BY <1>0, <1>6, <2>2, <2>4, <2>7 DEF RouterSelect, TypeInv, RegistryInv, RtOK
  <2>9. e.pc = "register" /\ e.sel = list
    BY <1>0, <2>7 DEF RtRecord
  <2>10. rt'["event"].pc = "register" /\ rt'["event"].sel = list
    BY <1>0, <2>8, <2>9
  <2>11. Maximal(rt["event"].sel)'
    BY <2>6, <2>10 DEF Maximal
  <2>12. Usage'
    BY <1>0, <2>6, <2>8, <2>10, <2>11 DEF Usage, Placing, Joining
  <2> QED BY <1>0, <2>8, <2>12, NotIdle DEF InUse
<1>7. CASE RouterRegister("event")
  <2> DEFINE list == r.sel
  <2>1. list \in Seq(Seq(Nodes)) /\ r.pc = "register" /\ RegisterPipelines(list)
    BY <1>0, <1>7, ListsOfStages DEF RtRecord, Lists, RouterRegister
  <2>2. AreChains(list) /\ Disjoint(list)
    BY <2>1 DEF Undisturbed, Chosen
  <2>3. Maximal(list) /\ Filled
    BY <2>1 DEF InUse, Usage, Joining
  <2>4. \A i \in DOMAIN list : list[i] \in ChainsOver(Loose)
    BY <1>0, <2>2 DEF AreChains, ChainsOver, Loose, Empty
  <2>5. ~RegistrationRaises(list, {}) /\ UNCHANGED <<state, obj>>
    BY <2>1, <2>2, RegisterServes
  <2>6. RouterReturn("event")
    BY <1>7, <2>5 DEF RouterRegister
  <2> HIDE DEF list
  <2>7. Loose = UNION {Members(list[i]) : i \in DOMAIN list} /\ DOMAIN list # {}
    BY <2>1, <2>2, <2>3, <2>4, UsedUp
  <2>8. PICK k \in 1..(Len(list) + 1) :
          /\ StopsAt(list, {}, k)
          /\ pipes' = [p \in {i - 1 : i \in Inserted(list, k)} |-> NewPipe(list[p + 1])]
          /\ n2p' = [n \in Mapped(list, {}, k) |-> PidOf(list, k, 0, n)]
    BY <2>1 DEF RegisterPipelines
  <2>9. /\ Inserted(list, k) = DOMAIN list
        /\ Mapped(list, {}, k) = UNION {Members(list[i]) : i \in DOMAIN list}
    BY <2>1, <2>5, <2>8, CleanRegistration
  <2>10. DOMAIN n2p' = Loose /\ Loose = Active
    BY <1>0, <2>7, <2>8, <2>9 DEF Loose, Empty
  <2>11. Loose' = {}
    BY <2>5, <2>10 DEF Loose, Active
  <2>12. DOMAIN pipes' # {}
    <3>1. DOMAIN pipes' = {i - 1 : i \in DOMAIN list}
      BY <2>8, <2>9
    <3> QED BY <2>7, <3>1
  <2>13. IdleOK'
    BY <2>12 DEF IdleOK
  <2>14. ev' = Resume(TRUE) /\ rt' = [rt EXCEPT !["event"] = RtIdle]
    BY <2>6 DEF RouterReturn
  <2>15. rt'["event"].pc = "idle"
    BY <1>0, <2>14 DEF RtIdle
  <2>16. ev'.pc \in {"joins", "leaves", "heartbeat", "dead"}
    BY <1>0, <2>14, ResumeType
  <2>17. Usage'
    BY <2>11, <2>15, <2>16, AllUsed
  <2> QED BY <2>13, <2>16, <2>17 DEF InUse, Idling
<1> QED BY <1>1, <1>2, <1>3, <1>4, <1>5, <1>6, <1>7 DEF Router

\* The dispatcher writes neither states, nor layers, nor pipelines.
LEMMA DispatcherUse ==
  ASSUME TypeInv, Undisturbed, InUse, Dispatcher, ~lazyRan' PROVE InUse'
  BY DispatcherWrites, ElsewhereUse

\* Nor do the workers.
LEMMA WorkerUse ==
  ASSUME TypeInv, Undisturbed, InUse, NEW n \in Nodes, Worker(n) PROVE InUse'
  BY WorkerWrites, ElsewhereUse

----------------------------------------------------------------------------
(***************************************************************************)
(* The invariant, and the theorems.                                        *)
(***************************************************************************)
InUseInv == Known /\ (Steady => InUse)

\* At the start there are no nodes.
LEMMA InUseInit == Init => InUseInv
<1> SUFFICES ASSUME Init PROVE Known /\ InUse
  BY DEF InUseInv
<1>1. /\ ev = EvIdle /\ rt["event"] = RtIdle /\ ~bootstrapped /\ \A n \in Nodes : state[n] = "none"
  BY DEF Init, NMInit, Threads
<1>2. ev.pc = "updates" /\ rt["event"].pc = "idle"
  BY <1>1 DEF EvIdle, RtIdle
<1>3. Loose = {} /\ Registered = {}
  BY <1>1 DEF Loose, Active, Registered, Standby
<1>4. Capacity(Registered) < NumLayers
  <2>1. Capacity(Registered) = 0
    BY <1>3, CapacityType
  <2> QED BY <2>1, NMAssumption
<1>5. IdleOK
  BY <1>4 DEF IdleOK, TooSmall
<1>6. Usage
  BY <1>2, <1>3 DEF Usage, Placing, Joining
<1>7. Known
  BY <1>1 DEF Known
<1> QED BY <1>2, <1>5, <1>6, <1>7 DEF InUse, Idling

\* Every step, of whatever thread, keeps it.
LEMMA InUseNext ==
  ASSUME Healthy, TypeInv, Pending, SteadyInv, InUseInv, [Next]_vars PROVE InUseInv'
<1>1. Known'
  BY KnownNext DEF InUseInv
<1>2. ASSUME Steady' PROVE InUse'
  <2>1. Undisturbed /\ InUse /\ Known /\ ~lazyRan' /\ ~clashed'
    BY <1>2, HistoryLasts DEF SteadyInv, InUseInv, Steady
  <2>2. CASE EventThread
    BY <2>1, <2>2, ProcessUpdatesUse, ProcessJoinUse, JoinsDoneUse, PlanAllocationUse,
       AllocateNextUse, AllocationDoneUse, FilterUse, ExtendUse, ProcessLeaveUse, LeavesDoneUse,
       StandbyAllUse, UnloadAllUse, RebootUse, HeartbeatUse, RouterUse DEF EventThread
  <2>3. CASE Dispatcher
    BY <2>1, <2>3, DispatcherUse
  <2>4. CASE \E n \in Nodes : Worker(n)
    BY <2>1, <2>4, WorkerUse
  <2>5. CASE ReceiveRequest \/ UNCHANGED vars
    <3>1. UNCHANGED <<registry, ev, bootstrapped, rt>>
      BY <2>5 DEF ReceiveRequest, vars, threads
    <3> QED BY <2>1, <3>1, NoCall, ElsewhereUse
  <2> QED BY <2>2, <2>3, <2>4, <2>5 DEF Next
<1> QED BY <1>1, <1>2 DEF InUseInv

\* So it holds of every behaviour.
LEMMA InUseHolds == Healthy => (Spec => [](TypeInv /\ SteadyInv /\ InUseInv))
<1> SUFFICES ASSUME Healthy PROVE Spec => [](TypeInv /\ SteadyInv /\ InUseInv)
  OBVIOUS
<1>1. Init => InUseInv
  BY InUseInit
<1>2. TypeInv /\ Pending /\ SteadyInv /\ InUseInv /\ [Next]_vars => InUseInv'
  BY InUseNext
<1> QED BY <1>1, <1>2, SteadyHolds, PTL DEF Spec

\* In a swarm whose nodes all report RTTs and none an overload, at the end of every pass
\* of the event loop the nodes that hold layers are those of the registered pipelines:
\* no allocation, expansion or rebalance leaves a node with layers that nobody uses.
THEOREM ClusterLayersInUse == Healthy => (Spec => []LayersInUse)
<1> SUFFICES ASSUME Healthy PROVE Spec => []LayersInUse
  OBVIOUS
<1>1. Spec => [](TypeInv /\ SteadyInv /\ InUseInv)
  BY InUseHolds
<1>2. TypeInv /\ SteadyInv /\ InUseInv => LayersInUse
  <2> SUFFICES ASSUME TypeInv, Undisturbed, InUse, ev.pc = "updates" PROVE Active = DOMAIN n2p
    BY DEF SteadyInv, InUseInv, LayersInUse
  <2>1. rt["event"].pc = "idle"
    BY Now
  <2>2. Loose = {}
    BY <2>1 DEF InUse, Usage, Placing, Joining
  <2>3. DOMAIN n2p \subseteq Active
    BY MappedAreActive DEF Undisturbed
  <2> QED BY <2>2, <2>3 DEF Loose
<1> QED BY <1>1, <1>2, PTL

\* And in such a swarm nothing is registered then only if the nodes cannot hold the model
\* together, or are too few to bootstrap: no order of joins, leaves and failures strands a
\* swarm that could serve.
THEOREM ClusterIdles == Healthy => (Spec => []IdleOnlyIfTooSmall)
<1> SUFFICES ASSUME Healthy PROVE Spec => []IdleOnlyIfTooSmall
  OBVIOUS
<1>1. Spec => [](TypeInv /\ SteadyInv /\ InUseInv)
  BY InUseHolds
<1>2. InUseInv => IdleOnlyIfTooSmall
  BY DEF InUseInv, InUse, Idling, IdleOK, TooSmall, IdleOnlyIfTooSmall
<1> QED BY <1>1, <1>2, PTL
=============================================================================
