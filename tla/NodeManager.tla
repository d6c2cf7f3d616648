---------------------------- MODULE NodeManager ----------------------------
(***************************************************************************)
(* The scheduler's registry of worker nodes and of registered pipelines:   *)
(* classes NodeManager and Pipeline of scheduling/node_management.py, with *)
(* the fields of class Node (scheduling/node.py) that they read or write.  *)
(*                                                                         *)
(* Every action is one critical section of the registry lock (or one       *)
(* lock-free write to a Node object), so a caller with several threads is  *)
(* an interleaving of these actions.  NMNext lets any caller call any of   *)
(* them in any order; module Scheduler has the calls that the scheduler's  *)
(* threads really make.                                                    *)
(***************************************************************************)
EXTENDS Integers, Sequences, FiniteSets, Functions

CONSTANTS Nodes,     \* node ids (lattica peer ids)
          NumLayers, \* decoder layers of the served model
          NoRange,   \* start_layer = end_layer = None
          Reports,   \* the status reports joins and heartbeats may carry
          MaxPid,    \* bound on the pipeline ids one behaviour uses
          MaxBatch   \* bound on the pipelines one registration call carries

ASSUME NMAssumption == /\ IsFiniteSet(Nodes)
                       /\ NumLayers \in Nat \ {0}
                       /\ Reports \subseteq
                            [ready : BOOLEAN, over : BOOLEAN, rtt : BOOLEAN]
                       /\ MaxPid \in Nat
                       /\ MaxBatch \in 0..(MaxPid + 1)
                       /\ NoRange \notin (0..NumLayers) \X (0..NumLayers)

VARIABLES state,  \* _state (and membership: "none" is an id absent from _nodes)
          obj,    \* _nodes: the current Node object of each id
          pipes,  \* _registered_pipelines: pid -> Pipeline
          n2p     \* _node_to_pipeline: node id -> pid, a partial function

registry == <<state, obj, pipes, n2p>>

(***************************************************************************)
(* Data                                                                    *)
(***************************************************************************)
Ranges == {r \in (0..NumLayers) \X (0..NumLayers) : r[1] < r[2]}

\* The fields of a Node that decide anything: its layers, the is_active flag
\* of the last heartbeat, current_requests >= max_requests, whether it
\* reported RTTs, and whether last_heartbeat is within heartbeat_timeout.
NodeObj == [range : Ranges \cup {NoRange}, ready : BOOLEAN, over : BOOLEAN,
            rtt : BOOLEAN, fresh : BOOLEAN]

Blank == [range |-> NoRange, ready |-> FALSE, over |-> FALSE,
          rtt |-> FALSE, fresh |-> TRUE]

\* A Pipeline holds Node objects, not ids: when the registry drops or replaces
\* the object of a member, the pipeline keeps the old one and no update reaches
\* it any more.  "frozen" gives the is_active flag those members are stuck with.
PipeObj == [ids : Seq(Nodes),
            frozen : UNION {[S -> BOOLEAN] : S \in SUBSET Nodes}]

\* The Node that build_node makes of a report, its layers cleared by join().
FromReport(rep) == [range |-> NoRange, ready |-> rep.ready, over |-> rep.over,
                    rtt |-> rep.rtt, fresh |-> TRUE]

NewPipe(p) == [ids |-> p, frozen |-> [n \in {} |-> FALSE]]

Members(p) == Range(p)

\* A pipeline as the callers build it: distinct nodes, at least one, and no more
\* than there are layers, since pipeline_discovery follows increasing ranges.
Stages == UNION {{s \in [1..k -> Nodes] : IsInjective(s)} : k \in 1..NumLayers}

\* What Pipeline.from_node_ids and Pipeline.__post_init__ accept: every node
\* registered, and the ranges a gapless cover of [0, NumLayers) in stage order.
Registrable(p) ==
  /\ p # <<>>
  /\ \A i \in DOMAIN p : state[p[i]] # "none" /\ obj[p[i]].range # NoRange
  /\ obj[p[1]].range[1] = 0
  /\ \A i \in 1..(Len(p) - 1) : obj[p[i]].range[2] = obj[p[i + 1]].range[1]
  /\ obj[p[Len(p)]].range[2] = NumLayers

\* Pipeline.is_ready: every stage reports is_active, on the object it holds.
IsReady(pipe) ==
  \A n \in Members(pipe.ids) :
    IF n \in DOMAIN pipe.frozen THEN pipe.frozen[n] ELSE obj[n].ready

Freeze(pipe, n) ==
  IF n \in Members(pipe.ids) /\ n \notin DOMAIN pipe.frozen
    THEN [pipe EXCEPT !.frozen =
            [m \in DOMAIN pipe.frozen \cup {n} |->
               IF m = n THEN obj[n].ready ELSE pipe.frozen[m]]]
    ELSE pipe

\* clear_serving_state (mutation: the layers are kept).
ClearedKeepingLayers(o) == [o EXCEPT !.over = FALSE]
Cleared(o) == [o EXCEPT !.range = NoRange, !.over = FALSE]

\* Complete chains through a set of nodes: the paths that pipeline_discovery
\* enumerates and num_full_pipelines counts.
ChainsOver(S) == {p \in Stages : Members(p) \subseteq S /\ Registrable(p)}

Active == {n \in Nodes : state[n] = "active"}
Standby == {n \in Nodes : state[n] = "standby"}
Registered == Active \cup Standby

HasFullPipeline == ChainsOver(Active) # {}

----------------------------------------------------------------------------
(***************************************************************************)
(* Membership                                                              *)
(***************************************************************************)
NMInit == /\ state = [n \in Nodes |-> "none"]
          /\ obj = [n \in Nodes |-> Blank]
          /\ pipes = [p \in {} |-> NewPipe(<<>>)]
          /\ n2p = [n \in {} |-> 0]

\* upsert(node): a new id starts STANDBY, a known id keeps its state; either
\* way the Node object is replaced.
Upsert(n, rep) ==
  /\ state' = [state EXCEPT ![n] = IF @ = "none" THEN "standby" ELSE @]
  /\ obj' = [obj EXCEPT ![n] = FromReport(rep)]
  /\ pipes' = [p \in DOMAIN pipes |-> Freeze(pipes[p], n)]
  /\ UNCHANGED n2p

\* The pipeline a leaving node takes down, and its other members that are
\* still in the registry.
OwnPipe(n) == n \in DOMAIN n2p /\ n2p[n] \in DOMAIN pipes
RestNone(n) == {}  \* mutation: the other members are not detached
Rest(n) ==
  IF OwnPipe(n) THEN {m \in Members(pipes[n2p[n]].ids) \ {n} : state[m] # "none"} ELSE {}

\* _standby_locked stops at the first member that is not ACTIVE.
StoodBy(n) ==
  LET ids == pipes[n2p[n]].ids
  IN  {ids[i] : i \in {i \in DOMAIN ids :
         /\ ids[i] \in Rest(n)
         /\ \A h \in 1..i : ids[h] \in Rest(n) => state[ids[h]] = "active"}}

RemoveRaises(n) == \E m \in Rest(n) : state[m] # "active"

\* Mutations of RemoveNode: the pipeline of the node is left registered; its other
\* members are left mapped.
RemoveKeepsPipeline(n) ==
  /\ state[n] # "none"
  /\ state' = [state EXCEPT ![n] = "none"]
  /\ obj' = [obj EXCEPT ![n] = Blank]
  /\ pipes' = [p \in DOMAIN pipes |-> Freeze(pipes[p], n)]
  /\ n2p' = [m \in DOMAIN n2p \ {n} |-> n2p[m]]
RemoveKeepsMapping(n) ==
  /\ state[n] # "none"
  /\ state' = [state EXCEPT ![n] = "none"]
  /\ obj' = [obj EXCEPT ![n] = Blank]
  /\ pipes' = [p \in DOMAIN pipes \ (IF OwnPipe(n) THEN {n2p[n]} ELSE {}) |-> pipes[p]]
  /\ n2p' = [m \in DOMAIN n2p \ {n} |-> n2p[m]]

\* remove(node_id): one critical section that forgets the node, drops its
\* pipeline, unmaps every member and moves the others to STANDBY; only when
\* that succeeds are their layers cleared.
RemoveNode(n) ==
  LET stood == IF OwnPipe(n) THEN StoodBy(n) ELSE {}
      gone  == IF OwnPipe(n) THEN {n2p[n]} ELSE {}
      freed == IF OwnPipe(n) THEN Members(pipes[n2p[n]].ids) \cup {n} ELSE {n}
  IN  /\ state[n] # "none"
      /\ state' = [m \in Nodes |-> IF m = n THEN "none"
                                   ELSE IF m \in stood THEN "standby" ELSE state[m]]
      /\ obj' = [m \in Nodes |-> IF m = n THEN Blank
                                 ELSE IF m \in stood /\ ~RemoveRaises(n)
                                        THEN Cleared(obj[m]) ELSE obj[m]]
      /\ pipes' = [p \in DOMAIN pipes \ gone |-> Freeze(pipes[p], n)]
      /\ n2p' = [m \in DOMAIN n2p \ freed |-> n2p[m]]

\* The state change of standby(ids), under the lock.  It raises at the first id
\* that is not ACTIVE, having already moved the ids listed before it ("moved").
StandbyLocked(ids, moved) ==
  /\ moved \subseteq ids \cap Active
  /\ ids \subseteq Active => moved = ids
  /\ state' = [n \in Nodes |-> IF n \in moved THEN "standby" ELSE state[n]]
  /\ UNCHANGED <<obj, pipes, n2p>>

\* The rest of standby(ids): clear_serving_state on each node, outside the lock.
ClearServing(ids) ==
  /\ obj' = [n \in Nodes |-> IF n \in ids THEN Cleared(obj[n]) ELSE obj[n]]
  /\ UNCHANGED <<state, pipes, n2p>>

\* One node of BaseLayerAllocator.allocate, after adjust_pipeline_layers has
\* deallocated a node that still holds layers (which needs it ACTIVE, while
\* activate needs it STANDBY).
AllocateRaises(n) == state[n] = "standby" <=> obj[n].range # NoRange
\* Mutation of Allocate: the bounds in the wrong order.
AllocateSwapped(n, r) ==
  /\ state[n] # "none"
  /\ ~AllocateRaises(n)
  /\ state' = [state EXCEPT ![n] = "active"]
  /\ obj' = [obj EXCEPT ![n].range = <<r[2], r[1]>>]
  /\ UNCHANGED <<pipes, n2p>>
Allocate(n, r) ==
  /\ state[n] # "none"
  /\ ~AllocateRaises(n)
  /\ state' = [state EXCEPT ![n] = "active"]
  /\ obj' = [obj EXCEPT ![n].range = r,
                        ![n].over = @ /\ obj[n].range = NoRange]
  /\ UNCHANGED <<pipes, n2p>>
AllocateFailed(n, r) ==
  /\ state[n] # "none"
  /\ AllocateRaises(n)
  /\ obj' = [obj EXCEPT ![n].range = IF state[n] = "active" THEN r ELSE @]
  /\ UNCHANGED <<state, pipes, n2p>>

----------------------------------------------------------------------------
(***************************************************************************)
(* Registered pipelines.  A registration call walks its list of pipelines  *)
(* and raises at the first one that is malformed or has a node that is     *)
(* already mapped; k is that position, or one past the list.               *)
(***************************************************************************)
OwnedBefore(list, owned, i) == owned \cup UNION {Members(list[h]) : h \in 1..(i - 1)}

Clean(list, owned, i) == /\ Registrable(list[i])
                         /\ Members(list[i]) \cap OwnedBefore(list, owned, i) = {}

RegistrationRaises(list, owned) == \E i \in DOMAIN list : ~Clean(list, owned, i)

StopsAt(list, owned, k) == /\ k <= Len(list) => ~Clean(list, owned, k)
                           /\ \A i \in 1..(k - 1) : Clean(list, owned, i)

\* The pipelines inserted before the call ends: the malformed one is not, the
\* clashing one is, with the members ahead of the clash mapped to it.
Inserted(list, k) ==
  {i \in DOMAIN list : i < k \/ (i = k /\ Registrable(list[i]))}
Mapped(list, owned, k) ==
  (UNION {Members(list[i]) : i \in DOMAIN list \cap 1..(k - 1)})
    \cup (IF k \in Inserted(list, k)
            THEN {list[k][j] : j \in {j \in DOMAIN list[k] :
                    \A h \in 1..j : list[k][h] \notin OwnedBefore(list, owned, k)}}
            ELSE {})
PidOf(list, k, base, n) ==
  base + (CHOOSE i \in Inserted(list, k) :
            n \in Members(list[i]) /\ \A h \in 1..(i - 1) : n \notin Members(list[h])) - 1

\* register_pipelines(list): replaces the whole registry, and forces ACTIVE
\* whatever member is not.
RegisterPipelines(list) ==
  /\ Len(list) <= MaxPid + 1
  /\ \E k \in 1..(Len(list) + 1) :
       LET mapped == Mapped(list, {}, k)
       IN  /\ StopsAt(list, {}, k)
           /\ pipes' = [p \in {i - 1 : i \in Inserted(list, k)} |-> NewPipe(list[p + 1])]
           /\ n2p' = [n \in mapped |-> PidOf(list, k, 0, n)]
           /\ state' = [n \in Nodes |-> IF n \in mapped THEN "active" ELSE state[n]]
           /\ UNCHANGED obj

\* extend_registered_pipelines numbers from max(pids) + 1 (mutation: from the
\* number of pipelines).
NextPidByCount(pid) == pid = Cardinality(DOMAIN pipes)
NextPid(pid) == /\ \A q \in DOMAIN pipes : q < pid
                /\ pid = 0 \/ pid - 1 \in DOMAIN pipes

ExtendRegistered(list) ==
  \E base \in 0..(MaxPid + 1 - Len(list)), k \in 1..(Len(list) + 1) :
    LET owned == DOMAIN n2p
        new   == Mapped(list, owned, k)
    IN  /\ NextPid(base)
        /\ StopsAt(list, owned, k)
        /\ pipes' = [p \in DOMAIN pipes \cup {base + i - 1 : i \in Inserted(list, k)} |->
                       IF p \in DOMAIN pipes THEN pipes[p] ELSE NewPipe(list[p - base + 1])]
        /\ n2p' = [n \in owned \cup new |->
                     IF n \in owned THEN n2p[n] ELSE PidOf(list, k, base, n)]
        /\ UNCHANGED <<state, obj>>

\* The second critical section of clear_registered_pipelines.
ResetRegistry == /\ pipes' = [p \in {} |-> NewPipe(<<>>)]
                 /\ n2p' = [n \in {} |-> 0]
                 /\ UNCHANGED <<state, obj>>

----------------------------------------------------------------------------
(***************************************************************************)
(* Writes to the Node objects                                              *)
(***************************************************************************)
\* Scheduler._process_node_updates: the queued heartbeats ("ups", a partial
\* function from ids to reports) are applied, those of unknown ids ignored.
UpdateInfo(ups) ==
  /\ obj' = [n \in Nodes |->
               IF n \in DOMAIN ups /\ state[n] # "none"
                 THEN [FromReport(ups[n]) EXCEPT !.range = obj[n].range]
                 ELSE obj[n]]
  /\ UNCHANGED <<state, pipes, n2p>>

\* add_request(node_id): one more in-flight request, which may fill the node.
AddRequestRaises(n) == state[n] # "active"
AddRequest(n, over) ==
  /\ ~AddRequestRaises(n)
  /\ over \in {obj[n].over} \cup {rep.over : rep \in Reports}
  /\ obj[n].over => over
  /\ obj' = [obj EXCEPT ![n].over = over]
  /\ UNCHANGED <<state, pipes, n2p>>

\* heartbeat_timeout passes without an update being applied.
Expire(n) == /\ state[n] # "none"
             /\ obj[n].fresh
             /\ obj' = [obj EXCEPT ![n].fresh = FALSE]
             /\ UNCHANGED <<state, pipes, n2p>>

----------------------------------------------------------------------------
\* A registration call does the same on a list cut after its first malformed
\* pipeline, so only the last one of a batch need be malformed here; likewise a
\* standby(ids) that raises changes what standby(moved) does.
Batches == {Append(front, p) : p \in Stages, front \in
              UNION {[1..k -> {q \in Stages : Registrable(q)}] : k \in 0..(MaxBatch - 1)}}

NMNext ==
  \/ \E n \in Nodes, rep \in Reports : Upsert(n, rep)
  \/ \E S \in SUBSET Nodes : \E ups \in [S -> Reports] : UpdateInfo(ups)
  \/ \E n \in Nodes : RemoveNode(n) \/ Expire(n)
  \/ \E n \in Nodes, b \in BOOLEAN : AddRequest(n, b)
  \/ \E S \in SUBSET Nodes : StandbyLocked(S, S) \/ ClearServing(S)
  \/ \E n \in Nodes, r \in Ranges : Allocate(n, r) \/ AllocateFailed(n, r)
  \/ \E list \in Batches : RegisterPipelines(list) \/ ExtendRegistered(list)
  \/ ResetRegistry

\* The registry under any caller.  As a property of the scheduler: its threads change
\* the four tables only by these operations, one critical section at a time.
NMSpec == NMInit /\ [][NMNext]_registry

----------------------------------------------------------------------------
(***************************************************************************)
(* Properties                                                              *)
(***************************************************************************)
\* Types of the registry's four dictionaries.
NMTypeOK ==
  /\ state \in [Nodes -> {"none", "standby", "active"}]
  /\ obj \in [Nodes -> NodeObj]
  /\ DOMAIN pipes \subseteq 0..MaxPid
  /\ \A p \in DOMAIN pipes : pipes[p] \in PipeObj
  /\ DOMAIN n2p \subseteq Nodes
  /\ \A n \in DOMAIN n2p : n2p[n] \in 0..MaxPid

\* A mapped node is a registered node, and the pipeline it is mapped to exists
\* and has it as a stage: whatever calls raise midway, remove() never meets a
\* pipeline id that leads nowhere (the "pipeline is not None" tests of remove).
MappedRegistered ==
  \A n \in DOMAIN n2p : /\ state[n] # "none"
                        /\ n2p[n] \in DOMAIN pipes
                        /\ n \in Members(pipes[n2p[n]].ids)

\* When a mapped node leaves the registry, its pipeline is gone in the same
\* step and nobody is left mapped to it ("Leaving any member should invalidate
\* its entire registered pipeline", tests/scheduler_tests/test_scheduler.py:346).
LeaveDissolvesPipeline ==
  [][\A n \in DOMAIN n2p :
       (state[n] # "none" /\ state'[n] = "none")
         => /\ n2p[n] \notin DOMAIN pipes'
            /\ \A m \in DOMAIN n2p' : n2p'[m] # n2p[n]]_registry
=============================================================================
