------------------------------ MODULE Cluster ------------------------------
(***************************************************************************)
(* The scheduler together with the workers it serves.  The RPC handlers    *)
(* (backend/server/rpc_connection_handler.py) fill the scheduler's queues   *)
(* and answer with the layers allocated at that moment; a worker           *)
(* (GradientServer, p2p/server.py) joins, then sends heartbeats, adopts     *)
(* the layers it is told, reloads, and may stall, crash or leave.          *)
(* A restarted worker is a new id: it makes itself a new peer key.         *)
(***************************************************************************)
EXTENDS Scheduler

sched == <<bootstrapped, requests, threads>>

\* get_layer_allocation: the ranges of ACTIVE nodes only.
Allocation(n) == IF state[n] = "active" THEN obj[n].range ELSE NoRange

PendingJoins(n) == {j \in joinQ : j.node = n}

\* What get_node_info may report: overloaded only if a request was dispatched.
NodeInfo(n) ==
  {r \in Reports : /\ r.ready = worker[n].ready
                   /\ r.over => worker[n].pc = "up" /\ spent.requests > requests}

EnqueueJoin(n) ==
  \E rep \in NodeInfo(n) :
    joinQ' = joinQ \cup {[node |-> n, report |-> rep]}

\* run(): the first join.  The executor is not up yet, so is_active is false.
Start(n) ==
  /\ worker[n].pc = "off"
  /\ worker' = [worker EXCEPT ![n].pc = "joining"]
  /\ EnqueueJoin(n)
  /\ UNCHANGED <<registry, sched, leaveQ, updQ, spent>>

\* The layers in an answer: none means JOINING and forgets the model, new ones
\* mean INITIALIZING until the executor has reloaded.
Adopt(n, r) ==
  worker' = [worker EXCEPT ![n].pc = "up", ![n].range = r,
                           ![n].ready = @ /\ r # NoRange /\ r = worker[n].range]

\* node_join answers as soon as layers are allocated, and gives up after 300 s,
\* upon which the worker exits.  It sends no heartbeat while it waits.
JoinAnswered(n) ==
  /\ worker[n].pc = "joining" /\ Allocation(n) # NoRange
  /\ Adopt(n, Allocation(n))
  /\ UNCHANGED <<registry, sched, queues, spent>>

JoinTimeout(n) ==
  /\ worker[n].pc = "joining" /\ Allocation(n) = NoRange
  /\ PendingJoins(n) = {}
  /\ state[n] # "none" => ~obj[n].fresh
  /\ spent.crashes < MaxCrashes
  /\ spent' = [spent EXCEPT !.crashes = @ + 1]
  /\ worker' = [worker EXCEPT ![n].pc = "down"]
  /\ UNCHANGED <<registry, sched, queues>>

\* node_update of a registered node: the status is queued, and the answer
\* carries the current allocation, possibly older than the queued status.
Heartbeat(n) ==
  /\ worker[n].pc = "up" /\ state[n] # "none"
  /\ n \notin DOMAIN updQ /\ Cardinality(DOMAIN updQ) < MaxPending
  /\ \E rep \in NodeInfo(n) :
       updQ' = [m \in DOMAIN updQ \cup {n} |-> IF m = n THEN rep ELSE updQ[m]]
  /\ Adopt(n, Allocation(n))
  /\ UNCHANGED <<registry, sched, joinQ, leaveQ, spent>>

\* node_update of an unknown node: it is joined, and the handler waits 5 s for
\* an allocation, long enough for the event thread to have taken the join.
HeartbeatUnknown(n) ==
  /\ worker[n].pc = "up" /\ state[n] = "none"
  /\ PendingJoins(n) = {}
  /\ EnqueueJoin(n)
  /\ worker' = [worker EXCEPT ![n].pc = "rejoining"]
  /\ spent.rejoins < MaxRejoins
  /\ spent' = [spent EXCEPT !.rejoins = @ + 1]
  /\ UNCHANGED <<registry, sched, leaveQ, updQ>>

RejoinAnswered(n) ==
  /\ worker[n].pc = "rejoining"
  /\ Allocation(n) = NoRange => PendingJoins(n) = {}
  /\ Adopt(n, Allocation(n))
  /\ UNCHANGED <<registry, sched, queues, spent>>

\* The executor has loaded the layers and sets the status READY.
Load(n) ==
  /\ worker[n].pc = "up" /\ worker[n].range # NoRange /\ ~worker[n].ready
  /\ worker' = [worker EXCEPT ![n].ready = TRUE]
  /\ UNCHANGED <<registry, sched, queues, spent>>

Crash(n) ==
  /\ worker[n].pc \in {"joining", "up", "rejoining"}
  /\ spent.crashes < MaxCrashes
  /\ spent' = [spent EXCEPT !.crashes = @ + 1]
  /\ worker' = [worker EXCEPT ![n] = [pc |-> "down", range |-> NoRange, ready |-> FALSE]]
  /\ UNCHANGED <<registry, sched, queues>>

\* shutdown(): node_leave is sent.
Shutdown(n) ==
  /\ worker[n].pc = "up"
  /\ spent.crashes < MaxCrashes
  /\ spent' = [spent EXCEPT !.crashes = @ + 1]
  /\ worker' = [worker EXCEPT ![n] = [pc |-> "down", range |-> NoRange, ready |-> FALSE]]
  /\ leaveQ' = leaveQ \cup {n}
  /\ UNCHANGED <<registry, sched, joinQ, updQ>>

\* 30 s go by with no heartbeat applied: from a dead worker, from one whose join
\* is still unanswered, or (a stall) from a live one.  Only the heartbeat check at
\* the end of a pass looks, and a pass is much shorter than that: whatever has
\* expired by then can be said to have expired before the pass began.
Silence(n) ==
  /\ ev.pc = "updates"
  /\ n \notin DOMAIN updQ
  /\ Expire(n)
  /\ \/ worker[n].pc = "down" /\ UNCHANGED spent
     \/ worker[n].pc = "joining" /\ Allocation(n) = NoRange /\ UNCHANGED spent
     \/ /\ worker[n].pc = "up" /\ spent.stalls < MaxStalls
        /\ spent' = [spent EXCEPT !.stalls = @ + 1]
  /\ UNCHANGED <<sched, queues, worker>>

----------------------------------------------------------------------------
EventThread ==
  \/ ProcessUpdates \/ ProcessJoin \/ JoinsDone \/ PlanAllocation
  \/ AllocateNext \/ AllocationDone \/ FilterNewPipelines \/ ExtendPipelines
  \/ ProcessLeave \/ LeavesDone \/ StandbyAll \/ UnloadAll \/ Reboot
  \/ CheckHeartbeats \/ SkipHeartbeats \/ Router("event")

Dispatcher ==
  \/ AwaitRequest \/ AwaitTimeout \/ TakeRequest \/ SnapshotAgain
  \/ ResolvePath \/ ChargeNext \/ Router("dispatcher")

\* run() and its announcer thread: one RPC to the scheduler after the other.
Announcer(n) ==
  JoinAnswered(n) \/ Heartbeat(n) \/ HeartbeatUnknown(n) \/ RejoinAnswered(n)

Worker(n) ==
  \/ Start(n) \/ Announcer(n) \/ JoinTimeout(n) \/ Load(n)
  \/ Crash(n) \/ Shutdown(n) \/ Silence(n)

Next == EventThread \/ Dispatcher \/ ReceiveRequest \/ \E n \in Nodes : Worker(n)

Spec == Init /\ [][Next]_vars

\* The event thread and the workers' announcers are loops that keep running; a
\* heartbeat check comes round however many passes skip it.
Fairness ==
  /\ WF_vars(EventThread) /\ SF_vars(CheckHeartbeats)
  /\ \A n \in Nodes : /\ WF_vars(Announcer(n)) /\ WF_vars(Load(n))
                      /\ SF_vars(worker[n].pc = "down" /\ Silence(n))

LiveSpec == Spec /\ Fairness

----------------------------------------------------------------------------
(***************************************************************************)
(* Properties                                                              *)
(***************************************************************************)
TypeOK ==
  /\ NMTypeOK
  /\ bootstrapped \in BOOLEAN
  /\ joinQ \subseteq [node : Nodes, report : Reports]
  /\ leaveQ \subseteq Nodes
  /\ DOMAIN updQ \subseteq Nodes
  /\ ev.pc \in {"updates", "joins", "plan", "allocate", "filter", "extend",
                "router", "leaves", "standby", "unload", "reboot", "heartbeat", "dead"}
  /\ disp.pc \in {"idle", "await", "router", "snapshot", "resolve", "charge", "dead"}

\* The event thread has been alone with the registry, and no expansion has met a node
\* of a registered pipeline.
Steady == ~lazyRan /\ ~clashed

\* Every registered pipeline can serve: its stages are mapped to it, ACTIVE, and
\* cover the model without gap or overlap.  What breaks it is only the dispatcher's
\* own run of the router's bootstrap(), racing the event thread, and an expansion
\* that registers a chain with a node of another (OnePipelinePerNode).
RegisteredPipelinesServe ==
  Steady =>
    \A p \in DOMAIN pipes :
      /\ Registrable(pipes[p].ids)
      /\ \A n \in Members(pipes[p].ids) :
           state[n] = "active" /\ n \in DOMAIN n2p /\ n2p[n] = p

\* No exception escapes the event loop: neither clear_registered_pipelines nor
\* the assertions of _process_leaves fail.
EventLoopSurvives == Steady => ev.pc # "dead"

\* At the start of a pass, with every join processed, an idle swarm is one that
\* cannot serve: too few layers, or not bootstrapped and too few nodes.
IdleOnlyIfTooSmall ==
  (ev.pc = "updates" /\ Steady /\ DOMAIN pipes = {}) =>
    \/ Capacity(Registered) < NumLayers
    \/ ~bootstrapped /\ Cardinality(Registered) < MinNodes

\* A node holds layers exactly while it is ACTIVE, but for the moment in which a
\* rebalance has moved all nodes to STANDBY and is about to clear them: what remove,
\* standby, activate and the allocator write in several steps agrees between them.
LayersFollowState ==
  (Steady /\ ev.pc # "unload") =>
    \A n \in Nodes : state[n] = "active" <=> obj[n].range # NoRange

\* At the start of a pass a node is ACTIVE exactly if it serves a pipeline: no memory
\* is held for a model that no registered pipeline of the node uses (given RTTs, and
\* no node overloaded while pipelines are selected).
LayersInUse ==
  (ev.pc = "updates" /\ Steady) => Active = DOMAIN n2p

\* A registered pipeline is only given up when one of its own members leaves the
\* registry: the departure of others, expansion and rebalancing never take down or
\* replace a pipeline that serves.
Kept(p) == p \in DOMAIN pipes' /\ pipes'[p].ids = pipes[p].ids
PipelinesOutliveOthers ==
  [][\A p \in DOMAIN pipes :
       Kept(p) \/ ~Steady' \/ \E n \in Members(pipes[p].ids) : state'[n] = "none"]_vars

\* A worker that dies while it is ACTIVE does not stay so.
DeadAreEvicted ==
  \A n \in Nodes : (worker[n].pc = "down" /\ state[n] = "active") ~> state[n] # "active"

\* A worker evicted while its first join is unanswered is out: the answer can no
\* longer come, and it exits when the join times out.
Live == {n \in Nodes : \/ worker[n].pc \in {"up", "rejoining"}
                       \/ worker[n].pc = "joining" /\ (state[n] # "none" \/ PendingJoins(n) # {})}
Serving == \E p \in DOMAIN pipes :
             /\ IsReady(pipes[p])
             /\ \A n \in Members(pipes[p].ids) :
                  worker[n].pc = "up" /\ worker[n].ready /\ worker[n].range = obj[n].range

\* Whatever died, stalled or was evicted on the way, the swarm ends up with a
\* pipeline that every stage has loaded, unless the live workers are too few.
Recovers ==
  <>[](Serving \/ Capacity(Live) < NumLayers \/ Cardinality(Live) < MinNodes)

----------------------------------------------------------------------------
(***************************************************************************)
(* What the code's comments say and the code does not do (see README)      *)
(***************************************************************************)
\* The dispatcher keeps dispatching: find_optimal_path returns no path when a
\* node is missing, and no request ends the loop.
DispatcherSurvives == disp.pc # "dead"

\* A request is only routed over workers that have loaded, and run, the layers
\* that the scheduler allocated to them.
RoutesToLoaded ==
  [][(disp.pc = "resolve" /\ disp'.pc = "charge") =>
       \A n \in Members(disp'.path) :
         worker[n].pc = "up" => worker[n].ready /\ worker[n].range = obj[n].range]_vars

\* "One node is registered to at most one pipeline, no overlap, and no gap"
\* (request_routing.py:39).
OnePipelinePerNode ==
  \A p, q \in DOMAIN pipes :
    p # q => Members(pipes[p].ids) \cap Members(pipes[q].ids) = {}
=============================================================================
