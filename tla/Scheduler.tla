----------------------------- MODULE Scheduler -----------------------------
(***************************************************************************)
(* The scheduler process (class Scheduler), under round-robin routing and  *)
(* automatic layer assignment:                                             *)
(*   - the event thread (_event_loop): heartbeat updates, joins, leaves,    *)
(*     global rebalance, heartbeat check;                                  *)
(*   - the dispatcher thread (_dispatch_loop), which routes requests over   *)
(*     the registered pipelines (RoundRobinOverFixedPipelinesRouting).      *)
(* Both threads call NodeManager; one action here is one of its critical   *)
(* sections, so they interleave wherever the code lets go of its lock.     *)
(* Module Cluster adds the RPC handlers and the workers, and closes the     *)
(* system.                                                                 *)
(***************************************************************************)
EXTENDS NodeManager, SequencesExt, FiniteSetsExt

CONSTANTS Cap,          \* Cap[n]: decoder layers node n can hold
          MinNodes,     \* min_nodes_bootstrapping
          MaxCrashes,   \* bound: workers that crash, shut down or give up joining
          MaxStalls,    \* bound: heartbeat timeouts of a live, serving worker
          MaxRejoins,   \* bound: heartbeats of a live worker that was evicted
          MaxRequests,  \* bound: requests received
          MaxPending    \* bound: heartbeats queued and not yet applied

ASSUME CSAssumption == /\ Cap \in [Nodes -> Nat \ {0}]
                       /\ MinNodes \in Nat \ {0}
                       /\ {MaxCrashes, MaxStalls, MaxRejoins, MaxRequests, MaxPending} \subseteq Nat

VARIABLES
  bootstrapped, \* _bootstrapped_event
  joinQ,        \* _pending_joins: records [node, report]
  leaveQ,       \* _pending_leaves
  updQ,         \* _pending_node_updates: at most one per worker
  requests,     \* length of _request_queue
  ev,           \* event thread: pc and locals
  disp,         \* dispatcher thread: pc and locals
  rt,           \* each thread's activation of the router's bootstrap()
  lazyRan,      \* history: the dispatcher has run the router's bootstrap()
  clashed,      \* history: an expansion has met a node of a registered pipeline
  worker,       \* the worker processes
  spent         \* how much of each bound is used

queues  == <<joinQ, leaveQ, updQ>>
history == <<lazyRan, clashed>>
threads == <<ev, disp, rt, history>>
world   == <<worker, spent>>
vars    == <<registry, bootstrapped, queues, requests, threads, world>>

Threads == {"event", "dispatcher"}

EvIdle == [pc |-> "updates", ctx |-> "none", joined |-> FALSE, removed |-> FALSE,
           before |-> {}, plan |-> <<>>, sel |-> <<>>, todo |-> {}]
RtIdle == [pc |-> "idle", then |-> "none", todo |-> {}, sel |-> <<>>]

Init ==
  /\ NMInit
  /\ bootstrapped = FALSE
  /\ joinQ = {} /\ leaveQ = {} /\ updQ = [n \in {} |-> 0]
  /\ requests = 0
  /\ ev = EvIdle
  /\ disp = [pc |-> "idle", snap |-> {}, path |-> <<>>]
  /\ rt = [t \in Threads |-> RtIdle]
  /\ lazyRan = FALSE /\ clashed = FALSE
  /\ worker = [n \in Nodes |-> [pc |-> "off", range |-> NoRange, ready |-> FALSE]]
  /\ spent = [crashes |-> 0, stalls |-> 0, rejoins |-> 0, requests |-> 0]

----------------------------------------------------------------------------
(***************************************************************************)
(* Layer allocation.  allocate_from_standby is abstracted to its contract: *)
(* it succeeds when the standby nodes can hold the model, and then places  *)
(* one or more disjoint pipelines, each node within its capacity.          *)
(***************************************************************************)
Capacity(S) == FoldSet(LAMBDA n, c : Cap[n] + c, 0, S)

Placements(S) ==
  {q \in UNION {[1..k -> S \X Ranges] : k \in 1..NumLayers} :
     /\ IsInjective([i \in DOMAIN q |-> q[i][1]])
     /\ q[1][2][1] = 0 /\ q[Len(q)][2][2] = NumLayers
     /\ \A i \in 1..(Len(q) - 1) : q[i][2][2] = q[i + 1][2][1]
     /\ \A i \in DOMAIN q : q[i][2][2] - q[i][2][1] <= Cap[q[i][1]]}

PlacedNodes(q) == {q[i][1] : i \in DOMAIN q}

\* What a successful allocation assigns, pipeline by pipeline.
Plans(S) ==
  {b \in UNION {[1..k -> Placements(S)] : k \in 1..MaxBatch} :
     \A i, j \in DOMAIN b : i # j => PlacedNodes(b[i]) \cap PlacedNodes(b[j]) = {}}

----------------------------------------------------------------------------
(***************************************************************************)
(* Event thread                                                            *)
(***************************************************************************)
\* The dispatcher keeps the object of a node that the registry drops or replaces:
\* in the pipelines it has listed, whose is_active flag is frozen like that of the
\* registered ones, and among the objects it is about to clear.
DropObject(n) ==
  /\ disp' = [disp EXCEPT !.snap = {Freeze(p, n) : p \in @}]
  /\ rt' = IF rt["dispatcher"].pc = "unload"
             THEN [rt EXCEPT !["dispatcher"].todo = @ \ {n}] ELSE rt

\* Mutation: the object is built anew from the report, its layers forgotten.
UpdatesByReplacing ==
  /\ ev.pc = "updates"
  /\ obj' = [n \in Nodes |-> IF n \in DOMAIN updQ /\ state[n] # "none"
                               THEN FromReport(updQ[n]) ELSE obj[n]]
  /\ updQ' = [n \in {} |-> 0]
  /\ ev' = [ev EXCEPT !.pc = "joins", !.joined = FALSE]
  /\ UNCHANGED <<state, pipes, n2p, bootstrapped, joinQ, leaveQ, requests, disp, rt, history, world>>

ProcessUpdates ==
  /\ ev.pc = "updates"
  /\ UpdateInfo(updQ)
  /\ updQ' = [n \in {} |-> 0]
  /\ ev' = [ev EXCEPT !.pc = "joins", !.joined = FALSE]
  /\ UNCHANGED <<bootstrapped, joinQ, leaveQ, requests, disp, rt, history, world>>

ExpandsNever(n) == FALSE  \* mutation of Expands
Expands(n) == state[n] = "none" /\ bootstrapped

\* join(node): a new id is registered STANDBY and, once bootstrapped, triggers
\* an expansion; a known id is replaced once bootstrapped, else ignored.
ProcessJoin ==
  /\ ev.pc = "joins"
  /\ \E j \in joinQ :
       /\ joinQ' = joinQ \ {j}
       /\ IF state[j.node] = "none" \/ bootstrapped
            THEN Upsert(j.node, j.report) /\ DropObject(j.node)
            ELSE UNCHANGED <<registry, disp, rt>>
       /\ ev' = IF Expands(j.node)
                   THEN [ev EXCEPT !.joined = TRUE, !.pc = "plan", !.ctx = "expand"]
                   ELSE [ev EXCEPT !.joined = TRUE]
  /\ UNCHANGED <<bootstrapped, leaveQ, updQ, requests, history, world>>

\* After the last join of the pass, bootstrap() if it is due.
JoinsDone ==
  /\ ev.pc = "joins" /\ joinQ = {}
  /\ ev' = IF ev.joined /\ ~bootstrapped /\ Cardinality(Standby) >= MinNodes
             THEN [EvIdle EXCEPT !.pc = "plan", !.ctx = "join"]
             ELSE [EvIdle EXCEPT !.pc = "leaves"]
  /\ UNCHANGED <<registry, bootstrapped, queues, requests, disp, rt, history, world>>

\* Where the event thread goes when the operation it runs returns or raises.
\* Only the rebalance that follows a leave lets an exception escape the loop.
Resume(ok) ==
  [EvIdle EXCEPT !.pc = CASE ev.ctx = "expand" -> "joins"
                          [] ev.ctx = "join"   -> "leaves"
                          [] ev.ctx = "leave"  -> IF ok THEN "heartbeat" ELSE "dead",
                 !.joined = ev.joined /\ ev.ctx = "expand"]

\* expand_pipelines() and bootstrap() call allocate_from_standby(); the former
\* remembers which nodes were ACTIVE before.
PlanAllocation ==
  /\ ev.pc = "plan"
  /\ IF Capacity(Standby) >= NumLayers
       THEN /\ \E plan \in Plans(Standby) :
                 ev' = [ev EXCEPT !.pc = "allocate", !.plan = plan,
                                  !.before = IF ev.ctx = "expand" THEN Active ELSE {}]
            /\ UNCHANGED bootstrapped
       ELSE /\ ev' = Resume(TRUE)
            /\ bootstrapped' = (bootstrapped /\ ev.ctx = "expand")
  /\ UNCHANGED <<registry, queues, requests, disp, rt, history, world>>

\* The next node of the pipeline in hand, and what is left to do after it.
Placed(plan) == Head(Head(plan))
AfterPlaced(plan) ==
  IF Len(Head(plan)) = 1 THEN Tail(plan) ELSE <<Tail(Head(plan))>> \o Tail(plan)

AllocateNext ==
  /\ ev.pc = "allocate" /\ ev.plan # <<>>
  /\ LET n == Placed(ev.plan)[1]
         r == Placed(ev.plan)[2]
     IN  \/ /\ Allocate(n, r)
            /\ ev' = [ev EXCEPT !.plan = AfterPlaced(@)]
         \/ /\ AllocateFailed(n, r)
            /\ ev' = Resume(FALSE)
  /\ UNCHANGED <<bootstrapped, queues, requests, disp, rt, history, world>>

\* bootstrap() goes on to the router's bootstrap(), expand_pipelines() to the
\* pipelines that the newly ACTIVE nodes make.
StartRouter(t, then) ==
  rt' = [rt EXCEPT ![t] = [RtIdle EXCEPT
           !.pc = IF then = "plan" THEN "keys" ELSE "existing", !.then = then]]

AllocationDone ==
  /\ ev.pc = "allocate" /\ ev.plan = <<>>
  /\ IF ~HasFullPipeline
       THEN /\ ev' = Resume(TRUE)
            /\ bootstrapped' = (bootstrapped /\ ev.ctx = "expand")
            /\ UNCHANGED rt
       ELSE /\ IF ev.ctx = "expand"
                 THEN ev' = [ev EXCEPT !.pc = "filter"] /\ UNCHANGED rt
                 ELSE ev' = [ev EXCEPT !.pc = "router"] /\ StartRouter("event", "select")
            /\ UNCHANGED bootstrapped
  /\ UNCHANGED <<registry, queues, requests, disp, history, world>>

\* Lists as pipeline_discovery returns them: the chains of one head together.
Discovered(S) ==
  {list \in SetToSeqs(S) :
     \A i, j, k \in DOMAIN list :
       i < j /\ j < k /\ list[i][1] = list[k][1] => list[j][1] = list[i][1]}

FilterNewPipelines ==
  /\ ev.pc = "filter"
  /\ LET new == {p \in ChainsOver(Active \ ev.before) : Members(p) \cap DOMAIN n2p = {}}
     IN  IF new = {} THEN ev' = Resume(TRUE)
         ELSE \E list \in Discovered(new) : ev' = [ev EXCEPT !.pc = "extend", !.sel = list]
  /\ UNCHANGED <<registry, bootstrapped, queues, requests, disp, rt, history, world>>

\* Mutation: the new pipelines replace the registered ones.
ExtendByReplacing ==
  /\ ev.pc = "extend"
  /\ RegisterPipelines(ev.sel)
  /\ ev' = Resume(TRUE)
  /\ UNCHANGED <<bootstrapped, queues, requests, disp, rt, history, world>>

\* An exception of extend_registered_pipelines is caught and logged: a chain of new
\* nodes may share some with a chain that has just been registered.
ExtendPipelines ==
  /\ ev.pc = "extend"
  /\ ExtendRegistered(ev.sel)
  /\ ev' = Resume(TRUE)
  /\ clashed' = (clashed \/ RegistrationRaises(ev.sel, DOMAIN n2p))
  /\ UNCHANGED <<bootstrapped, queues, requests, disp, rt, lazyRan, world>>

\* leave(node_id): an unknown id, or a member of its pipeline that is not
\* ACTIVE, raises; the exception is caught and the leave not counted.
ProcessLeave ==
  /\ ev.pc = "leaves"
  /\ \E n \in leaveQ :
       /\ leaveQ' = leaveQ \ {n}
       /\ IF state[n] = "none"
            THEN UNCHANGED <<registry, disp, rt, ev>>
            ELSE /\ RemoveNode(n) /\ DropObject(n)
                 /\ ev' = [ev EXCEPT !.removed = @ \/ ~RemoveRaises(n)]
  /\ UNCHANGED <<bootstrapped, joinQ, updQ, requests, history, world>>

\* should_global_rebalance() after the last leave of the pass: with the default
\* infinite threshold, only the loss of the last full pipeline triggers it.
\* Mutation: never.
RebalanceNever == FALSE
ShouldRebalance == ev.removed /\ ~HasFullPipeline /\ Registered # {}

LeavesDone ==
  /\ ev.pc = "leaves" /\ leaveQ = {}
  /\ ev' = IF ShouldRebalance
             THEN [ev EXCEPT !.pc = "standby", !.ctx = "leave", !.todo = Active]
             ELSE [EvIdle EXCEPT !.pc = "heartbeat"]
  /\ UNCHANGED <<registry, bootstrapped, queues, requests, disp, rt, history, world>>

\* _process_leaves moves the nodes it saw ACTIVE to STANDBY ...
StandbyAll ==
  /\ ev.pc = "standby"
  /\ \E moved \in SUBSET ev.todo : StandbyLocked(ev.todo, moved)
  /\ ev' = IF ev.todo \subseteq Active THEN [ev EXCEPT !.pc = "unload"] ELSE Resume(FALSE)
  /\ UNCHANGED <<bootstrapped, queues, requests, disp, rt, history, world>>

UnloadAll ==
  /\ ev.pc = "unload"
  /\ ClearServing(ev.todo)
  /\ ev' = [ev EXCEPT !.pc = "reboot", !.todo = {}]
  /\ UNCHANGED <<bootstrapped, queues, requests, disp, rt, history, world>>

\* ... asserts that none is left, and calls bootstrap(reboot=True), which first
\* clears the registered pipelines.
Reboot ==
  /\ ev.pc = "reboot"
  /\ IF Active = {}
       THEN ev' = [ev EXCEPT !.pc = "router"] /\ StartRouter("event", "plan")
       ELSE ev' = Resume(FALSE) /\ UNCHANGED rt
  /\ UNCHANGED <<registry, bootstrapped, queues, requests, disp, history, world>>

\* checking_node_heartbeat looks at the ACTIVE nodes only; it runs at most once
\* in half a second, so most passes skip it.
SkipHeartbeats ==
  /\ ev.pc = "heartbeat"
  /\ ev' = EvIdle
  /\ UNCHANGED <<registry, bootstrapped, queues, requests, disp, rt, history, world>>

CheckHeartbeats ==
  /\ ev.pc = "heartbeat"
  /\ leaveQ' = leaveQ \cup {n \in Active : ~obj[n].fresh}
  /\ ev' = EvIdle
  /\ UNCHANGED <<registry, bootstrapped, joinQ, updQ, requests, disp, rt, history, world>>

----------------------------------------------------------------------------
(***************************************************************************)
(* clear_registered_pipelines and the router's bootstrap(), which either   *)
(* thread can be running: the event thread from bootstrap(), the           *)
(* dispatcher from find_optimal_path when it finds nothing registered.     *)
(***************************************************************************)
RouterReturn(t) ==
  /\ rt' = [rt EXCEPT ![t] = RtIdle]
  /\ IF t = "event"
       THEN ev' = Resume(TRUE) /\ bootstrapped' = TRUE /\ UNCHANGED disp
       ELSE disp' = [disp EXCEPT !.pc = "snapshot"] /\ UNCHANGED <<ev, bootstrapped>>

RouterRaise(t) ==
  /\ rt' = [rt EXCEPT ![t] = RtIdle]
  /\ IF t = "event"
       THEN ev' = Resume(FALSE) /\ UNCHANGED disp
       ELSE disp' = [disp EXCEPT !.pc = "dead"] /\ UNCHANGED ev
  /\ UNCHANGED bootstrapped

RouterExisting(t) ==
  /\ rt[t].pc = "existing"
  /\ rt' = [rt EXCEPT ![t].pc = IF DOMAIN pipes # {} THEN "keys" ELSE "select"]
  /\ UNCHANGED <<registry, bootstrapped, queues, requests, ev, disp, history, world>>

\* standby(list(_node_to_pipeline.keys())): the keys are read before the lock is
\* taken, and the call raises if one of those nodes is not ACTIVE.
RouterKeys(t) ==
  /\ rt[t].pc = "keys"
  /\ rt' = [rt EXCEPT ![t].pc = "clear", ![t].todo = DOMAIN n2p]
  /\ UNCHANGED <<registry, bootstrapped, queues, requests, ev, disp, history, world>>

RouterClear(t) ==
  /\ rt[t].pc = "clear"
  /\ \E moved \in SUBSET rt[t].todo :
       /\ StandbyLocked(rt[t].todo, moved)
       /\ IF rt[t].todo \subseteq Active
            THEN rt' = [rt EXCEPT ![t].pc = "unload"] /\ UNCHANGED <<ev, disp, bootstrapped>>
            ELSE RouterRaise(t)
  /\ UNCHANGED <<queues, requests, history, world>>

RouterUnload(t) ==
  /\ rt[t].pc = "unload"
  /\ ClearServing(rt[t].todo)
  /\ rt' = [rt EXCEPT ![t].pc = "reset", ![t].todo = {}]
  /\ UNCHANGED <<bootstrapped, queues, requests, ev, disp, history, world>>

RouterReset(t) ==
  /\ rt[t].pc = "reset"
  /\ ResetRegistry
  /\ IF rt[t].then = "plan"
       THEN /\ rt' = [rt EXCEPT ![t] = RtIdle]
            /\ bootstrapped' = FALSE
            /\ ev' = [ev EXCEPT !.pc = "plan"]
       ELSE /\ rt' = [rt EXCEPT ![t].pc = "select"]
            /\ UNCHANGED <<bootstrapped, ev>>
  /\ UNCHANGED <<queues, requests, disp, history, world>>

\* estimate_pipeline_latency is finite: no overloaded stage, and an RTT known
\* from one end or the other of every hop.
Routable(p) == /\ \A i \in DOMAIN p : ~obj[p[i]].over
               /\ \A i \in 1..(Len(p) - 1) : obj[p[i]].rtt \/ obj[p[i + 1]].rtt

\* _select_best_pipelines keeps one pipeline per head, cheapest heads first, all
\* disjoint: whatever the latencies, a maximal choice of disjoint pipelines.
Selections(chains) ==
  {sel \in SUBSET chains :
     /\ \A p, q \in sel : p # q => Members(p) \cap Members(q) = {}
     /\ \A p \in chains \ sel : \E q \in sel : Members(p) \cap Members(q) # {}}

RouterSelect(t) ==
  /\ rt[t].pc = "select"
  /\ IF ~HasFullPipeline THEN RouterReturn(t)
     ELSE /\ \E sel \in Selections({p \in ChainsOver(Active) : Routable(p)}) :
               \E list \in SetToSeqs(sel) :
                 rt' = [rt EXCEPT ![t].pc = "register", ![t].sel = list]
          /\ UNCHANGED <<bootstrapped, ev, disp>>
  /\ UNCHANGED <<registry, queues, requests, history, world>>

RouterRegister(t) ==
  /\ rt[t].pc = "register"
  /\ RegisterPipelines(rt[t].sel)
  /\ IF RegistrationRaises(rt[t].sel, {}) THEN RouterRaise(t) ELSE RouterReturn(t)
  /\ UNCHANGED <<queues, requests, history, world>>

Router(t) == \/ RouterExisting(t) \/ RouterKeys(t) \/ RouterClear(t)
             \/ RouterUnload(t) \/ RouterReset(t) \/ RouterSelect(t) \/ RouterRegister(t)

----------------------------------------------------------------------------
(***************************************************************************)
(* Dispatcher thread                                                       *)
(***************************************************************************)
RoutingReady == \E p \in DOMAIN pipes : IsReady(pipes[p])

DispGoto(pc) == disp' = [disp EXCEPT !.pc = pc]

\* Routing is ready, so block for a request (if the bound leaves one to come) ...
\* run() starts this thread once the first bootstrap has succeeded; before that
\* nothing is registered and it has nothing to do.
AwaitRequest ==
  /\ disp.pc = "idle" /\ RoutingReady
  /\ requests > 0 \/ spent.requests < MaxRequests
  /\ DispGoto("await")
  /\ UNCHANGED <<registry, bootstrapped, queues, requests, ev, rt, history, world>>

\* ... for poll_interval at most.
AwaitTimeout ==
  /\ disp.pc = "await"
  /\ DispGoto("idle")
  /\ UNCHANGED <<registry, bootstrapped, queues, requests, ev, rt, history, world>>

\* find_optimal_path reads the registered pipelines; if there are none (any
\* more) it runs the router's bootstrap() in this thread.
TakeRequest ==
  /\ disp.pc = "await" /\ requests > 0
  /\ requests' = requests - 1
  /\ IF DOMAIN pipes = {}
       THEN /\ DispGoto("router") /\ StartRouter("dispatcher", "select")
            /\ lazyRan' = TRUE /\ UNCHANGED clashed
       ELSE /\ disp' = [disp EXCEPT !.pc = "resolve",
                                    !.snap = {pipes[p] : p \in DOMAIN pipes}]
            /\ UNCHANGED <<rt, history>>
  /\ UNCHANGED <<registry, bootstrapped, queues, ev, world>>

SnapshotAgain ==
  /\ disp.pc = "snapshot"
  /\ disp' = [disp EXCEPT !.pc = "resolve", !.snap = {pipes[p] : p \in DOMAIN pipes}]
  /\ UNCHANGED <<registry, bootstrapped, queues, requests, ev, rt, history, world>>

\* The round robin starts anywhere in the list (the cursor is abstracted), and
\* takes the first ready pipeline whose stages the registry reports usable; a
\* ready pipeline with a stage the registry no longer has raises.
Lost(pipe) == IsReady(pipe) /\ ~(Members(pipe.ids) \subseteq Registered)
Usable(pipe) == /\ IsReady(pipe)
                /\ Members(pipe.ids) \subseteq Registered
                /\ \A n \in Members(pipe.ids) : obj[n].ready
                /\ Routable(pipe.ids)

ResolvePath ==
  /\ disp.pc = "resolve"
  /\ \/ \E pipe \in disp.snap :
          /\ Usable(pipe)
          /\ disp' = [pc |-> "charge", snap |-> {}, path |-> pipe.ids]
     \/ /\ \E pipe \in disp.snap : Lost(pipe)
        /\ disp' = [pc |-> "dead", snap |-> {}, path |-> <<>>]
     \/ /\ \A pipe \in disp.snap : ~Usable(pipe) /\ ~Lost(pipe)
        /\ disp' = [pc |-> "idle", snap |-> {}, path |-> <<>>]
  /\ UNCHANGED <<registry, bootstrapped, queues, requests, ev, rt, history, world>>

\* add_request on every stage of the routing table, one lock at a time.
ChargeNext ==
  /\ disp.pc = "charge" /\ disp.path # <<>>
  /\ IF AddRequestRaises(Head(disp.path))
       THEN disp' = [disp EXCEPT !.pc = "dead", !.path = <<>>] /\ UNCHANGED registry
       ELSE /\ \E over \in BOOLEAN : AddRequest(Head(disp.path), over)
            /\ disp' = [disp EXCEPT !.path = Tail(@),
                                    !.pc = IF Len(disp.path) = 1 THEN "idle" ELSE "charge"]
  /\ UNCHANGED <<bootstrapped, queues, requests, ev, rt, history, world>>

ReceiveRequest ==
  /\ spent.requests < MaxRequests
  /\ spent' = [spent EXCEPT !.requests = @ + 1]
  /\ requests' = requests + 1
  /\ UNCHANGED <<registry, bootstrapped, queues, threads, worker>>
=============================================================================
