------------------------------- MODULE Console -------------------------------
(***************************************************************************)
(* The console of the web frontend: the cluster service, its router, the   *)
(* setup, join and chat pages with their dialogs, and the server behind    *)
(* them.  Callbacks set states (`ui`); a commit renders them (`shown`) and *)
(* runs the effects, which start and stop timers, open dialogs, call init  *)
(* and set states again.  Reports, answers and errors may come between a   *)
(* change of the view and its commit; a click or a navigation is committed *)
(* at once, together with all that is pending.                             *)
(***************************************************************************)
EXTENDS ClusterView, Integers, FiniteSets

CONSTANTS Reports,       \* what a server may report
          MaxInit,       \* bound: the number of nodes a user asks for
          MaxClicks,     \* bound: clicks that change a choice or the page
          MaxChanges,    \* bound: changes of the cluster by others
          MaxBreaks      \* bound: errors of the status stream

ASSUME ConsoleAssumption == /\ Reports \subseteq Report /\ MaxInit \in Nat \ {0} /\ MaxClicks \in Nat
                            /\ MaxChanges \in Nat /\ MaxBreaks \in Nat

VARIABLES
  host,      \* the entry page: the console of a cluster, or the chat of a node
  server,    \* what the server would report now
  wire,      \* the report in flight, if any
  ui,        \* the states set last
  shown,     \* the states of the last commit
  route,     \* where the router's timer will go, "": not running
  alarm,     \* the timer of the restart dialog is running
  dialogs,   \* the open dialogs of the chat page
  posts,     \* calls of init under way
  last,      \* history: the report shown, <<>> after a reset or an init
  sent,      \* history: the number of calls of init
  clicks, changes, breaks     \* counts

vars == <<host, server, wire, ui, shown, route, alarm, dialogs, posts, last, sent,
          clicks, changes, breaks>>
counts == <<clicks, changes, breaks>>
view == <<shown, route, alarm, dialogs>>

Setup == "/setup"
Join == "/join"
Chat == "/chat"
Paths == {"none", "/", Setup, Join, Chat}    \* none: not mounted
OnChat(u) == u.path = Chat
HasCluster == host = "cluster"

----------------------------------------------------------------------------
(* The server: external; a report is what get_cluster_status puts together. *)
NoScheduler == [status |-> "waiting", model |-> NoModel, init |-> 0, command |-> NoCommand,
                more |-> FALSE, nodes |-> <<>>]
Started(model, init, net) == [NoScheduler EXCEPT !.model = model, !.init = init,
                                                 !.command = net]

Init ==
  /\ host \in {"cluster", "node"} /\ server \in Reports
  /\ \E path \in {"/", Chat} : ui = Start(path) /\ shown = Start("none")
  /\ wire = <<>> /\ posts = <<>> /\ last = <<>>
  /\ route = "" /\ alarm = FALSE /\ dialogs = {}
  /\ sent = 0 /\ clicks = 0 /\ changes = 0 /\ breaks = 0

----------------------------------------------------------------------------
(* The router. *)
\* Mutation of MainTarget: only the join page leads on.
LeadsOnFromJoin(u) ==
  CASE u.path = "/" -> Setup
    [] u.info.status = "idle" /\ OnChat(u) -> Setup
    [] u.info.status = "available" /\ u.path = Join -> Chat
    [] OTHER -> ""

\* Where MainRouter, or the ChatRouter of a node, wants to go.
MainTarget(u) ==
  CASE u.path = "/"                                     -> Setup
    [] u.info.status = "idle" /\ OnChat(u)              -> Setup
    [] u.info.status = "available" /\ u.path # "/" /\ ~OnChat(u) -> Chat
    [] OTHER                                            -> ""

ChatTarget(u) == IF OnChat(u) THEN "" ELSE Chat

Target(u) == IF HasCluster THEN MainTarget(u) ELSE ChatTarget(u)

----------------------------------------------------------------------------
(* Calls of init, from the setup page (`here`: still the page that called) or from the
   select of the chat page. *)
Call(u, from) == [model |-> u.model, init |-> u.init, net |-> u.net, from |-> from,
                  here |-> TRUE, done |-> FALSE]
Calls(ps, u, from) == IF MayInit(u) THEN Append(ps, Call(u, from)) ELSE ps

\* The page that called is left: its loading state is gone.
Left(ps) == [i \in DOMAIN ps |-> [ps[i] EXCEPT !.here = FALSE]]

\* The server starts its scheduler anew; an error is answered in the same way.
Serve(i) ==
  /\ ~posts[i].done
  /\ posts' = [posts EXCEPT ![i].done = TRUE]
  /\ server' = Started(posts[i].model, posts[i].init, posts[i].net)
  /\ UNCHANGED <<host, wire, ui, view, last, sent, counts>>

\* The connection is lost before or after the server acts.
CallFails(i) ==
  /\ posts' = RemoveAt(posts, i)
  /\ UNCHANGED <<host, server, wire, ui, view, last, sent, counts>>

----------------------------------------------------------------------------
(* A commit: render, then the effects, of children first. *)
\* The effect of the model select on [canAutoCommit, configModelName].
AutoCommits(u, mounts) ==
  /\ OnChat(u) /\ u.can /\ u.model # u.info.model
  /\ mounts \/ u.can # shown.can \/ u.model # shown.model

\* The effects of the chat page's dialogs on the status and on needMoreNodes.
Opened(u, mounts, news) ==
  {d \in {"waiting", "rebalancing", "failed"} :
     news /\ d = u.info.status /\ (d = "waiting" => HasCluster)}
  \cup {d \in {"more"} : u.info.more /\ (mounts \/ ~shown.info.more)}

\* Mutation of RouteAfter: the effect has no cleanup.
RouteKept(u, changed) == IF changed /\ Target(u) # "" THEN Target(u) ELSE route

\* Mutation of CanAfter: an init does not spend it.
CanKept(u, auto) == u.can /\ OnChat(u)

\* The effect of the router on [pathname, status] restarts its timer, or stops it.
RouteAfter(u, changed) == IF changed THEN Target(u) ELSE route

\* canAutoCommit after a commit: spent by an init, lost with the page.
CanAfter(u, auto) == u.can /\ OnChat(u) /\ ~auto

\* What is kept of the chat page's own states.
OfPage(u) == [u EXCEPT !.fresh = FALSE, !.can = @ /\ OnChat(u), !.wide = @ \/ ~OnChat(u)]

Unserved(ps) == Cardinality({i \in DOMAIN ps : ~ps[i].done})

CommitOf(u, ps) ==
  LET mounts == OnChat(u) /\ ~OnChat(shown)
      moves == u.path # shown.path
      news == mounts \/ u.info.status # shown.info.status
      auto == AutoCommits(u, mounts)
  IN /\ dialogs' = IF OnChat(u) THEN dialogs \cup Opened(u, mounts, news) ELSE {}
     /\ alarm' = (OnChat(u) /\ IF news THEN u.info.status = "idle" ELSE alarm)
     /\ route' = RouteAfter(u, moves \/ news)
     /\ posts' = LET qs == IF moves THEN Left(ps) ELSE ps
                 IN IF auto THEN Calls(qs, u, Chat) ELSE qs
     /\ sent' = (sent + Unserved(posts')) - Unserved(posts)
     /\ shown' = OfPage(u)
     /\ ui' = [OfPage(u) EXCEPT !.can = CanAfter(u, auto),
                               !.model = IF u.fresh THEN SelectedModel(u) ELSE @]

Commit ==
  /\ ui # shown /\ CommitOf(ui, posts)
  /\ UNCHANGED <<host, server, wire, last, counts>>

\* A navigation is committed at once.  The timer of 300 ms:
Navigate ==
  /\ route # "" /\ CommitOf([ui EXCEPT !.path = route], posts)
  /\ UNCHANGED <<host, server, wire, last, counts>>

\* A call of the setup page goes on to the join page, wherever the user is by then.
Answer(i) ==
  /\ posts[i].done /\ last' = <<>>
  /\ LET next == Inited(ui, posts[i].model, posts[i].init)
         rest == RemoveAt(posts, i)
     IN IF posts[i].from = Setup THEN CommitOf([next EXCEPT !.path = Join], rest)
        ELSE ui' = next /\ posts' = rest /\ UNCHANGED <<view, sent>>
  /\ UNCHANGED <<host, server, wire, counts>>

\* The timer of 1000 ms, started together with that of the router, if that runs.
RestartAlarm ==
  /\ alarm /\ route = ""
  /\ alarm' = FALSE /\ dialogs' = dialogs \cup {"failed"}
  /\ UNCHANGED <<host, server, wire, ui, shown, route, posts, last, sent, counts>>

----------------------------------------------------------------------------
(* The user.  React commits what a click changes at once, and with it all that is
   pending; the handler has seen what was shown before. *)
Click(u, ps) ==
  /\ clicks < MaxClicks /\ clicks' = clicks + 1
  /\ CommitOf(u, ps)
  /\ UNCHANGED <<host, server, wire, last, changes, breaks>>

\* The select: read-only on a node, and its onChange needs another value.
Pick(m) ==
  /\ HasCluster /\ shown.path \in {Setup, Chat} /\ shown.listed /\ m # shown.model
  /\ Click([ui EXCEPT !.model = m, !.can = @ \/ OnChat(shown)], posts)

\* Mutation of AtLeastOne: any number will do.
AsTyped(n) == n

\* The number of nodes is typed, or changed by the buttons: an integer of at least 1.
AtLeastOne(n) == IF n < 1 THEN 1 ELSE n
Stepped(d) == AtLeastOne(shown.init + d)
Steps == {-1, 1}

SetNumber(n) ==
  /\ shown.path = Setup /\ n # shown.init /\ n <= MaxInit
  /\ Click([ui EXCEPT !.init = n], posts)

SetNetwork(net) ==
  /\ shown.path = Setup /\ net # shown.net
  /\ Click([ui EXCEPT !.net = net], posts)

Loading == \E i \in DOMAIN posts : posts[i].from = Setup /\ posts[i].here

ShouldInit(u) == \/ u.info.status \in {"idle", "failed"}
                 \/ u.info.init # u.init \/ u.info.model # u.model

\* Continue decides on what is shown; init runs after the commit, on what is then shown.
Continue ==
  /\ shown.path = Setup /\ ~Loading
  /\ IF ShouldInit(shown) THEN Click(ui, Calls(posts, ui, Setup))
     ELSE Click([ui EXCEPT !.path = Join], posts)

Back ==
  /\ shown.path = Join
  /\ Click([ui EXCEPT !.path = Setup], posts)

\* The side bar has the button Add Nodes while it is expanded.
ToggleSideBar ==
  /\ OnChat(shown)
  /\ Click([ui EXCEPT !.wide = ~shown.wide], posts)

AddNodes ==
  /\ OnChat(shown) /\ shown.wide /\ "join" \notin dialogs /\ dialogs' = dialogs \cup {"join"}
  /\ clicks < MaxClicks /\ clicks' = clicks + 1
  /\ UNCHANGED <<host, server, wire, ui, shown, route, alarm, posts, last, sent, changes, breaks>>

\* Finish, or the cross.
CloseDialog ==
  /\ \E d \in dialogs : dialogs' = dialogs \ {d}
  /\ clicks < MaxClicks /\ clicks' = clicks + 1
  /\ UNCHANGED <<host, server, wire, ui, shown, route, alarm, posts, last, sent, changes, breaks>>

-------------------------------------------------------------------------------
(* The network. *)
\* updateModelList, which is repeated until it succeeds; not on a node.
ListModels ==
  /\ HasCluster /\ ~ui.listed
  /\ ui' = [ui EXCEPT !.listed = TRUE, !.fresh = TRUE]
  /\ UNCHANGED <<host, server, wire, view, posts, last, sent, counts>>

\* The stream of reports, one in flight at a time.
Push ==
  /\ wire = <<>> /\ wire' = <<server>>
  /\ UNCHANGED <<host, server, ui, view, posts, last, sent, counts>>

Deliver ==
  /\ wire # <<>> /\ wire' = <<>>
  /\ ui' = WithStatus(ui, Head(wire)) /\ last' = wire
  /\ UNCHANGED <<host, server, view, posts, sent, counts>>

StreamBreaks ==
  /\ breaks < MaxBreaks /\ breaks' = breaks + 1
  /\ ui' = Reset(ui) /\ wire' = <<>> /\ last' = <<>>
  /\ UNCHANGED <<host, server, view, posts, sent, clicks, changes>>

\* Nodes join, leave and load; other consoles start other models.
ClusterChanges ==
  /\ changes < MaxChanges /\ changes' = changes + 1
  /\ server' \in Reports \ {server}
  /\ UNCHANGED <<host, wire, ui, view, posts, last, sent, clicks, breaks>>

Next == \/ Commit \/ Navigate \/ RestartAlarm
        \/ (\E i \in DOMAIN posts : Serve(i) \/ Answer(i) \/ CallFails(i))
        \/ (\E m \in ToSet(Models) : Pick(m))
        \/ (\E n \in 0 .. MaxInit : SetNumber(AtLeastOne(n)))
        \/ (\E d \in Steps : SetNumber(Stepped(d)))
        \/ (\E net \in Networks : SetNetwork(net))
        \/ Continue \/ Back \/ ToggleSideBar \/ AddNodes \/ CloseDialog
        \/ ListModels \/ Push \/ Deliver \/ StreamBreaks \/ ClusterChanges

Spec == Init /\ [][Next]_vars

LiveSpec ==
  /\ Spec /\ WF_vars(Commit) /\ WF_vars(Navigate) /\ WF_vars(Push) /\ WF_vars(Deliver)
  /\ WF_vars(\E i \in DOMAIN posts : Serve(i) \/ Answer(i))

----------------------------------------------------------------------------
(* Properties *)
Info == [status : {"offline", "idle", "waiting", "available"}, model : ModelNames, init : Nat,
         command : Networks \cup {NoCommand}, more : BOOLEAN, known : BOOLEAN]
States == [info : Info, nodes : Seq(NodeInfo), listed : BOOLEAN, model : ModelNames,
           init : 1 .. MaxInit, net : Networks, path : Paths, can : BOOLEAN, wide : BOOLEAN,
           fresh : BOOLEAN]
Post == [model : ToSet(Models), init : 1 .. MaxInit, net : Networks, from : {Setup, Chat},
         here : BOOLEAN, done : BOOLEAN]

\* Type invariant of the console.  In particular the status is never one that only the
\* frontend knows (failed, rebalancing), and the user never asks for less than one node.
TypeOK ==
  /\ host \in {"cluster", "node"} /\ server \in Report
  /\ wire \in Seq(Report) /\ last \in Seq(Report)
  /\ ui \in States /\ shown \in States /\ route \in Paths \cup {""} /\ alarm \in BOOLEAN
  /\ dialogs \subseteq {"waiting", "more", "failed", "join"}
  /\ posts \in Seq(Post) /\ sent \in Nat /\ clicks \in 0 .. MaxClicks
  /\ changes \in 0 .. MaxChanges /\ breaks \in 0 .. MaxBreaks

\* What the join page says of the last report is true of it: that the model requires more
\* nodes, if as many nodes as asked for are all available and still do not suffice, and
\* more memory, if the report says so; never from nodes of an earlier cluster, of a lost
\* connection, or of vanished workers.
AlertsAreCurrent ==
  /\ "error" \in JoinAlerts(ui) =>
       /\ last # <<>> /\ last[1].model # NoModel /\ last[1].status = "waiting"
       /\ Len(last[1].nodes) >= last[1].init
       /\ \A i \in DOMAIN last[1].nodes : last[1].nodes[i].status = "available"
       /\ \A i \in DOMAIN Rows(ui) : Rows(ui)[i].up
  /\ "more" \in JoinAlerts(ui) => last # <<>> /\ last[1].more

\* The node list, merged from report to report, has one row for each node: those of the
\* last report as they are there, and dimmed only nodes that it does not name.
NodesAreListed ==
  LET rows == Rows(ui)
      named == {i \in DOMAIN rows : rows[i].id # Place.id}
      reported == IF last = <<>> THEN <<>> ELSE last[1].nodes
  IN /\ \A i \in DOMAIN reported : i \in named /\ rows[i] = Row(reported[i]) /\ ~rows[i].dim
     /\ \A i \in named \ DOMAIN reported : rows[i].dim /\ ~Has(reported, rows[i].id)
     /\ \A i, j \in named : rows[i].id = rows[j].id => i = j

\* A timer that is running is still justified by what is shown: the router never takes
\* the user away for a status, or from a page, that is no longer there.  The dialog that
\* asks to restart the scheduler is for the users of a node: on the console of the
\* cluster the router is faster than its timer, and takes the user to the setup page.
TimersAreCurrent ==
  /\ route # "" => route = Target(shown)
  /\ alarm => OnChat(shown) /\ shown.info.status = "idle"
  /\ HasCluster => "failed" \notin dialogs

\* Each init, which ends the running cluster, has a click of its own: however often the
\* views change afterwards, a picked model is committed once.
OneInitPerClick == sent <= clicks

\* The promise of the join page: once the cluster is, and remains, available the user
\* ends up on the chat page, wherever answers, errors and clicks have led before.
DirectedToChat ==
  <>[](server.status = "available" \/ ~HasCluster) => <>[]OnChat(shown)
=============================================================================
