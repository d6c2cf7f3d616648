----------------------------- MODULE HttpStream -----------------------------
(***************************************************************************)
(* The streaming client of the web frontend (services/http-stream.ts), as  *)
(* the cluster view uses it: one client that reconnects by itself.  Each   *)
(* call of send runs one loop: fetch, read, clean up.  All loops of a      *)
(* client share one reader and one abort controller, so a loop reads from, *)
(* cancels or aborts whatever connection came last.  A step is a stretch   *)
(* of code between two awaits.                                             *)
(***************************************************************************)
EXTENDS Naturals, Sequences, FiniteSets, FiniteSetsExt

CONSTANTS Sends,         \* calls of send by the application when it starts
          MaxTimeouts,   \* bound: fetches that take longer than five seconds
          MaxFaults,     \* bound: failed fetches, bad answers, ended or broken bodies
          MaxLoops,      \* bound: loops and bodies at a time
          MaxInFlight,   \* bound: states of the cluster in flight on a body
          MaxState       \* bound: changes of the cluster

ASSUME StreamAssumption ==
  /\ Sends \in Nat \ {0} /\ MaxLoops \in Nat /\ MaxState \in Nat \ {0}
  /\ MaxTimeouts \in Nat /\ MaxFaults \in Nat /\ MaxInFlight \in Nat

VARIABLES
  loop,        \* per loop: where it is, and what it waits for
  body,        \* per loop: the response body it has got, and what is in it
  reader,      \* the body the shared reader belongs to, 0: undefined
  control,     \* the loop the shared abort controller belongs to, 0: undefined
  timers,      \* auto-reconnect timers that have not fired
  latest,      \* the state of the cluster, numbered
  seen,        \* the state the view has shown last, 0: none
  offline,     \* the view is reset (onError)
  starts, timeouts, faults   \* counts: first sends so far, timeouts, faults

vars == <<loop, body, reader, control, timers, latest, seen, offline,
          starts, timeouts, faults>>
counts == <<starts, timeouts, faults>>

Loops == 1 .. MaxLoops

\* off -> pending -> reading -> done -> ending -> finally -> closing -> off, or, by way
\* of an exception, rejected -> catching -> finally.  `armed`: the timeout is running;
\* `on`: the body the pending read is on; `erase`: cleanupReader is awaiting a cancel,
\* after which it sets the reader to undefined.
Phases == {"off", "pending", "reading", "done", "ending", "rejected", "catching",
           "finally", "closing"}
Idle == [phase |-> "off", armed |-> FALSE, on |-> 0, erase |-> FALSE]
NoBody == [state |-> "none", pipe |-> <<>>]

Init ==
  /\ loop = [l \in Loops |-> Idle] /\ body = [l \in Loops |-> NoBody]
  /\ reader = 0 /\ control = 0 /\ timers = 0
  /\ latest = 1 /\ seen = 0 /\ offline = TRUE
  /\ starts = 0 /\ timeouts = 0 /\ faults = 0

\* The steps of a loop between two awaits that are resolved without the network are
\* microtasks: the browser runs all that are pending, of any loop, before the next timer,
\* response or chunk.  Cancelling a body is one of those awaits.
Microtasks == {"done", "ending", "rejected", "catching", "finally", "closing"}
Quiet == \A l \in Loops : loop[l].phase \notin Microtasks

Reading(r) == {l \in Loops : loop[l].phase = "reading" /\ loop[l].on = r}

----------------------------------------------------------------------------
(* send *)
\* A loop, with its reader and controller, that nothing refers to any more.
Free == {l \in Loops : /\ loop[l].phase = "off" /\ l # reader /\ l # control
                       /\ \A m \in Loops : loop[m].on # l}

\* A new controller replaces the shared one, the timeout is armed, the fetch is out.
Send(l) ==
  /\ Quiet /\ l \in Free /\ \A m \in Free : l <= m
  /\ loop' = [loop EXCEPT ![l] = [Idle EXCEPT !.phase = "pending", !.armed = TRUE]]
  /\ body' = [body EXCEPT ![l] = NoBody]
  /\ control' = l
  /\ UNCHANGED <<reader, latest, seen, offline, timeouts, faults>>

\* Mutation of Start: the effect that connects runs again whenever the view changes.
StartAgain(l) == Send(l) /\ starts' = starts + 1 /\ UNCHANGED timers

\* The application connects when it is mounted.
Start(l) == starts < Sends /\ Send(l) /\ starts' = starts + 1 /\ UNCHANGED timers

\* onStatusChange with 'disconnected' or 'error' schedules a send.
Reconnect(l) == timers > 0 /\ Send(l) /\ timers' = timers - 1 /\ UNCHANGED starts

----------------------------------------------------------------------------
(* The timeout: it aborts the controller that is shared now, which may be another
   loop's, schedules a reconnect and resets the view.  An abort rejects the fetch of
   that controller, or breaks its body and rejects the reads on it. *)
Aborted(ls, k) ==
  [m \in Loops |-> IF m \in Reading(k) \cup {n \in {k} : ls[n].phase = "pending"}
                   THEN [ls[m] EXCEPT !.phase = "rejected"] ELSE ls[m]]
Broken(r) == [body EXCEPT ![r] = IF @.state = "open" THEN [NoBody EXCEPT !.state = "broken"]
                                 ELSE @]

Timeout(l) ==
  /\ Quiet /\ loop[l].phase = "pending" /\ loop[l].armed /\ timeouts < MaxTimeouts
  /\ timeouts' = timeouts + 1 /\ timers' = timers + 1 /\ offline' = TRUE
  /\ LET ls == [loop EXCEPT ![l].armed = FALSE]
     IN IF control = 0 THEN loop' = ls /\ UNCHANGED body
        ELSE loop' = Aborted(ls, control) /\ body' = Broken(control)
  /\ UNCHANGED <<reader, control, latest, seen, starts, faults>>

----------------------------------------------------------------------------
(* The answer to the fetch. *)
\* A body: its reader becomes the shared one, and the first read is pending.  The server
\* starts with the present state.
Respond(l) ==
  /\ Quiet /\ loop[l].phase = "pending"
  /\ loop' = [loop EXCEPT ![l] = [Idle EXCEPT !.phase = "reading", !.on = l]]
  /\ body' = [body EXCEPT ![l] = [state |-> "open", pipe |-> <<latest>>]]
  /\ reader' = l
  /\ UNCHANGED <<control, timers, latest, seen, offline, starts, timeouts, faults>>

\* Mutation of BadAnswer: a bad answer is not reported, so that nothing reconnects.
BadAnswerSilent(l) ==
  /\ Quiet /\ loop[l].phase = "pending" /\ faults < MaxFaults
  /\ loop' = [loop EXCEPT ![l] = [Idle EXCEPT !.phase = "finally"]]
  /\ faults' = faults + 1
  /\ UNCHANGED <<body, reader, control, timers, latest, seen, offline, starts, timeouts>>

\* Another status or content type: 'error', and a reconnect, but no onError.
BadAnswer(l) ==
  /\ Quiet /\ loop[l].phase = "pending" /\ faults < MaxFaults
  /\ loop' = [loop EXCEPT ![l] = [Idle EXCEPT !.phase = "finally"]]
  /\ timers' = timers + 1 /\ faults' = faults + 1
  /\ UNCHANGED <<body, reader, control, latest, seen, offline, starts, timeouts>>

FetchFails(l) ==
  /\ Quiet /\ loop[l].phase = "pending" /\ faults < MaxFaults
  /\ loop' = [loop EXCEPT ![l].phase = "rejected"]
  /\ faults' = faults + 1
  /\ UNCHANGED <<body, reader, control, timers, latest, seen, offline, starts, timeouts>>

----------------------------------------------------------------------------
(* Reading.  A loop that goes on reads from the shared reader, whosever that is. *)
NextRead(w) ==
  IF reader = 0 \/ body[reader].state = "broken" THEN [w EXCEPT !.phase = "rejected", !.on = 0]
  ELSE [w EXCEPT !.phase = IF body[reader].state = "open" THEN "reading" ELSE "done",
                 !.on = IF body[reader].state = "open" THEN reader ELSE 0]

\* Mutation of Show: a state that comes again is not shown again, whatever onError did.
ShowNew(n) == seen' = n /\ offline' = (offline /\ n = seen)

\* onMessage: the view shows a state of the cluster.
Show(n) == seen' = n /\ offline' = FALSE

\* A chunk with one state of the cluster.
Deliver(l) ==
  /\ Quiet /\ loop[l].phase = "reading" /\ body[loop[l].on].pipe # <<>>
  /\ LET r == loop[l].on
     IN Show(Head(body[r].pipe)) /\ body' = [body EXCEPT ![r].pipe = Tail(@)]
  /\ loop' = [loop EXCEPT ![l] = NextRead(@)]
  /\ UNCHANGED <<reader, control, timers, latest, starts, timeouts, faults>>

\* The body ends, or breaks: what waits for it is done, or rejected.
Woken(r, phase) == [l \in Loops |-> IF l \in Reading(r)
                                    THEN [loop[l] EXCEPT !.phase = phase, !.on = 0] ELSE loop[l]]

BodyEnds(r) ==
  /\ Quiet /\ body[r].state = "open" /\ body[r].pipe = <<>> /\ faults < MaxFaults
  /\ body' = [body EXCEPT ![r].state = "closed"] /\ loop' = Woken(r, "done")
  /\ faults' = faults + 1
  /\ UNCHANGED <<reader, control, timers, latest, seen, offline, starts, timeouts>>

BodyBreaks(r) ==
  /\ Quiet /\ body[r].state = "open" /\ faults < MaxFaults
  /\ body' = Broken(r) /\ loop' = Woken(r, "rejected")
  /\ faults' = faults + 1
  /\ UNCHANGED <<reader, control, timers, latest, seen, offline, starts, timeouts>>

----------------------------------------------------------------------------
(* Cleaning up.  cleanupReader cancels the shared reader, which ends its body for
   every loop that reads it, awaits that, and then sets the reader, whatever it is by
   then, to undefined; a body that is broken rejects the cancel and stays. *)
Cleanup(l, phase) ==
  /\ IF reader # 0 /\ body[reader].state # "broken"
     THEN /\ body' = [body EXCEPT ![reader] = [NoBody EXCEPT !.state = "closed"]]
          /\ loop' = [Woken(reader, "done") EXCEPT ![l] = [Idle EXCEPT !.phase = phase,
                                                                      !.erase = TRUE]]
     ELSE loop' = [loop EXCEPT ![l] = [Idle EXCEPT !.phase = phase]] /\ UNCHANGED body
  /\ UNCHANGED <<reader, control, timers, latest, seen, offline, counts>>

Cleaned(l, phase) ==
  /\ loop' = [loop EXCEPT ![l] = [Idle EXCEPT !.phase = phase]]
  /\ reader' = IF loop[l].erase THEN 0 ELSE reader
  /\ UNCHANGED <<body, latest, seen, counts>>

\* done: clean up, then 'disconnected', which schedules a reconnect.
EndRead(l) == loop[l].phase = "done" /\ Cleanup(l, "ending")
Disconnected(l) ==
  /\ loop[l].phase = "ending" /\ Cleaned(l, "finally")
  /\ timers' = timers + 1 /\ UNCHANGED <<control, offline>>

\* catch: clean up, then 'error', which schedules a reconnect, and onError.
Catch(l) == loop[l].phase = "rejected" /\ Cleanup(l, "catching")
Failed(l) ==
  /\ loop[l].phase = "catching" /\ Cleaned(l, "finally")
  /\ timers' = timers + 1 /\ offline' = TRUE /\ UNCHANGED control

\* Mutation of Closed: the end of a loop is reported as 'disconnected' once more.
ClosedReconnects(l) ==
  /\ loop[l].phase = "closing" /\ Cleaned(l, "off")
  /\ control' = 0 /\ timers' = timers + 1 /\ UNCHANGED offline

\* finally: clean up once more; the shared controller goes too.
Finally(l) == loop[l].phase = "finally" /\ Cleanup(l, "closing")
Closed(l) ==
  /\ loop[l].phase = "closing" /\ Cleaned(l, "off")
  /\ control' = 0 /\ UNCHANGED <<timers, offline>>

----------------------------------------------------------------------------
(* The server: /cluster/status sends the present state every second. *)
Push(r) ==
  /\ Quiet /\ body[r].state = "open" /\ Len(body[r].pipe) < MaxInFlight
  /\ body' = [body EXCEPT ![r].pipe = Append(@, latest)]
  /\ UNCHANGED <<loop, reader, control, timers, latest, seen, offline, counts>>

ClusterChanges ==
  /\ Quiet /\ latest < MaxState /\ latest' = latest + 1
  /\ UNCHANGED <<loop, body, reader, control, timers, seen, offline, counts>>

Step(l) == \/ EndRead(l) \/ Disconnected(l) \/ Catch(l) \/ Failed(l)
           \/ Finally(l) \/ Closed(l)

Next == \/ ClusterChanges
        \/ \E l \in Loops :
             \/ Start(l) \/ Reconnect(l) \/ Timeout(l)
             \/ Respond(l) \/ BadAnswer(l) \/ FetchFails(l)
             \/ Deliver(l) \/ BodyEnds(l) \/ BodyBreaks(l) \/ Push(l) \/ Step(l)

Spec == Init /\ [][Next]_vars

\* Timers fire, pending microtasks run, and the server answers and keeps sending; the
\* number of timeouts and faults is finite (their bounds).
LiveSpec ==
  /\ Spec
  /\ \A l \in Loops : /\ WF_vars(Start(l)) /\ WF_vars(Reconnect(l)) /\ WF_vars(Respond(l))
                      /\ WF_vars(Deliver(l)) /\ WF_vars(Step(l)) /\ WF_vars(Push(l))

----------------------------------------------------------------------------
(* Properties *)
\* Type invariant of the stream client.
TypeOK ==
  /\ loop \in [Loops -> [phase : Phases, armed : BOOLEAN, on : 0 .. MaxLoops,
                         erase : BOOLEAN]]
  /\ body \in [Loops -> [state : {"none", "open", "closed", "broken"},
                         pipe : Seq(1 .. MaxState)]]
  /\ reader \in 0 .. MaxLoops /\ control \in 0 .. MaxLoops /\ timers \in Nat
  /\ latest \in 1 .. MaxState /\ seen \in 0 .. MaxState /\ offline \in BOOLEAN
  /\ starts \in 0 .. Sends /\ timeouts \in 0 .. MaxTimeouts /\ faults \in 0 .. MaxFaults

\* The loops that have yet to schedule their successor.
Owing == {l \in Loops : loop[l].phase \notin {"off", "finally", "closing"}}

\* The client never gives up, and never gets rid of a connection either: each loop is
\* replaced by exactly one, whatever ends it and whoever cancelled its reader, and every
\* timeout adds one for good, because the abort it causes schedules a reconnect as well.
EveryTimeoutAddsALoop == Cardinality(Owing) + timers = starts + timeouts

Feed == INSTANCE StatusFeed WITH shaken <- Sends + timeouts > 1

\* The view shows states the cluster had and, until a connection has timed out, never an
\* older one after a newer one.
ImplementsFeed == Feed!FSpec

\* After the last disturbance the view is up to date, however many loops there are and
\* although each cancels the reader of the others when it ends.
ViewCatchesUp == <>[](seen = latest /\ ~offline)
=============================================================================
