-------------------------- MODULE HttpStreamProofs --------------------------
(***************************************************************************)
(* Proofs about the streaming client: for any number of loops, timeouts    *)
(* and faults, in whatever order the loops' steps, the timers and the      *)
(* network interleave, each loop is replaced by exactly one, each timeout  *)
(* adds one, and the client implements StatusFeed.                         *)
(*                                                                         *)
(* The invariant adds to the types that a pending read is on a body.       *)
(***************************************************************************)
EXTENDS HttpStream, FiniteSetTheorems, SequenceTheorems, TLAPS

LoopRecord == [phase : Phases, armed : BOOLEAN, on : 0 .. MaxLoops, erase : BOOLEAN]
BodyRecord == [state : {"none", "open", "closed", "broken"}, pipe : Seq(1 .. MaxState)]

\* A loop that waits for a read knows the body it is on.
ReadsABody == \A l \in Loops : loop[l].phase = "reading" => loop[l].on # 0

\* A loop that has yet to schedule its successor.
Owes(w) == w.phase \notin {"off", "finally", "closing"}

\* The types: of the loops, of the bodies, and of the rest.
LoopsOK == loop \in [Loops -> LoopRecord] /\ ReadsABody
BodiesOK == body \in [Loops -> BodyRecord]
RestOK ==
  /\ reader \in 0 .. MaxLoops /\ control \in 0 .. MaxLoops /\ timers \in Nat
  /\ latest \in 1 .. MaxState /\ seen \in 0 .. MaxState /\ offline \in BOOLEAN
  /\ starts \in 0 .. Sends /\ timeouts \in 0 .. MaxTimeouts /\ faults \in 0 .. MaxFaults

StreamInv == LoopsOK /\ BodiesOK /\ RestOK /\ EveryTimeoutAddsALoop

----------------------------------------------------------------------------
(***************************************************************************)
(* Counting the loops that have yet to schedule their successor.           *)
(***************************************************************************)
\* There are finitely many of them.
LEMMA OwingIsFinite == IsFiniteSet(Owing) /\ Cardinality(Owing) \in Nat
<1>1. IsFiniteSet(Loops)
  BY FS_Interval, StreamAssumption DEF Loops
<1>2. Owing \in SUBSET Loops
  BY DEF Owing
<1> QED BY <1>1, <1>2, FS_Subset, FS_CardinalityType

\* Steps after which the same loops owe a successor.
LEMMA OwingStays ==
  ASSUME \A m \in Loops : Owes(loop'[m]) <=> Owes(loop[m])
  PROVE  Owing' = Owing
  BY DEF Owing, Owes

\* A step in which one loop begins to owe a successor.
LEMMA OwingGrows ==
  ASSUME NEW l \in Loops, ~Owes(loop[l]), Owes(loop'[l]),
         \A m \in Loops \ {l} : Owes(loop'[m]) <=> Owes(loop[m])
  PROVE  Cardinality(Owing') = Cardinality(Owing) + 1
<1>1. Owing' = Owing \cup {l} /\ l \notin Owing
  BY DEF Owing, Owes
<1> QED BY <1>1, OwingIsFinite, FS_AddElement

\* A step in which one loop has scheduled its successor.
LEMMA OwingShrinks ==
  ASSUME NEW l \in Loops, Owes(loop[l]), ~Owes(loop'[l]),
         \A m \in Loops \ {l} : Owes(loop'[m]) <=> Owes(loop[m])
  PROVE  Cardinality(Owing') = Cardinality(Owing) - 1
<1>1. Owing' = Owing \ {l} /\ l \in Owing
  BY DEF Owing, Owes
<1> QED BY <1>1, OwingIsFinite, FS_RemoveElement

----------------------------------------------------------------------------
(***************************************************************************)
(* The helpers of the steps.                                               *)
(***************************************************************************)
\* What a step does to the other loops: nothing, or what they wait for is over.
Interrupts(w, v) ==
  v = w \/ (Owes(w) /\ Owes(v) /\ v \in LoopRecord /\ v.phase # "reading")

\* A loop that waits for nothing.
LEMMA IdleLoops ==
  ASSUME NEW phase \in Phases
  PROVE  /\ [Idle EXCEPT !.phase = phase] \in LoopRecord
         /\ [Idle EXCEPT !.phase = phase, !.armed = TRUE] \in LoopRecord
         /\ [Idle EXCEPT !.phase = phase, !.erase = TRUE] \in LoopRecord
         /\ \A l \in Loops : [Idle EXCEPT !.phase = phase, !.on = l] \in LoopRecord
<1>1. 0 \in 0 .. MaxLoops /\ Loops \subseteq 0 .. MaxLoops
  BY StreamAssumption DEF Loops
<1>2. \A p \in Phases, armed, erase \in BOOLEAN, on \in 0 .. MaxLoops :
        [phase |-> p, armed |-> armed, on |-> on, erase |-> erase] \in LoopRecord
  BY DEF LoopRecord
<1>3. Idle \in LoopRecord
  BY <1>1, <1>2, Zenon DEF Idle, Phases, LoopRecord
<1>4. \A w \in LoopRecord, b \in BOOLEAN, l \in 0 .. MaxLoops :
        /\ [w EXCEPT !.phase = phase] \in LoopRecord
        /\ [w EXCEPT !.phase = phase, !.armed = b] \in LoopRecord
        /\ [w EXCEPT !.phase = phase, !.erase = b] \in LoopRecord
        /\ [w EXCEPT !.phase = phase, !.on = l] \in LoopRecord
  BY DEF LoopRecord
<1> HIDE DEF Idle
<1> QED BY <1>1, <1>3, <1>4

\* A body without anything in it.
LEMMA EmptyBody ==
  ASSUME NEW state \in {"none", "open", "closed", "broken"}
  PROVE  [NoBody EXCEPT !.state = state] \in BodyRecord
<1>1. <<>> \in Seq(1 .. MaxState)
  OBVIOUS
<1>2. [NoBody EXCEPT !.state = state] = [state |-> state, pipe |-> <<>>]
  BY DEF NoBody
<1> QED BY <1>1, <1>2 DEF BodyRecord

\* Breaking a body leaves bodies.
LEMMA BrokenOK == ASSUME BodiesOK, NEW r \in Loops PROVE Broken(r) \in [Loops -> BodyRecord]
<1>1. [NoBody EXCEPT !.state = "broken"] \in BodyRecord
  BY EmptyBody
<1> QED BY <1>1 DEF Broken, BodiesOK

\* Waking the reads on a body interrupts the loops that read it.
LEMMA WokenInterrupts ==
  ASSUME LoopsOK, NEW r, NEW phase \in {"done", "rejected"}
  PROVE  /\ Woken(r, phase) \in [Loops -> LoopRecord]
         /\ \A m \in Loops : Interrupts(loop[m], Woken(r, phase)[m])
<1>1. ASSUME NEW m \in Loops
      PROVE  Woken(r, phase)[m] \in LoopRecord /\ Interrupts(loop[m], Woken(r, phase)[m])
  <2>1. CASE m \in Reading(r)
    <3>1. Woken(r, phase)[m] = [loop[m] EXCEPT !.phase = phase, !.on = 0]
      BY <2>1 DEF Woken
    <3>2. [loop[m] EXCEPT !.phase = phase, !.on = 0] \in LoopRecord
      <4>1. loop[m] \in LoopRecord /\ phase \in Phases /\ 0 \in 0 .. MaxLoops
        BY StreamAssumption DEF LoopsOK, Phases
      <4> QED BY <4>1 DEF LoopRecord
    <3>3. loop[m].phase = "reading" /\ Woken(r, phase)[m].phase = phase
      BY <2>1, <3>1 DEF Reading, LoopsOK, LoopRecord
    <3> QED BY <3>1, <3>2, <3>3 DEF Interrupts, Owes
  <2>2. CASE m \notin Reading(r)
    BY <2>2 DEF Woken, LoopsOK, Interrupts
  <2> QED BY <2>1, <2>2
<1>2. Woken(r, phase) = [m \in Loops |-> Woken(r, phase)[m]]
  BY DEF Woken
<1> QED BY <1>1, <1>2

\* Interrupted loops and one loop that changes otherwise are loops that read a body.
LEMMA OthersInterrupted ==
  ASSUME LoopsOK, NEW l \in Loops, loop' \in [Loops -> LoopRecord],
         loop'[l].phase = "reading" => loop'[l].on # 0,
         \A m \in Loops \ {l} : Interrupts(loop[m], loop'[m])
  PROVE  /\ ReadsABody'
         /\ \A m \in Loops \ {l} : Owes(loop'[m]) <=> Owes(loop[m])
  BY DEF Interrupts, LoopsOK, ReadsABody

\* Cleaning up interrupts the others; the loop itself awaits that.
LEMMA CleanupOK ==
  ASSUME LoopsOK, BodiesOK, reader \in 0 .. MaxLoops, NEW l \in Loops,
         NEW phase \in {"ending", "catching", "closing"}, Cleanup(l, phase)
  PROVE  /\ loop' \in [Loops -> LoopRecord] /\ body' \in [Loops -> BodyRecord]
         /\ ReadsABody' /\ loop'[l].phase = phase
         /\ \A m \in Loops \ {l} : Owes(loop'[m]) <=> Owes(loop[m])
<1>1. /\ [Idle EXCEPT !.phase = phase] \in LoopRecord
      /\ [Idle EXCEPT !.phase = phase, !.erase = TRUE] \in LoopRecord
  BY IdleLoops DEF Phases
<1>2. CASE reader # 0 /\ body[reader].state # "broken"
  <2>1. /\ loop' = [Woken(reader, "done") EXCEPT ![l] = [Idle EXCEPT !.phase = phase, !.erase = TRUE]]
        /\ body' = [body EXCEPT ![reader] = [NoBody EXCEPT !.state = "closed"]]
    BY <1>2 DEF Cleanup
  <2>2. [NoBody EXCEPT !.state = "closed"] \in BodyRecord
    BY EmptyBody
  <2>3. loop' \in [Loops -> LoopRecord] /\ body' \in [Loops -> BodyRecord]
    BY <1>1, <2>1, <2>2, WokenInterrupts DEF BodiesOK
  <2>4. loop'[l].phase = phase
    BY <2>1, WokenInterrupts DEF Idle
  <2>5. \A m \in Loops \ {l} : Interrupts(loop[m], loop'[m])
    BY <2>1, WokenInterrupts
  <2> QED BY <2>3, <2>4, <2>5, OthersInterrupted
<1>3. CASE ~(reader # 0 /\ body[reader].state # "broken")
  <2>1. loop' = [loop EXCEPT ![l] = [Idle EXCEPT !.phase = phase]] /\ body' = body
    BY <1>3 DEF Cleanup
  <2>2. loop' \in [Loops -> LoopRecord] /\ body' \in [Loops -> BodyRecord]
    BY <1>1, <2>1 DEF LoopsOK, BodiesOK
  <2>3. loop'[l].phase = phase
    BY <2>1 DEF LoopsOK, Idle
  <2>4. \A m \in Loops \ {l} : Interrupts(loop[m], loop'[m])
    BY <2>1 DEF LoopsOK, Interrupts
  <2> QED BY <2>2, <2>3, <2>4, OthersInterrupted
<1> QED BY <1>2, <1>3

\* A step of a loop that leaves the others alone.
LEMMA OneLoopSteps ==
  ASSUME LoopsOK, NEW l \in Loops, NEW w \in LoopRecord, loop' = [loop EXCEPT ![l] = w],
         w.phase = "reading" => w.on # 0
  PROVE  /\ loop' \in [Loops -> LoopRecord] /\ ReadsABody' /\ loop'[l] = w
         /\ \A m \in Loops \ {l} : Owes(loop'[m]) <=> Owes(loop[m])
<1>1. loop' \in [Loops -> LoopRecord] /\ loop'[l] = w
  BY DEF LoopsOK
<1>2. \A m \in Loops \ {l} : Interrupts(loop[m], loop'[m])
  BY DEF LoopsOK, Interrupts
<1> QED BY <1>1, <1>2, OthersInterrupted

\* The next read is on a body, or is no read.
LEMMA NextReadOK ==
  ASSUME LoopsOK, BodiesOK, reader \in 0 .. MaxLoops, NEW w \in LoopRecord
  PROVE  LET v == NextRead(w)
         IN v \in LoopRecord /\ (v.phase = "reading" => v.on # 0) /\ Owes(v)
<1>1. 0 \in 0 .. MaxLoops
  BY StreamAssumption
<1>2. CASE reader = 0 \/ body[reader].state = "broken"
  BY <1>1, <1>2 DEF NextRead, LoopRecord, Phases, Owes
<1>3. CASE ~(reader = 0 \/ body[reader].state = "broken") /\ body[reader].state = "open"
  BY <1>1, <1>3 DEF NextRead, LoopRecord, Phases, Owes
<1>4. CASE ~(reader = 0 \/ body[reader].state = "broken") /\ body[reader].state # "open"
  BY <1>1, <1>4 DEF NextRead, LoopRecord, Phases, Owes
<1> QED BY <1>2, <1>3, <1>4

----------------------------------------------------------------------------
(***************************************************************************)
(* The steps.                                                              *)
(***************************************************************************)
\* A send is a loop that owes its successor.
LEMMA SendOK ==
  ASSUME StreamInv, NEW l \in Loops, Send(l)
  PROVE  /\ LoopsOK' /\ BodiesOK' /\ control' \in 0 .. MaxLoops
         /\ Cardinality(Owing') = Cardinality(Owing) + 1
<1>0. LoopsOK /\ BodiesOK
  BY DEF StreamInv
<1> DEFINE w == [Idle EXCEPT !.phase = "pending", !.armed = TRUE]
<1>1. w \in LoopRecord /\ w.phase = "pending"
  BY IdleLoops DEF Phases, Idle
<1>2. loop' = [loop EXCEPT ![l] = w] /\ loop[l].phase = "off"
  BY DEF Send, Free
<1> HIDE DEF w
<1>3. LoopsOK' /\ loop'[l] = w /\ \A m \in Loops \ {l} : Owes(loop'[m]) <=> Owes(loop[m])
  BY <1>0, <1>1, <1>2, OneLoopSteps DEF LoopsOK
<1>4. ~Owes(loop[l]) /\ Owes(loop'[l])
  BY <1>1, <1>2, <1>3 DEF Owes
<1>5. NoBody \in BodyRecord
  <2>1. NoBody = [NoBody EXCEPT !.state = "none"]
    BY DEF NoBody
  <2> QED BY <2>1, EmptyBody
<1>6. BodiesOK'
  BY <1>0, <1>5 DEF Send, BodiesOK
<1>7. control' \in 0 .. MaxLoops
  BY StreamAssumption DEF Send, Loops
<1> QED BY <1>3, <1>4, <1>6, <1>7, OwingGrows

\* The first sends, and the reconnects.
LEMMA StartOK == ASSUME StreamInv, NEW l \in Loops, Start(l) PROVE StreamInv'
<1>1. /\ Send(l) /\ starts < Sends /\ starts' = starts + 1 /\ timers' = timers
      /\ UNCHANGED <<reader, latest, seen, offline, timeouts, faults>>
  BY DEF Start, Send
<1>2. RestOK /\ EveryTimeoutAddsALoop /\ Cardinality(Owing) \in Nat
  BY OwingIsFinite DEF StreamInv
<1>3. LoopsOK' /\ BodiesOK' /\ control' \in 0 .. MaxLoops /\ Cardinality(Owing') = Cardinality(Owing) + 1
  BY <1>1, SendOK
<1>4. RestOK'
  BY <1>1, <1>2, <1>3, StreamAssumption DEF RestOK
<1>5. EveryTimeoutAddsALoop'
  BY <1>1, <1>2, <1>3 DEF EveryTimeoutAddsALoop, RestOK
<1> QED BY <1>3, <1>4, <1>5 DEF StreamInv

LEMMA ReconnectOK == ASSUME StreamInv, NEW l \in Loops, Reconnect(l) PROVE StreamInv'
<1>1. /\ Send(l) /\ timers > 0 /\ timers' = timers - 1 /\ starts' = starts
      /\ UNCHANGED <<reader, latest, seen, offline, timeouts, faults>>
  BY DEF Reconnect, Send
<1>2. RestOK /\ EveryTimeoutAddsALoop /\ Cardinality(Owing) \in Nat
  BY OwingIsFinite DEF StreamInv
<1>3. LoopsOK' /\ BodiesOK' /\ control' \in 0 .. MaxLoops /\ Cardinality(Owing') = Cardinality(Owing) + 1
  BY <1>1, SendOK
<1>4. RestOK'
  BY <1>1, <1>2, <1>3 DEF RestOK
<1>5. EveryTimeoutAddsALoop'
  BY <1>1, <1>2, <1>3 DEF EveryTimeoutAddsALoop, RestOK
<1> QED BY <1>3, <1>4, <1>5 DEF StreamInv

\* A step that leaves the debts of all loops as they are, and the timers.
LEMMA SameDebts ==
  ASSUME StreamInv, LoopsOK', BodiesOK', RestOK',
         \A m \in Loops : Owes(loop'[m]) <=> Owes(loop[m]),
         UNCHANGED <<timers, starts, timeouts>>
  PROVE  StreamInv'
<1>1. Owing' = Owing
  BY OwingStays
<1> QED BY <1>1 DEF StreamInv, EveryTimeoutAddsALoop

\* A step in which a loop schedules its successor.
LEMMA DebtPaid ==
  ASSUME StreamInv, LoopsOK', BodiesOK', RestOK',
         NEW l \in Loops, Owes(loop[l]), ~Owes(loop'[l]),
         \A m \in Loops \ {l} : Owes(loop'[m]) <=> Owes(loop[m]),
         timers' = timers + 1, UNCHANGED <<starts, timeouts>>
  PROVE  StreamInv'
<1>1. Cardinality(Owing') = Cardinality(Owing) - 1
  BY OwingShrinks
<1>2. Cardinality(Owing) \in Nat
  BY OwingIsFinite
<1> QED BY <1>1, <1>2 DEF StreamInv, EveryTimeoutAddsALoop, RestOK

\* A timeout interrupts the loops that use the shared controller.
LEMMA TimeoutOK == ASSUME StreamInv, NEW l \in Loops, Timeout(l) PROVE StreamInv'
<1>0. LoopsOK /\ BodiesOK /\ RestOK
  BY DEF StreamInv
<1> DEFINE ls == [loop EXCEPT ![l].armed = FALSE]
<1>1. /\ ls \in [Loops -> LoopRecord]
      /\ \A m \in Loops : ls[m].phase = loop[m].phase /\ ls[m].on = loop[m].on
  BY <1>0 DEF LoopsOK, LoopRecord
<1>2. LoopsOK' /\ BodiesOK' /\ \A m \in Loops : Owes(loop'[m]) <=> Owes(loop[m])
  <2>1. CASE control = 0
    <3>1. loop' = ls /\ body' = body
      BY <2>1 DEF Timeout
    <3> HIDE DEF ls
    <3> QED BY <1>0, <1>1, <3>1 DEF LoopsOK, BodiesOK, ReadsABody, Owes
  <2>2. CASE control # 0
    <3>1. loop' = Aborted(ls, control) /\ body' = Broken(control) /\ control \in Loops
      BY <1>0, <2>2, StreamAssumption DEF Timeout, RestOK, Loops
    <3> HIDE DEF ls
    <3>2. ASSUME NEW m \in Loops
          PROVE  /\ Aborted(ls, control)[m] \in LoopRecord
                 /\ Aborted(ls, control)[m].phase = "reading" => Aborted(ls, control)[m].on # 0
                 /\ Owes(Aborted(ls, control)[m]) <=> Owes(loop[m])
      <4>1. CASE m \in Reading(control) \cup {n \in {control} : ls[n].phase = "pending"}
        <5>1. Aborted(ls, control)[m] = [ls[m] EXCEPT !.phase = "rejected"]
          BY <4>1 DEF Aborted
        <5>2. [ls[m] EXCEPT !.phase = "rejected"] \in LoopRecord
          BY <1>1 DEF LoopRecord, Phases
        <5>3. loop[m].phase \in {"reading", "pending"}
          BY <1>1, <4>1 DEF Reading
        <5>4. Aborted(ls, control)[m].phase = "rejected"
          BY <1>1, <5>1 DEF LoopRecord
        <5> QED BY <5>1, <5>2, <5>3, <5>4 DEF Owes
      <4>2. CASE m \notin Reading(control) \cup {n \in {control} : ls[n].phase = "pending"}
        <5>1. Aborted(ls, control)[m] = ls[m]
          BY <4>2 DEF Aborted
        <5> QED BY <1>0, <1>1, <5>1 DEF LoopsOK, ReadsABody, Owes
      <4> QED BY <4>1, <4>2
    <3>3. Aborted(ls, control) = [m \in Loops |-> Aborted(ls, control)[m]]
      BY DEF Aborted
    <3>4. BodiesOK'
      BY <1>0, <3>1, BrokenOK DEF BodiesOK
    <3> QED BY <3>1, <3>2, <3>3, <3>4 DEF LoopsOK, ReadsABody
  <2> QED BY <2>1, <2>2
<1>3. timers' = timers + 1 /\ timeouts' = timeouts + 1 /\ starts' = starts
  BY DEF Timeout
<1>4. RestOK'
  BY <1>0, StreamAssumption DEF Timeout, RestOK
<1>5. Owing' = Owing /\ Cardinality(Owing) \in Nat
  BY <1>2, OwingStays, OwingIsFinite
<1> QED BY <1>0, <1>2, <1>3, <1>4, <1>5 DEF StreamInv, EveryTimeoutAddsALoop, RestOK

\* A body: the loop reads from it.
LEMMA RespondOK == ASSUME StreamInv, NEW l \in Loops, Respond(l) PROVE StreamInv'
<1>0. LoopsOK /\ BodiesOK /\ RestOK
  BY DEF StreamInv
<1> DEFINE w == [Idle EXCEPT !.phase = "reading", !.on = l]
<1>1. w \in LoopRecord /\ w.phase = "reading" /\ w.on = l /\ l # 0
  <2>1. w \in LoopRecord
    BY IdleLoops DEF Phases
  <2>2. w.phase = "reading" /\ w.on = l
    BY DEF Idle
  <2>3. l # 0
    BY StreamAssumption DEF Loops
  <2> QED BY <2>1, <2>2, <2>3
<1>2. loop' = [loop EXCEPT ![l] = w] /\ loop[l].phase = "pending"
  BY DEF Respond
<1> HIDE DEF w
<1>3. LoopsOK' /\ loop'[l] = w /\ \A m \in Loops \ {l} : Owes(loop'[m]) <=> Owes(loop[m])
  BY <1>0, <1>1, <1>2, OneLoopSteps DEF LoopsOK
<1>4. \A m \in Loops : Owes(loop'[m]) <=> Owes(loop[m])
  BY <1>1, <1>2, <1>3 DEF Owes
<1>5. [state |-> "open", pipe |-> <<latest>>] \in BodyRecord
  <2>1. <<latest>> \in Seq(1 .. MaxState)
    BY <1>0 DEF RestOK
  <2> QED BY <2>1 DEF BodyRecord
<1>6. BodiesOK'
  BY <1>0, <1>5 DEF Respond, BodiesOK
<1>7. RestOK'
  BY <1>0, StreamAssumption DEF Respond, RestOK, Loops
<1> QED BY <1>3, <1>4, <1>6, <1>7, SameDebts DEF Respond

\* A bad answer schedules the successor at once.
LEMMA BadAnswerOK == ASSUME StreamInv, NEW l \in Loops, BadAnswer(l) PROVE StreamInv'
<1>0. LoopsOK /\ BodiesOK /\ RestOK
  BY DEF StreamInv
<1> DEFINE w == [Idle EXCEPT !.phase = "finally"]
<1>1. w \in LoopRecord /\ w.phase = "finally"
  BY IdleLoops DEF Phases, Idle
<1>2. loop' = [loop EXCEPT ![l] = w] /\ loop[l].phase = "pending"
  BY DEF BadAnswer
<1> HIDE DEF w
<1>3. LoopsOK' /\ loop'[l] = w /\ \A m \in Loops \ {l} : Owes(loop'[m]) <=> Owes(loop[m])
  BY <1>0, <1>1, <1>2, OneLoopSteps DEF LoopsOK
<1>4. Owes(loop[l]) /\ ~Owes(loop'[l])
  BY <1>1, <1>2, <1>3 DEF Owes
<1>5. BodiesOK' /\ RestOK'
  BY <1>0, StreamAssumption DEF BadAnswer, RestOK, BodiesOK
<1> QED BY <1>3, <1>4, <1>5, DebtPaid DEF BadAnswer

LEMMA FetchFailsOK == ASSUME StreamInv, NEW l \in Loops, FetchFails(l) PROVE StreamInv'
<1>0. LoopsOK /\ BodiesOK /\ RestOK
  BY DEF StreamInv
<1> DEFINE w == [loop[l] EXCEPT !.phase = "rejected"]
<1>1. w \in LoopRecord /\ w.phase = "rejected"
  BY <1>0 DEF Phases, LoopRecord, LoopsOK
<1>2. loop' = [loop EXCEPT ![l] = w] /\ loop[l].phase = "pending"
  BY DEF FetchFails
<1> HIDE DEF w
<1>3. LoopsOK' /\ loop'[l] = w /\ \A m \in Loops \ {l} : Owes(loop'[m]) <=> Owes(loop[m])
  BY <1>0, <1>1, <1>2, OneLoopSteps DEF LoopsOK
<1>4. \A m \in Loops : Owes(loop'[m]) <=> Owes(loop[m])
  BY <1>1, <1>2, <1>3 DEF Owes
<1>5. BodiesOK' /\ RestOK'
  BY <1>0, StreamAssumption DEF FetchFails, RestOK, BodiesOK
<1> QED BY <1>3, <1>4, <1>5, SameDebts DEF FetchFails

\* A chunk, after which the loop reads on, from whatever the shared reader is.
LEMMA DeliverOK == ASSUME StreamInv, NEW l \in Loops, Deliver(l) PROVE StreamInv'
<1>0. LoopsOK /\ BodiesOK /\ RestOK
  BY DEF StreamInv
<1> DEFINE r == loop[l].on
           w == NextRead(loop[l])
<1>1. /\ loop[l] \in LoopRecord /\ loop[l].phase = "reading" /\ r \in Loops
      /\ body[r].pipe # <<>> /\ body[r] \in BodyRecord
  BY <1>0, StreamAssumption DEF Deliver, LoopsOK, ReadsABody, BodiesOK, LoopRecord, Loops
<1>2. w \in LoopRecord /\ (w.phase = "reading" => w.on # 0) /\ Owes(w)
  BY <1>0, <1>1, NextReadOK DEF RestOK
<1>3. /\ loop' = [loop EXCEPT ![l] = w]
      /\ body' = [body EXCEPT ![r] = [body[r] EXCEPT !.pipe = Tail(body[r].pipe)]]
      /\ Show(Head(body[r].pipe))
  BY DEF Deliver
<1> HIDE DEF w, r
<1>4. LoopsOK' /\ loop'[l] = w /\ \A m \in Loops \ {l} : Owes(loop'[m]) <=> Owes(loop[m])
  BY <1>0, <1>2, <1>3, OneLoopSteps DEF LoopsOK
<1>5. \A m \in Loops : Owes(loop'[m]) <=> Owes(loop[m])
  BY <1>1, <1>2, <1>4 DEF Owes
<1>6. Head(body[r].pipe) \in 1 .. MaxState /\ Tail(body[r].pipe) \in Seq(1 .. MaxState)
  <2>1. body[r].pipe \in Seq(1 .. MaxState)
    BY <1>1 DEF BodyRecord
  <2> QED BY <1>1, <2>1, HeadTailProperties
<1>7. BodiesOK'
  <2>1. [body[r] EXCEPT !.pipe = Tail(body[r].pipe)] \in BodyRecord
    BY <1>1, <1>6 DEF BodyRecord
  <2> QED BY <1>0, <1>1, <1>3, <2>1 DEF BodiesOK
<1>8. RestOK'
  <2>1. seen' \in 0 .. MaxState /\ offline' = FALSE
    BY <1>3, <1>6 DEF Show
  <2>2. UNCHANGED <<reader, control, timers, latest, starts, timeouts, faults>>
    BY DEF Deliver
  <2> QED BY <1>0, <2>1, <2>2 DEF RestOK
<1> QED BY <1>4, <1>5, <1>7, <1>8, SameDebts DEF Deliver

\* The end of a body, which interrupts whoever reads it.
LEMMA WokenOK ==
  ASSUME StreamInv, NEW r \in Loops, NEW phase \in {"done", "rejected"},
         loop' = Woken(r, phase)
  PROVE  LoopsOK' /\ \A m \in Loops : Owes(loop'[m]) <=> Owes(loop[m])
<1>1. LoopsOK
  BY DEF StreamInv
<1>2. /\ loop' \in [Loops -> LoopRecord]
      /\ \A m \in Loops : Interrupts(loop[m], loop'[m])
  BY <1>1, WokenInterrupts
<1> QED BY <1>1, <1>2 DEF LoopsOK, ReadsABody, Interrupts

LEMMA BodyEndsOK == ASSUME StreamInv, NEW r \in Loops, BodyEnds(r) PROVE StreamInv'
<1>0. LoopsOK /\ BodiesOK /\ RestOK
  BY DEF StreamInv
<1>1. LoopsOK' /\ \A m \in Loops : Owes(loop'[m]) <=> Owes(loop[m])
  BY WokenOK DEF BodyEnds
<1>2. BodiesOK'
  BY <1>0 DEF BodyEnds, BodiesOK, BodyRecord
<1>3. RestOK'
  BY <1>0, StreamAssumption DEF BodyEnds, RestOK
<1> QED BY <1>1, <1>2, <1>3, SameDebts DEF BodyEnds

LEMMA BodyBreaksOK == ASSUME StreamInv, NEW r \in Loops, BodyBreaks(r) PROVE StreamInv'
<1>0. LoopsOK /\ BodiesOK /\ RestOK
  BY DEF StreamInv
<1>1. LoopsOK' /\ \A m \in Loops : Owes(loop'[m]) <=> Owes(loop[m])
  BY WokenOK DEF BodyBreaks
<1>2. BodiesOK'
  BY <1>0, BrokenOK DEF BodyBreaks, BodiesOK
<1>3. RestOK'
  BY <1>0, StreamAssumption DEF BodyBreaks, RestOK
<1> QED BY <1>1, <1>2, <1>3, SameDebts DEF BodyBreaks

\* The first half of a clean-up changes no debt: the loop keeps its own.
LEMMA CleaningOK ==
  ASSUME StreamInv, NEW l \in Loops, NEW phase \in {"ending", "catching", "closing"},
         loop[l].phase \in {"done", "rejected"} <=> phase # "closing",
         loop[l].phase = "finally" <=> phase = "closing",
         Cleanup(l, phase)
  PROVE  StreamInv'
<1>1. LoopsOK /\ BodiesOK /\ RestOK
  BY DEF StreamInv
<1>2. /\ LoopsOK' /\ BodiesOK' /\ loop'[l].phase = phase
      /\ \A m \in Loops \ {l} : Owes(loop'[m]) <=> Owes(loop[m])
  BY <1>1, CleanupOK DEF LoopsOK, BodiesOK, RestOK
<1>3. \A m \in Loops : Owes(loop'[m]) <=> Owes(loop[m])
  BY <1>2 DEF Owes
<1>4. RestOK' /\ UNCHANGED <<timers, starts, timeouts>>
  BY <1>1 DEF Cleanup, RestOK, counts
<1> QED BY <1>2, <1>3, <1>4, SameDebts

\* The second half.
LEMMA CleanedOK ==
  ASSUME StreamInv, NEW l \in Loops, NEW phase \in {"finally", "off"}, Cleaned(l, phase)
  PROVE  /\ LoopsOK' /\ BodiesOK' /\ reader' \in 0 .. MaxLoops /\ ~Owes(loop'[l])
         /\ \A m \in Loops \ {l} : Owes(loop'[m]) <=> Owes(loop[m])
         /\ UNCHANGED <<latest, seen, starts, timeouts, faults>>
<1>0. LoopsOK /\ BodiesOK /\ RestOK
  BY DEF StreamInv
<1> DEFINE w == [Idle EXCEPT !.phase = phase]
<1>1. w \in LoopRecord /\ w.phase = phase
  BY IdleLoops DEF Phases, Idle
<1>2. loop' = [loop EXCEPT ![l] = w]
  BY DEF Cleaned
<1> HIDE DEF w
<1>3. LoopsOK' /\ loop'[l] = w /\ \A m \in Loops \ {l} : Owes(loop'[m]) <=> Owes(loop[m])
  BY <1>0, <1>1, <1>2, OneLoopSteps DEF LoopsOK
<1>4. ~Owes(loop'[l])
  BY <1>1, <1>3 DEF Owes
<1>5. BodiesOK' /\ reader' \in 0 .. MaxLoops /\ UNCHANGED <<latest, seen, starts, timeouts, faults>>
  BY <1>0, StreamAssumption DEF Cleaned, BodiesOK, RestOK, counts
<1> QED BY <1>3, <1>4, <1>5

LEMMA StepOK == ASSUME StreamInv, NEW l \in Loops, Step(l) PROVE StreamInv'
<1>0. RestOK
  BY DEF StreamInv
<1>1. CASE EndRead(l)
  BY <1>1, CleaningOK DEF EndRead
<1>2. CASE Catch(l)
  BY <1>2, CleaningOK DEF Catch
<1>3. CASE Finally(l)
  BY <1>3, CleaningOK DEF Finally
<1>4. CASE Disconnected(l)
  <2>1. Owes(loop[l]) /\ timers' = timers + 1
    BY <1>4 DEF Disconnected, Owes
  <2>2. RestOK'
    BY <1>0, <1>4, CleanedOK DEF Disconnected, RestOK
  <2> QED BY <1>4, <2>1, <2>2, CleanedOK, DebtPaid DEF Disconnected
<1>5. CASE Failed(l)
  <2>1. Owes(loop[l]) /\ timers' = timers + 1
    BY <1>5 DEF Failed, Owes
  <2>2. RestOK'
    BY <1>0, <1>5, CleanedOK DEF Failed, RestOK
  <2> QED BY <1>5, <2>1, <2>2, CleanedOK, DebtPaid DEF Failed
<1>6. CASE Closed(l)
  <2>1. ~Owes(loop[l]) /\ UNCHANGED timers
    BY <1>6 DEF Closed, Owes
  <2>2. RestOK'
    BY <1>0, <1>6, CleanedOK, StreamAssumption DEF Closed, RestOK
  <2>3. \A m \in Loops : Owes(loop'[m]) <=> Owes(loop[m])
    BY <1>6, <2>1, CleanedOK DEF Closed
  <2> QED BY <1>6, <2>1, <2>2, <2>3, CleanedOK, SameDebts DEF Closed
<1> QED BY <1>1, <1>2, <1>3, <1>4, <1>5, <1>6 DEF Step

\* The server and the cluster.
LEMMA PushOK == ASSUME StreamInv, NEW r \in Loops, Push(r) PROVE StreamInv'
<1>0. LoopsOK /\ BodiesOK /\ RestOK
  BY DEF StreamInv
<1>1. BodiesOK'
  <2>1. body[r] \in BodyRecord /\ Append(body[r].pipe, latest) \in Seq(1 .. MaxState)
    BY <1>0 DEF BodiesOK, BodyRecord, RestOK
  <2>2. [body[r] EXCEPT !.pipe = Append(body[r].pipe, latest)] \in BodyRecord
    BY <2>1 DEF BodyRecord
  <2>3. body' = [body EXCEPT ![r] = [body[r] EXCEPT !.pipe = Append(body[r].pipe, latest)]]
    BY DEF Push
  <2> QED BY <1>0, <2>2, <2>3 DEF BodiesOK
<1>2. LoopsOK' /\ RestOK' /\ \A m \in Loops : Owes(loop'[m]) <=> Owes(loop[m])
  BY <1>0 DEF Push, LoopsOK, ReadsABody, RestOK, Owes, counts
<1> QED BY <1>1, <1>2, SameDebts DEF Push, counts

LEMMA ClusterChangesOK == ASSUME StreamInv, ClusterChanges PROVE StreamInv'
<1>0. LoopsOK /\ BodiesOK /\ RestOK
  BY DEF StreamInv
<1>1. BodiesOK'
  BY <1>0 DEF ClusterChanges, BodiesOK
<1>2. LoopsOK' /\ \A m \in Loops : Owes(loop'[m]) <=> Owes(loop[m])
  BY <1>0 DEF ClusterChanges, LoopsOK, ReadsABody, Owes
<1>3. RestOK'
  BY <1>0, StreamAssumption DEF ClusterChanges, RestOK, counts
<1> QED BY <1>1, <1>2, <1>3, SameDebts DEF ClusterChanges, counts

----------------------------------------------------------------------------
(***************************************************************************)
(* The theorems.                                                           *)
(***************************************************************************)
\* Nothing has been sent yet.
LEMMA InitOK == Init => StreamInv
<1> SUFFICES ASSUME Init PROVE StreamInv
  OBVIOUS
<1>1. Idle \in LoopRecord /\ Idle.phase = "off"
  <2>1. [Idle EXCEPT !.phase = "off"] = Idle
    BY DEF Idle
  <2> QED BY <2>1, IdleLoops DEF Phases, Idle
<1>2. LoopsOK
  BY <1>1 DEF Init, LoopsOK, ReadsABody
<1>3. BodiesOK
  <2>1. [NoBody EXCEPT !.state = "none"] = NoBody
    BY DEF NoBody
  <2> QED BY <2>1, EmptyBody DEF Init, BodiesOK
<1>4. RestOK
  BY StreamAssumption DEF Init, RestOK
<1>5. Owing = {}
  BY <1>1 DEF Init, Owing
<1>6. EveryTimeoutAddsALoop
  BY <1>5, FS_EmptySet DEF Init, EveryTimeoutAddsALoop
<1> QED BY <1>2, <1>3, <1>4, <1>6 DEF StreamInv

LEMMA NextOK == StreamInv /\ [Next]_vars => StreamInv'
<1> SUFFICES ASSUME StreamInv, [Next]_vars PROVE StreamInv'
  OBVIOUS
<1>1. CASE ClusterChanges
  BY <1>1, ClusterChangesOK
<1>2. ASSUME NEW l \in Loops, Start(l) \/ Reconnect(l) \/ Timeout(l) PROVE StreamInv'
  BY <1>2, StartOK, ReconnectOK, TimeoutOK
<1>3. ASSUME NEW l \in Loops, Respond(l) \/ BadAnswer(l) \/ FetchFails(l) PROVE StreamInv'
  BY <1>3, RespondOK, BadAnswerOK, FetchFailsOK
<1>4. ASSUME NEW l \in Loops, Deliver(l) \/ BodyEnds(l) \/ BodyBreaks(l) PROVE StreamInv'
  BY <1>4, DeliverOK, BodyEndsOK, BodyBreaksOK
<1>5. ASSUME NEW l \in Loops, Push(l) \/ Step(l) PROVE StreamInv'
  BY <1>5, PushOK, StepOK
<1>6. CASE UNCHANGED vars
  BY <1>6 DEF vars, StreamInv, LoopsOK, ReadsABody, BodiesOK, RestOK,
     EveryTimeoutAddsALoop, Owing
<1> QED BY <1>1, <1>2, <1>3, <1>4, <1>5, <1>6 DEF Next

LEMMA StreamInvariant == Spec => []StreamInv
BY InitOK, NextOK, PTL DEF Spec

\* The state of the client keeps its types.
THEOREM StreamTypes == Spec => []TypeOK
<1>1. StreamInv => TypeOK
  BY DEF StreamInv, LoopsOK, BodiesOK, RestOK, TypeOK, LoopRecord, BodyRecord
<1> QED BY <1>1, StreamInvariant, PTL

\* Each loop is replaced by exactly one, and every timeout adds one for good.
THEOREM TimeoutsAddLoops == Spec => []EveryTimeoutAddsALoop
<1>1. StreamInv => EveryTimeoutAddsALoop
  BY DEF StreamInv
<1> QED BY <1>1, StreamInvariant, PTL

----------------------------------------------------------------------------
(***************************************************************************)
(* The refinement.  What is in flight on a body are states the cluster had,*)
(* in their order.  As long as connections cannot overlap, that is with    *)
(* one start and no timeout, at most one loop owes a successor, so that at *)
(* most one body is open, the shared reader is its reader, and nothing in  *)
(* flight is older than what the view shows.                               *)
(***************************************************************************)
Shaken == Sends + timeouts > 1

\* The pipe of an open body: no state is newer than n, and they come in order.
Ordered(b, n) ==
  /\ b.pipe # <<>> => b.state = "open"
  /\ \A i \in DOMAIN b.pipe : b.pipe[i] <= n
  /\ \A i, j \in DOMAIN b.pipe : i <= j => b.pipe[i] <= b.pipe[j]

InFlight == \A r \in Loops : Ordered(body[r], latest)

\* A loop that ends has scheduled its successor, which waits until all have ended.
EndingLoopsAreSucceeded ==
  (\E l \in Loops : loop[l].phase \in {"finally", "closing"}) => timers > 0

\* The one connection.
OpenIsRead ==
  \A r \in Loops : body[r].state = "open"
    => \E l \in Loops : loop[l].phase = "reading" /\ loop[l].on = r
ReadsTheReader == \A l \in Loops : loop[l].phase = "reading" => loop[l].on = reader
NothingOlder == \A r \in Loops : \A i \in DOMAIN body[r].pipe : seen <= body[r].pipe[i]

FeedInv ==
  /\ InFlight /\ seen <= latest /\ EndingLoopsAreSucceeded
  /\ ~Shaken => OpenIsRead /\ ReadsTheReader /\ NothingOlder

\* Connections that cannot overlap: one loop at most, and none while a timer runs.
LEMMA OneLoop ==
  ASSUME StreamInv, ~Shaken
  PROVE  /\ \A l, m \in Loops : Owes(loop[l]) /\ Owes(loop[m]) => l = m
         /\ timers > 0 => \A l \in Loops : ~Owes(loop[l])
<1>1. IsFiniteSet(Owing) /\ Cardinality(Owing) \in Nat /\ timers \in Nat
  BY OwingIsFinite DEF StreamInv, RestOK
<1>2. Cardinality(Owing) + timers <= 1
  <2>1. starts \in 0 .. Sends /\ timeouts \in Nat /\ Sends \in Nat
    BY StreamAssumption DEF StreamInv, RestOK
  <2>2. Cardinality(Owing) + timers = starts + timeouts
    BY DEF StreamInv, EveryTimeoutAddsALoop
  <2> QED BY <2>1, <2>2 DEF Shaken
<1>3. \A l \in Loops : Owes(loop[l]) => l \in Owing
  BY DEF Owes, Owing
<1>4. ASSUME NEW l \in Loops, NEW m \in Loops, Owes(loop[l]), Owes(loop[m]), l # m
      PROVE  FALSE
  <2>1. {l, m} \subseteq Owing
    BY <1>3, <1>4
  <2>2. IsFiniteSet({l}) /\ Cardinality({l}) = 1
    BY FS_Singleton
  <2>3. Cardinality({l} \cup {m}) = 2
    <3>1. m \notin {l}
      BY <1>4
    <3>2. Cardinality({l} \cup {m}) = Cardinality({l}) + 1
      BY <2>2, <3>1, FS_AddElement
    <3> QED BY <2>2, <3>2
  <2>4. {l} \cup {m} = {l, m}
    OBVIOUS
  <2>5. Cardinality({l, m}) <= Cardinality(Owing)
    BY <1>1, <2>1, FS_Subset
  <2> QED BY <1>1, <1>2, <2>3, <2>4, <2>5
<1>5. ASSUME timers > 0, NEW l \in Loops, Owes(loop[l])
      PROVE  FALSE
  <2>1. Owing # {}
    BY <1>3, <1>5
  <2>2. Cardinality(Owing) # 0
    BY <1>1, <2>1, FS_EmptySet
  <2> QED BY <1>1, <1>2, <1>5, <2>2
<1> QED BY <1>4, <1>5

\* What most steps do to bodies, and reads: nothing, or end them.
Ends(b, c) == c = b \/ (c.pipe = <<>> /\ c.state # "open")

LEMMA EndedIsOrdered ==
  ASSUME NEW b, NEW c, NEW n, Ordered(b, n), Ends(b, c)
  PROVE  Ordered(c, n)
<1>1. CASE c = b
  BY <1>1
<1>2. CASE c.pipe = <<>> /\ c.state # "open"
  <2>1. \A i \in DOMAIN c.pipe : FALSE
    BY <1>2
  <2> QED BY <1>2, <2>1 DEF Ordered
<1> QED BY <1>1, <1>2 DEF Ends

LEMMA OthersEnd ==
  ASSUME StreamInv, FeedInv, UNCHANGED <<latest, seen, timeouts>>,
         \A r \in Loops : Ends(body[r], body'[r]),
         \A l \in Loops : loop'[l].phase = "reading"
            => loop[l].phase = "reading" /\ loop'[l].on = loop[l].on,
         \A l \in Loops : loop[l].phase = "reading" /\ body'[loop[l].on].state = "open"
            => loop'[l].phase = "reading" /\ loop'[l].on = loop[l].on,
         ~Shaken => reader' = reader \/ \A l \in Loops : loop'[l].phase # "reading",
         EndingLoopsAreSucceeded'
  PROVE  FeedInv'
<1>1. InFlight'
  BY EndedIsOrdered DEF FeedInv, InFlight
<1>2. Shaken' <=> Shaken
  BY DEF Shaken
<1>3. ASSUME ~Shaken PROVE OpenIsRead' /\ ReadsTheReader' /\ NothingOlder'
  <2>1. OpenIsRead /\ ReadsTheReader /\ NothingOlder
    BY <1>3 DEF FeedInv
  <2>2. OpenIsRead'
    BY <2>1 DEF OpenIsRead, Ends
  <2>3. ReadsTheReader'
    BY <1>3, <2>1 DEF ReadsTheReader
  <2>4. NothingOlder'
    <3> SUFFICES ASSUME NEW r \in Loops, NEW i \in DOMAIN body'[r].pipe
                 PROVE  seen <= body'[r].pipe[i]
      BY DEF NothingOlder
    <3>1. body'[r] = body[r]
      <4>1. body'[r].pipe # <<>>
        OBVIOUS
      <4> QED BY <4>1 DEF Ends
    <3> QED BY <2>1, <3>1 DEF NothingOlder
  <2> QED BY <2>2, <2>3, <2>4
<1>4. (seen <= latest)'
  BY DEF FeedInv
<1> QED BY <1>1, <1>2, <1>3, <1>4 DEF FeedInv

\* The steps that end nothing.
LEMMA SendFeed ==
  ASSUME StreamInv, FeedInv, NEW l \in Loops, Start(l) \/ Reconnect(l)
  PROVE  FeedInv'
<1>1. Send(l) /\ Quiet /\ loop[l].phase = "off" /\ LoopsOK /\ BodiesOK
  BY DEF Start, Reconnect, Send, Free, StreamInv
<1>2. /\ \A m \in Loops \ {l} : loop'[m] = loop[m]
      /\ loop'[l].phase = "pending"
  BY <1>1 DEF Send, LoopsOK, Idle
<1>3. /\ \A r \in Loops : body'[r] = IF r = l THEN NoBody ELSE body[r]
      /\ NoBody.pipe = <<>> /\ NoBody.state # "open"
  BY <1>1 DEF Send, BodiesOK, NoBody
<1>4. \A r \in Loops : Ends(body[r], body'[r])
  BY <1>3 DEF Ends
<1>5. UNCHANGED <<latest, seen, timeouts, reader>>
  BY <1>1 DEF Send
<1>6. EndingLoopsAreSucceeded'
  BY <1>1, <1>2 DEF EndingLoopsAreSucceeded, Quiet, Microtasks
<1>7. \A m \in Loops : loop'[m].phase = "reading"
        => loop[m].phase = "reading" /\ loop'[m].on = loop[m].on
  BY <1>2
<1>8. \A m \in Loops : loop[m].phase = "reading" /\ body'[loop[m].on].state = "open"
        => loop'[m].phase = "reading" /\ loop'[m].on = loop[m].on
  BY <1>1, <1>2
<1> QED BY <1>4, <1>5, <1>6, <1>7, <1>8, OthersEnd

LEMMA NoAnswerFeed ==
  ASSUME StreamInv, FeedInv, NEW l \in Loops, BadAnswer(l) \/ FetchFails(l)
  PROVE  FeedInv'
<1>1. LoopsOK /\ loop[l].phase = "pending" /\ Quiet
  BY DEF BadAnswer, FetchFails, StreamInv
<1>2. /\ \A m \in Loops \ {l} : loop'[m] = loop[m]
      /\ loop'[l].phase \in {"finally", "rejected"}
      /\ loop'[l].phase = "finally" => timers' = timers + 1
  BY <1>1 DEF BadAnswer, FetchFails, LoopsOK, LoopRecord, Idle
<1>3. UNCHANGED <<body, reader, latest, seen, timeouts>>
  BY DEF BadAnswer, FetchFails
<1>4. EndingLoopsAreSucceeded'
  BY <1>1, <1>2 DEF EndingLoopsAreSucceeded, Quiet, Microtasks, StreamInv, RestOK
<1>5. \A r \in Loops : Ends(body[r], body'[r])
  BY <1>3 DEF Ends
<1>6. \A m \in Loops : loop'[m].phase = "reading"
        => loop[m].phase = "reading" /\ loop'[m].on = loop[m].on
  BY <1>2
<1>7. \A m \in Loops : loop[m].phase = "reading" /\ body'[loop[m].on].state = "open"
        => loop'[m].phase = "reading" /\ loop'[m].on = loop[m].on
  BY <1>1, <1>2
<1> QED BY <1>3, <1>4, <1>5, <1>6, <1>7, OthersEnd

\* A body that ends or breaks takes the reads on it along.
LEMMA WokenReads ==
  ASSUME LoopsOK, NEW r, NEW phase \in {"done", "rejected"}, NEW m \in Loops
  PROVE  LET w == Woken(r, phase)[m]
         IN /\ w.phase = "reading" => loop[m].phase = "reading" /\ w = loop[m]
            /\ loop[m].phase = "reading" /\ loop[m].on # r => w = loop[m]
            /\ w.phase \in {"finally", "closing"} => w = loop[m]
<1>1. CASE m \in Reading(r)
  <2>1. Woken(r, phase)[m] = [loop[m] EXCEPT !.phase = phase, !.on = 0]
    BY <1>1 DEF Woken
  <2>2. Woken(r, phase)[m].phase = phase /\ loop[m].on = r
    BY <1>1, <2>1 DEF LoopsOK, LoopRecord, Reading
  <2> QED BY <2>2
<1>2. CASE m \notin Reading(r)
  <2>1. Woken(r, phase)[m] = loop[m]
    BY <1>2 DEF Woken
  <2> QED BY <2>1
<1> QED BY <1>1, <1>2

LEMMA BodyGoneFeed ==
  ASSUME StreamInv, FeedInv, NEW r \in Loops, BodyEnds(r) \/ BodyBreaks(r)
  PROVE  FeedInv'
<1>1. LoopsOK /\ BodiesOK
  BY DEF StreamInv
<1>2. /\ \A b \in Loops \ {r} : body'[b] = body[b]
      /\ body'[r].pipe = <<>> /\ body'[r].state # "open"
  BY <1>1 DEF BodyEnds, BodyBreaks, Broken, BodiesOK, BodyRecord, NoBody
<1>3. \E phase \in {"done", "rejected"} : loop' = Woken(r, phase)
  BY DEF BodyEnds, BodyBreaks
<1>4. \A m \in Loops :
        /\ loop'[m].phase = "reading" => loop[m].phase = "reading" /\ loop'[m] = loop[m]
        /\ loop[m].phase = "reading" /\ loop[m].on # r => loop'[m] = loop[m]
        /\ loop'[m].phase \in {"finally", "closing"} => loop'[m] = loop[m]
  BY <1>1, <1>3, WokenReads
<1>5. UNCHANGED <<reader, timers, latest, seen, timeouts>>
  BY DEF BodyEnds, BodyBreaks
<1>6. EndingLoopsAreSucceeded'
  BY <1>4, <1>5 DEF FeedInv, EndingLoopsAreSucceeded
<1>7. \A b \in Loops : Ends(body[b], body'[b])
  BY <1>2 DEF Ends
<1>8. \A m \in Loops : loop[m].phase = "reading" /\ body'[loop[m].on].state = "open"
        => loop'[m].phase = "reading" /\ loop'[m].on = loop[m].on
  BY <1>2, <1>4
<1> QED BY <1>4, <1>5, <1>6, <1>7, <1>8, OthersEnd

\* Cleaning up, both halves.
LEMMA CleanupFeed ==
  ASSUME StreamInv, FeedInv, NEW l \in Loops,
         NEW phase \in {"ending", "catching", "closing"}, Cleanup(l, phase),
         loop[l].phase # "reading", phase = "closing" => loop[l].phase = "finally"
  PROVE  FeedInv'
<1>1. LoopsOK /\ BodiesOK /\ reader \in 0 .. MaxLoops /\ (reader # 0 => reader \in Loops)
  BY StreamAssumption DEF StreamInv, RestOK, Loops
<1>2. UNCHANGED <<reader, timers, latest, seen, timeouts>>
  BY DEF Cleanup, counts
<1>3. loop'[l].phase = phase
  BY <1>1, CleanupOK
<1>4. /\ \A b \in Loops : Ends(body[b], body'[b])
      /\ \A m \in Loops \ {l} :
           /\ loop'[m].phase = "reading" => loop[m].phase = "reading" /\ loop'[m] = loop[m]
           /\ loop[m].phase = "reading" /\ body'[loop[m].on].state = "open" => loop'[m] = loop[m]
           /\ loop'[m].phase \in {"finally", "closing"} => loop'[m] = loop[m]
  <2>1. CASE reader # 0 /\ body[reader].state # "broken"
    <3>1. /\ \A b \in Loops \ {reader} : body'[b] = body[b]
          /\ body'[reader].pipe = <<>> /\ body'[reader].state # "open"
      BY <1>1, <2>1 DEF Cleanup, BodiesOK, NoBody
    <3>2. \A m \in Loops \ {l} : loop'[m] = Woken(reader, "done")[m]
      BY <2>1 DEF Cleanup, Woken
    <3>3. \A b \in Loops : Ends(body[b], body'[b])
      BY <3>1 DEF Ends
    <3>4. \A m \in Loops \ {l} :
           /\ loop'[m].phase = "reading" => loop[m].phase = "reading" /\ loop'[m] = loop[m]
           /\ loop[m].phase = "reading" /\ loop[m].on # reader => loop'[m] = loop[m]
           /\ loop'[m].phase \in {"finally", "closing"} => loop'[m] = loop[m]
      BY <1>1, <3>2, WokenReads
    <3> QED BY <3>1, <3>3, <3>4
  <2>2. CASE ~(reader # 0 /\ body[reader].state # "broken")
    <3>1. body' = body /\ \A m \in Loops \ {l} : loop'[m] = loop[m]
      BY <1>1, <2>2 DEF Cleanup, LoopsOK
    <3> QED BY <3>1 DEF Ends
  <2> QED BY <2>1, <2>2
<1>5. EndingLoopsAreSucceeded'
  BY <1>2, <1>3, <1>4 DEF FeedInv, EndingLoopsAreSucceeded
<1>6. \A m \in Loops : loop'[m].phase = "reading"
        => loop[m].phase = "reading" /\ loop'[m].on = loop[m].on
  BY <1>3, <1>4
<1>7. \A m \in Loops : loop[m].phase = "reading" /\ body'[loop[m].on].state = "open"
        => loop'[m].phase = "reading" /\ loop'[m].on = loop[m].on
  BY <1>4
<1> QED BY <1>2, <1>4, <1>5, <1>6, <1>7, OthersEnd

LEMMA CleanedFeed ==
  ASSUME StreamInv, FeedInv, NEW l \in Loops, Disconnected(l) \/ Failed(l) \/ Closed(l)
  PROVE  FeedInv'
<1>1. LoopsOK
  BY DEF StreamInv
<1>2. /\ \A m \in Loops \ {l} : loop'[m] = loop[m]
      /\ loop[l].phase \in {"ending", "catching", "closing"} /\ loop'[l].phase \in {"finally", "off"}
      /\ timers' = IF loop[l].phase = "closing" THEN timers ELSE timers + 1
  BY <1>1 DEF Disconnected, Failed, Closed, Cleaned, LoopsOK, Idle
<1>3. UNCHANGED <<body, latest, seen, timeouts>>
  BY DEF Disconnected, Failed, Closed, Cleaned, counts
<1>4. ~Shaken => \A m \in Loops : loop'[m].phase # "reading"
  <2> SUFFICES ASSUME ~Shaken, NEW m \in Loops, loop'[m].phase = "reading"
               PROVE  FALSE
    OBVIOUS
  <2>1. m # l /\ loop[m].phase = "reading" /\ Owes(loop[m])
    BY <1>2 DEF Owes
  <2>2. CASE loop[l].phase \in {"ending", "catching"}
    <3>1. Owes(loop[l])
      BY <2>2 DEF Owes
    <3> QED BY <2>1, <3>1, OneLoop
  <2>3. CASE loop[l].phase = "closing"
    <3>1. timers > 0
      BY <2>3 DEF FeedInv, EndingLoopsAreSucceeded
    <3> QED BY <2>1, <3>1, OneLoop
  <2> QED BY <1>2, <2>2, <2>3
<1>5. timers \in Nat
  BY DEF StreamInv, RestOK
<1>6. EndingLoopsAreSucceeded'
  <2>1. CASE loop[l].phase = "closing"
    <3>1. timers > 0 /\ timers' = timers
      BY <1>2, <2>1 DEF FeedInv, EndingLoopsAreSucceeded
    <3> QED BY <3>1 DEF EndingLoopsAreSucceeded
  <2>2. CASE loop[l].phase # "closing"
    <3>1. timers' > 0
      BY <1>2, <1>5, <2>2
    <3> QED BY <3>1 DEF EndingLoopsAreSucceeded
  <2> QED BY <2>1, <2>2
<1>7. \A r \in Loops : Ends(body[r], body'[r])
  BY <1>3 DEF Ends
<1>8. \A m \in Loops : loop'[m].phase = "reading"
        => loop[m].phase = "reading" /\ loop'[m].on = loop[m].on
  BY <1>2
<1>9. \A m \in Loops : loop[m].phase = "reading" /\ body'[loop[m].on].state = "open"
        => loop'[m].phase = "reading" /\ loop'[m].on = loop[m].on
  BY <1>2
<1> QED BY <1>3, <1>4, <1>6, <1>7, <1>8, <1>9, OthersEnd

\* The head of a sequence and the elements of its tail.
LEMMA HeadAndTail ==
  ASSUME NEW S, NEW p \in Seq(S), p # <<>>
  PROVE  /\ Head(p) = p[1] /\ 1 \in DOMAIN p /\ p[1] \in S
         /\ \A i \in DOMAIN Tail(p) : /\ i \in Nat /\ i + 1 \in DOMAIN p
                                      /\ 1 <= i + 1 /\ Tail(p)[i] = p[i + 1]
<1>1. Len(p) \in Nat /\ Len(p) > 0 /\ DOMAIN p = 1 .. Len(p)
  OBVIOUS
<1>2. DOMAIN Tail(p) = 1 .. Len(p) - 1 /\ \A i \in 1 .. Len(p) - 1 : Tail(p)[i] = p[i + 1]
  <2>1. Tail(p) \in Seq(S) /\ Len(Tail(p)) = Len(p) - 1
        /\ \A i \in 1 .. Len(Tail(p)) : Tail(p)[i] = p[i + 1]
    BY HeadTailProperties
  <2>2. DOMAIN Tail(p) = 1 .. Len(Tail(p))
    BY <2>1
  <2> QED BY <2>1, <2>2
<1>3. \A i \in 1 .. Len(p) - 1 : i \in Nat /\ i + 1 \in 1 .. Len(p) /\ 1 <= i + 1
  BY <1>1
<1>4. Head(p) = p[1] /\ 1 \in DOMAIN p
  BY <1>1
<1>5. p[1] \in S
  BY <1>4, ElementOfSeq, <1>1
<1> QED BY <1>1, <1>2, <1>3, <1>4, <1>5

\* A pipe without its head, and with a new state at its end.
LEMMA TailOrdered ==
  ASSUME NEW b \in BodyRecord, NEW n \in Nat, Ordered(b, n), b.pipe # <<>>
  PROVE  LET c == [b EXCEPT !.pipe = Tail(b.pipe)]
         IN /\ Ordered(c, n) /\ Head(b.pipe) \in 1 .. n
            /\ \A i \in DOMAIN c.pipe : Head(b.pipe) <= c.pipe[i]
<1> DEFINE c == [b EXCEPT !.pipe = Tail(b.pipe)]
<1>1. c.state = b.state /\ c.pipe = Tail(b.pipe) /\ b.state = "open" /\ b.pipe \in Seq(1 .. MaxState)
  BY DEF BodyRecord, Ordered
<1> HIDE DEF c
<1>2. /\ Head(b.pipe) = b.pipe[1] /\ 1 \in DOMAIN b.pipe /\ b.pipe[1] \in 1 .. MaxState
      /\ \A i \in DOMAIN c.pipe : /\ i \in Nat /\ i + 1 \in DOMAIN b.pipe
                                  /\ 1 <= i + 1 /\ c.pipe[i] = b.pipe[i + 1]
  BY <1>1, HeadAndTail
<1>3. b.pipe[1] <= n /\ b.pipe[1] \in Nat /\ b.pipe[1] >= 1
  BY <1>2, StreamAssumption DEF Ordered
<1>4. \A i \in DOMAIN c.pipe : c.pipe[i] <= n /\ b.pipe[1] <= c.pipe[i]
  BY <1>2 DEF Ordered
<1>5. \A i, j \in DOMAIN c.pipe : i <= j => c.pipe[i] <= c.pipe[j]
  <2> SUFFICES ASSUME NEW i \in DOMAIN c.pipe, NEW j \in DOMAIN c.pipe, i <= j
               PROVE  c.pipe[i] <= c.pipe[j]
    OBVIOUS
  <2>1. i + 1 <= j + 1
    BY <1>2
  <2> QED BY <1>2, <2>1 DEF Ordered
<1>6. Ordered(c, n)
  BY <1>1, <1>4, <1>5 DEF Ordered
<1> QED BY <1>2, <1>3, <1>4, <1>6 DEF c

LEMMA AppendOrdered ==
  ASSUME NEW b \in BodyRecord, NEW n \in 1 .. MaxState, Ordered(b, n), b.state = "open"
  PROVE  LET c == [b EXCEPT !.pipe = Append(b.pipe, n)]
         IN /\ Ordered(c, n) /\ c.state = "open"
            /\ \A i \in DOMAIN c.pipe :
                 c.pipe[i] = n \/ (i \in DOMAIN b.pipe /\ c.pipe[i] = b.pipe[i])
<1> DEFINE c == [b EXCEPT !.pipe = Append(b.pipe, n)]
<1>1. c.state = "open" /\ c.pipe = Append(b.pipe, n) /\ b.pipe \in Seq(1 .. MaxState)
  BY DEF BodyRecord
<1> HIDE DEF c
<1>2. \A i \in DOMAIN c.pipe :
        /\ i \in Nat
        /\ \/ i = Len(b.pipe) + 1 /\ c.pipe[i] = n
           \/ i \in DOMAIN b.pipe /\ i <= Len(b.pipe) /\ c.pipe[i] = b.pipe[i]
  BY <1>1
<1>3. Len(b.pipe) \in Nat
  BY <1>1
<1>4. \A i \in DOMAIN c.pipe : c.pipe[i] <= n
  BY <1>2 DEF Ordered
<1>5. \A i, j \in DOMAIN c.pipe : i <= j => c.pipe[i] <= c.pipe[j]
  <2> SUFFICES ASSUME NEW i \in DOMAIN c.pipe, NEW j \in DOMAIN c.pipe, i <= j
               PROVE  c.pipe[i] <= c.pipe[j]
    OBVIOUS
  <2>1. CASE c.pipe[j] = n
    BY <1>4, <2>1
  <2>2. CASE c.pipe[j] # n
    <3>1. j \in DOMAIN b.pipe /\ j <= Len(b.pipe) /\ c.pipe[j] = b.pipe[j]
      BY <1>2, <2>2
    <3>2. i # Len(b.pipe) + 1
      BY <1>2, <1>3, <3>1
    <3>3. i \in DOMAIN b.pipe /\ c.pipe[i] = b.pipe[i]
      BY <1>2, <3>2
    <3> QED BY <3>1, <3>3 DEF Ordered
  <2> QED BY <2>1, <2>2
<1>6. Ordered(c, n)
  BY <1>1, <1>4, <1>5 DEF Ordered
<1> QED BY <1>1, <1>2, <1>6 DEF c

\* The only loop that waits: no other body is open, so that nothing is in flight on one.
LEMMA OneBody ==
  ASSUME StreamInv, FeedInv, ~Shaken, NEW l \in Loops, Owes(loop[l]), NEW r \in Loops,
         loop[l].phase # "reading" \/ loop[l].on # r
  PROVE  body[r].state # "open" /\ body[r].pipe = <<>>
<1>1. \A m \in Loops : loop[m].phase = "reading" => Owes(loop[m])
  BY DEF Owes
<1>2. \A m \in Loops : Owes(loop[m]) => m = l
  BY OneLoop
<1>3. OpenIsRead
  BY DEF FeedInv
<1>4. body[r].state # "open"
  BY <1>1, <1>2, <1>3 DEF OpenIsRead
<1>5. Ordered(body[r], latest)
  BY DEF FeedInv, InFlight
<1> QED BY <1>4, <1>5 DEF Ordered

\* An answer opens a body with the present state in it.
LEMMA RespondFeed == ASSUME StreamInv, FeedInv, NEW l \in Loops, Respond(l) PROVE FeedInv'
<1>1. LoopsOK /\ BodiesOK /\ Quiet /\ loop[l].phase = "pending" /\ latest \in 1 .. MaxState
  BY DEF StreamInv, RestOK, Respond
<1>2. /\ \A m \in Loops \ {l} : loop'[m] = loop[m]
      /\ loop'[l].phase = "reading" /\ loop'[l].on = l
  BY <1>1 DEF Respond, LoopsOK, Idle
<1>3. /\ \A r \in Loops \ {l} : body'[r] = body[r]
      /\ body'[l].state = "open" /\ body'[l].pipe = <<latest>>
  BY <1>1 DEF Respond, BodiesOK
<1>4. reader' = l /\ UNCHANGED <<latest, seen, timeouts>>
  BY DEF Respond
<1>5. \A i \in DOMAIN <<latest>> : <<latest>>[i] = latest
  OBVIOUS
<1>6. Ordered(body'[l], latest)
  BY <1>1, <1>3, <1>5 DEF Ordered
<1>7. InFlight'
  BY <1>3, <1>4, <1>6 DEF FeedInv, InFlight
<1>8. EndingLoopsAreSucceeded'
  BY <1>1, <1>2 DEF EndingLoopsAreSucceeded, Quiet, Microtasks
<1>9. ASSUME ~Shaken PROVE OpenIsRead' /\ ReadsTheReader' /\ NothingOlder'
  <2>1. Owes(loop[l])
    BY <1>1 DEF Owes
  <2>2. \A r \in Loops : body[r].state # "open" /\ body[r].pipe = <<>>
    BY <1>1, <1>9, <2>1, OneBody
  <2>3. \A m \in Loops \ {l} : loop[m].phase # "reading"
    BY <1>9, <2>1, OneLoop DEF Owes
  <2>4. OpenIsRead'
    BY <1>2, <1>3, <2>2 DEF OpenIsRead
  <2>5. ReadsTheReader'
    BY <1>2, <1>4, <2>3 DEF ReadsTheReader
  <2>6. NothingOlder'
    <3> SUFFICES ASSUME NEW r \in Loops, NEW i \in DOMAIN body'[r].pipe
                 PROVE  seen <= body'[r].pipe[i]
      BY <1>4 DEF NothingOlder
    <3>1. CASE r = l
      BY <1>3, <1>5, <3>1 DEF FeedInv
    <3>2. CASE r # l
      <4>1. body'[r].pipe = <<>>
        BY <1>3, <2>2, <3>2
      <4> QED BY <4>1
    <3> QED BY <3>1, <3>2
  <2> QED BY <2>4, <2>5, <2>6
<1>10. (seen <= latest)' /\ (Shaken' <=> Shaken)
  BY <1>4 DEF FeedInv, Shaken
<1> QED BY <1>7, <1>8, <1>9, <1>10 DEF FeedInv

\* What a chunk shows, and what it leaves in flight.
LEMMA Delivered ==
  ASSUME StreamInv, FeedInv, NEW l \in Loops, Deliver(l)
  PROVE  LET r == loop[l].on
         IN /\ loop[l].phase = "reading" /\ r \in Loops /\ body[r].state = "open"
            /\ seen' \in 1 .. latest /\ (~Shaken => seen <= seen')
            /\ \A b \in Loops \ {r} : body'[b] = body[b]
            /\ Ordered(body'[r], latest) /\ body'[r].state = "open"
            /\ \A i \in DOMAIN body'[r].pipe : seen' <= body'[r].pipe[i]
<1> DEFINE r == loop[l].on
<1>1. /\ loop[l].phase = "reading" /\ r \in Loops /\ body[r].pipe # <<>>
      /\ body[r] \in BodyRecord /\ latest \in Nat
  BY StreamAssumption DEF Deliver, StreamInv, LoopsOK, LoopRecord, ReadsABody, BodiesOK,
     RestOK, Loops
<1>2. seen' = Head(body[r].pipe)
  BY DEF Deliver, Show
<1>3. body' = [body EXCEPT ![r] = [body[r] EXCEPT !.pipe = Tail(body[r].pipe)]]
  BY DEF Deliver
<1> HIDE DEF r
<1>4. Ordered(body[r], latest)
  BY <1>1 DEF FeedInv, InFlight
<1>5. body[r].state = "open"
  BY <1>1, <1>4 DEF Ordered
<1>6. /\ body'[r] = [body[r] EXCEPT !.pipe = Tail(body[r].pipe)]
      /\ \A b \in Loops \ {r} : body'[b] = body[b]
  BY <1>1, <1>3 DEF StreamInv, BodiesOK
<1>7. body'[r].state = "open"
  BY <1>1, <1>5, <1>6 DEF BodyRecord
<1>8. /\ Ordered(body'[r], latest) /\ Head(body[r].pipe) \in 1 .. latest
      /\ \A i \in DOMAIN body'[r].pipe : Head(body[r].pipe) <= body'[r].pipe[i]
  BY <1>1, <1>4, <1>6, TailOrdered
<1>9. ~Shaken => seen <= Head(body[r].pipe)
  <2>1. body[r].pipe \in Seq(1 .. MaxState)
    BY <1>1 DEF BodyRecord
  <2>2. 1 \in DOMAIN body[r].pipe /\ Head(body[r].pipe) = body[r].pipe[1]
    BY <1>1, <2>1
  <2> QED BY <1>1, <2>2 DEF FeedInv, NothingOlder
<1> QED BY <1>1, <1>2, <1>5, <1>6, <1>7, <1>8, <1>9 DEF r

LEMMA DeliverFeed == ASSUME StreamInv, FeedInv, NEW l \in Loops, Deliver(l) PROVE FeedInv'
<1> DEFINE r == loop[l].on
<1>1. /\ loop[l].phase = "reading" /\ r \in Loops /\ body[r].state = "open"
      /\ seen' \in 1 .. latest
      /\ \A b \in Loops \ {r} : body'[b] = body[b]
      /\ Ordered(body'[r], latest) /\ body'[r].state = "open"
      /\ \A i \in DOMAIN body'[r].pipe : seen' <= body'[r].pipe[i]
  BY Delivered
<1> HIDE DEF r
<1>2. /\ LoopsOK /\ loop' = [loop EXCEPT ![l] = NextRead(loop[l])] /\ Quiet
      /\ UNCHANGED <<reader, latest, timeouts>>
  BY DEF Deliver, StreamInv
<1>3. loop'[l] = NextRead(loop[l]) /\ \A m \in Loops \ {l} : loop'[m] = loop[m]
  BY <1>2 DEF LoopsOK
<1>4. NextRead(loop[l]).phase \in {"reading", "rejected", "done"}
  BY <1>2 DEF NextRead, LoopsOK, LoopRecord
<1>5. InFlight'
  BY <1>1, <1>2 DEF FeedInv, InFlight
<1>6. (seen <= latest)'
  BY <1>1, <1>2 DEF StreamInv, RestOK
<1>7. EndingLoopsAreSucceeded'
  BY <1>2, <1>3, <1>4 DEF EndingLoopsAreSucceeded, Quiet, Microtasks
<1>8. ASSUME ~Shaken PROVE OpenIsRead' /\ ReadsTheReader' /\ NothingOlder'
  <2>1. Owes(loop[l]) /\ r = reader
    BY <1>1, <1>8 DEF Owes, FeedInv, ReadsTheReader, r
  <2>2. reader # 0
    BY <1>1, <2>1, StreamAssumption DEF Loops
  <2>3. NextRead(loop[l]).phase = "reading" /\ NextRead(loop[l]).on = reader
    BY <1>1, <1>2, <2>1, <2>2 DEF NextRead, LoopsOK, LoopRecord
  <2>4. \A m \in Loops \ {l} : loop[m].phase # "reading"
    BY <1>8, <2>1, OneLoop DEF Owes
  <2>5. \A b \in Loops \ {r} : body[b].state # "open" /\ body[b].pipe = <<>>
    BY <1>8, <2>1, OneBody DEF r
  <2>6. OpenIsRead'
    BY <1>1, <1>3, <2>1, <2>3, <2>5 DEF OpenIsRead
  <2>7. ReadsTheReader'
    BY <1>2, <1>3, <2>3, <2>4 DEF ReadsTheReader
  <2>8. NothingOlder'
    <3> SUFFICES ASSUME NEW b \in Loops, NEW i \in DOMAIN body'[b].pipe
                 PROVE  seen' <= body'[b].pipe[i]
      BY DEF NothingOlder
    <3>1. CASE b = r
      BY <1>1, <3>1
    <3>2. CASE b # r
      <4>1. body'[b].pipe = <<>>
        BY <1>1, <2>5, <3>2
      <4> QED BY <4>1
    <3> QED BY <3>1, <3>2
  <2> QED BY <2>6, <2>7, <2>8
<1>9. Shaken' <=> Shaken
  BY <1>2 DEF Shaken
<1> QED BY <1>5, <1>6, <1>7, <1>8, <1>9 DEF FeedInv

\* The server sends the present state, which is not older than anything.
LEMMA PushFeed == ASSUME StreamInv, FeedInv, NEW r \in Loops, Push(r) PROVE FeedInv'
<1>1. /\ BodiesOK /\ body[r] \in BodyRecord /\ body[r].state = "open"
      /\ latest \in 1 .. MaxState /\ Ordered(body[r], latest)
  BY DEF Push, StreamInv, BodiesOK, RestOK, FeedInv, InFlight
<1>2. body' = [body EXCEPT ![r] = [body[r] EXCEPT !.pipe = Append(body[r].pipe, latest)]]
  BY DEF Push
<1>3. /\ body'[r] = [body[r] EXCEPT !.pipe = Append(body[r].pipe, latest)]
      /\ \A b \in Loops \ {r} : body'[b] = body[b]
  BY <1>1, <1>2 DEF BodiesOK
<1>4. UNCHANGED <<loop, reader, timers, latest, seen, timeouts>>
  BY DEF Push, counts
<1>5. /\ Ordered(body'[r], latest) /\ body'[r].state = "open"
      /\ \A i \in DOMAIN body'[r].pipe :
           \/ body'[r].pipe[i] = latest
           \/ i \in DOMAIN body[r].pipe /\ body'[r].pipe[i] = body[r].pipe[i]
  BY <1>1, <1>3, AppendOrdered
<1>6. InFlight' /\ (seen <= latest)' /\ EndingLoopsAreSucceeded'
  BY <1>3, <1>4, <1>5 DEF FeedInv, InFlight, EndingLoopsAreSucceeded
<1>7. ASSUME ~Shaken PROVE OpenIsRead' /\ ReadsTheReader' /\ NothingOlder'
  <2>1. OpenIsRead /\ ReadsTheReader /\ NothingOlder /\ seen <= latest
    BY <1>7 DEF FeedInv
  <2>2. OpenIsRead'
    BY <1>1, <1>3, <1>4, <2>1 DEF OpenIsRead
  <2>3. ReadsTheReader'
    BY <1>4, <2>1 DEF ReadsTheReader
  <2>4. NothingOlder'
    BY <1>3, <1>4, <1>5, <2>1 DEF NothingOlder
  <2> QED BY <2>2, <2>3, <2>4
<1>8. Shaken' <=> Shaken
  BY <1>4 DEF Shaken
<1> QED BY <1>6, <1>7, <1>8 DEF FeedInv

\* From a timeout on, connections may overlap.
LEMMA TimeoutShakes ==
  ASSUME StreamInv, NEW l \in Loops, Timeout(l)
  PROVE  (Sends + timeouts > 1)' /\ offline' = TRUE /\ UNCHANGED <<latest, seen>>
<1>1. timeouts \in Nat /\ timeouts' = timeouts + 1
  BY DEF StreamInv, RestOK, Timeout
<1> QED BY <1>1, StreamAssumption DEF Timeout

LEMMA TimeoutFeed == ASSUME StreamInv, FeedInv, NEW l \in Loops, Timeout(l) PROVE FeedInv'
<1>1. Shaken' /\ UNCHANGED <<latest, seen>>
  BY TimeoutShakes DEF Shaken
<1>2. \A r \in Loops : Ends(body[r], body'[r])
  <2>1. CASE control = 0
    BY <2>1 DEF Timeout, Ends
  <2>2. CASE control # 0
    <3>1. body' = Broken(control)
      BY <2>2 DEF Timeout
    <3>2. NoBody.pipe = <<>> /\ [NoBody EXCEPT !.state = "broken"].pipe = <<>>
          /\ [NoBody EXCEPT !.state = "broken"].state = "broken"
      BY DEF NoBody
    <3> QED BY <3>1, <3>2 DEF Broken, Ends, StreamInv, BodiesOK
  <2> QED BY <2>1, <2>2
<1>3. InFlight'
  BY <1>1, <1>2, EndedIsOrdered DEF FeedInv, InFlight
<1>4. EndingLoopsAreSucceeded'
  <2>1. timers' > 0
    BY DEF Timeout, StreamInv, RestOK
  <2> QED BY <2>1 DEF EndingLoopsAreSucceeded
<1> QED BY <1>1, <1>3, <1>4 DEF FeedInv

LEMMA ClusterChangesFeed == ASSUME StreamInv, FeedInv, ClusterChanges PROVE FeedInv'
<1>1. /\ latest' = latest + 1 /\ latest \in Nat /\ seen \in Nat
      /\ UNCHANGED <<loop, body, reader, timers, seen, timeouts>>
  BY DEF ClusterChanges, counts, StreamInv, RestOK
<1>2. ASSUME NEW r \in Loops PROVE Ordered(body[r], latest + 1)
  <2>1. Ordered(body[r], latest) /\ body[r].pipe \in Seq(1 .. MaxState)
    BY DEF FeedInv, InFlight, StreamInv, BodiesOK, BodyRecord
  <2>2. \A i \in DOMAIN body[r].pipe : body[r].pipe[i] \in Nat
    <3>1. \A i \in 1 .. Len(body[r].pipe) : body[r].pipe[i] \in 1 .. MaxState
      BY <2>1, ElementOfSeq
    <3>2. DOMAIN body[r].pipe = 1 .. Len(body[r].pipe)
      BY <2>1
    <3>3. 1 .. MaxState \subseteq Nat
      BY StreamAssumption
    <3> QED BY <3>1, <3>2, <3>3
  <2>3. \A i \in DOMAIN body[r].pipe : body[r].pipe[i] <= latest + 1
    BY <1>1, <2>1, <2>2 DEF Ordered
  <2> QED BY <2>1, <2>3 DEF Ordered
<1>3. InFlight'
  BY <1>1, <1>2 DEF InFlight
<1>4. (seen <= latest)'
  BY <1>1 DEF FeedInv
<1>5. EndingLoopsAreSucceeded' /\ (~Shaken' => OpenIsRead' /\ ReadsTheReader' /\ NothingOlder')
  BY <1>1 DEF FeedInv, EndingLoopsAreSucceeded, Shaken, OpenIsRead, ReadsTheReader, NothingOlder
<1> QED BY <1>3, <1>4, <1>5 DEF FeedInv

\* The invariant of the refinement.
LEMMA FeedInit == Init => FeedInv
<1> SUFFICES ASSUME Init PROVE FeedInv
  OBVIOUS
<1>1. /\ \A l \in Loops : loop[l].phase = "off"
      /\ \A r \in Loops : body[r].state = "none" /\ body[r].pipe = <<>>
      /\ latest = 1 /\ seen = 0
  BY DEF Init, Idle, NoBody
<1>2. \A r \in Loops : \A i \in DOMAIN body[r].pipe : FALSE
  BY <1>1
<1>3. InFlight
  BY <1>1, <1>2 DEF InFlight, Ordered
<1>4. EndingLoopsAreSucceeded /\ OpenIsRead /\ ReadsTheReader /\ NothingOlder
  BY <1>1, <1>2 DEF EndingLoopsAreSucceeded, OpenIsRead, ReadsTheReader, NothingOlder
<1> QED BY <1>1, <1>3, <1>4 DEF FeedInv

LEMMA FeedSteps == StreamInv /\ FeedInv /\ [Next]_vars => FeedInv'
<1> SUFFICES ASSUME StreamInv, FeedInv, [Next]_vars PROVE FeedInv'
  OBVIOUS
<1>1. CASE ClusterChanges
  BY <1>1, ClusterChangesFeed
<1>2. ASSUME NEW l \in Loops, Start(l) \/ Reconnect(l) \/ Timeout(l) PROVE FeedInv'
  BY <1>2, SendFeed, TimeoutFeed
<1>3. ASSUME NEW l \in Loops, Respond(l) \/ BadAnswer(l) \/ FetchFails(l) PROVE FeedInv'
  BY <1>3, RespondFeed, NoAnswerFeed
<1>4. ASSUME NEW l \in Loops, Deliver(l) \/ BodyEnds(l) \/ BodyBreaks(l) \/ Push(l) PROVE FeedInv'
  BY <1>4, DeliverFeed, BodyGoneFeed, PushFeed
<1>5. ASSUME NEW l \in Loops, EndRead(l) \/ Catch(l) \/ Finally(l) PROVE FeedInv'
  BY <1>5, CleanupFeed DEF EndRead, Catch, Finally
<1>6. ASSUME NEW l \in Loops, Disconnected(l) \/ Failed(l) \/ Closed(l) PROVE FeedInv'
  BY <1>6, CleanedFeed
<1>7. CASE UNCHANGED vars
  BY <1>7 DEF vars, FeedInv, InFlight, EndingLoopsAreSucceeded, Shaken, OpenIsRead,
     ReadsTheReader, NothingOlder
<1> QED BY <1>1, <1>2, <1>3, <1>4, <1>5, <1>6, <1>7 DEF Next, Step

LEMMA FeedInvariant == Spec => []FeedInv
<1>1. Init => FeedInv
  BY FeedInit
<1>2. StreamInv /\ FeedInv /\ [Next]_vars => FeedInv'
  BY FeedSteps
<1> QED BY <1>1, <1>2, StreamInvariant, PTL DEF Spec

\* A step of the client is a change of the cluster, shows a state, resets the view, or
\* is not seen.
LEMMA FeedStep ==
  StreamInv /\ FeedInv /\ [Next]_vars
    => [Feed!FNext]_<<latest, seen, offline, Sends + timeouts > 1>>
<1> SUFFICES ASSUME StreamInv, FeedInv, [Next]_vars
             PROVE  \/ Feed!Change \/ Feed!Show \/ Feed!Lose
                    \/ UNCHANGED <<latest, seen, offline, timeouts>>
  BY DEF Feed!FNext
<1>1. CASE ClusterChanges
  BY <1>1 DEF ClusterChanges, Feed!Change, counts
<1>2. ASSUME NEW l \in Loops, Deliver(l) PROVE Feed!Show
  <2>1. seen' \in 1 .. latest /\ (~Shaken => seen <= seen')
    BY <1>2, Delivered
  <2>2. offline' = FALSE /\ UNCHANGED <<latest, timeouts>>
    BY <1>2 DEF Deliver, Show
  <2>3. seen \in Nat
    BY DEF StreamInv, RestOK
  <2>4. Sends + timeouts > 1 \/ seen' >= seen
    BY <2>1, <2>3 DEF Shaken
  <2> QED BY <2>1, <2>2, <2>4 DEF Feed!Show
<1>3. ASSUME NEW l \in Loops, Timeout(l) PROVE Feed!Lose
  BY <1>3, TimeoutShakes DEF Feed!Lose
<1>4. ASSUME NEW l \in Loops, Failed(l) PROVE Feed!Lose
  <2>1. offline' = TRUE /\ UNCHANGED <<latest, seen, timeouts>>
    BY <1>4 DEF Failed, Cleaned, counts
  <2> QED BY <2>1 DEF Feed!Lose
<1>5. ASSUME NEW l \in Loops, Start(l) \/ Reconnect(l) \/ Respond(l) \/ BadAnswer(l)
             \/ FetchFails(l) \/ BodyEnds(l) \/ BodyBreaks(l) \/ Push(l)
      PROVE  UNCHANGED <<latest, seen, offline, timeouts>>
  BY <1>5 DEF Start, Reconnect, Send, Respond, BadAnswer, FetchFails, BodyEnds, BodyBreaks,
     Push, counts
<1>6. ASSUME NEW l \in Loops, EndRead(l) \/ Catch(l) \/ Finally(l) \/ Disconnected(l) \/ Closed(l)
      PROVE  UNCHANGED <<latest, seen, offline, timeouts>>
  BY <1>6 DEF EndRead, Catch, Finally, Cleanup, Disconnected, Closed, Cleaned, counts
<1>7. CASE UNCHANGED vars
  BY <1>7 DEF vars
<1> QED BY <1>1, <1>2, <1>3, <1>4, <1>5, <1>6, <1>7 DEF Next, Step

\* The view shows states the cluster had and, until a connection has timed out, never an
\* older one after a newer one.
THEOREM StreamIsFeed == Spec => ImplementsFeed
<1>1. Init => Feed!FInit
  BY DEF Init, Feed!FInit
<1>2. StreamInv /\ FeedInv /\ [Next]_vars
        => [Feed!FNext]_<<latest, seen, offline, Sends + timeouts > 1>>
  BY FeedStep
<1> QED BY <1>1, <1>2, StreamInvariant, FeedInvariant, PTL DEF Spec, ImplementsFeed, Feed!FSpec
=============================================================================
