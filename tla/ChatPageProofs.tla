--------------------------- MODULE ChatPageProofs ---------------------------
(***************************************************************************)
(* Proofs about the chat page, for any number of openings, changes, timers *)
(* and writes.  Dialog, list and marks share no state: each has an         *)
(* invariant of its own, and a step of the page is a step of one of them.  *)
(***************************************************************************)
EXTENDS ChatPage, SequenceTheorems, TLAPS

----------------------------------------------------------------------------
(***************************************************************************)
(* The dialog.  What is awaited was started in a dialog that is there.     *)
(***************************************************************************)
Awaits == [step : {"validate", "act"}, in : 1 .. MaxOpenings, was : {"open", "leaving"}]

DialogInv == DialogTypeOK /\ DialogAwaits /\ (phase # "gone" => opening # 0)

\* The one action that is awaited is the first.
LEMMA OneIsAwaited ==
  ASSUME DialogInv, NEW i \in DOMAIN awaited
  PROVE  i = 1 /\ Len(awaited) = 1 /\ loading /\ awaited \in Seq(Awaits)
<1>1. awaited \in Seq(Awaits) /\ Len(awaited) <= 1 /\ (loading <=> awaited # <<>>)
  BY DEF DialogInv, DialogTypeOK, DialogAwaits, Awaits
<1>2. i \in 1 .. Len(awaited) /\ Len(awaited) \in Nat
  BY <1>1, LenProperties
<1>3. i = 1 /\ Len(awaited) = 1
  <2>1. \A n \in Nat : n <= 1 /\ i \in 1 .. n => i = 1 /\ n = 1
    OBVIOUS
  <2> QED BY <1>1, <1>2, <2>1, Zenon
<1>4. awaited # <<>>
  BY <1>3
<1> QED BY <1>1, <1>3, <1>4

\* An action is awaited when none is.
LEMMA AwaitOK ==
  ASSUME DialogInv, ~loading, phase # "gone", NEW step \in {"validate", "act"},
         Await(step), UNCHANGED <<phase, opening>>
  PROVE  DialogInv'
<1> DEFINE a == [step |-> step, in |-> opening, was |-> phase]
<1>1. awaited = <<>> /\ phase \in {"open", "leaving"} /\ opening \in 1 .. MaxOpenings
  BY ChatPageAssumption DEF DialogInv, DialogTypeOK, DialogAwaits
<1>2. a \in Awaits /\ awaited' = <<a>> /\ a.in = opening /\ a.was = phase
  BY <1>1 DEF Await, Awaits
<1>3. loading' = TRUE /\ phase' = phase /\ opening' = opening
  BY DEF Await
<1> HIDE DEF a
<1>4. awaited' \in Seq(Awaits) /\ Len(awaited') = 1 /\ awaited' # <<>> /\ awaited'[1] = a
  BY <1>2
<1>5. DialogTypeOK'
  BY <1>1, <1>3, <1>4 DEF DialogInv, DialogTypeOK, Awaits
<1>6. DialogAwaits'
  BY <1>2, <1>3, <1>4 DEF DialogAwaits
<1> QED BY <1>3, <1>5, <1>6 DEF DialogInv

\* A step of the dialog that leaves the awaited actions alone, when there are none.
LEMMA NothingAwaitedOK ==
  ASSUME DialogInv, awaited = <<>>, phase' \in {"gone", "open", "leaving"},
         opening' \in 0 .. MaxOpenings, phase' # "gone" => opening' # 0,
         UNCHANGED <<loading, awaited>>
  PROVE  DialogInv'
  BY DEF DialogInv, DialogTypeOK, DialogAwaits

\* What a result does to the phase.
LEMMA CloseOK ==
  ASSUME DialogTypeOK, NEW r, Close(r)
  PROVE  phase' \in {"gone", "open", "leaving"} /\ (phase' = "gone" <=> phase = "gone")
  BY DEF Close, DialogTypeOK

LEMMA DialogInitOK == DialogInit => DialogInv
<1>1. <<>> \in Seq(Awaits)
  OBVIOUS
<1> SUFFICES ASSUME DialogInit PROVE DialogInv
  OBVIOUS
<1>2. DialogTypeOK
  <2>1. phase \in {"gone", "open", "leaving"} /\ opening \in 0 .. MaxOpenings
    BY ChatPageAssumption DEF DialogInit
  <2>2. loading \in BOOLEAN /\ awaited \in Seq(Awaits)
    BY <1>1, Zenon DEF DialogInit
  <2> QED BY <2>1, <2>2, Zenon DEF DialogTypeOK, Awaits
<1>3. Len(awaited) = 0 /\ DOMAIN awaited = {} /\ awaited = <<>> /\ ~loading
  BY DEF DialogInit
<1>4. DialogAwaits
  BY <1>3 DEF DialogAwaits
<1> QED BY <1>2, <1>4 DEF DialogInit, DialogInv

LEMMA OpenDialogOK == ASSUME DialogInv, OpenDialog PROVE DialogInv'
<1>1. \A i \in DOMAIN awaited : awaited[i].was # "open"
  BY DEF DialogInv, DialogAwaits, OpenDialog
<1>2. phase' = "open" /\ opening' = opening + 1 /\ opening' \in 0 .. MaxOpenings
  BY ChatPageAssumption DEF OpenDialog, DialogInv, DialogTypeOK
<1>3. opening' # 0 /\ loading' = loading /\ awaited' = awaited
  BY <1>2 DEF OpenDialog, DialogInv, DialogTypeOK
<1> QED BY <1>1, <1>2, <1>3 DEF DialogInv, DialogTypeOK, DialogAwaits

LEMMA PressOK == ASSUME DialogInv, Press PROVE DialogInv'
<1>1. ~loading /\ phase # "gone" /\ opening' = opening
  BY DEF Press
<1>2. ASSUME NEW r \in Results, Close(r), UNCHANGED <<loading, awaited>> PROVE DialogInv'
  <2>1. awaited = <<>>
    BY <1>1 DEF DialogInv, DialogAwaits
  <2> QED BY <1>1, <1>2, <2>1, CloseOK, NothingAwaitedOK DEF DialogInv, DialogTypeOK
<1>3. ASSUME Await("act"), UNCHANGED phase PROVE DialogInv'
  BY <1>1, <1>3, AwaitOK
<1> QED BY <1>2, <1>3 DEF Press

LEMMA SubmitOK == ASSUME DialogInv, Submit PROVE DialogInv'
  BY AwaitOK DEF Submit

LEMMA ValidOK == ASSUME DialogInv, NEW i \in DOMAIN awaited, Valid(i) PROVE DialogInv'
<1>1. i = 1 /\ Len(awaited) = 1 /\ loading /\ awaited \in Seq(Awaits)
  BY OneIsAwaited
<1> DEFINE a == [awaited[1] EXCEPT !.step = "act"]
<1>2. awaited[1] \in Awaits
  BY <1>1
<1>3. a \in Awaits /\ a.in = awaited[1].in /\ a.was = awaited[1].was
  BY <1>2 DEF Awaits
<1>4. awaited' = [awaited EXCEPT ![1] = a]
  BY <1>1 DEF Valid
<1> HIDE DEF a
<1>5. awaited' \in Seq(Awaits) /\ Len(awaited') = 1 /\ awaited'[1] = a /\ awaited' # <<>>
  <2>1. 1 \in 1 .. Len(awaited)
    BY <1>1
  <2>2. awaited' \in Seq(Awaits) /\ Len(awaited') = Len(awaited) /\ awaited'[1] = a
    BY <1>1, <1>3, <1>4, <2>1, ExceptSeq
  <2> QED BY <1>1, <2>2
<1>6. UNCHANGED <<phase, opening, loading>>
  BY DEF Valid
<1>7. DialogAwaits'
  BY <1>1, <1>3, <1>5, <1>6 DEF DialogInv, DialogAwaits
<1> QED BY <1>5, <1>6, <1>7 DEF DialogInv, DialogTypeOK, Awaits

\* The awaited action is over: none is left.
LEMMA OverOK ==
  ASSUME DialogInv, awaited' = <<>>, loading' = FALSE, opening' = opening,
         phase' \in {"gone", "open", "leaving"}, phase' = "gone" <=> phase = "gone"
  PROVE  DialogInv'
<1>1. <<>> \in Seq(Awaits)
  OBVIOUS
<1>2. DialogTypeOK'
  BY <1>1 DEF DialogInv, DialogTypeOK, Awaits
<1>3. Len(awaited') = 0 /\ DOMAIN awaited' = {} /\ ~loading'
  OBVIOUS
<1>4. DialogAwaits'
  BY <1>3 DEF DialogAwaits
<1> QED BY <1>2, <1>4 DEF DialogInv

LEMMA InvalidOK == ASSUME DialogInv, NEW i \in DOMAIN awaited, Invalid(i) PROVE DialogInv'
  BY OverOK DEF Invalid, DialogInv, DialogTypeOK

LEMMA SettleOK ==
  ASSUME DialogInv, NEW i \in DOMAIN awaited, NEW r \in Results, Settle(i, r)
  PROVE  DialogInv'
<1>1. i = 1 /\ Len(awaited) = 1 /\ awaited \in Seq(Awaits)
  BY OneIsAwaited
<1>2. SubSeq(awaited, 1, 0) = <<>> /\ SubSeq(awaited, 2, 1) = <<>>
  BY SubSeqEmpty
<1>3. awaited' = <<>>
  BY <1>1, <1>2 DEF Settle
<1> QED BY <1>3, CloseOK, OverOK DEF Settle, DialogInv

LEMMA DismissOK == ASSUME DialogInv, Dismiss PROVE DialogInv'
<1>1. awaited = <<>>
  BY DEF Dismiss, DialogInv, DialogAwaits
<1> QED BY <1>1, CloseOK, NothingAwaitedOK DEF Dismiss, DialogInv, DialogTypeOK

LEMMA FadedOutOK == ASSUME DialogInv, FadedOut PROVE DialogInv'
  BY DEF FadedOut, DialogInv, DialogTypeOK, DialogAwaits

LEMMA DialogStepOK == DialogInv /\ DialogStep => DialogInv'
  BY OpenDialogOK, PressOK, SubmitOK, DismissOK, ValidOK, InvalidOK, SettleOK DEF DialogStep

----------------------------------------------------------------------------
(***************************************************************************)
(* The list.  The position it remembers is the present one, so that only a *)
(* movement upwards of the user's looks like one.                          *)
(***************************************************************************)
\* The types: of what is no truth value, and of what is.
PlacesOK == /\ rows \in 0 .. MaxRows /\ top \in 0 .. rows /\ goal \in top .. rows
            /\ prev = top /\ holds \in 0 .. MaxHolds /\ changes \in 0 .. MaxChanges
FlagsOK == /\ up \in BOOLEAN /\ auto \in BOOLEAN /\ isBottom \in BOOLEAN /\ stale \in BOOLEAN
           /\ frame \in BOOLEAN /\ hold \in BOOLEAN /\ left \in BOOLEAN

PaneInv == PlacesOK /\ FlagsOK /\ FollowsUnlessLeft

LEMMA PaneInitOK == PaneInit => PaneInv
<1> SUFFICES ASSUME PaneInit PROVE PaneInv
  OBVIOUS
<1>1. PlacesOK
  BY ChatPageAssumption DEF PaneInit, PlacesOK
<1>2. FlagsOK /\ FollowsUnlessLeft
  BY Zenon DEF PaneInit, FlagsOK, FollowsUnlessLeft
<1> QED BY <1>1, <1>2 DEF PaneInv

LEMMA ChangeOK ==
  ASSUME PaneInv, NEW n \in 0 .. MaxRows, Change(n)
  PROVE  PaneInv'
<1> USE DEF PaneInv
<1>1. CASE top > n
  <2>1. PlacesOK'
    BY <1>1, ChatPageAssumption DEF Change, OnScroll, PlacesOK
  <2>2. FlagsOK' /\ ~up'
    BY <1>1, Zenon DEF Change, OnScroll, FlagsOK
  <2> QED BY <2>1, <2>2, Zenon DEF FollowsUnlessLeft
<1>2. CASE ~(top > n)
  <2>1. top <= n
    BY <1>2, ChatPageAssumption DEF PlacesOK
  <2>2. PlacesOK'
    BY <1>2, ChatPageAssumption DEF Change, flags, PlacesOK
  <2>3. FlagsOK' /\ FollowsUnlessLeft'
    BY <1>2, <2>1, Zenon DEF Change, flags, FlagsOK, FollowsUnlessLeft
  <2> QED BY <2>2, <2>3
<1> QED BY <1>1, <1>2

LEMMA EffectOK ==
  ASSUME PaneInv, Effect
  PROVE  PaneInv'
<1> USE DEF PaneInv
<1>1. CASE up
  <2>1. PlacesOK'
    BY <1>1, Zenon DEF Effect, PlacesOK
  <2>2. FlagsOK' /\ FollowsUnlessLeft'
    BY <1>1, Zenon DEF Effect, FlagsOK, FollowsUnlessLeft
  <2> QED BY <2>1, <2>2
<1>2. CASE ~up
  <2>1. ScrollToBottom /\ hold' = TRUE /\ stale' = FALSE
        /\ UNCHANGED <<rows, top, prev, isBottom, goal, left, changes>>
    BY <1>2, Zenon DEF Effect
  <2>2. PlacesOK'
    BY <2>1, ChatPageAssumption DEF ScrollToBottom, PlacesOK
  <2>3. FlagsOK' /\ FollowsUnlessLeft'
    BY <2>1, Zenon DEF ScrollToBottom, FlagsOK, FollowsUnlessLeft
  <2> QED BY <2>2, <2>3
<1> QED BY <1>1, <1>2

LEMMA FrameOK ==
  ASSUME PaneInv, Frame
  PROVE  PaneInv'
<1> USE DEF PaneInv
<1>1. PlacesOK'
  BY ChatPageAssumption DEF Frame, flags, PlacesOK
<1>2. FlagsOK' /\ FollowsUnlessLeft'
  BY Zenon DEF Frame, flags, FlagsOK, FollowsUnlessLeft
<1> QED BY <1>1, <1>2

\* The list moves on towards its goal: downwards.
LEMMA AnimateOK ==
  ASSUME PaneInv, Animate
  PROVE  PaneInv'
<1> USE DEF PaneInv
<1>1. PlacesOK' /\ ~(top + 1 < prev)
  BY ChatPageAssumption DEF Animate, OnScroll, PlacesOK
<1>2. FlagsOK' /\ FollowsUnlessLeft'
  BY <1>1, Zenon DEF Animate, OnScroll, FlagsOK, FollowsUnlessLeft
<1> QED BY <1>1, <1>2

LEMMA ReleaseOK ==
  ASSUME PaneInv, Release
  PROVE  PaneInv'
<1> USE DEF PaneInv
<1>1. PlacesOK'
  BY ChatPageAssumption DEF Release, flags, PlacesOK
<1>2. FlagsOK' /\ FollowsUnlessLeft'
  BY Zenon DEF Release, flags, FlagsOK, FollowsUnlessLeft
<1> QED BY <1>1, <1>2

LEMMA DragOK ==
  ASSUME PaneInv, NEW t \in 0 .. MaxRows, Drag(t)
  PROVE  PaneInv'
<1> USE DEF PaneInv
<1>1. t \in 0 .. rows
  BY DEF Drag, Near
<1>2. CASE t = top
  <2>1. PlacesOK'
    BY <1>1, <1>2, ChatPageAssumption DEF Drag, PlacesOK
  <2>2. FlagsOK' /\ FollowsUnlessLeft'
    BY <1>2, Zenon DEF Drag, FlagsOK, FollowsUnlessLeft
  <2> QED BY <2>1, <2>2
<1>3. CASE t # top
  <2>1. PlacesOK'
    BY <1>1, <1>3, ChatPageAssumption DEF Drag, OnScroll, PlacesOK
  <2>2. FlagsOK' /\ FollowsUnlessLeft'
    BY <1>3, Zenon DEF Drag, OnScroll, FlagsOK, FollowsUnlessLeft
  <2> QED BY <2>1, <2>2
<1> QED BY <1>2, <1>3

LEMMA MoveOK ==
  ASSUME PaneInv, NEW t \in 0 .. MaxRows, Move(t)
  PROVE  PaneInv'
<1> USE DEF PaneInv
<1>1. t \in 0 .. rows
  BY DEF Move, Near
<1>2. PlacesOK'
  BY <1>1, ChatPageAssumption DEF Move, OnScroll, PlacesOK
<1>3. FlagsOK' /\ FollowsUnlessLeft'
  BY Zenon DEF Move, OnScroll, FlagsOK, FollowsUnlessLeft
<1> QED BY <1>2, <1>3

LEMMA ClickOK ==
  ASSUME PaneInv, ClickScrollButton
  PROVE  PaneInv'
<1> USE DEF PaneInv
<1>1. PlacesOK'
  BY ChatPageAssumption DEF ClickScrollButton, ScrollToBottom, PlacesOK
<1>2. FlagsOK' /\ FollowsUnlessLeft'
  BY Zenon DEF ClickScrollButton, ScrollToBottom, FlagsOK, FollowsUnlessLeft
<1> QED BY <1>1, <1>2

LEMMA PaneStepOK ==
  ASSUME PaneInv, PaneStep
  PROVE  PaneInv'
  BY EffectOK, FrameOK, AnimateOK, ReleaseOK, ClickOK, ChangeOK, DragOK, MoveOK DEF PaneStep

----------------------------------------------------------------------------
(***************************************************************************)
(* The marks.                                                              *)
(***************************************************************************)
MarkRecord == [on : BOOLEAN, timers : SUBSET BOOLEAN]
Lasts(m) == m \in MarkRecord /\ (m.on => m.timers = {TRUE})

MarkInv == (\A b \in Buttons : Lasts(mark[b])) /\ mark = [b \in Buttons |-> mark[b]]

\* Setting a button keeps its mark for the time of its own timer.
LEMMA AfterEffectOK ==
  ASSUME NEW m \in MarkRecord, NEW b, NEW on \in BOOLEAN, on /\ m.on => m.timers = {TRUE}
  PROVE  Lasts(AfterEffect(m, b, on))
<1> DEFINE ts == IF on = m.on THEN m.timers ELSE IF on \/ b = "message" THEN {on} ELSE {}
<1>1. m.on \in BOOLEAN /\ m.timers \in SUBSET BOOLEAN
  BY DEF MarkRecord
<1>2. ts \in SUBSET BOOLEAN /\ (on => ts = {TRUE})
  <2>1. CASE on = m.on
    BY <1>1, <2>1, Zenon
  <2>2. CASE on # m.on
    <3>1. ts = {on} \/ (ts = {} /\ ~on)
      BY <2>2, Zenon
    <3>2. {TRUE} \in SUBSET BOOLEAN /\ {FALSE} \in SUBSET BOOLEAN /\ {} \in SUBSET BOOLEAN
      BY Zenon
    <3>3. on = TRUE \/ on = FALSE
      BY Zenon
    <3> QED BY <3>1, <3>2, <3>3, Zenon
  <2> QED BY <2>1, <2>2
<1>3. AfterEffect(m, b, on) = [on |-> on, timers |-> ts]
  BY Zenon DEF AfterEffect, Mark
<1> HIDE DEF ts
<1>4. AfterEffect(m, b, on) \in MarkRecord
  <2>1. \A o \in BOOLEAN, u \in SUBSET BOOLEAN : [on |-> o, timers |-> u] \in MarkRecord
    BY DEF MarkRecord
  <2> QED BY <1>2, <1>3, <2>1, Zenon
<1>5. AfterEffect(m, b, on).on = on /\ AfterEffect(m, b, on).timers = ts
  BY <1>3
<1> QED BY <1>2, <1>4, <1>5, Zenon DEF Lasts

\* Setting one button leaves the other's mark.
LEMMA SetOK ==
  ASSUME MarkInv, NEW b \in Buttons, NEW on \in BOOLEAN, Set(b, on)
  PROVE  MarkInv'
<1>1. Lasts(AfterEffect(mark[b], b, on))
  BY AfterEffectOK DEF MarkInv, Lasts
<1>2. mark' = [c \in Buttons |-> IF c = b THEN AfterEffect(mark[b], b, on) ELSE mark[c]]
  BY DEF Set, MarkInv
<1> QED BY <1>1, <1>2 DEF MarkInv

\* A timer that fires ends the mark, whichever it belongs to.
LEMMA PutOutOK == ASSUME MarkInv, NEW b \in Buttons, PutOut(b) PROVE MarkInv'
<1>1. PICK t \in mark[b].timers :
        mark' = [mark EXCEPT ![b] = AfterEffect(Fired(mark[b], t), b, FALSE)]
  BY DEF PutOut
<1>2. Fired(mark[b], t) \in MarkRecord
  BY DEF Fired, MarkInv, Lasts, MarkRecord
<1>3. Lasts(AfterEffect(Fired(mark[b], t), b, FALSE))
  BY <1>2, AfterEffectOK
<1> QED BY <1>1, <1>3 DEF MarkInv


LEMMA UnmarkedOK == ASSUME NEW b \in Buttons PROVE Lasts(Unmarked[b])
<1>1. \A u \in SUBSET BOOLEAN : Mark(FALSE, u) \in MarkRecord /\ ~Mark(FALSE, u).on
  BY DEF Mark, MarkRecord
<1>2. {FALSE} \in SUBSET BOOLEAN /\ {} \in SUBSET BOOLEAN
  BY Zenon
<1>3. Unmarked[b] = Mark(FALSE, IF b = "message" THEN {FALSE} ELSE {})
  BY DEF Unmarked
<1> QED BY <1>1, <1>2, <1>3, Zenon DEF Lasts

\* A button that is unmounted is a fresh one.
LEMMA UnmountOK == ASSUME MarkInv, Unmount PROVE MarkInv'
<1>1. mark' = [mark EXCEPT !["command"] = Unmarked["command"]]
  BY DEF Unmount
<1>2. Lasts(Unmarked["command"])
  BY UnmarkedOK DEF Buttons
<1> QED BY <1>1, <1>2 DEF MarkInv

----------------------------------------------------------------------------
(***************************************************************************)
(* The page.                                                               *)
(***************************************************************************)
PageInv == DialogInv /\ PaneInv /\ MarkInv /\ writes \in 0 .. MaxWrites

LEMMA DialogUnchanged == DialogInv /\ UNCHANGED dialog => DialogInv'
  BY DEF dialog, DialogInv, DialogTypeOK, DialogAwaits

LEMMA PaneUnchanged == PaneInv /\ UNCHANGED pane => PaneInv'
<1> SUFFICES ASSUME PaneInv, UNCHANGED pane PROVE PaneInv'
  OBVIOUS
<1>1. /\ rows' = rows /\ top' = top /\ prev' = prev /\ up' = up /\ auto' = auto
      /\ isBottom' = isBottom /\ goal' = goal /\ stale' = stale /\ frame' = frame
      /\ hold' = hold /\ holds' = holds /\ left' = left /\ changes' = changes
  BY DEF pane, flags
<1> QED BY <1>1, Zenon DEF PaneInv, PlacesOK, FlagsOK, FollowsUnlessLeft

LEMMA MarkUnchanged == MarkInv /\ UNCHANGED mark => MarkInv'
  BY DEF MarkInv

LEMMA PageInitOK == Init => PageInv
<1>1. Init => MarkInv
  BY UnmarkedOK DEF Init, MarkInv, Unmarked
<1> QED BY <1>1, DialogInitOK, PaneInitOK, ChatPageAssumption DEF Init, PageInv

LEMMA PageStepOK == PageInv /\ [Next]_vars => PageInv'
<1> SUFFICES ASSUME PageInv, [Next]_vars PROVE PageInv'
  OBVIOUS
<1> USE DEF PageInv
<1>1. CASE DialogStep /\ UNCHANGED <<pane, mark, writes>>
  BY <1>1, DialogStepOK, PaneUnchanged, MarkUnchanged
<1>2. CASE PaneStep /\ UNCHANGED <<dialog, mark, writes>>
  BY <1>2, PaneStepOK, DialogUnchanged, MarkUnchanged
<1>3. CASE CopyMessage
  <2>1. MarkInv'
    BY <1>3, SetOK DEF CopyMessage, Buttons
  <2> QED BY <1>3, <2>1, DialogUnchanged, PaneUnchanged DEF CopyMessage
<1>4. CASE CopyCommand
  BY <1>4, DialogUnchanged, PaneUnchanged, MarkUnchanged, ChatPageAssumption DEF CopyCommand
<1>5. CASE Written
  <2>1. MarkInv'
    BY <1>5, SetOK, MarkUnchanged DEF Written, Buttons
  <2> QED BY <1>5, <2>1, DialogUnchanged, PaneUnchanged, ChatPageAssumption DEF Written
<1>6. CASE Unmount
  BY <1>6, UnmountOK, FadedOutOK, PaneUnchanged, ChatPageAssumption DEF Unmount
<1>7. ASSUME NEW b \in Buttons, PutOut(b) PROVE PageInv'
  BY <1>7, PutOutOK, DialogUnchanged, PaneUnchanged DEF PutOut
<1>8. CASE UNCHANGED vars
  BY <1>8, DialogUnchanged, PaneUnchanged, MarkUnchanged DEF vars
<1> QED BY <1>1, <1>2, <1>3, <1>4, <1>5, <1>6, <1>7, <1>8 DEF Next

LEMMA PageInvariant == Spec => []PageInv
BY PageInitOK, PageStepOK, PTL DEF Spec

\* The page keeps its types.
THEOREM PageTypes == Spec => []TypeOK
<1>1. PaneInv => PaneTypeOK
  <2>1. PlacesOK => prev \in 0 .. MaxRows
    BY ChatPageAssumption DEF PlacesOK
  <2> QED BY <2>1, Zenon DEF PaneInv, PlacesOK, FlagsOK, PaneTypeOK
<1>2. MarkInv => mark \in [Buttons -> MarkRecord]
  BY DEF MarkInv, Lasts
<1>3. PageInv => TypeOK
  BY <1>1, <1>2 DEF PageInv, DialogInv, TypeOK, MarkRecord
<1> QED BY <1>3, PageInvariant, PTL

\* An action of the dialog is over before the dialog it was started in closes.
THEOREM DialogsAwait == Spec => []DialogAwaits
<1>1. PageInv => DialogAwaits
  BY DEF PageInv, DialogInv
<1> QED BY <1>1, PageInvariant, PTL

\* The list stops following only if the user has scrolled.
THEOREM ListFollows == Spec => []FollowsUnlessLeft
<1>1. PageInv => FollowsUnlessLeft
  BY DEF PageInv, PaneInv
<1> QED BY <1>1, PageInvariant, PTL

\* A mark lasts for the time of its own timer.
THEOREM MarksLast == Spec => []MarkLasts
<1>1. PageInv => MarkLasts
  BY DEF PageInv, MarkInv, Lasts, MarkLasts
<1> QED BY <1>1, PageInvariant, PTL
=============================================================================
