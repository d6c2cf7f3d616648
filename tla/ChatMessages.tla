---------------------------- MODULE ChatMessages ----------------------------
(***************************************************************************)
(* The list of messages of the chat page (components/inputs/               *)
(* chat-messages.tsx), which follows an answer that grows, unless the user *)
(* scrolls up.  Positions are counted in steps of a wheel.  A scroll of    *)
(* the browser is smooth, and interrupted by one of the user.              *)
(***************************************************************************)
EXTENDS Naturals, Sequences

CONSTANTS MaxRows,     \* bound: the range of positions
          MaxChanges,  \* bound: changes of the messages
          MaxHolds     \* bound: scrollToBottom at a time

VARIABLES rows,        \* the last position, from which the end is seen
          top,         \* the position
          prev,        \* prevScrollTopRef
          up,          \* userScrolledUpRef
          auto,        \* autoScrollingRef
          isBottom,    \* as rendered: hides the button
          goal,        \* where a smooth scroll leads; top: there is none
          stale,       \* the messages have changed, the effect has yet to run
          frame,       \* scrollToBottom has requested the next animation frame
          hold,        \* the timer of 200 ms of the effect is running
          holds,       \* the timers of 250 ms that are running
          left,        \* history: the user has scrolled, and not arrived at the end since
          changes

flags == <<prev, up, isBottom>>
pane == <<rows, top, flags, auto, goal, stale, frame, hold, holds, left, changes>>

PaneInit ==
  /\ rows = 0 /\ top = 0 /\ prev = 0 /\ goal = 0
  /\ up = FALSE /\ auto = FALSE /\ isBottom = TRUE
  /\ stale = TRUE /\ frame = FALSE /\ hold = FALSE /\ holds = 0
  /\ left = FALSE /\ changes = 0

----------------------------------------------------------------------------
\* Mutation of OnScroll: the flag is not taken back at the end.
OnScrollStays(t, n, flag) ==
  /\ top' = t /\ prev' = t /\ isBottom' = (t = n)
  /\ up' = (flag \/ (~auto /\ t < prev))

\* onScroll, at position t of n.  `flag`: userScrolledUpRef, when the event comes.
OnScroll(t, n, flag) ==
  /\ top' = t /\ prev' = t /\ isBottom' = (t = n)
  /\ up' = (t # n /\ (flag \/ (~auto /\ t < prev)))

\* scrollToBottom: it holds off onScroll for 250 ms, and scrolls in the next frame.
ScrollToBottom ==
  /\ holds < MaxHolds /\ holds' = holds + 1
  /\ up' = FALSE /\ auto' = TRUE /\ frame' = TRUE

\* The messages change; when there are fewer the browser moves the list.
Change(n) ==
  /\ changes < MaxChanges /\ changes' = changes + 1
  /\ rows' = n /\ stale' = TRUE
  /\ IF top > n THEN OnScroll(n, n, up) /\ goal' = n
     ELSE UNCHANGED <<top, flags>> /\ goal' = IF goal > n THEN n ELSE goal
  /\ left' = (left /\ top <= n)
  /\ UNCHANGED <<auto, frame, hold, holds>>

\* Mutation of Effect: a change during an automatic scroll is not followed.
EffectOnce ==
  /\ stale /\ stale' = FALSE
  /\ IF up \/ auto THEN hold' = FALSE /\ UNCHANGED <<up, auto, frame, holds>>
     ELSE ScrollToBottom /\ hold' = TRUE
  /\ UNCHANGED <<rows, top, prev, isBottom, goal, left, changes>>

\* The effect on [messages]; its cleanup stops the timer of the one before.
Effect ==
  /\ stale /\ stale' = FALSE
  /\ IF up THEN hold' = FALSE /\ UNCHANGED <<up, auto, frame, holds>>
     ELSE ScrollToBottom /\ hold' = TRUE
  /\ UNCHANGED <<rows, top, prev, isBottom, goal, left, changes>>

Frame ==
  /\ frame /\ frame' = FALSE /\ goal' = rows
  /\ UNCHANGED <<rows, top, flags, auto, stale, hold, holds, left, changes>>

\* The browser, on the way to the goal.
Animate ==
  /\ goal > top /\ OnScroll(top + 1, rows, up)
  /\ left' = (left /\ top + 1 # rows)
  /\ UNCHANGED <<rows, auto, goal, stale, frame, hold, holds, changes>>

Release ==
  /\ \/ hold /\ hold' = FALSE /\ UNCHANGED holds
     \/ holds > 0 /\ holds' = holds - 1 /\ UNCHANGED hold
  /\ auto' = FALSE
  /\ UNCHANGED <<rows, top, flags, goal, stale, frame, left, changes>>

----------------------------------------------------------------------------
(* The user. *)
Near == {t \in 0 .. rows : t + 1 >= top /\ t <= top + 1}

\* onWheel, upwards, or onTouchMove; without an event of scrolling where it does not move.
Drag(t) ==
  /\ t \in Near /\ goal' = t
  /\ IF t = top THEN up' = TRUE /\ UNCHANGED <<top, prev, isBottom>>
     ELSE OnScroll(t, rows, TRUE)
  /\ left' = (t = top \/ t # rows)
  /\ UNCHANGED <<rows, auto, stale, frame, hold, holds, changes>>

\* The keyboard, or the wheel downwards: only onScroll sees them.
Move(t) ==
  /\ t \in Near \ {top} /\ goal' = t
  /\ OnScroll(t, rows, up) /\ left' = (t # rows)
  /\ UNCHANGED <<rows, auto, stale, frame, hold, holds, changes>>

\* The button, hidden at the bottom.
ClickScrollButton ==
  /\ ~isBottom /\ ScrollToBottom /\ left' = FALSE
  /\ UNCHANGED <<rows, top, prev, isBottom, goal, stale, hold, changes>>

PaneStep == \/ Effect \/ Frame \/ Animate \/ Release \/ ClickScrollButton
            \/ \E n \in 0 .. MaxRows : Change(n) \/ Drag(n) \/ Move(n)

----------------------------------------------------------------------------
(* Properties *)
\* Type invariant of the list.
PaneTypeOK ==
  /\ rows \in 0 .. MaxRows /\ top \in 0 .. rows /\ goal \in top .. rows
  /\ prev \in 0 .. MaxRows
  /\ up \in BOOLEAN /\ auto \in BOOLEAN /\ isBottom \in BOOLEAN /\ stale \in BOOLEAN
  /\ frame \in BOOLEAN /\ hold \in BOOLEAN /\ holds \in 0 .. MaxHolds
  /\ left \in BOOLEAN /\ changes \in 0 .. MaxChanges

\* The list stops following the answer only if the user has scrolled: never because of
\* its own scrolling, or of messages that are dropped.
FollowsUnlessLeft == up => left

\* A user who does not scroll, or has come back to the end, sees the end of the answer.
EndIsShown == <>[]~left => <>[](top = rows)
=============================================================================
