------------------------------ MODULE ChatPage ------------------------------
(***************************************************************************)
(* The chat page: the list of messages, the dialog that shows the command  *)
(* to join the cluster, and the buttons that copy a message or the command *)
(* and mark it as copied for two seconds.  The marks are states of         *)
(* components with an effect that starts and stops their timers; the       *)
(* command is unmounted when the dialog has faded out.                     *)
(***************************************************************************)
EXTENDS AlertDialog, ChatMessages

CONSTANT MaxWrites     \* bound: commands being written to the clipboard

ASSUME ChatPageAssumption ==
  /\ MaxOpenings \in Nat /\ MaxRows \in Nat /\ MaxChanges \in Nat /\ MaxHolds \in Nat
  /\ MaxWrites \in Nat

VARIABLES mark,        \* per button: it is marked, and the timers that are running
          writes       \* commands being written to the clipboard

vars == <<dialog, pane, mark, writes>>

Buttons == {"message", "command"}

\* A timer is named for what it was started with: a button that is marked, or not.  The
\* effect of a message starts one in either case, at first for a button without a mark.
Mark(on, timers) == [on |-> on, timers |-> timers]
Unmarked == [b \in Buttons |-> Mark(FALSE, IF b = "message" THEN {FALSE} ELSE {})]

Init == DialogInit /\ PaneInit /\ mark = Unmarked /\ writes = 0

\* Mutation of AfterEffect: the effect has no cleanup.
AfterEffectKept(m, b, on) ==
  Mark(on, IF on = m.on THEN m.timers
           ELSE m.timers \cup IF on \/ b = "message" THEN {on} ELSE {})

\* A button with mark m is set to `on`: the effect on [copied] or [copiedKey] runs if that
\* is a change, after the cleanup of the timer before.
AfterEffect(m, b, on) ==
  Mark(on, IF on = m.on THEN m.timers ELSE IF on \/ b = "message" THEN {on} ELSE {})

Set(b, on) == mark' = [mark EXCEPT ![b] = AfterEffect(@, b, on)]

\* onCopy of a message: marked at once, whatever becomes of the writing.
CopyMessage == Set("message", TRUE) /\ UNCHANGED <<dialog, pane, writes>>

\* copy of the command: marked when it has been written, if it is.
CopyCommand ==
  /\ phase # "gone" /\ writes < MaxWrites /\ writes' = writes + 1
  /\ UNCHANGED <<dialog, pane, mark>>

Written ==
  /\ writes > 0 /\ writes' = writes - 1
  /\ Set("command", TRUE) \/ UNCHANGED mark
  /\ UNCHANGED <<dialog, pane>>

\* A timer fires.
Fired(m, t) == [m EXCEPT !.timers = @ \ {t}]

PutOut(b) ==
  /\ \E t \in mark[b].timers : mark' = [mark EXCEPT ![b] = AfterEffect(Fired(@, t), b, FALSE)]
  /\ UNCHANGED <<dialog, pane, writes>>

\* The dialog has faded out: the command is unmounted, and nobody waits for its writes.
Unmount ==
  /\ FadedOut
  /\ mark' = [mark EXCEPT !["command"] = Unmarked["command"]] /\ writes' = 0
  /\ UNCHANGED pane

Next == \/ DialogStep /\ UNCHANGED <<pane, mark, writes>>
        \/ PaneStep /\ UNCHANGED <<dialog, mark, writes>>
        \/ CopyMessage \/ CopyCommand \/ Written \/ Unmount
        \/ \E b \in Buttons : PutOut(b)

Spec == Init /\ [][Next]_vars

\* The browser runs effects and timers, and shows its frames.
LiveSpec ==
  /\ Spec
  /\ WF_vars(Effect /\ UNCHANGED <<dialog, mark, writes>>)
  /\ WF_vars(Frame /\ UNCHANGED <<dialog, mark, writes>>)
  /\ WF_vars(Animate /\ UNCHANGED <<dialog, mark, writes>>)
  /\ WF_vars(Release /\ UNCHANGED <<dialog, mark, writes>>)

----------------------------------------------------------------------------
(* Properties *)
\* Type invariant of the chat page.
TypeOK ==
  /\ DialogTypeOK /\ PaneTypeOK
  /\ mark \in [Buttons -> [on : BOOLEAN, timers : SUBSET BOOLEAN]]
  /\ writes \in 0 .. MaxWrites

\* A mark lasts for the two seconds of its own timer, and then goes: no timer that was
\* started before cuts it short, however often a button is clicked.
MarkLasts == \A b \in Buttons : mark[b].on => mark[b].timers = {TRUE}
=============================================================================
