---------------------------- MODULE AlertDialog ----------------------------
(***************************************************************************)
(* The dialog of the web frontend (components/mui/dialog): opened by       *)
(* useAlertDialog, closed by the result of its actions, unless they say    *)
(* otherwise, or by the user.  An action may take a while, and a form is   *)
(* validated first; meanwhile the dialog is loading.  A closed dialog can  *)
(* be clicked until it has faded out.                                      *)
(***************************************************************************)
EXTENDS Naturals, Sequences

CONSTANT MaxOpenings   \* bound: times the dialog is opened

VARIABLES phase,       \* gone, open, or leaving: fading out
          opening,     \* history: the number of times it has been opened
          loading,
          awaited      \* the actions under way, each with what it was started in

dialog == <<phase, opening, loading, awaited>>

DialogInit == phase = "gone" /\ opening = 0 /\ loading = FALSE /\ awaited = <<>>

\* What an action may come to: it is done, says that the dialog stays (false, or
\* closeDialog: false), or raises; null raises too, as it is an object without fields.
Results == {"done", "stay", "raise"}

\* open of useAlertDialog, idempotent.
OpenDialog ==
  /\ phase # "open" /\ opening < MaxOpenings
  /\ phase' = "open" /\ opening' = opening + 1 /\ UNCHANGED <<loading, awaited>>

\* onClose, if the result is to close; a dialog that is not open is left as it is.
Close(r) == phase' = IF r = "done" /\ phase = "open" THEN "leaving" ELSE phase

Await(step) ==
  /\ loading' = TRUE
  /\ awaited' = Append(awaited, [step |-> step, in |-> opening, was |-> phase])

----------------------------------------------------------------------------
\* Mutation of Press: the handler does not look whether the dialog is loading.
PressAnyway ==
  /\ phase # "gone" /\ UNCHANGED opening
  /\ \/ \E r \in Results : Close(r) /\ UNCHANGED awaited
                           /\ loading' = (loading /\ r # "raise")
     \/ Await("act") /\ UNCHANGED phase

\* pipeHandlers, for cancel and confirm: the result is there, or a promise of it.
Press ==
  /\ phase # "gone" /\ ~loading /\ UNCHANGED opening
  /\ \/ \E r \in Results : Close(r) /\ UNCHANGED <<loading, awaited>>
     \/ Await("act") /\ UNCHANGED phase

\* Mutation of Submit: the form stays mounted when the dialog has faded out.
SubmitGone == ~loading /\ Await("validate") /\ UNCHANGED <<phase, opening>>

\* onSubmit of the form: the fields are validated first.
Submit ==
  /\ phase # "gone" /\ ~loading
  /\ Await("validate") /\ UNCHANGED <<phase, opening>>

Valid(i) ==
  /\ awaited[i].step = "validate"
  /\ awaited' = [awaited EXCEPT ![i].step = "act"] /\ UNCHANGED <<phase, opening, loading>>

Invalid(i) ==
  /\ awaited[i].step = "validate"
  /\ awaited' = <<>> /\ loading' = FALSE /\ UNCHANGED <<phase, opening>>

\* An awaited action settles: whatever it was started in, this closes the dialog.
Settle(i, r) ==
  /\ awaited[i].step = "act"
  /\ awaited' = SubSeq(awaited, 1, i - 1) \o SubSeq(awaited, i + 1, Len(awaited))
  /\ loading' = FALSE /\ Close(r) /\ UNCHANGED opening

\* safeOnClose: the cross, the backdrop, Escape.
Dismiss ==
  /\ phase = "open" /\ ~loading
  /\ Close("done") /\ UNCHANGED <<opening, loading, awaited>>

FadedOut ==
  /\ phase = "leaving" /\ phase' = "gone"
  /\ UNCHANGED <<opening, loading, awaited>>

DialogStep == \/ OpenDialog \/ Press \/ Submit \/ Dismiss
              \/ \E i \in DOMAIN awaited :
                   Valid(i) \/ Invalid(i) \/ \E r \in Results : Settle(i, r)

----------------------------------------------------------------------------
(* Properties *)
\* Type invariant of the dialog.
DialogTypeOK ==
  /\ phase \in {"gone", "open", "leaving"} /\ opening \in 0 .. MaxOpenings
  /\ loading \in BOOLEAN
  /\ awaited \in Seq([step : {"validate", "act"}, in : 1 .. MaxOpenings,
                      was : {"open", "leaving"}])

\* At most one action is under way, a dialog is loading exactly as long as one is, and
\* an action started while it is open is over before it closes: its result can only
\* close the opening it belongs to.  (One started while it fades out may close the next.)
DialogAwaits ==
  /\ Len(awaited) <= 1 /\ (loading <=> awaited # <<>>)
  /\ \A i \in DOMAIN awaited :
       awaited[i].was = "open" => phase = "open" /\ opening = awaited[i].in
=============================================================================
