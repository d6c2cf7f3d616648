----------------------------- MODULE StatusFeed -----------------------------
(***************************************************************************)
(* What the cluster view may count on from the stream of cluster states:   *)
(* it shows states that the cluster has really had and, as long as no      *)
(* connection has timed out, never an older one after a newer one.         *)
(* HttpStream implements this specification.                               *)
(***************************************************************************)
EXTENDS Naturals

VARIABLES latest,      \* the number of the cluster's present state
          seen,        \* the number of the state shown last, 0: none yet
          offline,     \* the view has been reset since
          shaken       \* connections may overlap

FInit == latest = 1 /\ seen = 0 /\ offline = TRUE /\ shaken \in BOOLEAN

Change == latest' = latest + 1 /\ UNCHANGED <<seen, offline, shaken>>

Show == /\ \E n \in 1 .. latest : (shaken \/ n >= seen) /\ seen' = n
        /\ offline' = FALSE /\ UNCHANGED <<latest, shaken>>

Lose == offline' = TRUE /\ shaken' \in {shaken, TRUE} /\ UNCHANGED <<latest, seen>>

FNext == Change \/ Show \/ Lose
FSpec == FInit /\ [][FNext]_<<latest, seen, offline, shaken>>
=============================================================================
