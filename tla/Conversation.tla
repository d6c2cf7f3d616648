---------------------------- MODULE Conversation ----------------------------
(***************************************************************************)
(* What a chat promises its user, without requests, readers, callbacks or  *)
(* rendering: a talk of questions and answers in which one question at a   *)
(* time is being answered.  Chat implements this specification.            *)
(***************************************************************************)
EXTENDS Naturals, Sequences

CONSTANT Words              \* what an answer is made of

VARIABLES talk,             \* the questions and answers, in the order they appear
          busy              \* a question is being answered

Question == [who |-> "user", words |-> <<>>]
Answer(ws) == [who |-> "assistant", words |-> ws]

AInit == talk = <<>> /\ busy = FALSE

\* A question is put at the end of the talk, and is then being answered.
Ask == /\ ~busy /\ busy' = TRUE
       /\ talk' = Append(talk, Question)

\* An answer is asked for again: it and all that followed are gone.
Again == /\ ~busy /\ busy' = TRUE
         /\ \E i \in DOMAIN talk : /\ talk[i].who = "assistant"
                                   /\ talk' = SubSeq(talk, 1, i - 1)

\* The answer begins after the last question, or grows by a word at its end.
Grow == /\ busy /\ UNCHANGED busy
        /\ \E w \in Words :
             \/ talk[Len(talk)].who = "user" /\ talk' = Append(talk, Answer(<<w>>))
             \/ talk[Len(talk)].who = "assistant"
                /\ talk' = [talk EXCEPT ![Len(talk)] = Answer(Append(@.words, w))]

\* Whatever ends an answer, the talk stays as it is.
Settle == busy /\ busy' = FALSE /\ UNCHANGED talk

Wipe == ~busy /\ talk' = <<>> /\ UNCHANGED busy

ANext == Ask \/ Again \/ Grow \/ Settle \/ Wipe
ASpec == AInit /\ [][ANext]_<<talk, busy>>
=============================================================================
