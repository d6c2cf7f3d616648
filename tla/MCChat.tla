------------------------------- MODULE MCChat -------------------------------
(* Two kinds of models: one that thinks in tags, one that speaks on channels. *)
EXTENDS Chat

MCModels == {"qwen", "gpt-oss"}
MCVocabulary == [m \in MCModels |-> IF m = "qwen" THEN {"open", "close", "w"}
                                    ELSE {"analysis", "final", "end", "w"}]

\* All texts of up to five tokens.
Texts(S) == UNION {[1 .. n -> S] : n \in 0 .. 5}

\* The parsers of chat-helper.tsx file every text as a reader would who takes it token
\* by token (see ChatParse).
ASSUME ParsersFileEveryText ==
  \A m \in MCModels : ParsersAgree(Texts(MCVocabulary[m]))
=============================================================================
