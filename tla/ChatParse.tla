----------------------------- MODULE ChatParse -----------------------------
(***************************************************************************)
(* What the chat shows of the text a model has generated so far: the       *)
(* parsers of chat-helper.tsx.  A text is a sequence of tokens: the tags   *)
(* "open" and "close" of a thinking block, a channel header ("analysis" or *)
(* "final"), the "end" of a channel, or a word.  Trimming, and the blank   *)
(* lines put between thinking blocks, are left out.                        *)
(***************************************************************************)
EXTENDS Naturals, Sequences, SequencesExt

Tags == {"open", "close"}
Channels == {"analysis", "final"}

\* The parts of a parsed text: what is shown as thinking, and as the answer.
Parts(thinking, content) == [thinking |-> thinking, content |-> content]

\* The first position of the tokens S in b from position i on, 0 if none.
FirstOf(b, S, i) == SelectInSubSeq(b, i, Len(b), LAMBDA t : t \in S)

----------------------------------------------------------------------------
\* parseGenerationQwen: as long as there is an opening tag, the text between it
\* and the first closing tag of the whole buffer is cut out as thinking; when that
\* closing tag is missing, or comes before the opening one, the rest is.
Qwen[b \in Seq(STRING)] ==
  LET start == FirstOf(b, {"open"}, 1)
      close == FirstOf(b, {"close"}, 1)
      stop  == IF close > start THEN close ELSE Len(b) + 1
  IN IF start = 0 THEN Parts(<<>>, b)
     ELSE LET rest == Qwen[SubSeq(b, 1, start - 1) \o SubSeq(b, stop + 1, Len(b))]
          IN Parts(SubSeq(b, start + 1, stop - 1) \o rest.thinking, rest.content)

\* The regular expression of parseGenerationGpt, applied from position i: a channel
\* header and what follows it up to the next end tag, or to the end of the text.
GptMatches(b) ==
  LET from[i \in Nat] ==
        LET header == FirstOf(b, Channels, i)
            stop   == FirstOf(b, {"end"}, header + 1)
            last   == IF stop = 0 THEN Len(b) ELSE stop - 1
        IN IF i > Len(b) \/ header = 0 THEN <<>>
           ELSE <<[channel |-> b[header], text |-> SubSeq(b, header + 1, last)]>>
                  \o (IF stop = 0 THEN <<>> ELSE from[stop + 1])
  IN from[1]

\* map[channel]: the last match of a channel replaces the earlier ones.
LastOf(matches, c) ==
  LET k == SelectLastInSeq(matches, LAMBDA m : m.channel = c)
  IN IF k = 0 THEN <<>> ELSE matches[k].text

Gpt(b) == LET ms == GptMatches(b)
          IN Parts(LastOf(ms, "analysis"), LastOf(ms, "final"))

----------------------------------------------------------------------------
\* The reference the parsers are compared with, one token at a time: a reader who is
\* inside or outside of a thinking block (`in`), or in a channel, and files each word.
\* A channel that is opened again starts afresh, as the last block is the valid one.
Reader == [in |-> "", thinking |-> <<>>, content |-> <<>>]

ReadTagged(r, t) ==
  IF r.in = ""
  THEN IF t = "open" THEN [r EXCEPT !.in = "think"]
                     ELSE [r EXCEPT !.content = Append(@, t)]
  ELSE IF t = "close" THEN [r EXCEPT !.in = ""]
                      ELSE [r EXCEPT !.thinking = Append(@, t)]

ReadChannel(r, t) ==
  IF t = "end" THEN [r EXCEPT !.in = ""]
  ELSE CASE r.in = "" /\ t = "analysis" -> [r EXCEPT !.in = t, !.thinking = <<>>]
         [] r.in = "" /\ t = "final"    -> [r EXCEPT !.in = t, !.content = <<>>]
         [] r.in = "analysis"           -> [r EXCEPT !.thinking = Append(@, t)]
         [] r.in = "final"              -> [r EXCEPT !.content = Append(@, t)]
         [] OTHER                       -> r

ReadAll(read(_, _), b) ==
  LET r == FoldLeft(read, Reader, b) IN Parts(r.thinking, r.content)

\* The reader meets no closing tag outside of a block.
WellTagged(b) == ~Contains(ReadAll(ReadTagged, b).content, "close")

\* Both parsers agree with the reader on every text in T: the thinking parser, which
\* searches the whole buffer again for each block, as long as no closing tag
\* stands outside of a block; the channel parser on any text, cut off anywhere.
ParsersAgree(T) ==
  \A b \in T : /\ WellTagged(b) => Qwen[b] = ReadAll(ReadTagged, b)
               /\ Gpt(b) = ReadAll(ReadChannel, b)
=============================================================================
