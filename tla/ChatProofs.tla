----------------------------- MODULE ChatProofs -----------------------------
(***************************************************************************)
(* Proofs about the chat service, for any number of requests and models:   *)
(* handlers that read the last render read the present, every answer is    *)
(* the answer to the conversation above it, and the chat implements a talk *)
(* in which one question at a time is answered (module Conversation).      *)
(* What the parsers make of a text plays no part in it, and lists of       *)
(* messages are sequences of records with the fields of a message.         *)
(*                                                                         *)
(* The last part is about what is shown: the types of all parts of a       *)
(* message, and that thinking and answer are kept apart as a reader of the *)
(* tokens would (module ChatParseProofs).                                  *)
(***************************************************************************)
EXTENDS Chat, ChatParseProofs

----------------------------------------------------------------------------
(***************************************************************************)
(* Lists of messages.                                                      *)
(***************************************************************************)
Fields == {"role", "from", "status", "raw", "thinking", "content"}
Message(m) ==
  /\ m = [f \in Fields |-> m[f]]
  /\ m.role \in {"user", "assistant"}

Sequence(s) == \E S : s \in Seq(S)

List(ms) == Sequence(ms) /\ \A k \in DOMAIN ms : Message(ms[k])

\* The positions of a list.
LEMMA ListDomain ==
  ASSUME NEW ms, Sequence(ms)
  PROVE  Len(ms) \in Nat /\ DOMAIN ms = 1 .. Len(ms) /\ (ms = <<>> <=> Len(ms) = 0)
<1>1. PICK S : ms \in Seq(S)
  BY DEF Sequence
<1> QED BY <1>1, LenProperties, EmptySeq

\* Two lists with the same messages.
LEMMA SameList ==
  ASSUME NEW s, NEW t, Sequence(s), Sequence(t), Len(s) = Len(t),
         \A k \in 1 .. Len(s) : s[k] = t[k]
  PROVE  s = t
<1>1. PICK S : s \in Seq(S)
  BY DEF Sequence
<1>2. PICK T : t \in Seq(T)
  BY DEF Sequence
<1>3. s \in Seq(S \cup T) /\ t \in Seq(S \cup T)
  BY <1>1, <1>2
<1> QED BY <1>3, SeqEqual

\* One more message.
LEMMA Appended ==
  ASSUME NEW ms, Sequence(ms), NEW m
  PROVE  LET ns == Append(ms, m)
         IN /\ Sequence(ns) /\ Len(ns) = Len(ms) + 1 /\ ns[Len(ms) + 1] = m /\ ns # <<>>
            /\ \A k \in 1 .. Len(ms) : ns[k] = ms[k]
<1>1. PICK S : ms \in Seq(S)
  BY DEF Sequence
<1>2. ms \in Seq(S \cup {m}) /\ m \in S \cup {m}
  BY <1>1
<1>3. /\ Append(ms, m) \in Seq(S \cup {m}) /\ Len(Append(ms, m)) = Len(ms) + 1
      /\ Append(ms, m)[Len(ms) + 1] = m /\ Append(ms, m) # <<>>
      /\ \A k \in 1 .. Len(ms) : Append(ms, m)[k] = ms[k]
  BY <1>2, AppendProperties
<1> QED BY <1>3 DEF Sequence

\* A message at its place.
LEMMA Replaced ==
  ASSUME NEW ms, Sequence(ms), NEW i \in 1 .. Len(ms), NEW m
  PROVE  LET ns == [ms EXCEPT ![i] = m]
         IN /\ Sequence(ns) /\ Len(ns) = Len(ms)
            /\ \A k \in 1 .. Len(ms) : ns[k] = IF k = i THEN m ELSE ms[k]
<1>1. PICK S : ms \in Seq(S)
  BY DEF Sequence
<1>2. ms \in Seq(S \cup {m}) /\ m \in S \cup {m}
  BY <1>1
<1> QED BY <1>2, ExceptSeq DEF Sequence

Put(ms, i, m) == [ms EXCEPT ![i] = m]

LEMMA PutAt ==
  ASSUME NEW ms, Sequence(ms), NEW i \in 1 .. Len(ms), NEW m
  PROVE  /\ Sequence(Put(ms, i, m)) /\ Len(Put(ms, i, m)) = Len(ms)
         /\ \A k \in 1 .. Len(ms) : Put(ms, i, m)[k] = IF k = i THEN m ELSE ms[k]
BY Replaced DEF Put

\* The first messages.
LEMMA Cut ==
  ASSUME NEW ms, Sequence(ms), NEW n \in 0 .. Len(ms)
  PROVE  LET ns == SubSeq(ms, 1, n)
         IN /\ Sequence(ns) /\ Len(ns) = n
            /\ \A k \in 1 .. n : ns[k] = ms[k]
<1>1. PICK S : ms \in Seq(S)
  BY DEF Sequence
<1>2. Len(ms) \in Nat
  BY <1>1, LenProperties
<1>3. \A k \in 1 .. n : k \in 1 .. Len(ms) /\ ms[k] \in S
  BY <1>1, <1>2, LenProperties
<1>4. /\ Len(SubSeq(ms, 1, n)) = n
      /\ \A k \in 1 .. n : SubSeq(ms, 1, n)[k] = ms[k]
      /\ SubSeq(ms, 1, n) \in Seq(S)
  BY <1>1, <1>2, <1>3
<1> QED BY <1>4 DEF Sequence

----------------------------------------------------------------------------
(***************************************************************************)
(* What the lists of the chat have in common, and what the callbacks make  *)
(* of them.                                                                *)
(***************************************************************************)
AllDone(ms) == \A k \in DOMAIN ms : ms[k].status = "done"

\* Questions are done and so is all but the last message; an answer follows a question.
Told(ms) ==
  /\ List(ms)
  /\ \A k \in DOMAIN ms : ms[k].role = "user" => ms[k].status = "done"
  /\ \A k \in 1 .. Len(ms) - 1 : ms[k].status = "done"
  /\ \A k \in DOMAIN ms :
       ms[k].role = "assistant" => k > 1 /\ ms[k - 1].role = "user"

\* The same is said by the same.
SameTalk(ms, ns) ==
  /\ Len(ns) = Len(ms)
  /\ \A k \in 1 .. Len(ms) :
       ns[k].role = ms[k].role /\ ns[k].from = ms[k].from /\ ns[k].raw = ms[k].raw

\* onClose and onError leave a list that is done and says the same.
LEMMA DoneAtEnd ==
  ASSUME NEW ms, Told(ms), ms # <<>>
  PROVE  LET ns == LastDone(ms)
         IN Told(ns) /\ AllDone(ns) /\ SameTalk(ms, ns) /\ ns # <<>>
<1> DEFINE n == Len(ms)
           m == [ms[n] EXCEPT !.status = "done"]
           ns == [ms EXCEPT ![n] = m]
<1>1. Sequence(ms) /\ n \in Nat /\ n # 0 /\ DOMAIN ms = 1 .. n /\ n \in 1 .. n
  BY ListDomain DEF Told, List
<1>2. LastDone(ms) = ns
  BY <1>1 DEF LastDone
<1>3. Sequence(ns) /\ Len(ns) = n /\ \A k \in 1 .. n : ns[k] = IF k = n THEN m ELSE ms[k]
  BY <1>1, Replaced
<1>4. DOMAIN ns = 1 .. n /\ ns # <<>>
  BY <1>1, <1>3, ListDomain
<1>5. Message(ms[n])
  BY <1>1 DEF Told, List
<1>6. /\ Message(m) /\ m.status = "done"
      /\ m.role = ms[n].role /\ m.from = ms[n].from /\ m.raw = ms[n].raw
  BY <1>5 DEF Message, Fields
<1> HIDE DEF m, ns, n
<1>7. List(ns)
  BY <1>1, <1>3, <1>4, <1>6 DEF Told, List
<1>8. SameTalk(ms, ns)
  BY <1>1, <1>3, <1>6 DEF SameTalk, n
<1>9. AllDone(ns)
  <2>1. \A k \in 1 .. n - 1 : ms[k].status = "done"
    BY DEF Told, n
  <2>2. \A k \in 1 .. n : ns[k].status = "done"
    BY <1>1, <1>3, <1>6, <2>1
  <2> QED BY <1>4, <2>2 DEF AllDone
<1>10. Told(ns)
  <2>1. \A k \in DOMAIN ns : ns[k].role = "assistant" => k > 1 /\ ns[k - 1].role = "user"
    BY <1>1, <1>4, <1>8 DEF Told, SameTalk, n
  <2>2. \A k \in 1 .. Len(ns) - 1 : ns[k].status = "done"
    BY <1>1, <1>3, <1>4, <1>9 DEF AllDone
  <2> QED BY <1>7, <1>9, <2>1, <2>2 DEF Told, AllDone
<1> QED BY <1>2, <1>4, <1>8, <1>9, <1>10

\* A second callback finds nothing left to do.
LEMMA DoneAlready ==
  ASSUME NEW ms, Told(ms), AllDone(ms), ms # <<>>
  PROVE  LastDone(ms) = ms
<1> DEFINE n == Len(ms)
           m == [ms[n] EXCEPT !.status = "done"]
<1>1. Sequence(ms) /\ n \in Nat /\ n # 0 /\ DOMAIN ms = 1 .. n /\ n \in 1 .. n
  BY ListDomain DEF Told, List
<1>2. Message(ms[n]) /\ ms[n].status = "done"
  BY <1>1 DEF Told, List, AllDone
<1>3. m = ms[n]
  BY <1>2 DEF Message, Fields
<1>4. LastDone(ms) = [ms EXCEPT ![n] = m]
  BY <1>1 DEF LastDone
<1> HIDE DEF m, n
<1>5. Sequence(ms) /\ n \in 1 .. Len(ms)
  BY <1>1 DEF n
<1>6. LET ns == [ms EXCEPT ![n] = m]
      IN /\ Sequence(ns) /\ Len(ns) = Len(ms)
         /\ \A k \in 1 .. Len(ms) : ns[k] = IF k = n THEN m ELSE ms[k]
  BY <1>5, Replaced
<1>7. \A k \in 1 .. Len(ms) : [ms EXCEPT ![n] = m][k] = ms[k]
  BY <1>3, <1>6
<1>8. [ms EXCEPT ![n] = m] = ms
  BY <1>5, <1>6, <1>7, SameList
<1> QED BY <1>4, <1>8

\* A question is put below a list that is done.
LEMMA QuestionAsked ==
  ASSUME NEW ms, Told(ms), AllDone(ms), NEW c
  PROVE  LET ns == Append(ms, User(c))
         IN /\ Told(ns) /\ AllDone(ns) /\ ns # <<>> /\ Len(ns) = Len(ms) + 1
            /\ ns[Len(ns)] = User(c) /\ \A k \in 1 .. Len(ms) : ns[k] = ms[k]
<1> DEFINE n == Len(ms)
           ns == Append(ms, User(c))
<1>1. Sequence(ms) /\ n \in Nat /\ DOMAIN ms = 1 .. n
  BY ListDomain DEF Told, List
<1>2. /\ Sequence(ns) /\ Len(ns) = n + 1 /\ ns[n + 1] = User(c) /\ ns # <<>>
      /\ \A k \in 1 .. n : ns[k] = ms[k]
  BY <1>1, Appended
<1>3. DOMAIN ns = 1 .. n + 1
  BY <1>2, ListDomain
<1>4. Message(User(c)) /\ User(c).role = "user" /\ User(c).status = "done"
  BY DEF Message, Fields, User
<1> HIDE DEF ns, n
<1>5. List(ns)
  BY <1>1, <1>2, <1>3, <1>4 DEF Told, List
<1>6. AllDone(ns)
  BY <1>1, <1>2, <1>3, <1>4 DEF AllDone
<1>7. \A k \in DOMAIN ns : ns[k].role = "assistant" => k > 1 /\ ns[k - 1].role = "user"
  <2> SUFFICES ASSUME NEW k \in DOMAIN ns, ns[k].role = "assistant"
               PROVE  k > 1 /\ ns[k - 1].role = "user"
    OBVIOUS
  <2>1. k \in 1 .. n
    BY <1>1, <1>2, <1>3, <1>4
  <2>2. k > 1 /\ ms[k - 1].role = "user"
    BY <1>1, <1>2, <2>1 DEF Told
  <2> QED BY <1>1, <1>2, <2>1, <2>2
<1>8. \A k \in 1 .. Len(ns) - 1 : ns[k].status = "done"
  BY <1>1, <1>2, <1>3, <1>6 DEF AllDone
<1>9. Told(ns)
  BY <1>5, <1>6, <1>7, <1>8 DEF Told, AllDone
<1> QED BY <1>2, <1>6, <1>9 DEF n, ns

\* What is asked for again is cut off with all that follows it.
LEMMA AnswerDropped ==
  ASSUME NEW ms, Told(ms), AllDone(ms), NEW at \in DOMAIN ms, ms[at].role = "assistant"
  PROVE  LET ns == Kept(ms, at)
         IN /\ Told(ns) /\ AllDone(ns) /\ ns # <<>> /\ Len(ns) = at - 1
            /\ at \in 2 .. Len(ms) /\ ns = SubSeq(ms, 1, at - 1)
            /\ ns[Len(ns)].role = "user" /\ \A k \in 1 .. at - 1 : ns[k] = ms[k]
<1> DEFINE ns == SubSeq(ms, 1, at - 1)
<1>1. Sequence(ms) /\ Len(ms) \in Nat /\ DOMAIN ms = 1 .. Len(ms)
  BY ListDomain DEF Told, List
<1>2. at > 1 /\ ms[at - 1].role = "user" /\ at \in 2 .. Len(ms)
  BY <1>1 DEF Told
<1>3. Kept(ms, at) = ns
  BY DEF Kept
<1>4. at - 1 \in 0 .. Len(ms)
  BY <1>1, <1>2
<1>5. Sequence(ns) /\ Len(ns) = at - 1 /\ \A k \in 1 .. at - 1 : ns[k] = ms[k]
  BY <1>1, <1>4, Cut
<1>6. DOMAIN ns = 1 .. at - 1 /\ ns # <<>>
  BY <1>2, <1>5, ListDomain
<1> HIDE DEF ns
<1>7. List(ns)
  BY <1>1, <1>2, <1>5, <1>6 DEF Told, List
<1>8. AllDone(ns)
  BY <1>1, <1>2, <1>5, <1>6 DEF AllDone
<1>9. \A k \in DOMAIN ns : ns[k].role = "assistant" => k > 1 /\ ns[k - 1].role = "user"
  <2> SUFFICES ASSUME NEW k \in DOMAIN ns, ns[k].role = "assistant"
               PROVE  k > 1 /\ ns[k - 1].role = "user"
    OBVIOUS
  <2>1. k \in DOMAIN ms /\ ms[k].role = "assistant"
    BY <1>1, <1>2, <1>5, <1>6
  <2>2. k > 1 /\ ms[k - 1].role = "user"
    BY <2>1 DEF Told
  <2> QED BY <1>2, <1>5, <1>6, <2>2
<1>10. \A k \in 1 .. Len(ns) - 1 : ns[k].status = "done"
  BY <1>2, <1>5, <1>6, <1>8 DEF AllDone
<1>11. Told(ns)
  BY <1>7, <1>8, <1>9, <1>10 DEF Told, AllDone
<1>12. ns[Len(ns)].role = "user"
  BY <1>2, <1>5
<1> QED BY <1>2, <1>3, <1>5, <1>6, <1>8, <1>11, <1>12 DEF ns

\* What the parser makes of a message: the same words of the same.
LEMMA ParsedMessage ==
  ASSUME NEW m, Message(m), NEW kind
  PROVE  LET p == Parsed(m, kind)
         IN Message(p) /\ p.role = m.role /\ p.from = m.from /\ p.raw = m.raw
<1> DEFINE x == Parse(kind, m.raw).thinking
           y == Parse(kind, m.raw).content
           z == IF y = <<>> THEN "thinking" ELSE "generating"
           q == [m EXCEPT !.thinking = x, !.content = y, !.status = z]
<1>1. Parsed(m, kind) = q
  BY DEF Parsed
<1> HIDE DEF x, y, z
<1>2. Message(q) /\ q.role = m.role /\ q.from = m.from /\ q.raw = m.raw
  BY DEF Message, Fields
<1> HIDE DEF q
<1> QED BY <1>1, <1>2

\* What a chunk makes of a list that is not empty: its last answer grows by a word, or
\* an answer begins below the last question.
LEMMA ChunkTold ==
  ASSUME NEW ms, Told(ms), ms # <<>>, NEW c, NEW t
  PROVE  LET ns == WithChunk(ms, c, t)
             n == Len(ms)
         IN /\ Told(ns) /\ ns # <<>>
            /\ \/ /\ ms[n].role = "assistant" /\ Len(ns) = n
                  /\ \A k \in 1 .. n : /\ ns[k].role = ms[k].role /\ ns[k].from = ms[k].from
                                       /\ k # n => ns[k].raw = ms[k].raw
                  /\ ns[n].raw = Append(ms[n].raw, t)
               \/ /\ ms[n].role = "user" /\ Len(ns) = n + 1
                  /\ \A k \in 1 .. n : ns[k] = ms[k]
                  /\ ns[n + 1].role = "assistant" /\ ns[n + 1].from = c
                  /\ ns[n + 1].raw = <<t>>
<1> DEFINE n == Len(ms)
           ns == WithChunk(ms, c, t)
<1>1. Sequence(ms) /\ n \in Nat /\ n # 0 /\ DOMAIN ms = 1 .. n /\ n \in 1 .. n
  BY ListDomain DEF Told, List
<1>2. Message(ms[n]) /\ ms[n].role \in {"user", "assistant"}
  BY <1>1 DEF Told, List, Message
<1>3. CASE ms[n].role = "assistant"
  <2> DEFINE m == Parsed(Longer(ms[n], t), conn[c].model)
  <2>1. ns = [ms EXCEPT ![n] = m]
    BY <1>1, <1>3 DEF WithChunk
  <2>2. LET l == Longer(ms[n], t)
        IN /\ Message(l) /\ l.role = ms[n].role /\ l.from = ms[n].from
           /\ l.raw = Append(ms[n].raw, t)
    BY <1>2 DEF Longer, Message, Fields
  <2>3. /\ Message(m) /\ m.role = ms[n].role /\ m.from = ms[n].from
        /\ m.raw = Append(ms[n].raw, t)
    BY <2>2, ParsedMessage
  <2> HIDE DEF m
  <2>4. Sequence(ns) /\ Len(ns) = n /\ \A k \in 1 .. n : ns[k] = IF k = n THEN m ELSE ms[k]
    <3>1. LET es == [ms EXCEPT ![n] = m]
          IN Sequence(es) /\ Len(es) = n /\ \A k \in 1 .. n : es[k] = IF k = n THEN m ELSE ms[k]
      BY <1>1, Replaced
    <3> QED BY <2>1, <3>1
  <2> HIDE DEF ns, n
  <2>5. DOMAIN ns = 1 .. n /\ ns # <<>>
    BY <1>1, <2>4, ListDomain
  <2>6. List(ns)
    BY <1>1, <2>3, <2>4, <2>5 DEF Told, List
  <2>7. \A k \in 1 .. n : /\ ns[k].role = ms[k].role /\ ns[k].from = ms[k].from
                          /\ k # n => ns[k].raw = ms[k].raw
    BY <1>1, <2>3, <2>4
  <2>8. ns[n].raw = Append(ms[n].raw, t) /\ ns[n].role = "assistant"
    BY <1>1, <1>3, <2>3, <2>4
  <2>9. \A k \in DOMAIN ns : ns[k].role = "user" => ns[k].status = "done"
    BY <1>1, <2>4, <2>5, <2>8 DEF Told
  <2>10. \A k \in 1 .. Len(ns) - 1 : ns[k].status = "done"
    <3>1. \A k \in 1 .. n - 1 : ms[k].status = "done"
      BY DEF Told, n
    <3> QED BY <1>1, <2>4, <3>1
  <2>11. \A k \in DOMAIN ns : ns[k].role = "assistant" => k > 1 /\ ns[k - 1].role = "user"
    <3> SUFFICES ASSUME NEW k \in 1 .. n, ns[k].role = "assistant"
                 PROVE  k > 1 /\ ns[k - 1].role = "user"
      BY <2>5
    <3>1. k > 1 /\ ms[k - 1].role = "user"
      BY <1>1, <2>7 DEF Told
    <3> QED BY <1>1, <2>7, <3>1
  <2>12. Told(ns)
    BY <2>6, <2>9, <2>10, <2>11 DEF Told
  <2> QED BY <1>3, <2>4, <2>5, <2>7, <2>8, <2>12 DEF n, ns
<1>4. CASE ms[n].role = "user"
  <2> DEFINE m == Parsed(Assistant(c, <<t>>), conn[c].model)
  <2>1. ns = Append(ms, m)
    BY <1>1, <1>4 DEF WithChunk
  <2>2. LET l == Assistant(c, <<t>>)
        IN Message(l) /\ l.role = "assistant" /\ l.from = c /\ l.raw = <<t>>
    <3>1. Message(User(c)) /\ User(c).from = c
      BY DEF User, Message, Fields
    <3>2. ASSUME NEW u, Message(u), NEW w
          PROVE  LET l == [u EXCEPT !.role = "assistant", !.raw = w]
                 IN Message(l) /\ l.role = "assistant" /\ l.from = u.from /\ l.raw = w
      <4> DEFINE l == [u EXCEPT !.role = "assistant", !.raw = w]
      <4>1. l = [f \in Fields |-> l[f]]
        BY <3>2 DEF Message, Fields
      <4>2. l.role = "assistant" /\ l.from = u.from /\ l.raw = w
        BY <3>2 DEF Message, Fields
      <4> QED BY <4>1, <4>2 DEF Message
    <3> QED BY <3>1, <3>2 DEF Assistant
  <2>3. Message(m) /\ m.role = "assistant" /\ m.from = c /\ m.raw = <<t>>
    BY <2>2, ParsedMessage
  <2> HIDE DEF m
  <2>4. /\ Sequence(ns) /\ Len(ns) = n + 1 /\ ns[n + 1] = m /\ ns # <<>>
        /\ \A k \in 1 .. n : ns[k] = ms[k]
    BY <1>1, <2>1, Appended
  <2> HIDE DEF ns, n
  <2>5. DOMAIN ns = 1 .. n + 1
    BY <1>1, <2>4, ListDomain
  <2>6. List(ns)
    BY <1>1, <2>3, <2>4, <2>5 DEF Told, List
  <2>7. \A k \in DOMAIN ns : ns[k].role = "user" => ns[k].status = "done"
    BY <1>1, <2>3, <2>4, <2>5 DEF Told
  <2>8. \A k \in 1 .. n - 1 : ns[k].status = "done"
    BY <1>1, <2>4 DEF Told, n
  <2>9. ns[n].status = "done"
    BY <1>1, <1>4, <2>4 DEF Told
  <2>10. \A k \in 1 .. Len(ns) - 1 : ns[k].status = "done"
    BY <1>1, <2>4, <2>8, <2>9
  <2>11. \A k \in DOMAIN ns : ns[k].role = "assistant" => k > 1 /\ ns[k - 1].role = "user"
    <3> SUFFICES ASSUME NEW k \in 1 .. n + 1, ns[k].role = "assistant"
                 PROVE  k > 1 /\ ns[k - 1].role = "user"
      BY <2>5
    <3>1. CASE k = n + 1
      BY <1>1, <1>4, <2>4, <3>1
    <3>2. CASE k \in 1 .. n
      <4>1. k > 1 /\ ms[k - 1].role = "user"
        BY <1>1, <2>4, <3>2 DEF Told
      <4> QED BY <1>1, <2>4, <3>2, <4>1
    <3> QED BY <1>1, <3>1, <3>2
  <2>12. Told(ns)
    BY <2>6, <2>7, <2>10, <2>11 DEF Told
  <2> QED BY <1>4, <2>3, <2>4, <2>12 DEF n, ns
<1> QED BY <1>2, <1>3, <1>4

----------------------------------------------------------------------------
(***************************************************************************)
(* The inductive invariant.  Beyond the properties it says that the held   *)
(* controller is that of the live request, so that a stop misses none;     *)
(* that a rendered rest is the present one, also while the callbacks of a  *)
(* stop are still to run; and how far the answer of the live request is.   *)
(***************************************************************************)
FetchFields == {"phase", "model", "sent", "half", "asked"}
Fetch(f) == f.phase \in {"pending", "open"}

\* The requests: a live one was made of a model.
Connected(cn) ==
  /\ cn = [c \in Requests |-> cn[c]]
  /\ \A c \in Requests : cn[c] = [f \in FetchFields |-> cn[c][f]]
  /\ \A c \in Requests : Fetch(cn[c]) => cn[c].model \in Models

\* Request c was asked with the first n of the messages.
AskedWith(cn, c, ms, n) ==
  /\ Sequence(cn[c].asked) /\ Len(cn[c].asked) = n
  /\ \A i \in 1 .. n : cn[c].asked[i] = Id(ms[i])

\* An answer is what its request has received, below what it was asked with.
Answered(ms, cn) ==
  \A k \in DOMAIN ms : ms[k].role = "assistant" =>
    LET c == ms[k].from
    IN /\ c \in Requests /\ cn[c].phase # "unused"
       /\ ms[k].raw = cn[c].sent /\ AskedWith(cn, c, ms, k - 1)

\* The answer of a live request is the last message, or yet to begin.
Growing(ms, cn) ==
  \A c \in Requests : Fetch(cn[c]) =>
    /\ ms # <<>>
    /\ \A k \in 1 .. Len(ms) - 1 : ms[k].role = "assistant" => ms[k].from # c
    /\ ms[Len(ms)].role = "assistant" => ms[Len(ms)].from = c
    /\ ms[Len(ms)].role = "user" =>
         cn[c].sent = <<>> /\ AskedWith(cn, c, ms, Len(ms))

Resting(s) == s \in {"closed", "error"}

Controlled == \A c \in Requests : Live(c) => control = c

ShownIsPresent ==
  /\ Resting(shown.status) => shown.messages = messages /\ Resting(status)
  /\ ~Resting(shown.status) => messages # <<>>

LateAfterStop ==
  /\ late \in Seq({"closed", "error"})
  /\ late # <<>> => shown.status = "closed" /\ messages # <<>>

ChatInv ==
  /\ cluster \in Models \cup {NoCluster}
  /\ status \in Statuses /\ shown.status \in Statuses
  /\ Told(messages) /\ Connected(conn)
  /\ StatusIsConnection /\ Controlled
  /\ ShownIsPresent /\ LateAfterStop
  /\ Answered(messages, conn) /\ Growing(messages, conn)

\* Initially nothing is asked.
LEMMA ChatInit == Init => ChatInv
<1> SUFFICES ASSUME Init PROVE ChatInv
  OBVIOUS
<1> USE DEF Init
<1>1. /\ Sequence(messages) /\ Len(messages) = 0
      /\ (\A k \in DOMAIN messages : FALSE) /\ (\A k \in 1 .. Len(messages) - 1 : FALSE)
  <2>1. messages \in Seq({})
    BY EmptySeq
  <2>2. Sequence(messages)
    BY <2>1 DEF Sequence
  <2>3. Len(messages) = 0 /\ DOMAIN messages = 1 .. 0
    BY <2>2, ListDomain
  <2> HIDE DEF Init
  <2>4. (\A k \in 1 .. 0 : FALSE) /\ (\A k \in 1 .. 0 - 1 : FALSE)
    OBVIOUS
  <2> QED BY <2>2, <2>3, <2>4
<1>2. Told(messages)
  BY <1>1 DEF Told, List
<1>3. \A c \in Requests : conn[c] = Unused /\ conn[c].phase = "unused"
  BY DEF Unused
<1>4. Connected(conn)
  <2>1. conn = [c \in Requests |-> conn[c]]
    OBVIOUS
  <2>2. \A c \in Requests : conn[c] = [f \in FetchFields |-> conn[c][f]]
    BY <1>3 DEF Unused, FetchFields
  <2> QED BY <1>3, <2>1, <2>2 DEF Connected, Fetch
<1>5. StatusIsConnection /\ Controlled /\ Growing(messages, conn)
  BY <1>1, <1>3 DEF StatusIsConnection, Controlled, Live, Busy, Growing, Fetch
<1>6. Answered(messages, conn)
  BY <1>1 DEF Answered
<1>7. ShownIsPresent /\ LateAfterStop
  BY EmptySeq DEF ShownIsPresent, LateAfterStop, Resting
<1> QED BY <1>2, <1>4, <1>5, <1>6, <1>7 DEF ChatInv, Statuses, NoCluster

\* What the invariant says of a live request and of a chat at rest.
LEMMA WhileLive ==
  ASSUME ChatInv, NEW c \in Requests, Live(c)
  PROVE  /\ messages # <<>> /\ Busy /\ ~Resting(shown.status) /\ late = <<>>
         /\ control = c /\ \A d \in Requests : Live(d) => d = c
<1>1. messages # <<>>
  BY DEF ChatInv, Growing, Live, Fetch
<1>2. Busy /\ \A d \in Requests : Live(d) => d = c
  BY DEF ChatInv, StatusIsConnection
<1>3. ~Resting(shown.status)
  BY <1>2 DEF ChatInv, ShownIsPresent, Resting, Busy
<1>4. late = <<>>
  BY <1>3 DEF ChatInv, LateAfterStop, Resting
<1> QED BY <1>1, <1>2, <1>3, <1>4 DEF ChatInv, Controlled

LEMMA AtRest ==
  ASSUME ChatInv, Resting(shown.status)
  PROVE  /\ shown.messages = messages /\ Resting(status) /\ ~Busy /\ AllDone(messages)
         /\ \A d \in Requests : ~Live(d)
<1>1. shown.messages = messages /\ Resting(status) /\ ~Busy
  BY DEF ChatInv, ShownIsPresent, Resting, Busy
<1> QED BY <1>1 DEF ChatInv, StatusIsConnection, AllDone

\* Nothing is received, asked or made live.
SameRequests(cn, dn) ==
  \A c \in Requests : /\ dn[c].sent = cn[c].sent /\ dn[c].asked = cn[c].asked
                      /\ cn[c].phase # "unused" => dn[c].phase # "unused"
                      /\ Fetch(dn[c]) => Fetch(cn[c])

\* Answers stay what they are while the talk and the requests do.
LEMMA SameAnswers ==
  ASSUME NEW ms, NEW ns, Told(ms), Told(ns), SameTalk(ms, ns),
         NEW cn, NEW dn, SameRequests(cn, dn), Answered(ms, cn), Growing(ms, cn)
  PROVE  Answered(ns, dn) /\ Growing(ns, dn)
<1> USE DEF SameRequests
<1>1. /\ Len(ms) \in Nat /\ DOMAIN ms = 1 .. Len(ms) /\ DOMAIN ns = 1 .. Len(ms)
      /\ Len(ns) = Len(ms) /\ (ms = <<>> <=> Len(ms) = 0) /\ (ns = <<>> <=> Len(ms) = 0)
  BY ListDomain DEF Told, List, SameTalk
<1>2. \A k \in 1 .. Len(ms) : /\ ns[k].role = ms[k].role /\ ns[k].from = ms[k].from
                              /\ ns[k].raw = ms[k].raw /\ Id(ns[k]) = Id(ms[k])
  BY DEF SameTalk, Id
<1>3. ASSUME NEW c \in Requests, NEW n \in 0 .. Len(ms), AskedWith(cn, c, ms, n)
      PROVE  AskedWith(dn, c, ns, n)
  BY <1>1, <1>2, <1>3 DEF AskedWith
<1>4. ASSUME NEW k \in DOMAIN ns, ns[k].role = "assistant"
      PROVE  LET c == ns[k].from
             IN /\ c \in Requests /\ dn[c].phase # "unused"
                /\ ns[k].raw = dn[c].sent /\ AskedWith(dn, c, ns, k - 1)
  <2>1. LET c == ms[k].from
        IN /\ c \in Requests /\ cn[c].phase # "unused"
           /\ ms[k].raw = cn[c].sent /\ AskedWith(cn, c, ms, k - 1)
    BY <1>1, <1>2, <1>4 DEF Answered
  <2>2. k \in 1 .. Len(ms) /\ k - 1 \in 0 .. Len(ms)
    BY <1>1
  <2>3. AskedWith(dn, ms[k].from, ns, k - 1)
    BY <1>3, <2>1, <2>2
  <2> QED BY <1>2, <2>1, <2>2, <2>3
<1>5. ASSUME NEW c \in Requests, Fetch(dn[c])
      PROVE  /\ ns # <<>>
             /\ \A k \in 1 .. Len(ns) - 1 : ns[k].role = "assistant" => ns[k].from # c
             /\ ns[Len(ns)].role = "assistant" => ns[Len(ns)].from = c
             /\ ns[Len(ns)].role = "user" =>
                  dn[c].sent = <<>> /\ AskedWith(dn, c, ns, Len(ns))
  <2>1. /\ ms # <<>>
        /\ \A k \in 1 .. Len(ms) - 1 : ms[k].role = "assistant" => ms[k].from # c
        /\ ms[Len(ms)].role = "assistant" => ms[Len(ms)].from = c
        /\ ms[Len(ms)].role = "user" =>
             cn[c].sent = <<>> /\ AskedWith(cn, c, ms, Len(ms))
    BY <1>5 DEF Growing
  <2>2. Len(ms) \in 1 .. Len(ms) /\ Len(ms) \in 0 .. Len(ms) /\ ns # <<>>
    BY <1>1, <2>1
  <2>3. \A k \in 1 .. Len(ns) - 1 : ns[k].role = "assistant" => ns[k].from # c
    BY <1>1, <1>2, <2>1
  <2>4. ns[Len(ns)].role = "assistant" => ns[Len(ns)].from = c
    BY <1>1, <1>2, <2>1, <2>2
  <2>5. ns[Len(ns)].role = "user" => dn[c].sent = <<>> /\ AskedWith(dn, c, ns, Len(ns))
    BY <1>1, <1>2, <1>3, <2>1, <2>2
  <2> QED BY <2>2, <2>3, <2>4, <2>5
<1>6. Answered(ns, dn)
  BY <1>4 DEF Answered
<1> QED BY <1>5, <1>6 DEF Growing

----------------------------------------------------------------------------
(***************************************************************************)
(* Every action keeps the invariant: first those that leave the talk alone.*)
(***************************************************************************)
\* Definitions of what all or most actions change nothing of.
LEMMA TypeInv == ASSUME ChatInv, Type PROVE ChatInv'
BY DEF Type, ChatInv, StatusIsConnection, Controlled, ShownIsPresent, LateAfterStop,
       Live, Busy

LEMMA ClusterInv == ASSUME ChatInv, ClusterChanges PROVE ChatInv'
BY DEF ClusterChanges, ChatInv, StatusIsConnection, Controlled, ShownIsPresent,
       LateAfterStop, Live, Busy

\* A busy chat has messages: so much for what is rendered of it.
LEMMA RenderInv == ASSUME ChatInv, Render PROVE ChatInv'
<1> USE DEF Render
<1>1. ~Resting(status) => messages # <<>>
  <2>1. ~Resting(status) => \E c \in Requests : Live(c)
    BY DEF ChatInv, StatusIsConnection, Busy, Resting, Statuses
  <2> QED BY <2>1, WhileLive
<1>2. ShownIsPresent' /\ shown'.status \in Statuses
  BY <1>1 DEF ShownIsPresent, ChatInv
<1>3. LateAfterStop'
  BY DEF LateAfterStop, Event, ChatInv
<1>4. StatusIsConnection' /\ Controlled'
  BY DEF ChatInv, StatusIsConnection, Controlled, Live, Busy
<1> QED BY <1>2, <1>3, <1>4 DEF ChatInv

\* A request that changes its phase only.
LEMMA PhaseChanged ==
  ASSUME NEW c \in Requests, Connected(conn), NEW ph,
         conn' = [conn EXCEPT ![c].phase = ph], ph # "unused", Live(c)
  PROVE  /\ Connected(conn') /\ SameRequests(conn, conn')
         /\ conn'[c].phase = ph /\ \A d \in Requests \ {c} : conn'[d] = conn[d]
<1> DEFINE e == [conn[c] EXCEPT !.phase = ph]
<1>1. \A d \in Requests : conn'[d] = IF d = c THEN e ELSE conn[d]
  BY DEF Connected
<1>2. conn' = [d \in Requests |-> conn'[d]]
  BY DEF Connected
<1>3. conn[c] = [f \in FetchFields |-> conn[c][f]] /\ conn[c].model \in Models
  BY DEF Connected, Live, Fetch
<1>4. /\ e = [f \in FetchFields |-> e[f]] /\ e.phase = ph /\ e.model \in Models
      /\ e.sent = conn[c].sent /\ e.asked = conn[c].asked
  BY <1>3 DEF FetchFields
<1> HIDE DEF e
<1> QED BY <1>1, <1>2, <1>3, <1>4 DEF Connected, Fetch, SameRequests, Live

LEMMA RespondInv == ASSUME ChatInv, NEW c \in Requests, Respond(c) PROVE ChatInv'
<1> USE DEF Respond
<1>1. Live(c) /\ Connected(conn) /\ Told(messages)
  BY DEF Live, ChatInv
<1>2. /\ Connected(conn') /\ SameRequests(conn, conn')
      /\ conn'[c].phase = "open" /\ \A d \in Requests \ {c} : conn'[d] = conn[d]
  BY <1>1, PhaseChanged
<1>3. \A d \in Requests : Live(d)' <=> Live(d)
  BY <1>1, <1>2 DEF Live
<1>4. SameTalk(messages, messages)
  BY DEF SameTalk
<1>5. Answered(messages, conn') /\ Growing(messages, conn')
  <2>1. Answered(messages, conn) /\ Growing(messages, conn)
    BY DEF ChatInv
  <2> QED BY <1>1, <1>2, <1>4, <2>1, SameAnswers
<1>6. StatusIsConnection' /\ Controlled'
  BY <1>3 DEF ChatInv, StatusIsConnection, Controlled, Busy
<1>7. ShownIsPresent' /\ LateAfterStop'
  BY DEF ChatInv, ShownIsPresent, LateAfterStop
<1> QED BY <1>2, <1>5, <1>6, <1>7 DEF ChatInv

\* A list without messages.
LEMMA NothingTold == Told(<<>>) /\ AllDone(<<>>) /\ \A cn : Answered(<<>>, cn)
<1>1. Sequence(<<>>)
  <2>1. <<>> \in Seq({})
    BY EmptySeq
  <2> QED BY <2>1 DEF Sequence
<1>2. Len(<<>>) = 0 /\ DOMAIN <<>> = 1 .. 0
  BY <1>1, ListDomain
<1>3. (\A k \in DOMAIN <<>> : FALSE) /\ (\A k \in 1 .. Len(<<>>) - 1 : FALSE)
  BY <1>2
<1> QED BY <1>1, <1>3 DEF Told, List, AllDone, Answered

LEMMA ClearInv == ASSUME ChatInv, Clear PROVE ChatInv'
<1> USE DEF Clear
<1>1. Resting(shown.status)
  BY DEF ClearEnabled, ChatInv, Statuses, Resting
<1>2. Resting(status) /\ ~Busy /\ \A d \in Requests : ~Live(d)
  BY <1>1, AtRest
<1>3. ~Busy' /\ \A d \in Requests : ~Live(d)'
  BY <1>2 DEF Busy, Live
<1>4. Told(messages') /\ AllDone(messages') /\ Answered(messages', conn')
  BY NothingTold
<1>5. Growing(messages', conn')
  BY <1>3 DEF Growing, Live, Fetch
<1>6. StatusIsConnection' /\ Controlled'
  BY <1>3, <1>4 DEF StatusIsConnection, Controlled, AllDone
<1>7. shown'.status = status /\ shown'.messages = messages'
  BY DEF Rendered
<1>8. ShownIsPresent' /\ LateAfterStop'
  BY <1>2, <1>7 DEF ShownIsPresent, LateAfterStop, ChatInv, Event
<1> QED BY <1>4, <1>5, <1>6, <1>7, <1>8 DEF ChatInv

----------------------------------------------------------------------------
(***************************************************************************)
(* What ends an answer: the end of its body, a failure, a stop with the    *)
(* callback of disconnect, and the late callback of what that interrupts.  *)
(***************************************************************************)
LEMMA EndedTold ==
  ASSUME Told(messages), messages # <<>>, NEW st, Ended(messages, st)
  PROVE  /\ status' = st /\ messages' = LastDone(messages) /\ messages' # <<>>
         /\ Told(messages') /\ AllDone(messages') /\ SameTalk(messages, messages')
BY DoneAtEnd DEF Ended

LEMMA OverInv ==
  ASSUME ChatInv, NEW c \in Requests, Live(c), NEW st \in {"closed", "error"},
         conn' = [conn EXCEPT ![c].phase = "over"], Ended(messages, st),
         UNCHANGED <<cluster, shown, control, late>>
  PROVE  ChatInv'
<1>1. /\ messages # <<>> /\ Busy /\ ~Resting(shown.status) /\ late = <<>>
      /\ control = c /\ \A d \in Requests : Live(d) => d = c
  BY WhileLive
<1>2. Told(messages) /\ Connected(conn) /\ Answered(messages, conn) /\ Growing(messages, conn)
  BY DEF ChatInv
<1>3. /\ status' = st /\ messages' # <<>>
      /\ Told(messages') /\ AllDone(messages') /\ SameTalk(messages, messages')
  BY <1>1, <1>2, EndedTold
<1>4. /\ Connected(conn') /\ SameRequests(conn, conn')
      /\ conn'[c].phase = "over" /\ \A d \in Requests \ {c} : conn'[d] = conn[d]
  BY <1>2, PhaseChanged
<1>5. \A d \in Requests : ~Live(d)' /\ ~Fetch(conn'[d])
  BY <1>1, <1>4 DEF Live, Fetch
<1>6. Answered(messages', conn') /\ Growing(messages', conn')
  BY <1>2, <1>3, <1>4, SameAnswers
<1>7. StatusIsConnection' /\ Controlled'
  BY <1>3, <1>5 DEF StatusIsConnection, Controlled, Busy, AllDone
<1>8. ShownIsPresent' /\ LateAfterStop'
  BY <1>1, <1>3 DEF ShownIsPresent, LateAfterStop, ChatInv
<1>9. status' \in Statuses /\ shown'.status \in Statuses /\ cluster' \in Models \cup {NoCluster}
  BY <1>3 DEF ChatInv, Statuses
<1> QED BY <1>3, <1>4, <1>6, <1>7, <1>8, <1>9 DEF ChatInv

LEMMA FailInv == ASSUME ChatInv, NEW c \in Requests, Fail(c) PROVE ChatInv'
BY OverInv DEF Fail

LEMMA FinishInv == ASSUME ChatInv, NEW c \in Requests, Finish(c) PROVE ChatInv'
<1>1. Live(c)
  BY DEF Finish, Live
<1> QED BY <1>1, OverInv DEF Finish

\* A function on the first numbers is a list.
LEMMA Enumerated ==
  ASSUME NEW S, NEW T, S \subseteq T, NEW n \in Nat, NEW f \in [1 .. n -> S]
  PROVE  f \in Seq(T)
<1>1. f \in [1 .. n -> T]
  OBVIOUS
<1> QED BY <1>1, SeqDef

\* At most one request is interrupted, so that SetToSeq has one or no callback to order.
LEMMA OneCallback ==
  ASSUME NEW S, S \subseteq {"closed", "error"}, \A x, y \in S : x = y
  PROVE  SetToSeq(S) \in Seq({"closed", "error"})
<1>1. CASE S = {}
  <2>1. Cardinality(S) = 0
    BY <1>1, FS_EmptySet
  <2>2. <<>> \in [1 .. 0 -> S] /\ IsInjective(<<>>)
    BY <1>1, EmptySeq DEF IsInjective
  <2>3. SetToSeq(S) \in [1 .. 0 -> S]
    BY <2>1, <2>2 DEF SetToSeq
  <2> QED BY <2>3, Enumerated
<1>2. CASE S # {}
  <2>1. PICK x \in S : S = {x}
    BY <1>2
  <2>2. Cardinality(S) = 1
    BY <2>1, FS_Singleton
  <2> DEFINE f == [i \in 1 .. 1 |-> x]
  <2>3. f \in [1 .. 1 -> S] /\ IsInjective(f)
    BY <2>1 DEF IsInjective
  <2>4. SetToSeq(S) \in [1 .. 1 -> S]
    BY <2>2, <2>3 DEF SetToSeq
  <2> QED BY <2>4, Enumerated
<1> QED BY <1>1, <1>2

LEMMA StopInv == ASSUME ChatInv, Stop PROVE ChatInv'
<1> USE DEF Stop, Disconnect
<1>1. shown.status = "generating" /\ messages # <<>>
  BY DEF ChatInv, ShownIsPresent, Resting
<1>2. Told(messages) /\ Connected(conn) /\ Answered(messages, conn) /\ Growing(messages, conn)
  BY DEF ChatInv
<1>3. /\ status' = "closed" /\ messages' # <<>>
      /\ Told(messages') /\ AllDone(messages') /\ SameTalk(messages, messages')
  BY <1>1, <1>2, EndedTold
<1>4. \A d \in Requests : /\ Live(d) => d \in Interrupted
                          /\ d \in Interrupted => Live(d)
  BY DEF ChatInv, Controlled, Interrupted, Live
<1>5. \A d \in Requests : conn'[d] = IF d \in Interrupted
                                    THEN [conn[d] EXCEPT !.phase = "over"] ELSE conn[d]
  OBVIOUS
<1>6. \A d \in Requests :
        /\ conn'[d] = [f \in FetchFields |-> conn'[d][f]]
        /\ conn'[d].phase = IF d \in Interrupted THEN "over" ELSE conn[d].phase
        /\ conn'[d].sent = conn[d].sent /\ conn'[d].asked = conn[d].asked
        /\ conn'[d].model = conn[d].model
  BY <1>2, <1>5 DEF Connected, FetchFields
<1>7. SameRequests(conn, conn') /\ \A d \in Requests : ~Live(d)' /\ ~Fetch(conn'[d])
  <2> HIDE DEF Stop, Disconnect
  <2>1. \A d \in Requests : conn'[d].phase \notin {"pending", "open"}
    <3> SUFFICES ASSUME NEW d \in Requests
                 PROVE  conn'[d].phase \notin {"pending", "open"}
      OBVIOUS
    <3>1. CASE d \in Interrupted
      BY <1>6, <3>1
    <3>2. CASE d \notin Interrupted
      <4>1. conn'[d].phase = conn[d].phase
        BY <1>6, <3>2
      <4>2. ~Live(d)
        BY <1>4, <3>2
      <4> QED BY <4>1, <4>2 DEF Live
    <3> QED BY <3>1, <3>2
  <2>2. \A d \in Requests : conn[d].phase # "unused" => conn'[d].phase # "unused"
    BY <1>6
  <2> QED BY <1>6, <2>1, <2>2 DEF Live, Fetch, SameRequests
<1>8. Connected(conn')
  <2>1. conn' = [d \in Requests |-> conn'[d]]
    OBVIOUS
  <2> QED BY <1>6, <1>7, <2>1 DEF Connected
<1>9. Answered(messages', conn') /\ Growing(messages', conn')
  BY <1>2, <1>3, <1>7, SameAnswers
<1>10. StatusIsConnection' /\ Controlled'
  BY <1>3, <1>7 DEF StatusIsConnection, Controlled, Busy, AllDone
<1>11. late' \in Seq({"closed", "error"})
  <2> DEFINE S == {Callback(c) : c \in Interrupted}
  <2>1. \A c, d \in Interrupted : c = d
    BY <1>4 DEF ChatInv, StatusIsConnection, Interrupted
  <2>2. S \subseteq {"closed", "error"} /\ \A x, y \in S : x = y
    BY <2>1 DEF Callback
  <2>3. late' = SetToSeq(S)
    OBVIOUS
  <2> HIDE DEF S
  <2> QED BY <2>2, <2>3, OneCallback
<1>12. shown'.status = "closed" /\ shown'.messages = messages'
  BY <1>3 DEF Rendered
<1>13. ShownIsPresent' /\ LateAfterStop'
  BY <1>3, <1>11, <1>12 DEF ShownIsPresent, LateAfterStop, Resting
<1>14. status' \in Statuses /\ shown'.status \in Statuses /\ cluster' \in Models \cup {NoCluster}
  BY <1>3, <1>12 DEF ChatInv, Statuses
<1> QED BY <1>3, <1>8, <1>9, <1>10, <1>13, <1>14 DEF ChatInv

LEMMA LateInv == ASSUME ChatInv, LateCallback PROVE ChatInv'
<1> USE DEF LateCallback
<1>1. late \in Seq({"closed", "error"}) /\ late # <<>> /\ shown.status = "closed"
      /\ messages # <<>>
  BY DEF ChatInv, LateAfterStop
<1>2. Head(late) \in {"closed", "error"} /\ Tail(late) \in Seq({"closed", "error"})
  BY <1>1, HeadTailProperties
<1>3. /\ shown.messages = messages /\ Resting(status) /\ ~Busy /\ AllDone(messages)
      /\ \A d \in Requests : ~Live(d)
  BY <1>1, AtRest DEF Resting
<1>4. status' = Head(late) /\ messages' = messages
  BY <1>1, <1>3, DoneAlready DEF ChatInv, Ended
<1>5. Resting(status') /\ ~Busy' /\ \A d \in Requests : ~Live(d)'
  BY <1>2, <1>3, <1>4 DEF Resting, Busy, Live
<1>6. StatusIsConnection' /\ Controlled'
  BY <1>3, <1>4, <1>5 DEF StatusIsConnection, Controlled, AllDone
<1>7. ShownIsPresent' /\ LateAfterStop'
  BY <1>1, <1>2, <1>3, <1>4, <1>5 DEF ShownIsPresent, LateAfterStop, Resting
<1>8. Told(messages') /\ Connected(conn') /\ Answered(messages', conn') /\ Growing(messages', conn')
  BY <1>4 DEF ChatInv
<1>9. status' \in Statuses /\ shown'.status \in Statuses /\ cluster' \in Models \cup {NoCluster}
  BY <1>2, <1>4 DEF ChatInv, Statuses
<1> QED BY <1>6, <1>7, <1>8, <1>9 DEF ChatInv

----------------------------------------------------------------------------
(***************************************************************************)
(* What asks: a question, or the repetition of an answer.                  *)
(***************************************************************************)
\* Of a list that is done, the part above what is dropped, and a question below it.
LEMMA SameAbove ==
  ASSUME NEW ms, NEW ns, Told(ms), Told(ns), NEW cn, Answered(ms, cn), NEW n \in Nat,
         n <= Len(ms), n <= Len(ns), \A k \in 1 .. n : ns[k] = ms[k],
         \A k \in n + 1 .. Len(ns) : ns[k].role = "user"
  PROVE  Answered(ns, cn)
<1>1. /\ Len(ms) \in Nat /\ DOMAIN ms = 1 .. Len(ms)
      /\ Len(ns) \in Nat /\ DOMAIN ns = 1 .. Len(ns)
  BY ListDomain DEF Told, List
<1>2. ASSUME NEW k \in DOMAIN ns, ns[k].role = "assistant"
      PROVE  LET c == ns[k].from
             IN /\ c \in Requests /\ cn[c].phase # "unused"
                /\ ns[k].raw = cn[c].sent /\ AskedWith(cn, c, ns, k - 1)
  <2>1. k \in 1 .. n /\ k \in DOMAIN ms /\ ns[k] = ms[k]
    BY <1>1, <1>2
  <2>2. LET c == ms[k].from
        IN /\ c \in Requests /\ cn[c].phase # "unused"
           /\ ms[k].raw = cn[c].sent /\ AskedWith(cn, c, ms, k - 1)
    BY <1>2, <2>1 DEF Answered
  <2>3. AskedWith(cn, ms[k].from, ns, k - 1)
    BY <2>1, <2>2 DEF AskedWith
  <2> QED BY <2>1, <2>2, <2>3
<1> QED BY <1>2 DEF Answered

\* The ids of a list are what its request is asked with.
LEMMA IdsOf ==
  ASSUME NEW ms, Sequence(ms)
  PROVE  Sequence(Ids(ms)) /\ Len(Ids(ms)) = Len(ms) /\ \A k \in 1 .. Len(ms) : Ids(ms)[k] = Id(ms[k])
<1>1. Len(ms) \in Nat /\ DOMAIN ms = 1 .. Len(ms)
  BY ListDomain
<1> DEFINE T == {Id(ms[k]) : k \in 1 .. Len(ms)}
<1>2. Ids(ms) = [k \in 1 .. Len(ms) |-> Id(ms[k])]
  BY <1>1 DEF Ids
<1>3. Ids(ms) \in [1 .. Len(ms) -> T]
  BY <1>2
<1> HIDE DEF T
<1>4. Ids(ms) \in Seq(T)
  BY <1>1, <1>3, Enumerated
<1>5. DOMAIN Ids(ms) = 1 .. Len(ms) /\ DOMAIN Ids(ms) = 1 .. Len(Ids(ms)) /\ Len(Ids(ms)) \in Nat
  BY <1>2, <1>4, LenProperties
<1>6. Len(Ids(ms)) = Len(ms)
  BY <1>1, <1>5
<1> QED BY <1>2, <1>4, <1>6 DEF Sequence

LEMMA ConnectInv ==
  ASSUME ChatInv, NEW c \in Requests, MayGenerate(c), NEW ms, Connect(c, ms),
         Told(ms), AllDone(ms), ms # <<>>, ms[Len(ms)].role = "user", Answered(ms, conn)
  PROVE  ChatInv'
<1> DEFINE e == [Unused EXCEPT !.phase = "pending", !.model = cluster, !.asked = Ids(ms)]
<1>1. late = <<>> /\ conn[c].phase = "unused" /\ cluster \in Models /\ Resting(shown.status)
  BY DEF MayGenerate, Event, ChatInv, Resting, Statuses
<1>2. \A d \in Requests : ~Live(d)
  BY <1>1, AtRest
<1>3. Connected(conn)
  BY DEF ChatInv
<1>4. conn' = [conn EXCEPT ![c] = e]
  BY DEF Connect
<1>5. /\ e = [f \in FetchFields |-> e[f]] /\ e.phase = "pending" /\ e.model = cluster
      /\ e.sent = <<>> /\ e.asked = Ids(ms)
  BY DEF Unused, FetchFields
<1> HIDE DEF e
<1>6. \A d \in Requests : conn'[d] = IF d = c THEN e ELSE conn[d]
  BY <1>3, <1>4 DEF Connected
<1>7. Connected(conn')
  <2>1. conn' = [d \in Requests |-> conn'[d]]
    BY <1>3, <1>4 DEF Connected
  <2> QED BY <1>1, <1>3, <1>5, <1>6, <2>1 DEF Connected
<1>8. /\ Live(c)' /\ Fetch(conn'[c])
      /\ \A d \in Requests : (Live(d)' => d = c) /\ (Fetch(conn'[d]) => d = c)
  BY <1>2, <1>5, <1>6 DEF Live, Fetch
<1>9. messages' = ms /\ status' = "opened" /\ control' = c /\ late' = <<>> /\ cluster' = cluster
      /\ shown'.status = "opened" /\ shown'.messages = ms
  BY <1>1 DEF Connect, Rendered
<1>10. Sequence(ms) /\ Len(ms) \in Nat /\ DOMAIN ms = 1 .. Len(ms) /\ Len(ms) # 0
  BY ListDomain DEF Told, List
<1>11. \A k \in DOMAIN ms : ms[k].role = "assistant" => ms[k].from # c
  BY <1>1 DEF Answered
<1>12. Answered(ms, conn')
  <2> SUFFICES ASSUME NEW k \in DOMAIN ms, ms[k].role = "assistant"
               PROVE  LET d == ms[k].from
                      IN /\ d \in Requests /\ conn'[d].phase # "unused"
                         /\ ms[k].raw = conn'[d].sent /\ AskedWith(conn', d, ms, k - 1)
    BY DEF Answered
  <2>1. LET d == ms[k].from
        IN /\ d \in Requests /\ conn[d].phase # "unused"
           /\ ms[k].raw = conn[d].sent /\ AskedWith(conn, d, ms, k - 1)
    BY DEF Answered
  <2>2. conn'[ms[k].from] = conn[ms[k].from]
    BY <1>6, <1>11, <2>1
  <2> QED BY <2>1, <2>2 DEF AskedWith
<1>13. Growing(ms, conn')
  <2>1. AskedWith(conn', c, ms, Len(ms))
    BY <1>5, <1>6, <1>10, IdsOf DEF AskedWith
  <2>2. conn'[c].sent = <<>>
    BY <1>5, <1>6
  <2>3. \A k \in 1 .. Len(ms) - 1 : ms[k].role = "assistant" => ms[k].from # c
    BY <1>10, <1>11
  <2>4. ms[Len(ms)].role # "assistant"
    OBVIOUS
  <2> SUFFICES ASSUME NEW d \in Requests, Fetch(conn'[d])
               PROVE  /\ \A k \in 1 .. Len(ms) - 1 : ms[k].role = "assistant" => ms[k].from # d
                      /\ ms[Len(ms)].role = "assistant" => ms[Len(ms)].from = d
                      /\ ms[Len(ms)].role = "user" =>
                           conn'[d].sent = <<>> /\ AskedWith(conn', d, ms, Len(ms))
    BY DEF Growing
  <2>5. d = c
    BY <1>8
  <2> QED BY <2>1, <2>2, <2>3, <2>4, <2>5
<1>14. StatusIsConnection' /\ Controlled'
  <2>1. Busy' /\ (\E d \in Requests : Live(d)')
    BY <1>8, <1>9 DEF Busy
  <2>2. \A d, b \in Requests : Live(d)' /\ Live(b)' => d = b
    BY <1>8
  <2>3. \A d \in Requests : Live(d)' => control' = d
    BY <1>8, <1>9
  <2> QED BY <2>1, <2>2, <2>3 DEF StatusIsConnection, Controlled
<1>15. ShownIsPresent' /\ LateAfterStop'
  BY <1>9, EmptySeq DEF ShownIsPresent, LateAfterStop, Resting
<1>16. status' \in Statuses /\ shown'.status \in Statuses /\ cluster' \in Models \cup {NoCluster}
  BY <1>1, <1>9 DEF Statuses
<1> QED BY <1>7, <1>9, <1>12, <1>13, <1>14, <1>15, <1>16 DEF ChatInv

LEMMA GenerateInv == ASSUME ChatInv, Generate PROVE ChatInv'
<1>1. PICK c \in Requests : MayGenerate(c) /\ Connect(c, Append(shown.messages, User(c)))
  BY DEF Generate
<1> DEFINE ns == Append(messages, User(c))
<1>2. shown.messages = messages /\ AllDone(messages)
  BY <1>1, AtRest DEF MayGenerate, ChatInv, Statuses, Resting
<1>3. Told(messages) /\ Answered(messages, conn)
  BY DEF ChatInv
<1>4. /\ Told(ns) /\ AllDone(ns) /\ ns # <<>> /\ Len(ns) = Len(messages) + 1
      /\ ns[Len(ns)] = User(c) /\ \A k \in 1 .. Len(messages) : ns[k] = messages[k]
  BY <1>2, <1>3, QuestionAsked
<1>5. Len(messages) \in Nat /\ User(c).role = "user"
  BY <1>3, ListDomain DEF Told, List, User
<1> HIDE DEF ns
<1>6. \A k \in Len(messages) + 1 .. Len(ns) : ns[k].role = "user"
  BY <1>4, <1>5
<1>7. Len(messages) <= Len(messages) /\ Len(messages) <= Len(ns)
  BY <1>4, <1>5
<1>8. Answered(ns, conn)
  BY <1>3, <1>4, <1>5, <1>6, <1>7, SameAbove
<1>9. ns[Len(ns)].role = "user" /\ Connect(c, ns)
  BY <1>1, <1>2, <1>4, <1>5 DEF ns
<1> QED BY <1>1, <1>4, <1>8, <1>9, ConnectInv

LEMMA RegenerateInv == ASSUME ChatInv, Regenerate PROVE ChatInv'
<1>1. PICK c \in Requests, k \in DOMAIN shown.messages, at \in DOMAIN shown.messages :
        /\ MayGenerate(c) /\ CanRegenerate(shown.messages[k])
        /\ Id(shown.messages[at]) = Id(shown.messages[k])
        /\ Connect(c, Kept(shown.messages, at))
  BY DEF Regenerate
<1>2. shown.messages = messages /\ AllDone(messages)
  BY <1>1, AtRest DEF MayGenerate, ChatInv, Statuses, Resting
<1>3. Told(messages) /\ Answered(messages, conn)
  BY DEF ChatInv
<1>4. at \in DOMAIN messages /\ messages[at].role = "assistant"
  BY <1>1, <1>2 DEF CanRegenerate, Id
<1> DEFINE ns == Kept(messages, at)
<1>5. /\ Told(ns) /\ AllDone(ns) /\ ns # <<>> /\ Len(ns) = at - 1
      /\ at \in 2 .. Len(messages) /\ ns[Len(ns)].role = "user"
      /\ \A i \in 1 .. at - 1 : ns[i] = messages[i]
  BY <1>2, <1>3, <1>4, AnswerDropped
<1>6. Len(messages) \in Nat
  BY <1>3, ListDomain DEF Told, List
<1> HIDE DEF ns
<1>7. /\ at - 1 \in Nat /\ at - 1 <= Len(messages) /\ at - 1 <= Len(ns)
      /\ \A i \in at - 1 + 1 .. Len(ns) : ns[i].role = "user"
  BY <1>5, <1>6
<1>8. Answered(ns, conn)
  BY <1>3, <1>5, <1>7, SameAbove
<1>9. Connect(c, ns)
  BY <1>1, <1>2 DEF ns
<1> QED BY <1>1, <1>5, <1>8, <1>9, ConnectInv

----------------------------------------------------------------------------
(***************************************************************************)
(* What arrives: half a line, which changes nothing yet, or a word.        *)
(***************************************************************************)
LEMMA HalfInv ==
  ASSUME ChatInv, NEW c \in Requests, Live(c), conn' = [conn EXCEPT ![c].half = TRUE],
         UNCHANGED <<cluster, status, messages, shown, control, late>>
  PROVE  ChatInv'
<1> DEFINE e == [conn[c] EXCEPT !.half = TRUE]
<1>1. Connected(conn) /\ Told(messages) /\ Answered(messages, conn) /\ Growing(messages, conn)
  BY DEF ChatInv
<1>2. /\ \A d \in Requests : conn'[d] = IF d = c THEN e ELSE conn[d]
      /\ conn' = [d \in Requests |-> conn'[d]]
  BY <1>1 DEF Connected
<1>3. conn[c] = [f \in FetchFields |-> conn[c][f]] /\ conn[c].model \in Models
  BY <1>1 DEF Connected, Live, Fetch
<1>4. /\ e = [f \in FetchFields |-> e[f]] /\ e.phase = conn[c].phase /\ e.model \in Models
      /\ e.sent = conn[c].sent /\ e.asked = conn[c].asked
  BY <1>3 DEF FetchFields
<1> HIDE DEF e
<1>5. Connected(conn') /\ SameRequests(conn, conn')
  BY <1>1, <1>2, <1>4 DEF Connected, SameRequests, Fetch
<1>6. \A d \in Requests : conn'[d].phase = conn[d].phase
  BY <1>2, <1>4
<1>7. SameTalk(messages, messages)
  BY DEF SameTalk
<1>8. Answered(messages, conn') /\ Growing(messages, conn')
  BY <1>1, <1>5, <1>7, SameAnswers
<1>9. StatusIsConnection' /\ Controlled'
  BY <1>6 DEF ChatInv, StatusIsConnection, Controlled, Busy, Live
<1>10. ShownIsPresent' /\ LateAfterStop'
  BY DEF ChatInv, ShownIsPresent, LateAfterStop
<1> QED BY <1>5, <1>8, <1>9, <1>10 DEF ChatInv

\* What the delivery of a word does to its request.
LEMMA WordReceived ==
  ASSUME Connected(conn), NEW c \in Requests, NEW t,
         conn' = [conn EXCEPT ![c].sent = Append(@, t), ![c].half = FALSE]
  PROVE  /\ Connected(conn')
         /\ \A d \in Requests \ {c} : conn'[d] = conn[d]
         /\ conn'[c].phase = conn[c].phase /\ conn'[c].asked = conn[c].asked
         /\ conn'[c].sent = Append(conn[c].sent, t)
<1> DEFINE w == Append(conn[c].sent, t)
           e == [conn[c] EXCEPT !.sent = w, !.half = FALSE]
<1>1. conn[c] = [f \in FetchFields |-> conn[c][f]]
  BY DEF Connected
<1>2. /\ \A d \in Requests : conn'[d] = IF d = c THEN e ELSE conn[d]
      /\ conn' = [d \in Requests |-> conn'[d]]
  BY <1>1 DEF Connected, FetchFields
<1> HIDE DEF w
<1>3. /\ e = [f \in FetchFields |-> e[f]] /\ e.phase = conn[c].phase /\ e.model = conn[c].model
      /\ e.sent = w /\ e.asked = conn[c].asked
  BY <1>1 DEF FetchFields
<1> HIDE DEF e
<1>4. Connected(conn')
  BY <1>2, <1>3 DEF Connected, Fetch
<1> QED BY <1>2, <1>3, <1>4 DEF w

LEMMA DeliverInv ==
  ASSUME ChatInv, NEW c \in Requests, Live(c), NEW t, Deliver(c, t),
         UNCHANGED <<cluster, shown, control, late>>
  PROVE  ChatInv'
<1> DEFINE ms == messages
           ns == WithChunk(messages, c, t)
           n == Len(messages)
<1>1. /\ ms # <<>> /\ Busy /\ ~Resting(shown.status) /\ late = <<>>
      /\ control = c /\ \A d \in Requests : Live(d) => d = c
  BY WhileLive
<1>2. Connected(conn) /\ Told(ms) /\ Answered(ms, conn) /\ Growing(ms, conn)
  BY DEF ChatInv
<1>3. messages' = ns /\ status' = "generating"
  BY DEF Deliver
<1>4. /\ Connected(conn')
      /\ \A d \in Requests \ {c} : conn'[d] = conn[d]
      /\ conn'[c].phase = conn[c].phase /\ conn'[c].asked = conn[c].asked
      /\ conn'[c].sent = Append(conn[c].sent, t)
  BY <1>2, WordReceived DEF Deliver
<1>5. n \in Nat /\ DOMAIN ms = 1 .. n /\ n # 0
  BY <1>1, <1>2, ListDomain DEF Told, List
<1>6. /\ Told(ns) /\ ns # <<>>
      /\ \/ /\ ms[n].role = "assistant" /\ Len(ns) = n
            /\ \A k \in 1 .. n : /\ ns[k].role = ms[k].role /\ ns[k].from = ms[k].from
                                 /\ k # n => ns[k].raw = ms[k].raw
            /\ ns[n].raw = Append(ms[n].raw, t)
         \/ /\ ms[n].role = "user" /\ Len(ns) = n + 1
            /\ \A k \in 1 .. n : ns[k] = ms[k]
            /\ ns[n + 1].role = "assistant" /\ ns[n + 1].from = c
            /\ ns[n + 1].raw = <<t>>
  BY <1>1, <1>2, ChunkTold
<1>7. /\ \A k \in 1 .. n - 1 : ms[k].role = "assistant" => ms[k].from # c
      /\ ms[n].role = "assistant" => ms[n].from = c
      /\ ms[n].role = "user" => conn[c].sent = <<>> /\ AskedWith(conn, c, ms, n)
  BY <1>2 DEF Growing, Fetch, Live
<1>8. \A d \in Requests : (Fetch(conn'[d]) => d = c) /\ (Live(d)' => d = c)
  BY <1>1, <1>4 DEF Fetch, Live
<1>9. Live(c)'
  BY <1>4 DEF Live
<1> HIDE DEF ns
<1>10. DOMAIN ns = 1 .. Len(ns)
  BY <1>6, ListDomain DEF Told, List
\* What is asked by a request, whose own answer comes below, stays what it was.
<1>11. ASSUME NEW d \in Requests, NEW m \in 0 .. n, AskedWith(conn, d, ms, m)
       PROVE  AskedWith(conn', d, ns, m)
  <2>1. conn'[d].asked = conn[d].asked
    BY <1>4
  <2>2. \A k \in 1 .. n : ns[k].role = ms[k].role /\ ns[k].from = ms[k].from
    BY <1>6
  <2>3. \A k \in 1 .. m : Id(ns[k]) = Id(ms[k])
    BY <1>5, <2>2 DEF Id
  <2> QED BY <1>11, <2>1, <2>3 DEF AskedWith
<1>12. ASSUME NEW k \in 1 .. n, ms[k].role = "assistant", ms[k].from # c, ns[k].raw = ms[k].raw
       PROVE  /\ ms[k].from \in Requests /\ conn'[ms[k].from].phase # "unused"
              /\ ns[k].raw = conn'[ms[k].from].sent
              /\ AskedWith(conn', ms[k].from, ns, k - 1)
  <2>1. /\ ms[k].from \in Requests /\ conn[ms[k].from].phase # "unused"
        /\ ms[k].raw = conn[ms[k].from].sent /\ AskedWith(conn, ms[k].from, ms, k - 1)
    BY <1>2, <1>5, <1>12 DEF Answered
  <2>2. conn'[ms[k].from] = conn[ms[k].from]
    BY <1>4, <1>12, <2>1
  <2>3. k - 1 \in 0 .. n
    BY <1>5
  <2> QED BY <1>11, <1>12, <2>1, <2>2, <2>3
<1>13. conn[c].phase # "unused" /\ conn'[c].phase # "unused"
  BY <1>4 DEF Live
<1>14. ASSUME ms[n].role = "assistant"
       PROVE  Answered(ns, conn') /\ Growing(ns, conn')
  <2>1. /\ Len(ns) = n
        /\ \A k \in 1 .. n : /\ ns[k].role = ms[k].role /\ ns[k].from = ms[k].from
                             /\ k # n => ns[k].raw = ms[k].raw
        /\ ns[n].raw = Append(ms[n].raw, t)
    BY <1>6, <1>14
  <2>2. ms[n].from = c /\ n \in 1 .. n /\ n - 1 \in 0 .. n
    BY <1>5, <1>7, <1>14
  <2>3. ms[n].raw = conn[c].sent /\ AskedWith(conn, c, ms, n - 1)
    BY <1>2, <1>5, <1>14, <2>2 DEF Answered
  <2>4. ns[n].raw = conn'[c].sent /\ AskedWith(conn', c, ns, n - 1)
    BY <1>4, <1>11, <2>1, <2>2, <2>3
  <2>5. Answered(ns, conn')
    <3> SUFFICES ASSUME NEW k \in 1 .. n, ns[k].role = "assistant"
                 PROVE  /\ ns[k].from \in Requests /\ conn'[ns[k].from].phase # "unused"
                        /\ ns[k].raw = conn'[ns[k].from].sent
                        /\ AskedWith(conn', ns[k].from, ns, k - 1)
      BY <1>10, <2>1 DEF Answered
    <3>1. CASE k = n
      BY <1>13, <2>1, <2>2, <2>4, <3>1
    <3>2. CASE k # n
      <4>1. k \in 1 .. n - 1
        <5>1. n \in Nat
          BY <1>5
        <5> HIDE DEF n
        <5> QED BY <3>2, <5>1
      <4>2. ms[k].role = "assistant" /\ ns[k].raw = ms[k].raw
        BY <2>1, <3>2
      <4>3. ms[k].from # c
        BY <1>7, <4>1, <4>2
      <4> QED BY <1>12, <2>1, <4>2, <4>3
    <3> QED BY <3>1, <3>2
  <2>6. ASSUME NEW k \in 1 .. n - 1, ns[k].role = "assistant"
        PROVE  ns[k].from # c
    <3>1. k \in 1 .. n
      BY <1>5
    <3>2. ms[k].role = "assistant" /\ ns[k].from = ms[k].from
      BY <2>1, <2>6, <3>1
    <3> QED BY <1>7, <3>2
  <2>7. ns[n].role = "assistant" /\ ns[n].from = c
    BY <1>14, <2>1, <2>2
  <2>8. Growing(ns, conn')
    BY <1>6, <1>8, <2>1, <2>6, <2>7 DEF Growing
  <2> QED BY <2>5, <2>8
<1>15. ASSUME ms[n].role = "user"
       PROVE  Answered(ns, conn') /\ Growing(ns, conn')
  <2>1. /\ Len(ns) = n + 1
        /\ \A k \in 1 .. n : ns[k] = ms[k]
        /\ ns[n + 1].role = "assistant" /\ ns[n + 1].from = c /\ ns[n + 1].raw = <<t>>
    BY <1>6, <1>15
  <2>2. conn[c].sent = <<>> /\ AskedWith(conn, c, ms, n) /\ n \in 0 .. n
    BY <1>5, <1>7, <1>15
  <2>3. conn'[c].sent = <<t>> /\ AskedWith(conn', c, ns, n)
    BY <1>4, <1>11, <2>2
  <2>4. \A k \in 1 .. n : ms[k].role = "assistant" => ms[k].from # c
    BY <1>5, <1>7, <1>15
  <2>5. Answered(ns, conn')
    <3> SUFFICES ASSUME NEW k \in 1 .. n + 1, ns[k].role = "assistant"
                 PROVE  /\ ns[k].from \in Requests /\ conn'[ns[k].from].phase # "unused"
                        /\ ns[k].raw = conn'[ns[k].from].sent
                        /\ AskedWith(conn', ns[k].from, ns, k - 1)
      BY <1>10, <2>1 DEF Answered
    <3>1. CASE k = n + 1
      <4>1. k - 1 = n
        BY <1>5, <3>1
      <4> QED BY <1>13, <2>1, <2>3, <3>1, <4>1
    <3>2. CASE k # n + 1
      <4>1. k \in 1 .. n /\ ns[k] = ms[k]
        BY <1>5, <2>1, <3>2
      <4> QED BY <1>12, <2>4, <4>1
    <3> QED BY <3>1, <3>2
  <2>6. \A k \in 1 .. Len(ns) - 1 : ns[k].role = "assistant" => ns[k].from # c
    BY <1>5, <2>1, <2>4
  <2>7. ns[Len(ns)].role = "assistant" /\ ns[Len(ns)].from = c
    BY <2>1
  <2>8. Growing(ns, conn')
    BY <1>6, <1>8, <2>6, <2>7 DEF Growing
  <2> QED BY <2>5, <2>8
<1>16. Answered(ns, conn') /\ Growing(ns, conn')
  BY <1>6, <1>14, <1>15
<1>17. StatusIsConnection' /\ Controlled'
  <2>1. Busy' /\ (\E d \in Requests : Live(d)')
    BY <1>3, <1>9 DEF Busy
  <2>2. \A d, b \in Requests : Live(d)' /\ Live(b)' => d = b
    BY <1>8
  <2>3. \A d \in Requests : Live(d)' => control' = d
    BY <1>1, <1>8
  <2> QED BY <2>1, <2>2, <2>3 DEF StatusIsConnection, Controlled
<1>18. ShownIsPresent' /\ LateAfterStop'
  BY <1>1, <1>3, <1>6 DEF ShownIsPresent, LateAfterStop, ChatInv
<1>19. status' \in Statuses /\ shown'.status \in Statuses /\ cluster' \in Models \cup {NoCluster}
  BY <1>3 DEF ChatInv, Statuses
<1> QED BY <1>3, <1>4, <1>6, <1>16, <1>17, <1>18, <1>19 DEF ChatInv

LEMMA ChunkInv == ASSUME ChatInv, NEW c \in Requests, Chunk(c) PROVE ChatInv'
<1>1. Live(c) /\ UNCHANGED <<cluster, shown, control, late>>
  BY DEF Chunk, Live
<1>2. \/ \E t \in Vocabulary[conn[c].model] : Deliver(c, t)
      \/ conn' = [conn EXCEPT ![c].half = TRUE] /\ UNCHANGED <<messages, status>>
  BY DEF Chunk
<1> QED BY <1>1, <1>2, DeliverInv, HalfInv

----------------------------------------------------------------------------
(* Theorems *)
LEMMA ChatSteps == ChatInv /\ [Next]_vars => ChatInv'
<1> SUFFICES ASSUME ChatInv, [Next]_vars PROVE ChatInv'
  OBVIOUS
<1>1. CASE Type
  BY <1>1, TypeInv
<1>2. CASE Generate
  BY <1>2, GenerateInv
<1>3. CASE Regenerate
  BY <1>3, RegenerateInv
<1>4. CASE Stop
  BY <1>4, StopInv
<1>5. CASE Clear
  BY <1>5, ClearInv
<1>6. CASE Render
  BY <1>6, RenderInv
<1>7. CASE LateCallback
  BY <1>7, LateInv
<1>8. CASE ClusterChanges
  BY <1>8, ClusterInv
<1>9. CASE \E c \in Requests : Respond(c) \/ Fail(c) \/ Chunk(c) \/ Finish(c)
  BY <1>9, RespondInv, FailInv, ChunkInv, FinishInv
<1>10. CASE UNCHANGED vars
  BY <1>10 DEF vars, ChatInv, StatusIsConnection, Controlled, ShownIsPresent,
               LateAfterStop, Live, Busy
<1> QED BY <1>1, <1>2, <1>3, <1>4, <1>5, <1>6, <1>7, <1>8, <1>9, <1>10 DEF Next

LEMMA ChatInvariant == Spec => []ChatInv
<1> QED BY ChatInit, ChatSteps, PTL DEF Spec

\* The status, set by callbacks, is the state of the network, for any number of requests
\* and models.
THEOREM StatusFollows == Spec => []StatusIsConnection
<1>1. ChatInv => StatusIsConnection
  BY DEF ChatInv
<1> QED BY <1>1, ChatInvariant, PTL

\* The handlers of events, which read the last render, read what is present whenever
\* they may overwrite it.
THEOREM HandlersInTime == Spec => []HandlersReadPresent
<1>1. ChatInv => HandlersReadPresent
  BY AtRest DEF HandlersReadPresent, Resting
<1> QED BY <1>1, ChatInvariant, PTL

\* No callback can find the list empty and throw while rendering.
THEOREM CallbacksFindAMessage == Spec => []UpdatersNeverThrow
<1>1. ChatInv => UpdatersNeverThrow
  BY WhileLive DEF UpdatersNeverThrow, ChatInv, LateAfterStop
<1> QED BY <1>1, ChatInvariant, PTL

\* Every answer consists of what its request has received, below the conversation it
\* was asked with.
THEOREM AnswersBelong == Spec => []AnswersItsConversation
<1>1. ChatInv => AnswersItsConversation
  <2> SUFFICES ASSUME ChatInv, NEW k \in DOMAIN messages, messages[k].role = "assistant"
               PROVE  LET m == messages[k]
                      IN /\ m.raw = conn[m.from].sent
                         /\ Ids(SubSeq(messages, 1, k - 1)) = conn[m.from].asked
    BY DEF AnswersItsConversation
  <2> DEFINE c == messages[k].from
             above == SubSeq(messages, 1, k - 1)
  <2>1. messages[k].raw = conn[c].sent /\ AskedWith(conn, c, messages, k - 1)
    BY DEF ChatInv, Answered
  <2>2. Sequence(messages) /\ k - 1 \in 0 .. Len(messages)
    <3>1. Sequence(messages)
      BY DEF ChatInv, Told, List
    <3>2. k \in 1 .. Len(messages) /\ Len(messages) \in Nat
      BY <3>1, ListDomain
    <3> QED BY <3>1, <3>2
  <2>3. /\ Sequence(above) /\ Len(above) = k - 1
        /\ \A i \in 1 .. k - 1 : above[i] = messages[i]
    BY <2>2, Cut
  <2> HIDE DEF above
  <2>4. /\ Sequence(Ids(above)) /\ Len(Ids(above)) = k - 1
        /\ \A i \in 1 .. k - 1 : Ids(above)[i] = Id(above[i])
    BY <2>3, IdsOf
  <2>5. \A i \in 1 .. k - 1 : Ids(above)[i] = conn[c].asked[i]
    BY <2>1, <2>3, <2>4 DEF AskedWith
  <2>6. Ids(above) = conn[c].asked
    BY <2>1, <2>4, <2>5, SameList DEF AskedWith
  <2> QED BY <2>1, <2>6 DEF above
<1> QED BY <1>1, ChatInvariant, PTL

----------------------------------------------------------------------------
(***************************************************************************)
(* The refinement: every step of the chat is one of a talk in which one    *)
(* question at a time is answered, or changes nothing of it.               *)
(***************************************************************************)
TalkOf(ms) == [k \in DOMAIN ms |-> [who |-> ms[k].role, words |-> ms[k].raw]]

\* What is said, message by message.
LEMMA TalkIs ==
  ASSUME NEW ms, Told(ms)
  PROVE  /\ Sequence(TalkOf(ms)) /\ Len(TalkOf(ms)) = Len(ms)
         /\ DOMAIN TalkOf(ms) = 1 .. Len(ms) /\ Len(ms) \in Nat
         /\ \A k \in 1 .. Len(ms) :
              TalkOf(ms)[k] = [who |-> ms[k].role, words |-> ms[k].raw]
<1> DEFINE said(k) == [who |-> ms[k].role, words |-> ms[k].raw]
           T == {said(k) : k \in 1 .. Len(ms)}
           f == [k \in 1 .. Len(ms) |-> said(k)]
<1>1. Len(ms) \in Nat /\ DOMAIN ms = 1 .. Len(ms)
  BY ListDomain DEF Told, List
<1>2. TalkOf(ms) = f
  BY <1>1 DEF TalkOf
<1>3. f \in [1 .. Len(ms) -> T]
  OBVIOUS
<1>4. \A k \in 1 .. Len(ms) : f[k] = said(k)
  OBVIOUS
<1>5. DOMAIN f = 1 .. Len(ms)
  OBVIOUS
<1> HIDE DEF T, f
<1>6. f \in Seq(T)
  BY <1>1, <1>3, Enumerated
<1>7. Sequence(f) /\ Len(f) = Len(ms)
  BY <1>1, <1>5, <1>6, LenProperties DEF Sequence
<1> QED BY <1>1, <1>2, <1>4, <1>5, <1>7

\* The same talk.
LEMMA SaidSame ==
  ASSUME NEW ms, NEW ns, Told(ms), Told(ns), SameTalk(ms, ns)
  PROVE  TalkOf(ns) = TalkOf(ms)
<1>1. /\ Sequence(TalkOf(ms)) /\ Len(TalkOf(ms)) = Len(ms)
      /\ \A k \in 1 .. Len(ms) :
           TalkOf(ms)[k] = [who |-> ms[k].role, words |-> ms[k].raw]
  BY TalkIs
<1>2. /\ Sequence(TalkOf(ns)) /\ Len(TalkOf(ns)) = Len(ns)
      /\ \A k \in 1 .. Len(ns) :
           TalkOf(ns)[k] = [who |-> ns[k].role, words |-> ns[k].raw]
  BY TalkIs
<1>3. Len(ns) = Len(ms) /\ \A k \in 1 .. Len(ms) : TalkOf(ns)[k] = TalkOf(ms)[k]
  BY <1>1, <1>2 DEF SameTalk
<1> QED BY <1>1, <1>2, <1>3, SameList

\* A talk that agrees with another above, message by message, and has one more.
LEMMA SaidMore ==
  ASSUME NEW ms, NEW ns, Told(ms), Told(ns), Len(ns) = Len(ms) + 1,
         \A k \in 1 .. Len(ms) : ns[k] = ms[k],
         NEW s, s = [who |-> ns[Len(ns)].role, words |-> ns[Len(ns)].raw]
  PROVE  TalkOf(ns) = Append(TalkOf(ms), s)
<1> DEFINE n == Len(ms)
           ts == Append(TalkOf(ms), s)
<1>1. /\ Sequence(TalkOf(ms)) /\ Len(TalkOf(ms)) = n /\ n \in Nat
      /\ \A k \in 1 .. n : TalkOf(ms)[k] = [who |-> ms[k].role, words |-> ms[k].raw]
  BY TalkIs
<1>2. /\ Sequence(TalkOf(ns)) /\ Len(TalkOf(ns)) = n + 1
      /\ \A k \in 1 .. n + 1 : TalkOf(ns)[k] = [who |-> ns[k].role, words |-> ns[k].raw]
  BY TalkIs
<1>3. /\ Sequence(ts) /\ Len(ts) = n + 1 /\ ts[n + 1] = s
      /\ \A k \in 1 .. n : ts[k] = TalkOf(ms)[k]
  BY <1>1, Appended
<1> HIDE DEF ts, n
<1>4. \A k \in 1 .. n : TalkOf(ns)[k] = ts[k]
  BY <1>1, <1>2, <1>3 DEF n
<1>5. TalkOf(ns)[n + 1] = ts[n + 1]
  BY <1>1, <1>2, <1>3 DEF n
<1>6. \A k \in 1 .. n + 1 : TalkOf(ns)[k] = ts[k]
  BY <1>1, <1>4, <1>5
<1>7. TalkOf(ns) = ts
  BY <1>2, <1>3, <1>6, SameList
<1> QED BY <1>7 DEF ts

\* A talk that is cut.
LEMMA SaidLess ==
  ASSUME NEW ms, NEW ns, Told(ms), Told(ns), NEW n \in 0 .. Len(ms), Len(ns) = n,
         \A k \in 1 .. n : ns[k] = ms[k]
  PROVE  TalkOf(ns) = SubSeq(TalkOf(ms), 1, n)
<1> DEFINE ts == SubSeq(TalkOf(ms), 1, n)
<1>1. /\ Sequence(TalkOf(ms)) /\ Len(TalkOf(ms)) = Len(ms) /\ Len(ms) \in Nat
      /\ \A k \in 1 .. Len(ms) : TalkOf(ms)[k] = [who |-> ms[k].role, words |-> ms[k].raw]
  BY TalkIs
<1>2. /\ Sequence(TalkOf(ns)) /\ Len(TalkOf(ns)) = n
      /\ \A k \in 1 .. n : TalkOf(ns)[k] = [who |-> ns[k].role, words |-> ns[k].raw]
  BY TalkIs
<1>3. /\ Sequence(ts) /\ Len(ts) = n /\ \A k \in 1 .. n : ts[k] = TalkOf(ms)[k]
  BY <1>1, Cut
<1> HIDE DEF ts
<1>4. \A k \in 1 .. n : TalkOf(ns)[k] = ts[k]
  BY <1>1, <1>2, <1>3
<1>5. TalkOf(ns) = ts
  BY <1>2, <1>3, <1>4, SameList
<1> QED BY <1>5 DEF ts

\* A word makes the last answer grow.
Grown(ts, t) ==
  [ts EXCEPT ![Len(ts)] = [who |-> "assistant", words |-> Append(ts[Len(ts)].words, t)]]

LEMMA SaidWord ==
  ASSUME NEW ms, NEW ns, Told(ms), Told(ns), ms # <<>>, NEW t,
         Len(ns) = Len(ms), ms[Len(ms)].role = "assistant",
         \A k \in 1 .. Len(ms) : ns[k].role = ms[k].role /\ (k # Len(ms) => ns[k].raw = ms[k].raw),
         ns[Len(ms)].raw = Append(ms[Len(ms)].raw, t)
  PROVE  TalkOf(ms)[Len(ms)].who = "assistant" /\ TalkOf(ns) = Grown(TalkOf(ms), t)
<1> DEFINE n == Len(ms)
           tm == TalkOf(ms)
           s == [who |-> "assistant", words |-> Append(tm[n].words, t)]
           ts == [tm EXCEPT ![n] = s]
<1>1. /\ Sequence(TalkOf(ms)) /\ Len(TalkOf(ms)) = n /\ n \in Nat
      /\ \A k \in 1 .. n : TalkOf(ms)[k] = [who |-> ms[k].role, words |-> ms[k].raw]
  BY TalkIs
<1>2. /\ Sequence(TalkOf(ns)) /\ Len(TalkOf(ns)) = n
      /\ \A k \in 1 .. n : TalkOf(ns)[k] = [who |-> ns[k].role, words |-> ns[k].raw]
  BY TalkIs
<1>3. n \in 1 .. n
  <2>1. Sequence(ms)
    BY DEF Told, List
  <2>2. n # 0
    BY <2>1, ListDomain
  <2> QED BY <1>1, <2>2
<1>4. TalkOf(ms)[n].who = "assistant" /\ TalkOf(ms)[n].words = ms[n].raw
  <2>1. TalkOf(ms)[n] = [who |-> ms[n].role, words |-> ms[n].raw]
    BY <1>1, <1>3
  <2> QED BY <2>1
<1>5. s = [who |-> ns[n].role, words |-> ns[n].raw]
  BY <1>3, <1>4
<1> HIDE DEF s
<1>6. /\ Sequence(ts) /\ Len(ts) = n
      /\ \A k \in 1 .. n : ts[k] = IF k = n THEN s ELSE tm[k]
  <2>1. Sequence(tm) /\ Len(tm) = n /\ n \in 1 .. Len(tm)
    BY <1>1, <1>3
  <2>2. ts = Put(tm, n, s)
    BY DEF Put
  <2> HIDE DEF n, tm, ts
  <2>3. /\ Sequence(ts) /\ Len(ts) = Len(tm)
        /\ \A k \in 1 .. Len(tm) : ts[k] = IF k = n THEN s ELSE tm[k]
    BY <2>1, <2>2, PutAt
  <2> QED BY <2>1, <2>3
<1>7. ts = Grown(tm, t)
  BY <1>1 DEF s, Grown
<1> HIDE DEF ts
<1>8. \A k \in 1 .. n : TalkOf(ns)[k] = ts[k]
  BY <1>1, <1>2, <1>5, <1>6
<1>9. TalkOf(ns) = ts
  BY <1>2, <1>6, <1>8, SameList
<1> QED BY <1>4, <1>9, <1>7

\* What each action is for the talk.
LEMMA SameSaid ==
  ASSUME UNCHANGED <<messages, status>>
  PROVE  UNCHANGED <<Talk, Busy>>
BY DEF Talk, Busy

LEMMA EndSaid ==
  ASSUME ChatInv, ChatInv', messages # <<>>, NEW st \in {"closed", "error"}, Ended(messages, st)
  PROVE  Talk' = Talk /\ Busy' = FALSE
<1>1. /\ status' = st /\ Told(messages) /\ Told(messages') /\ SameTalk(messages, messages')
  BY EndedTold DEF ChatInv
<1>2. TalkOf(messages') = TalkOf(messages)
  BY <1>1, SaidSame
<1>3. Talk = TalkOf(messages) /\ Talk' = TalkOf(messages')
  BY DEF Talk, TalkOf
<1>4. ~Busy'
  BY <1>1 DEF Busy
<1> QED BY <1>2, <1>3, <1>4 DEF Busy

LEMMA GenerateAsks == ASSUME ChatInv, ChatInv', Generate PROVE Abstract!Ask
<1>1. PICK c \in Requests : MayGenerate(c) /\ Connect(c, Append(shown.messages, User(c)))
  BY DEF Generate
<1>2. shown.messages = messages /\ AllDone(messages) /\ ~Busy
  BY <1>1, AtRest DEF MayGenerate, ChatInv, Statuses, Resting
<1> DEFINE ms == messages
           ns == Append(ms, User(c))
<1>3. messages' = ns /\ Busy'
  BY <1>1, <1>2 DEF Connect, Busy
<1>4. Told(ms) /\ Told(ns)
  BY <1>3 DEF ChatInv
<1>5. /\ Len(ns) = Len(ms) + 1 /\ ns[Len(ns)] = User(c)
      /\ \A k \in 1 .. Len(ms) : ns[k] = ms[k]
  BY <1>2, <1>4, QuestionAsked
<1> HIDE DEF ns
<1>6. Abstract!Question = [who |-> ns[Len(ns)].role, words |-> ns[Len(ns)].raw]
  BY <1>5 DEF User, Abstract!Question
<1>7. TalkOf(ns) = Append(TalkOf(ms), Abstract!Question)
  BY <1>4, <1>5, <1>6, SaidMore
<1>8. Talk = TalkOf(ms) /\ Talk' = TalkOf(ns)
  BY <1>3 DEF Talk, TalkOf
<1>9. Busy = FALSE /\ Busy' = TRUE
  BY <1>2, <1>3 DEF Busy
<1> QED BY <1>7, <1>8, <1>9 DEF Abstract!Ask

LEMMA RegenerateRepeats == ASSUME ChatInv, ChatInv', Regenerate PROVE Abstract!Again
<1>1. PICK c \in Requests, k \in DOMAIN shown.messages, at \in DOMAIN shown.messages :
        /\ MayGenerate(c) /\ CanRegenerate(shown.messages[k])
        /\ Id(shown.messages[at]) = Id(shown.messages[k])
        /\ Connect(c, Kept(shown.messages, at))
  BY DEF Regenerate
<1>2. shown.messages = messages /\ AllDone(messages) /\ ~Busy
  BY <1>1, AtRest DEF MayGenerate, ChatInv, Statuses, Resting
<1> DEFINE ms == messages
           ns == Kept(ms, at)
<1>3. messages' = ns /\ Busy'
  BY <1>1, <1>2 DEF Connect, Busy
<1>4. Told(ms) /\ Told(ns)
  BY <1>3 DEF ChatInv
<1>5. at \in DOMAIN ms /\ ms[at].role = "assistant"
  BY <1>1, <1>2 DEF CanRegenerate, Id
<1>6. at \in 2 .. Len(ms) /\ Len(ns) = at - 1 /\ \A i \in 1 .. at - 1 : ns[i] = ms[i]
  BY <1>2, <1>4, <1>5, AnswerDropped
<1> HIDE DEF ns
<1>7. /\ DOMAIN TalkOf(ms) = 1 .. Len(ms) /\ Len(ms) \in Nat
      /\ \A i \in 1 .. Len(ms) : TalkOf(ms)[i] = [who |-> ms[i].role, words |-> ms[i].raw]
  BY <1>4, TalkIs
<1>8. at \in 1 .. Len(ms) /\ at - 1 \in 0 .. Len(ms)
  BY <1>6, <1>7
<1>9. TalkOf(ms)[at].who = "assistant" /\ at \in DOMAIN TalkOf(ms)
  BY <1>5, <1>7, <1>8
<1>10. TalkOf(ns) = SubSeq(TalkOf(ms), 1, at - 1)
  BY <1>4, <1>6, <1>8, SaidLess
<1>11. Talk = TalkOf(ms) /\ Talk' = TalkOf(ns)
  BY <1>3 DEF Talk, TalkOf
<1>12. Busy = FALSE /\ Busy' = TRUE
  BY <1>2, <1>3 DEF Busy
<1> QED BY <1>9, <1>10, <1>11, <1>12 DEF Abstract!Again

LEMMA ClearWipes == ASSUME ChatInv, Clear PROVE Abstract!Wipe
<1>1. ~Busy
  BY AtRest DEF Clear, ClearEnabled, ChatInv, Statuses, Resting
<1>2. Busy' = Busy
  BY DEF Clear, Busy
<1>3. Talk' = <<>>
  <2>1. messages' = <<>>
    BY DEF Clear
  <2>2. Told(<<>>)
    BY NothingTold
  <2>3. Sequence(TalkOf(<<>>)) /\ Len(TalkOf(<<>>)) = Len(<<>>)
    BY <2>2, TalkIs
  <2>4. Len(<<>>) = 0
    OBVIOUS
  <2>5. TalkOf(<<>>) = <<>>
    BY <2>3, <2>4, ListDomain
  <2> QED BY <2>1, <2>5 DEF Talk, TalkOf
<1> QED BY <1>1, <1>2, <1>3 DEF Abstract!Wipe

LEMMA DeliverGrows ==
  ASSUME ChatInv, ChatInv', NEW c \in Requests, Live(c),
         NEW t \in Vocabulary[conn[c].model], Deliver(c, t)
  PROVE  Abstract!Grow
<1> DEFINE ms == messages
           ns == WithChunk(messages, c, t)
           n == Len(messages)
           W == UNION {Vocabulary[m] : m \in Models}
<1>1. messages' = ns /\ Busy' = TRUE
  BY DEF Deliver, Busy
<1>2. messages # <<>> /\ Busy
  BY WhileLive
<1>3. Told(ms) /\ Told(ns)
  BY <1>1 DEF ChatInv
<1>4. \/ /\ ms[n].role = "assistant" /\ Len(ns) = n
         /\ \A k \in 1 .. n : /\ ns[k].role = ms[k].role /\ ns[k].from = ms[k].from
                              /\ k # n => ns[k].raw = ms[k].raw
         /\ ns[n].raw = Append(ms[n].raw, t)
      \/ /\ ms[n].role = "user" /\ Len(ns) = n + 1
         /\ \A k \in 1 .. n : ns[k] = ms[k]
         /\ ns[n + 1].role = "assistant" /\ ns[n + 1].from = c
         /\ ns[n + 1].raw = <<t>>
  BY <1>2, <1>3, ChunkTold
<1>5. t \in W
  BY DEF ChatInv, Connected, Fetch, Live
<1> HIDE DEF ns, W
<1>6. Talk = TalkOf(ms) /\ Talk' = TalkOf(ns)
  BY <1>1 DEF Talk, TalkOf
<1>7. /\ Len(TalkOf(ms)) = n
      /\ \A k \in 1 .. n : TalkOf(ms)[k] = [who |-> ms[k].role, words |-> ms[k].raw]
  BY <1>3, TalkIs
<1>8. n \in 1 .. n
  <2>1. Sequence(ms)
    BY <1>3 DEF Told, List
  <2>2. n \in Nat /\ n # 0
    BY <1>2, <2>1, ListDomain
  <2> HIDE DEF n
  <2> QED BY <2>2
<1>9. \/ /\ TalkOf(ms)[n].who = "user"
         /\ TalkOf(ns) = Append(TalkOf(ms), [who |-> "assistant", words |-> <<t>>])
      \/ /\ TalkOf(ms)[n].who = "assistant"
         /\ TalkOf(ns) = Grown(TalkOf(ms), t)
  <2>1. ASSUME ms[n].role = "user"
        PROVE  /\ TalkOf(ms)[n].who = "user"
               /\ TalkOf(ns) = Append(TalkOf(ms), [who |-> "assistant", words |-> <<t>>])
    <3>1. TalkOf(ms)[n].who = "user"
      <4>1. TalkOf(ms)[n] = [who |-> ms[n].role, words |-> ms[n].raw]
        BY <1>7, <1>8
      <4> QED BY <2>1, <4>1
    <3>2. /\ Len(ns) = n + 1 /\ \A k \in 1 .. n : ns[k] = ms[k]
          /\ [who |-> "assistant", words |-> <<t>>]
                = [who |-> ns[Len(ns)].role, words |-> ns[Len(ns)].raw]
      BY <1>4, <2>1
    <3> QED BY <1>3, <3>1, <3>2, SaidMore
  <2>2. ASSUME ms[n].role = "assistant"
        PROVE  /\ TalkOf(ms)[n].who = "assistant"
               /\ TalkOf(ns) = Grown(TalkOf(ms), t)
    <3>1. /\ Len(ns) = Len(ms) /\ ns[n].raw = Append(ms[n].raw, t)
          /\ \A k \in 1 .. n : ns[k].role = ms[k].role /\ (k # n => ns[k].raw = ms[k].raw)
      BY <1>4, <2>2
    <3>2. ms # <<>> /\ ms[Len(ms)].role = "assistant" /\ ns[Len(ms)].raw = Append(ms[Len(ms)].raw, t)
      BY <1>2, <2>2, <3>1
    <3>3. \A k \in 1 .. Len(ms) :
            ns[k].role = ms[k].role /\ (k # Len(ms) => ns[k].raw = ms[k].raw)
      BY <3>1
    <3>4. Told(ms) /\ Told(ns) /\ Len(ns) = Len(ms)
      BY <1>3, <3>1
    <3> HIDE DEF n, ms
    <3>5. TalkOf(ms)[Len(ms)].who = "assistant" /\ TalkOf(ns) = Grown(TalkOf(ms), t)
      BY <3>2, <3>3, <3>4, SaidWord
    <3> QED BY <3>5 DEF n, ms
  <2> QED BY <1>4, <2>1, <2>2
<1>10. \E w \in W :
         \/ Talk[Len(Talk)].who = "user" /\ Talk' = Append(Talk, Abstract!Answer(<<w>>))
         \/ /\ Talk[Len(Talk)].who = "assistant"
            /\ Talk' = [Talk EXCEPT ![Len(Talk)] =
                          Abstract!Answer(Append(Talk[Len(Talk)].words, w))]
  BY <1>5, <1>6, <1>7, <1>9 DEF Abstract!Answer, Grown
<1>11. Busy' = Busy
  BY <1>1, <1>2 DEF Busy
<1> QED BY <1>2, <1>10, <1>11 DEF Abstract!Grow, W

LEMMA TalkSteps ==
  ASSUME ChatInv, ChatInv', [Next]_vars
  PROVE  [Abstract!ANext]_<<Talk, Busy>>
<1> USE DEF Abstract!ANext
<1>1. CASE Type
  BY <1>1, SameSaid DEF Type
<1>2. CASE Generate
  BY <1>2, GenerateAsks
<1>3. CASE Regenerate
  BY <1>3, RegenerateRepeats
<1>4. CASE Stop
  <2>1. messages # <<>>
    BY <1>4 DEF Stop, ChatInv, ShownIsPresent, Resting
  <2>2. Talk' = Talk /\ Busy' = FALSE
    BY <1>4, <2>1, EndSaid DEF Stop, Disconnect
  <2>3. CASE Busy
    BY <2>2, <2>3 DEF Abstract!Settle
  <2>4. CASE ~Busy
    <3>1. Busy = FALSE
      BY <2>4 DEF Busy
    <3> QED BY <2>2, <3>1
  <2> QED BY <2>3, <2>4
<1>5. CASE Clear
  BY <1>5, ClearWipes
<1>6. CASE Render
  BY <1>6, SameSaid DEF Render
<1>7. CASE LateCallback
  <2>1. /\ late \in Seq({"closed", "error"}) /\ late # <<>> /\ messages # <<>>
        /\ Resting(shown.status)
    BY <1>7 DEF LateCallback, ChatInv, LateAfterStop, Resting
  <2>2. Head(late) \in {"closed", "error"}
    BY <2>1, HeadTailProperties
  <2>3. Talk' = Talk /\ Busy' = FALSE
    BY <1>7, <2>1, <2>2, EndSaid DEF LateCallback
  <2>4. Busy = FALSE
    BY <2>1, AtRest DEF Busy
  <2> QED BY <2>3, <2>4
<1>8. CASE ClusterChanges
  BY <1>8, SameSaid DEF ClusterChanges
<1>9. ASSUME NEW c \in Requests, Respond(c) \/ Fail(c) \/ Chunk(c) \/ Finish(c)
      PROVE  [Abstract!ANext]_<<Talk, Busy>>
  <2>1. CASE Respond(c)
    BY <2>1, SameSaid DEF Respond
  <2>2. ASSUME Live(c), NEW st \in {"closed", "error"}, Ended(messages, st)
        PROVE  Abstract!Settle
    <3>1. messages # <<>> /\ Busy
      BY <2>2, WhileLive
    <3>2. Talk' = Talk /\ Busy' = FALSE
      BY <2>2, <3>1, EndSaid
    <3> QED BY <3>1, <3>2 DEF Abstract!Settle
  <2>3. CASE Fail(c)
    BY <2>2, <2>3 DEF Fail
  <2>4. CASE Finish(c)
    <3>1. Live(c) /\ Ended(messages, "closed")
      BY <2>4 DEF Finish, Live
    <3> QED BY <2>2, <3>1
  <2>5. CASE Chunk(c)
    <3>1. Live(c)
      BY <2>5 DEF Chunk, Live
    <3>2. \/ \E t \in Vocabulary[conn[c].model] : Deliver(c, t)
          \/ UNCHANGED <<messages, status>>
      BY <2>5 DEF Chunk
    <3> QED BY <3>1, <3>2, DeliverGrows, SameSaid
  <2> QED BY <1>9, <2>1, <2>3, <2>4, <2>5
<1>10. CASE UNCHANGED vars
  BY <1>10, SameSaid DEF vars
<1> QED BY <1>1, <1>2, <1>3, <1>4, <1>5, <1>6, <1>7, <1>8, <1>9, <1>10 DEF Next

\* The chat implements the talk: it begins with nothing said, and each of its steps asks,
\* asks again, adds a word, settles, wipes, or says nothing.
THEOREM ChatIsConversation == Spec => ImplementsConversation
<1>1. Init => Abstract!AInit
  <2> SUFFICES ASSUME Init PROVE Abstract!AInit
    OBVIOUS
  <2>1. messages = <<>> /\ status = "closed"
    BY DEF Init
  <2>2. Told(<<>>)
    BY NothingTold
  <2>3. Sequence(TalkOf(<<>>)) /\ Len(TalkOf(<<>>)) = Len(<<>>)
    BY <2>2, TalkIs
  <2>4. Len(<<>>) = 0
    OBVIOUS
  <2>5. TalkOf(<<>>) = <<>>
    BY <2>3, <2>4, ListDomain
  <2>6. Busy = FALSE
    BY <2>1 DEF Busy
  <2> QED BY <2>1, <2>5, <2>6 DEF Abstract!AInit, Talk, TalkOf
<1>2. ChatInv /\ ChatInv' /\ [Next]_vars => [Abstract!ANext]_<<Talk, Busy>>
  BY TalkSteps
<1> QED BY <1>1, <1>2, ChatInvariant, PTL DEF Spec, ImplementsConversation, Abstract!ASpec

----------------------------------------------------------------------------
(***************************************************************************)
(* What is shown.  Every message of an answer is formed by the parser of   *)
(* its request's model; what changes the messages, keeps them so.          *)
(***************************************************************************)
Roles == {"user", "assistant"}

\* What the parser of any model makes of a text are two texts.
LEMMA ParseType ==
  ASSUME NEW kind, NEW b \in Texts
  PROVE  Parse(kind, b) \in Shown /\ Parse(kind, b) = Parts(Parse(kind, b).thinking, Parse(kind, b).content)
<1>1. Parts(<<>>, b) \in Shown
  BY EmptySeq DEF Parts, Shown, Texts
<1>2. Parse(kind, b) \in Shown
  BY <1>1, GptAgrees, QwenIs DEF Parse
<1> QED BY <1>2 DEF Shown, Parts

\* The messages, and their parts, are what the parser of their request makes of its words.
Shows(m, cn) == Parts(m.thinking, m.content) = Parse(cn[m.from].model, m.raw)
Formed(ms, cn) ==
  /\ ms \in Seq(Messages)
  /\ \A k \in DOMAIN ms : ms[k].role = "assistant" => Shows(ms[k], cn)

LEMMA FormedDone ==
  ASSUME NEW ms, NEW cn, Formed(ms, cn), ms # <<>>
  PROVE  Formed(LastDone(ms), cn)
<1> DEFINE n == Len(ms)
           m == [ms[n] EXCEPT !.status = "done"]
           ns == LastDone(ms)
<1>1. ms \in Seq(Messages) /\ n \in Nat /\ n # 0 /\ DOMAIN ms = 1 .. n /\ n \in 1 .. n
  BY EmptySeq, LenProperties DEF Formed
<1>2. ms[n] \in Messages
  BY <1>1
<1>3. /\ m \in Messages /\ m.role = ms[n].role /\ m.from = ms[n].from /\ m.raw = ms[n].raw
      /\ m.thinking = ms[n].thinking /\ m.content = ms[n].content
  BY <1>2 DEF Messages
<1>4. ns = [ms EXCEPT ![n] = m]
  BY <1>1 DEF LastDone
<1> HIDE DEF m, n, ns
<1>5. /\ ns \in Seq(Messages) /\ Len(ns) = n /\ DOMAIN ns = 1 .. n
      /\ \A k \in 1 .. n : ns[k] = IF k = n THEN m ELSE ms[k]
  BY <1>1, <1>3, <1>4, ExceptSeq, LenProperties DEF n
<1>6. ASSUME NEW k \in 1 .. n, ns[k].role = "assistant" PROVE Shows(ns[k], cn)
  <2>1. ms[k].role = "assistant" /\ Shows(ms[k], cn) => Shows(ns[k], cn)
    BY <1>3, <1>5 DEF Shows
  <2>2. ms[k].role = "assistant"
    BY <1>3, <1>5, <1>6
  <2> QED BY <1>1, <2>1, <2>2 DEF Formed
<1> QED BY <1>5, <1>6 DEF Formed, ns

LEMMA FormedQuestion ==
  ASSUME NEW ms, NEW cn, Formed(ms, cn), NEW c \in Requests
  PROVE  Formed(Append(ms, User(c)), cn)
<1> DEFINE n == Len(ms)
           m == User(c)
           ns == Append(ms, m)
<1>1. ms \in Seq(Messages) /\ n \in Nat /\ DOMAIN ms = 1 .. n
  BY LenProperties DEF Formed
<1>2. m \in Messages /\ m.role = "user"
  BY EmptySeq DEF User, Messages
<1> HIDE DEF m
<1>3. /\ ns \in Seq(Messages) /\ Len(ns) = n + 1
      /\ \A k \in 1 .. n : ns[k] = ms[k]
      /\ ns[n + 1] = m
  BY <1>1, <1>2, AppendProperties
<1> HIDE DEF ns, n
<1>4. DOMAIN ns = 1 .. n + 1
  BY <1>3, LenProperties
<1>5. ASSUME NEW k \in 1 .. n + 1, ns[k].role = "assistant" PROVE Shows(ns[k], cn)
  <2>1. k \in 1 .. n
    BY <1>1, <1>2, <1>3, <1>5
  <2> QED BY <1>1, <1>3, <1>5, <2>1 DEF Formed
<1> QED BY <1>3, <1>4, <1>5 DEF Formed, ns, m

LEMMA FormedKept ==
  ASSUME NEW ms, NEW cn, Formed(ms, cn), NEW at \in DOMAIN ms
  PROVE  Formed(Kept(ms, at), cn)
<1> DEFINE n == Len(ms)
           e == IF ms[at].role = "user" THEN at ELSE at - 1
           ns == Kept(ms, at)
<1>1. ms \in Seq(Messages) /\ n \in Nat /\ DOMAIN ms = 1 .. n
  BY LenProperties DEF Formed
<1>2. e \in 0 .. n
  BY <1>1
<1>3. ns = SubSeq(ms, 1, e)
  BY DEF Kept
<1> HIDE DEF e, n
<1>4. \A k \in 1 .. e : ms[k] \in Messages /\ k \in 1 .. n
  BY <1>1, <1>2
<1>5. ns \in Seq(Messages) /\ Len(ns) = (IF 1 <= e THEN e - 1 + 1 ELSE 0)
      /\ \A k \in 1 .. e - 1 + 1 : ns[k] = ms[1 + k - 1]
  <2>1. 1 \in Int /\ e \in Int /\ \A k \in 1 .. e : ms[k] \in Messages
    BY <1>2, <1>4
  <2> HIDE DEF ns
  <2> QED BY <1>3, <2>1, SubSeqProperties
<1> HIDE DEF ns
<1>6. Len(ns) = e /\ DOMAIN ns = 1 .. e
  BY <1>2, <1>5, LenProperties
<1>7. ASSUME NEW k \in 1 .. e PROVE ns[k] = ms[k]
  <2>1. k \in 1 .. e - 1 + 1 /\ 1 + k - 1 = k
    BY <1>2
  <2> QED BY <1>5, <2>1
<1>8. \A k \in DOMAIN ns : ns[k].role = "assistant" => Shows(ns[k], cn)
  BY <1>1, <1>4, <1>6, <1>7 DEF Formed
<1> QED BY <1>5, <1>8 DEF Formed, ns

\* The requests of the answers, of the same models as before.
LEMMA FormedElsewhere ==
  ASSUME NEW ms, NEW cn, NEW dn, Formed(ms, cn),
         \A k \in DOMAIN ms : ms[k].role = "assistant" =>
           dn[ms[k].from].model = cn[ms[k].from].model
  PROVE  Formed(ms, dn)
BY DEF Formed, Shows

\* A parsed message.
LEMMA ParsedFormed ==
  ASSUME NEW m \in Messages, NEW cn, NEW kind, kind = cn[m.from].model
  PROVE  /\ Parsed(m, kind) \in Messages /\ Parsed(m, kind).role = m.role
         /\ Parsed(m, kind).from = m.from /\ Shows(Parsed(m, kind), cn)
<1> DEFINE p == Parse(kind, m.raw)
           x == p.thinking
           y == p.content
           z == IF y = <<>> THEN "thinking" ELSE "generating"
           q == [m EXCEPT !.thinking = x, !.content = y, !.status = z]
<1>1. m.raw \in Texts
  BY DEF Messages, Texts
<1>2. p \in Shown /\ p = Parts(x, y)
  BY <1>1, ParseType
<1>3. x \in Seq(STRING) /\ y \in Seq(STRING)
  BY <1>2 DEF Shown, Texts
<1>4. Parsed(m, kind) = q
  BY DEF Parsed
<1>5. z \in {"done", "thinking", "generating"}
  OBVIOUS
<1> HIDE DEF p, x, y, z
<1>6. /\ q \in Messages /\ q.role = m.role /\ q.from = m.from /\ q.raw = m.raw
      /\ q.thinking = x /\ q.content = y
  BY <1>3, <1>5 DEF Messages
<1> HIDE DEF q
<1>7. Shows(q, cn)
  BY <1>2, <1>6 DEF Shows, p
<1> QED BY <1>4, <1>6, <1>7

LEMMA FormedChunk ==
  ASSUME NEW ms, Formed(ms, conn), NEW c \in Requests, NEW t \in STRING,
         ms # <<>> /\ ms[Len(ms)].role = "assistant" => ms[Len(ms)].from = c
  PROVE  Formed(WithChunk(ms, c, t), conn)
<1> DEFINE n == Len(ms)
           kind == conn[c].model
           ns == WithChunk(ms, c, t)
<1>1. ms \in Seq(Messages) /\ n \in Nat /\ DOMAIN ms = 1 .. n
  BY LenProperties DEF Formed
<1>2. CASE ms # <<>> /\ ms[n].role = "assistant"
  <2>1. n # 0 /\ n \in 1 .. n
    BY <1>1, <1>2, EmptySeq
  <2>2. ms[n] \in Messages /\ ms[n].from = c
    BY <1>1, <1>2, <2>1
  <2> DEFINE w == Append(ms[n].raw, t)
             l == Longer(ms[n], t)
             m == Parsed(l, kind)
  <2>3. w \in Seq(STRING)
    BY <2>2, AppendProperties DEF Messages
  <2>4. l = [ms[n] EXCEPT !.raw = w]
    BY DEF Longer
  <2> HIDE DEF w
  <2>5. l \in Messages /\ l.from = c
    BY <2>2, <2>3, <2>4 DEF Messages
  <2> HIDE DEF l
  <2>6. m \in Messages /\ Shows(m, conn)
    BY <2>5, ParsedFormed
  <2>7. ns = [ms EXCEPT ![n] = m]
    BY <1>2, <2>1, <1>1 DEF WithChunk, l
  <2> HIDE DEF m, ns
  <2>8. /\ ns \in Seq(Messages) /\ Len(ns) = n /\ DOMAIN ns = 1 .. n
        /\ \A k \in 1 .. n : ns[k] = IF k = n THEN m ELSE ms[k]
    BY <1>1, <2>1, <2>6, <2>7, ExceptSeq, LenProperties
  <2> HIDE DEF n
  <2>9. \A k \in 1 .. n : ns[k].role = "assistant" => Shows(ns[k], conn)
    BY <1>1, <2>6, <2>8 DEF Formed
  <2> QED BY <2>8, <2>9 DEF Formed, ns
<1>3. CASE ~(ms # <<>> /\ ms[n].role = "assistant")
  <2> DEFINE l == Assistant(c, <<t>>)
             m == Parsed(l, kind)
  <2>1. l \in Messages /\ l.from = c
    <3>1. User(c) \in Messages /\ User(c).from = c /\ <<t>> \in Seq(STRING)
      BY EmptySeq DEF User, Messages
    <3> DEFINE u == User(c)
               w == <<t>>
    <3> HIDE DEF u, w
    <3>2. u \in Messages /\ u.from = c /\ w \in Seq(STRING)
      BY <3>1 DEF u, w
    <3>3. [u EXCEPT !.role = "assistant", !.raw = w] \in Messages
          /\ [u EXCEPT !.role = "assistant", !.raw = w].from = c
      BY <3>2 DEF Messages
    <3> QED BY <3>3 DEF Assistant, u, w
  <2>2. m \in Messages /\ Shows(m, conn)
    <3> HIDE DEF l
    <3> QED BY <2>1, ParsedFormed
  <2>3. ns = Append(ms, m)
    BY <1>3 DEF WithChunk
  <2> HIDE DEF m, ns
  <2>4. /\ ns \in Seq(Messages) /\ Len(ns) = n + 1 /\ DOMAIN ns = 1 .. n + 1
        /\ \A k \in 1 .. n : ns[k] = ms[k]
        /\ ns[n + 1] = m
    BY <1>1, <2>2, <2>3, AppendProperties, LenProperties
  <2> HIDE DEF n
  <2>5. \A k \in 1 .. n + 1 : ns[k].role = "assistant" => Shows(ns[k], conn)
    <3> SUFFICES ASSUME NEW k \in 1 .. n + 1, ns[k].role = "assistant" PROVE Shows(ns[k], conn)
      OBVIOUS
    <3>1. CASE k = n + 1
      BY <2>2, <2>4, <3>1
    <3>2. CASE k # n + 1
      <4>1. k \in 1 .. n
        BY <1>1, <3>2
      <4> QED BY <1>1, <2>4, <4>1 DEF Formed
    <3> QED BY <3>1, <3>2
  <2> QED BY <2>4, <2>5 DEF Formed, ns
<1> QED BY <1>2, <1>3

Inputs == {"", "text"}
Phases == {"unused", "pending", "open", "over"}

\* The rest of the types, with the messages formed by the parsers.
Typed ==
  /\ input \in Inputs
  /\ shown.messages \in Seq(Messages) /\ shown = [status |-> shown.status, messages |-> shown.messages]
  /\ conn \in [Requests -> Fetches]
  /\ reader \in 0 .. MaxRequests /\ control \in 0 .. MaxRequests
  /\ Formed(messages, conn)

LEMMA TypedInit == Init => Typed
<1> SUFFICES ASSUME Init PROVE Typed
  OBVIOUS
<1>1. <<>> \in Seq(Messages) /\ <<>> \in Seq(STRING) /\ <<>> \in Seq(Roles \X Requests)
  BY EmptySeq
<1>2. messages \in Seq(Messages) /\ DOMAIN messages = {}
  <2>1. Len(<<>>) = 0 /\ DOMAIN <<>> = 1 .. Len(<<>>)
    BY <1>1, EmptySeq, LenProperties
  <2>2. DOMAIN <<>> = {}
    BY <2>1
  <2> QED BY <1>1, <2>2 DEF Init
<1>3. Formed(messages, conn)
  BY <1>2 DEF Formed
<1>4. Unused \in Fetches
  BY <1>1 DEF Unused, Fetches, NoCluster, Roles
<1>5. conn \in [Requests -> Fetches]
  BY <1>4 DEF Init
<1>6. input \in Inputs /\ reader = 0 /\ control = 0
  BY DEF Init, Inputs
<1>7. shown = [status |-> "closed", messages |-> <<>>]
  BY DEF Init
<1>8. shown.messages \in Seq(Messages) /\ shown = [status |-> shown.status, messages |-> shown.messages]
  BY <1>1, <1>7
<1>9. 0 \in 0 .. MaxRequests
  BY ChatAssumption
<1> QED BY <1>3, <1>5, <1>6, <1>8, <1>9 DEF Typed

\* What is rendered.
LEMMA RenderedTyped ==
  ASSUME Typed, Rendered, messages' \in Seq(Messages)
  PROVE  /\ shown'.messages \in Seq(Messages)
         /\ shown' = [status |-> shown'.status, messages |-> shown'.messages]
BY DEF Rendered

\* A request that is changed, but not its model.
LEMMA SameModels ==
  ASSUME NEW ms, Formed(ms, conn), Answered(ms, conn),
         \A d \in Requests : conn'[d].model = conn[d].model
  PROVE  Formed(ms, conn')
<1>1. \A k \in DOMAIN ms : ms[k].role = "assistant" => ms[k].from \in Requests
  BY DEF Answered
<1> QED BY <1>1, FormedElsewhere

LEMMA RequestsTyped ==
  ASSUME conn \in [Requests -> Fetches], NEW c \in Requests, NEW e \in Fetches,
         conn' = [conn EXCEPT ![c] = e]
  PROVE  /\ conn' \in [Requests -> Fetches]
         /\ \A d \in Requests : conn'[d] = IF d = c THEN e ELSE conn[d]
  OBVIOUS

\* A request that changes its phase.
LEMMA PhaseTyped ==
  ASSUME conn \in [Requests -> Fetches], NEW c \in Requests, NEW ph \in Phases,
         conn' = [conn EXCEPT ![c].phase = ph]
  PROVE  /\ conn' \in [Requests -> Fetches]
         /\ \A d \in Requests : conn'[d].model = conn[d].model
<1> DEFINE e == [conn[c] EXCEPT !.phase = ph]
<1>1. e \in Fetches /\ e.model = conn[c].model
  BY DEF Fetches, Phases
<1>2. conn' = [conn EXCEPT ![c] = e]
  OBVIOUS
<1> HIDE DEF e
<1> QED BY <1>1, <1>2, RequestsTyped

\* The updaters of onClose and onError.
LEMMA EndedTyped ==
  ASSUME NEW cn, Formed(messages, cn), messages # <<>>, NEW st, Ended(messages, st)
  PROVE  Formed(messages', cn)
BY FormedDone DEF Ended

\* What is asked.
LEMMA IdsTyped ==
  ASSUME NEW ms \in Seq(Messages)
  PROVE  Ids(ms) \in Seq(Roles \X Requests)
<1>1. Len(ms) \in Nat /\ DOMAIN ms = 1 .. Len(ms) /\ \A k \in 1 .. Len(ms) : ms[k] \in Messages
  BY LenProperties
<1>2. \A k \in 1 .. Len(ms) : Id(ms[k]) \in Roles \X Requests
  BY <1>1 DEF Id, Messages, Roles
<1>3. Ids(ms) = [k \in 1 .. Len(ms) |-> Id(ms[k])]
  BY <1>1 DEF Ids
<1>4. Ids(ms) \in [1 .. Len(ms) -> Roles \X Requests]
  BY <1>2, <1>3
<1> QED BY <1>1, <1>4, Enumerated

LEMMA ConnectTyped ==
  ASSUME ChatInv, Typed, NEW c \in Requests, MayGenerate(c), NEW ms, Connect(c, ms),
         Formed(ms, conn), Answered(ms, conn)
  PROVE  /\ conn' \in [Requests -> Fetches] /\ Formed(messages', conn')
         /\ shown'.messages \in Seq(Messages)
         /\ shown' = [status |-> shown'.status, messages |-> shown'.messages]
         /\ reader' \in 0 .. MaxRequests /\ control' \in 0 .. MaxRequests
<1> DEFINE ids == Ids(ms)
           e == [Unused EXCEPT !.phase = "pending", !.model = cluster, !.asked = ids]
<1>1. /\ conn[c].phase = "unused" /\ messages' = ms /\ conn' = [conn EXCEPT ![c] = e]
      /\ control' = c /\ reader' = reader /\ Rendered
  BY DEF MayGenerate, Connect
<1>2. ids \in Seq(Roles \X Requests)
  BY IdsTyped DEF Formed
<1> HIDE DEF ids
<1>3. e \in Fetches
  <2>1. <<>> \in Seq(STRING) /\ cluster \in Models \cup {NoCluster}
    BY EmptySeq DEF ChatInv
  <2> QED BY <1>2, <2>1 DEF Unused, Fetches, Roles
<1> HIDE DEF e
<1>4. /\ conn' \in [Requests -> Fetches]
      /\ \A d \in Requests : conn'[d] = IF d = c THEN e ELSE conn[d]
  BY <1>1, <1>3, RequestsTyped DEF Typed
<1>5. \A k \in DOMAIN ms : ms[k].role = "assistant" =>
        ms[k].from \in Requests /\ ms[k].from # c
  BY <1>1 DEF Answered
<1>6. Formed(ms, conn')
  <2>1. \A k \in DOMAIN ms : ms[k].role = "assistant" =>
          conn'[ms[k].from].model = conn[ms[k].from].model
    BY <1>4, <1>5
  <2> QED BY <2>1, FormedElsewhere
<1>7. messages' \in Seq(Messages)
  BY <1>1 DEF Formed
<1>8. /\ shown'.messages \in Seq(Messages)
      /\ shown' = [status |-> shown'.status, messages |-> shown'.messages]
  BY <1>1, <1>7, RenderedTyped
<1>9. c \in 0 .. MaxRequests /\ reader \in 0 .. MaxRequests
  BY DEF Requests, Typed
<1> QED BY <1>1, <1>4, <1>6, <1>8, <1>9

LEMMA GenerateTyped == ASSUME ChatInv, Typed, Generate PROVE Typed'
<1>1. PICK c \in Requests : /\ MayGenerate(c) /\ input' \in Inputs
                            /\ Connect(c, Append(shown.messages, User(c)))
  BY DEF Generate, Inputs
<1> DEFINE ns == Append(messages, User(c))
<1>2. shown.messages = messages /\ AllDone(messages)
  BY <1>1, AtRest DEF MayGenerate, ChatInv, Statuses, Resting
<1>3. Told(messages) /\ Answered(messages, conn) /\ Formed(messages, conn)
  BY DEF ChatInv, Typed
<1>4. Formed(ns, conn)
  BY <1>3, FormedQuestion
<1>5. Answered(ns, conn)
  <2>1. /\ Told(ns) /\ ns # <<>> /\ Len(ns) = Len(messages) + 1
        /\ ns[Len(ns)] = User(c) /\ \A k \in 1 .. Len(messages) : ns[k] = messages[k]
    BY <1>2, <1>3, QuestionAsked
  <2>2. Len(messages) \in Nat /\ User(c).role = "user"
    BY <1>3, ListDomain DEF Told, List, User
  <2> HIDE DEF ns
  <2>3. \A k \in Len(messages) + 1 .. Len(ns) : ns[k].role = "user"
    BY <2>1, <2>2
  <2>4. Len(messages) <= Len(messages) /\ Len(messages) <= Len(ns)
    BY <2>1, <2>2
  <2> QED BY <1>3, <2>1, <2>2, <2>3, <2>4, SameAbove
<1>6. Connect(c, ns)
  BY <1>1, <1>2
<1> HIDE DEF ns
<1>7. /\ conn' \in [Requests -> Fetches] /\ Formed(messages', conn')
      /\ shown'.messages \in Seq(Messages)
      /\ shown' = [status |-> shown'.status, messages |-> shown'.messages]
      /\ reader' \in 0 .. MaxRequests /\ control' \in 0 .. MaxRequests
  BY <1>1, <1>4, <1>5, <1>6, ConnectTyped
<1> QED BY <1>1, <1>7 DEF Typed

LEMMA RegenerateTyped == ASSUME ChatInv, Typed, Regenerate PROVE Typed'
<1>1. PICK c \in Requests, k \in DOMAIN shown.messages, at \in DOMAIN shown.messages :
        /\ MayGenerate(c) /\ CanRegenerate(shown.messages[k])
        /\ Id(shown.messages[at]) = Id(shown.messages[k])
        /\ Connect(c, Kept(shown.messages, at)) /\ input' = input
  BY DEF Regenerate
<1>2. shown.messages = messages /\ AllDone(messages)
  BY <1>1, AtRest DEF MayGenerate, ChatInv, Statuses, Resting
<1>3. Told(messages) /\ Answered(messages, conn) /\ Formed(messages, conn)
  BY DEF ChatInv, Typed
<1>4. at \in DOMAIN messages /\ messages[at].role = "assistant"
  BY <1>1, <1>2 DEF CanRegenerate, Id
<1> DEFINE ns == Kept(messages, at)
<1>5. Formed(ns, conn)
  BY <1>3, <1>4, FormedKept
<1>6. Answered(ns, conn)
  <2>1. /\ Told(ns) /\ Len(ns) = at - 1 /\ at \in 2 .. Len(messages)
        /\ \A i \in 1 .. at - 1 : ns[i] = messages[i]
    BY <1>2, <1>3, <1>4, AnswerDropped
  <2>2. Len(messages) \in Nat
    BY <1>3, ListDomain DEF Told, List
  <2> HIDE DEF ns
  <2>3. /\ at - 1 \in Nat /\ at - 1 <= Len(messages) /\ at - 1 <= Len(ns)
        /\ \A i \in at - 1 + 1 .. Len(ns) : ns[i].role = "user"
    BY <2>1, <2>2
  <2> QED BY <1>3, <2>1, <2>3, SameAbove
<1>7. Connect(c, ns)
  BY <1>1, <1>2
<1> HIDE DEF ns
<1>8. /\ conn' \in [Requests -> Fetches] /\ Formed(messages', conn')
      /\ shown'.messages \in Seq(Messages)
      /\ shown' = [status |-> shown'.status, messages |-> shown'.messages]
      /\ reader' \in 0 .. MaxRequests /\ control' \in 0 .. MaxRequests
  BY <1>1, <1>5, <1>6, <1>7, ConnectTyped
<1> QED BY <1>1, <1>8 DEF Typed

LEMMA StopTyped == ASSUME ChatInv, Typed, Stop PROVE Typed'
<1>1. messages # <<>> /\ Answered(messages, conn) /\ Formed(messages, conn)
  BY DEF ChatInv, ShownIsPresent, Resting, Stop, Typed
<1>2. conn' = [d \in Requests |-> IF d \in Interrupted
                                  THEN [conn[d] EXCEPT !.phase = "over"] ELSE conn[d]]
  BY DEF Stop, Disconnect
<1>3. ASSUME NEW f \in Fetches
      PROVE  [f EXCEPT !.phase = "over"] \in Fetches /\ [f EXCEPT !.phase = "over"].model = f.model
  BY DEF Fetches
<1>4. \A d \in Requests : conn[d] \in Fetches
  BY DEF Typed
<1>5. /\ conn' \in [Requests -> Fetches]
      /\ \A d \in Requests : conn'[d].model = conn[d].model
  BY <1>2, <1>3, <1>4
<1>6. Formed(messages', conn)
  BY <1>1, EndedTyped DEF Stop, Disconnect
<1>7. Answered(messages', conn')
  BY StopInv DEF ChatInv
<1>8. Formed(messages', conn')
  <2>1. \A k \in DOMAIN messages' : messages'[k].role = "assistant" => messages'[k].from \in Requests
    BY <1>7 DEF Answered
  <2> QED BY <1>5, <1>6, <2>1, FormedElsewhere
<1>9. input' \in Inputs /\ reader' = 0 /\ control' = 0 /\ Rendered
  BY DEF Stop, Disconnect, Typed
<1>10. /\ shown'.messages \in Seq(Messages)
       /\ shown' = [status |-> shown'.status, messages |-> shown'.messages]
  BY <1>8, <1>9, RenderedTyped DEF Formed
<1>11. 0 \in 0 .. MaxRequests
  BY ChatAssumption
<1> QED BY <1>5, <1>8, <1>9, <1>10, <1>11 DEF Typed

LEMMA ClearTyped == ASSUME Typed, Clear PROVE Typed'
<1>1. messages' = <<>> /\ Rendered /\ UNCHANGED <<input, conn, reader, control>>
  BY DEF Clear
<1>2. messages' \in Seq(Messages) /\ DOMAIN messages' = {}
  <2>1. <<>> \in Seq(Messages) /\ Len(<<>>) = 0 /\ DOMAIN <<>> = 1 .. Len(<<>>)
    BY EmptySeq, LenProperties
  <2>2. DOMAIN <<>> = {}
    BY <2>1
  <2> QED BY <1>1, <2>1, <2>2
<1>3. Formed(messages', conn')
  BY <1>2 DEF Formed
<1>4. /\ shown'.messages \in Seq(Messages)
      /\ shown' = [status |-> shown'.status, messages |-> shown'.messages]
  BY <1>1, <1>2, RenderedTyped
<1> QED BY <1>1, <1>3, <1>4 DEF Typed

LEMMA LateTyped == ASSUME ChatInv, Typed, LateCallback PROVE Typed'
<1>1. messages # <<>> /\ Formed(messages, conn)
  BY DEF ChatInv, LateAfterStop, LateCallback, Typed
<1>2. Formed(messages', conn)
  BY <1>1, EndedTyped DEF LateCallback
<1> QED BY <1>2 DEF Typed, LateCallback

LEMMA RespondTyped ==
  ASSUME ChatInv, Typed, NEW c \in Requests, Respond(c)
  PROVE  Typed'
<1>1. /\ conn' = [conn EXCEPT ![c].phase = "open"] /\ reader' = c
      /\ UNCHANGED <<input, messages, shown, control>>
  BY DEF Respond
<1>2. conn \in [Requests -> Fetches] /\ "open" \in Phases /\ c \in 0 .. MaxRequests
  BY DEF Typed, Phases, Requests
<1>3. /\ conn' \in [Requests -> Fetches]
      /\ \A d \in Requests : conn'[d].model = conn[d].model
  BY <1>1, <1>2, PhaseTyped
<1>4. Formed(messages, conn')
  BY <1>3, SameModels DEF ChatInv, Typed
<1> QED BY <1>1, <1>2, <1>3, <1>4 DEF Typed

LEMMA OverTyped ==
  ASSUME ChatInv, Typed, NEW c \in Requests, Live(c), NEW st,
         conn' = [conn EXCEPT ![c].phase = "over"], Ended(messages, st),
         UNCHANGED <<input, shown, reader, control>>
  PROVE  Typed'
<1>1. conn \in [Requests -> Fetches] /\ "over" \in Phases
  BY DEF Typed, Phases
<1>2. /\ conn' \in [Requests -> Fetches]
      /\ \A d \in Requests : conn'[d].model = conn[d].model
  BY <1>1, PhaseTyped
<1>3. messages # <<>>
  BY WhileLive
<1>4. Formed(messages, conn')
  BY <1>2, SameModels DEF ChatInv, Typed
<1>5. Formed(messages', conn')
  BY <1>3, <1>4, EndedTyped
<1> QED BY <1>2, <1>5 DEF Typed

\* A word, of the vocabulary of its model.
LEMMA DeliverTyped ==
  ASSUME ChatInv, ChatInv', Typed, NEW c \in Requests, Live(c),
         NEW t \in Vocabulary[conn[c].model], Deliver(c, t),
         UNCHANGED <<input, shown, reader, control>>
  PROVE  Typed'
<1>1. t \in STRING
  <2>1. conn[c].model \in Models
    BY DEF ChatInv, Connected, Live, Fetch
  <2> QED BY <2>1, ChatAssumption
<1>2. conn[c] \in Fetches /\ conn \in [Requests -> Fetches]
  BY DEF Typed
<1> DEFINE w == Append(conn[c].sent, t)
           e == [conn[c] EXCEPT !.sent = w, !.half = FALSE]
<1>3. w \in Seq(STRING)
  BY <1>1, <1>2, AppendProperties DEF Fetches
<1>4. conn' = [conn EXCEPT ![c] = e]
  <2>1. conn' = [conn EXCEPT ![c].sent = Append(@, t), ![c].half = FALSE]
    BY DEF Deliver
  <2>2. [conn EXCEPT ![c].sent = Append(@, t), ![c].half = FALSE] = [conn EXCEPT ![c] = e]
    BY <1>2 DEF Fetches
  <2> QED BY <2>1, <2>2
<1> HIDE DEF w
<1>5. e \in Fetches /\ e.model = conn[c].model
  BY <1>2, <1>3 DEF Fetches
<1> HIDE DEF e
<1>6. /\ conn' \in [Requests -> Fetches]
      /\ \A d \in Requests : conn'[d] = IF d = c THEN e ELSE conn[d]
  BY <1>2, <1>4, <1>5, RequestsTyped
<1>7. \A d \in Requests : conn'[d].model = conn[d].model
  BY <1>5, <1>6
<1>8. messages # <<>> /\ messages[Len(messages)].role = "assistant" => messages[Len(messages)].from = c
  BY DEF ChatInv, Growing, Fetch, Live
<1>9. Formed(messages, conn)
  BY DEF Typed
<1>10. Formed(messages', conn)
  <2>1. messages' = WithChunk(messages, c, t)
    BY DEF Deliver
  <2> QED BY <1>1, <1>8, <1>9, <2>1, FormedChunk
<1>11. Formed(messages', conn')
  <2>1. \A k \in DOMAIN messages' : messages'[k].role = "assistant" => messages'[k].from \in Requests
    BY DEF ChatInv, Answered
  <2> QED BY <1>7, <1>10, <2>1, FormedElsewhere
<1> QED BY <1>6, <1>11 DEF Typed

LEMMA ChunkTyped ==
  ASSUME ChatInv, ChatInv', Typed, NEW c \in Requests, Chunk(c)
  PROVE  Typed'
<1>1. Live(c) /\ UNCHANGED <<cluster, input, shown, reader, control, late>>
  BY DEF Chunk, Live
<1>2. \/ \E t \in Vocabulary[conn[c].model] : Deliver(c, t)
      \/ conn' = [conn EXCEPT ![c].half = TRUE] /\ UNCHANGED <<messages, status>>
  BY DEF Chunk
<1>3. ASSUME conn' = [conn EXCEPT ![c].half = TRUE], UNCHANGED <<messages, status>>
      PROVE  Typed'
  <2> DEFINE e == [conn[c] EXCEPT !.half = TRUE]
  <2>1. conn[c] \in Fetches /\ conn \in [Requests -> Fetches]
    BY DEF Typed
  <2>2. e \in Fetches /\ e.model = conn[c].model
    BY <2>1 DEF Fetches
  <2>3. conn' = [conn EXCEPT ![c] = e]
    BY <1>3
  <2> HIDE DEF e
  <2>4. /\ conn' \in [Requests -> Fetches]
        /\ \A d \in Requests : conn'[d].model = conn[d].model
    BY <2>1, <2>2, <2>3, RequestsTyped
  <2>5. Formed(messages, conn')
    BY <2>4, SameModels DEF ChatInv, Typed
  <2> QED BY <1>1, <1>3, <2>4, <2>5 DEF Typed
<1> QED BY <1>1, <1>2, <1>3, DeliverTyped

LEMMA RenderTyped == ASSUME Typed, Render PROVE Typed'
<1>1. messages \in Seq(Messages) /\ shown' = [status |-> status, messages |-> messages]
  BY DEF Typed, Formed, Render
<1>2. /\ shown'.messages \in Seq(Messages)
      /\ shown' = [status |-> shown'.status, messages |-> shown'.messages]
  BY <1>1
<1> QED BY <1>2 DEF Typed, Render

LEMMA TypedSteps == ChatInv /\ ChatInv' /\ Typed /\ [Next]_vars => Typed'
<1> SUFFICES ASSUME ChatInv, ChatInv', Typed, [Next]_vars PROVE Typed'
  OBVIOUS
<1>1. CASE Type
  <2>1. input' \in Inputs /\ UNCHANGED <<messages, shown, conn, reader, control>>
    BY <1>1 DEF Type, Inputs
  <2> QED BY <2>1 DEF Typed
<1>2. CASE Generate
  BY <1>2, GenerateTyped
<1>3. CASE Regenerate
  BY <1>3, RegenerateTyped
<1>4. CASE Stop
  BY <1>4, StopTyped
<1>5. CASE Clear
  BY <1>5, ClearTyped
<1>6. CASE Render
  BY <1>6, RenderTyped
<1>7. CASE LateCallback
  BY <1>7, LateTyped
<1>8. CASE ClusterChanges
  BY <1>8 DEF ClusterChanges, Typed
<1>9. ASSUME NEW c \in Requests, Respond(c) \/ Fail(c) \/ Chunk(c) \/ Finish(c) PROVE Typed'
  <2>1. CASE Respond(c)
    BY <2>1, RespondTyped
  <2>2. CASE Fail(c)
    BY <2>2, OverTyped DEF Fail
  <2>3. CASE Finish(c)
    <3>1. Live(c)
      BY <2>3 DEF Finish, Live
    <3> QED BY <2>3, <3>1, OverTyped DEF Finish
  <2>4. CASE Chunk(c)
    BY <2>4, ChunkTyped
  <2> QED BY <1>9, <2>1, <2>2, <2>3, <2>4
<1>10. CASE UNCHANGED vars
  BY <1>10 DEF vars, Typed
<1> QED BY <1>1, <1>2, <1>3, <1>4, <1>5, <1>6, <1>7, <1>8, <1>9, <1>10 DEF Next

LEMMA TypedInvariant == Spec => [](ChatInv /\ Typed)
<1>1. ChatInv /\ Typed /\ [Next]_vars => ChatInv' /\ Typed'
  BY ChatSteps, TypedSteps
<1> QED BY <1>1, ChatInit, TypedInit, PTL DEF Spec

\* The types of the chat service, the parsed parts of its messages included.
THEOREM ChatTypes == Spec => []TypeOK
<1>1. ChatInv /\ Typed => TypeOK
  <2> SUFFICES ASSUME ChatInv, Typed PROVE TypeOK
    OBVIOUS
  <2>1. messages \in Seq(Messages) /\ input \in Inputs
    BY DEF Typed, Formed
  <2>2. shown \in [status : Statuses, messages : Seq(Messages)]
    BY DEF Typed, ChatInv
  <2>3. /\ cluster \in Models \cup {NoCluster} /\ status \in Statuses
        /\ late \in Seq({"closed", "error"})
    BY DEF ChatInv, LateAfterStop
  <2>4. /\ conn \in [Requests -> Fetches]
        /\ reader \in 0 .. MaxRequests /\ control \in 0 .. MaxRequests
    BY DEF Typed
  <2> QED BY <2>1, <2>2, <2>3, <2>4, Zenon DEF TypeOK, Inputs
<1> QED BY <1>1, TypedInvariant, PTL

\* At every moment of every stream the parsers of chat-helper.tsx, which search the
\* whole text again, show what a reader files who takes the tokens one by one.
THEOREM ThinkingIsKeptApart == Spec => []ThinkingApart
<1>1. Typed => ThinkingApart
  <2> SUFFICES ASSUME Typed, NEW k \in DOMAIN messages, messages[k].role = "assistant"
               PROVE  LET m == messages[k]
                          shows == Parts(m.thinking, m.content)
                      IN CASE conn[m.from].model = "gpt-oss" -> shows = ReadAll(ReadChannel, m.raw)
                           [] conn[m.from].model = "qwen" ->
                                WellTagged(m.raw) => shows = ReadAll(ReadTagged, m.raw)
                           [] OTHER -> shows = Parts(<<>>, m.raw)
    BY DEF ThinkingApart
  <2> DEFINE m == messages[k]
             kind == conn[m.from].model
             shows == Parts(m.thinking, m.content)
  <2>1. messages \in Seq(Messages) /\ shows = Parse(kind, m.raw)
    BY DEF Typed, Formed, Shows
  <2>2. m \in Messages
    BY <2>1, LenProperties
  <2>3. m.raw \in Texts
    BY <2>2 DEF Messages, Texts
  <2> DEFINE b == m.raw
  <2>4. CASE kind = "gpt-oss"
    <3>1. Parse(kind, b) = Gpt(b)
      BY <2>4 DEF Parse
    <3>2. shows = ReadAll(ReadChannel, b)
      BY <2>1, <2>3, <3>1, GptAgrees
    <3> HIDE DEF shows, m
    <3> QED BY <2>4, <3>2 DEF m, shows
  <2>5. CASE kind = "qwen"
    <3>1. Parse(kind, b) = Qwen[b]
      BY <2>5 DEF Parse
    <3>2. WellTagged(b) => shows = ReadAll(ReadTagged, b)
      BY <2>1, <2>3, <3>1, QwenAgrees
    <3> QED BY <2>5, <3>2
  <2>6. CASE kind # "gpt-oss" /\ kind # "qwen"
    <3>1. Parse(kind, b) = Parts(<<>>, b)
      BY <2>6 DEF Parse
    <3> QED BY <2>1, <2>6, <3>1
  <2> QED BY <2>4, <2>5, <2>6
<1> QED BY <1>1, TypedInvariant, PTL
=============================================================================
