-------------------------------- MODULE Chat --------------------------------
(***************************************************************************)
(* The chat service of the web frontend (services/chat.tsx) with the       *)
(* inputs that drive it: one request at a time streams an answer into the  *)
(* last message.  Three things make it hard.  Handlers of the user's       *)
(* events read the state of the last render (`shown`), not the present one *)
(* (`status`, `messages`).  The reader and the abort controller are shared *)
(* by all requests.  A stop calls back twice: at once, and again from the  *)
(* read or fetch it interrupts (`late`), before the next event.            *)
(***************************************************************************)
EXTENDS ChatParse, FiniteSets

CONSTANTS Models,           \* kinds of models: how their text is parsed
          Vocabulary,       \* Vocabulary[k] : the tokens a model of kind k emits
          MaxRequests,      \* bound: requests in a behaviour
          MaxTokens         \* bound: content tokens received in a behaviour

ASSUME ChatAssumption ==
  /\ MaxRequests \in Nat /\ MaxTokens \in Nat
  /\ Vocabulary \in [Models -> SUBSET STRING]

VARIABLES
  cluster,    \* the model of the available cluster, as rendered; NoCluster
  input,      \* "" or "text" : the text field, trimmed
  status,     \* the state set last: closed, opened, generating, error
  messages,   \* the messages set last
  shown,      \* [status, messages] of the last render, which the handlers read
  conn,       \* per request: what has become of its fetch and body
  reader,     \* the request whose body reader is held, 0: undefined
  control,    \* the request whose abort controller is held, 0: undefined
  late        \* callbacks of interrupted reads and fetches, yet to run

vars == <<cluster, input, status, messages, shown, conn, reader, control, late>>

NoCluster == "none"
Requests == 1 .. MaxRequests
Statuses == {"closed", "opened", "generating", "error"}

\* A fetch is unused, pending, open (its body is being read) or over.  `sent` are the
\* content tokens of the complete lines received, `half` says that the first part of a
\* further line is in the buffer.
Unused == [phase |-> "unused", model |-> NoCluster, sent |-> <<>>, half |-> FALSE,
           asked |-> <<>>]
Live(c) == conn[c].phase \in {"pending", "open"}
Used == {c \in Requests : conn[c].phase # "unused"}

\* Messages.  `from` is the request an answer, or a question, belongs to (an answer has
\* the id of its completion, a question one of its own, so `from` and `role` are the id).
User(c) == [role |-> "user", from |-> c, status |-> "done", raw |-> <<>>,
            thinking |-> <<>>, content |-> <<>>]
Assistant(c, raw) == [User(c) EXCEPT !.role = "assistant", !.raw = raw]
Id(m) == <<m.role, m.from>>
Ids(ms) == [i \in DOMAIN ms |-> Id(ms[i])]

Init ==
  /\ cluster = NoCluster /\ input = ""
  /\ status = "closed" /\ messages = <<>>
  /\ shown = [status |-> "closed", messages |-> <<>>]
  /\ conn = [c \in Requests |-> Unused]
  /\ reader = 0 /\ control = 0 /\ late = <<>>

----------------------------------------------------------------------------
(* The callbacks of the request.  The last message is taken to exist: on an
   empty list the updater throws, and React takes the page down. *)
LastDone(ms) == [ms EXCEPT ![Len(ms)].status = "done"]

\* Mutation of Ended: an error leaves the status to a later answer.
EndedInError(ms, st) ==
  messages' = LastDone(ms) /\ status' = IF st = "error" THEN status ELSE st

\* Mutation of Ended: the last message stays as it is.
EndedUndone(ms, st) == messages' = ms /\ status' = st

\* onClose and onError: the last message is done, the chat is closed or in error.
Ended(ms, st) == messages' = LastDone(ms) /\ status' = st

\* onMessage: what the parser of the model makes of the text so far, and the status.
Parse(kind, raw) ==
  CASE kind = "gpt-oss" -> Gpt(raw)
    [] kind = "qwen"    -> Qwen[raw]
    [] OTHER            -> Parts(<<>>, raw)

\* Mutation of Parsed: only what has come last is parsed.
ParsedLast(m, kind) ==
  LET p == Parse(kind, <<m.raw[Len(m.raw)]>>)
  IN [m EXCEPT !.thinking = @ \o p.thinking, !.content = @ \o p.content,
               !.status = IF p.content = <<>> THEN "thinking" ELSE "generating"]

Parsed(m, kind) ==
  LET p == Parse(kind, m.raw)
  IN [m EXCEPT !.thinking = p.thinking, !.content = p.content,
               !.status = IF p.content = <<>> THEN "thinking" ELSE "generating"]

\* Mutation of WithChunk: every chunk is a message of its own.
WithChunkApart(ms, c, t) == Append(ms, Parsed(Assistant(c, <<t>>), conn[c].model))

\* A chunk extends the last message when that is an assistant's, else it starts one.
Longer(m, t) == [m EXCEPT !.raw = Append(@, t)]
WithChunk(ms, c, t) ==
  IF ms # <<>> /\ ms[Len(ms)].role = "assistant"
  THEN [ms EXCEPT ![Len(ms)] = Parsed(Longer(@, t), conn[c].model)]
  ELSE Append(ms, Parsed(Assistant(c, <<t>>), conn[c].model))

----------------------------------------------------------------------------
(* The user.  An event runs its handler and the callbacks of the handler; React
   then renders what they have set, before the next event. *)
Event == late = <<>>
Rendered == shown' = [status |-> status', messages |-> messages']

Type ==
  /\ Event /\ input = "" /\ input' = "text"
  /\ UNCHANGED <<cluster, status, messages, shown, conn, reader, control, late>>

\* Mutation of Connect: the status follows when the fetch is answered.
ConnectQuietly(c, ms) ==
  /\ conn' = [conn EXCEPT ![c] = [Unused EXCEPT !.phase = "pending", !.model = cluster,
                                                !.asked = Ids(ms)]]
  /\ control' = c /\ messages' = ms /\ UNCHANGED status
  /\ Rendered /\ UNCHANGED <<cluster, reader, late>>

\* connect: a new controller, onOpen at once, the fetch pending.
Connect(c, ms) ==
  /\ conn' = [conn EXCEPT ![c] = [Unused EXCEPT !.phase = "pending", !.model = cluster,
                                                !.asked = Ids(ms)]]
  /\ control' = c /\ messages' = ms /\ status' = "opened"
  /\ Rendered /\ UNCHANGED <<cluster, reader, late>>

\* The conditions of generate, on what is rendered; without an available cluster there
\* is no model either.
MayGenerate(c) ==
  /\ Event /\ conn[c].phase = "unused" /\ \A d \in 1 .. c - 1 : conn[d].phase # "unused"
  /\ cluster # NoCluster /\ shown.status \notin {"opened", "generating"}

\* generate for new input: Enter, or the main button of a closed chat.
Generate ==
  \E c \in Requests :
    /\ MayGenerate(c) /\ input # "" /\ input' = ""
    /\ Connect(c, Append(shown.messages, User(c)))

\* The button is on the answers that are done.
CanRegenerate(m) == m.role = "assistant" /\ m.status = "done"

\* Mutation of Kept: what is asked for again stays above its new answer.
KeptWhole(ms, at) == SubSeq(ms, 1, at)

\* generate for a message: it and what follows it are dropped, a question is kept.
Kept(ms, at) == SubSeq(ms, 1, IF ms[at].role = "user" THEN at ELSE at - 1)

\* The message is found by its id: the first that has it.
Regenerate ==
  \E c \in Requests, k \in DOMAIN shown.messages, at \in DOMAIN shown.messages :
    LET ms == shown.messages
    IN /\ MayGenerate(c) /\ CanRegenerate(ms[k])
       /\ Id(ms[at]) = Id(ms[k]) /\ \A i \in 1 .. at - 1 : Id(ms[i]) # Id(ms[k])
       /\ Connect(c, Kept(ms, at))
       /\ UNCHANGED input

\* disconnect: the held reader is cancelled, so that the pending read says done; the
\* held controller aborts, so that a pending fetch is rejected, with a plain string that
\* is no AbortError; then onClose.
Interrupted == {c \in Requests : \/ c = reader /\ conn[c].phase = "open"
                                 \/ c = control /\ Live(c)}

\* Mutation of Callback: the read hands its own `done` on.
CallbackDone(c) == IF conn[c].phase = "open" THEN "done" ELSE "error"

\* disconnect, what the read or fetch calls back with.
Callback(c) == IF conn[c].phase = "open" THEN "closed" ELSE "error"

Disconnect ==
  /\ conn' = [c \in Requests |-> IF c \in Interrupted
                                 THEN [conn[c] EXCEPT !.phase = "over"] ELSE conn[c]]
  /\ late' = SetToSeq({Callback(c) : c \in Interrupted})
  /\ reader' = 0 /\ control' = 0
  /\ Ended(messages, "closed") /\ Rendered

\* What disables the main button, which sends or stops, and the Clear button.
MainEnabled == cluster # NoCluster /\ shown.status # "opened"
ClearEnabled == shown.status \notin {"opened", "generating"}

\* stop, by the main button of a generating chat.
Stop ==
  /\ Event /\ MainEnabled /\ shown.status = "generating"
  /\ Disconnect /\ UNCHANGED <<cluster, input>>

\* Mutation of Clear: the button is always enabled, and only clears.
ClearAnytime ==
  /\ Event /\ messages' = <<>> /\ UNCHANGED status /\ Rendered
  /\ UNCHANGED <<cluster, input, conn, reader, control, late>>

\* While opened or generating clear would only stop, but its button is disabled then.
Clear ==
  /\ Event /\ ClearEnabled
  /\ messages' = <<>> /\ UNCHANGED status /\ Rendered
  /\ UNCHANGED <<cluster, input, conn, reader, control, late>>

----------------------------------------------------------------------------
(* The browser. *)
Render ==
  /\ Event /\ shown # [status |-> status, messages |-> messages]
  /\ shown' = [status |-> status, messages |-> messages]
  /\ UNCHANGED <<cluster, input, status, messages, conn, reader, control, late>>

\* What is interrupted calls back: done of the read, or the rejection of the fetch.
LateCallback ==
  /\ late # <<>> /\ late' = Tail(late)
  /\ Ended(messages, Head(late))
  /\ UNCHANGED <<cluster, input, shown, conn, reader, control>>

----------------------------------------------------------------------------
(* The network and the server. *)
Respond(c) ==
  /\ Event /\ conn[c].phase = "pending"
  /\ conn' = [conn EXCEPT ![c].phase = "open"] /\ reader' = c
  /\ UNCHANGED <<cluster, input, status, messages, shown, control, late>>

\* Another status or content type, no connection, or one that breaks.
Fail(c) ==
  /\ Event /\ Live(c)
  /\ conn' = [conn EXCEPT ![c].phase = "over"]
  /\ Ended(messages, "error")
  /\ UNCHANGED <<cluster, input, shown, reader, control, late>>

\* A read: a data line, or the first half of one, which waits in the buffer.
\* Lines without content (the first and the last chunk, errors, [DONE]) change nothing.
Deliver(c, t) ==
  /\ messages' = WithChunk(messages, c, t) /\ status' = "generating"
  /\ conn' = [conn EXCEPT ![c].sent = Append(@, t), ![c].half = FALSE]

Received == FoldFunction(LAMBDA f, n : n + Len(f.sent), 0, conn)

Chunk(c) ==
  /\ Event /\ conn[c].phase = "open" /\ Received < MaxTokens
  /\ \/ \E t \in Vocabulary[conn[c].model] : Deliver(c, t)
     \/ /\ ~conn[c].half /\ conn' = [conn EXCEPT ![c].half = TRUE]
        /\ UNCHANGED <<messages, status>>
  /\ UNCHANGED <<cluster, input, shown, reader, control, late>>

\* The body ends; the rest of the buffer is dropped.
Finish(c) ==
  /\ Event /\ conn[c].phase = "open"
  /\ conn' = [conn EXCEPT ![c].phase = "over"]
  /\ Ended(messages, "closed")
  /\ UNCHANGED <<cluster, input, shown, reader, control, late>>

\* The cluster comes, goes, or serves another model.
ClusterChanges ==
  /\ Event /\ cluster' \in (Models \cup {NoCluster}) \ {cluster}
  /\ UNCHANGED <<input, status, messages, shown, conn, reader, control, late>>

Next == \/ Type \/ Generate \/ Regenerate \/ Stop \/ Clear
        \/ Render \/ LateCallback \/ ClusterChanges
        \/ \E c \in Requests : Respond(c) \/ Fail(c) \/ Chunk(c) \/ Finish(c)

Spec == Init /\ [][Next]_vars

\* A server that answers what it is asked and ends what it answers, and a browser that
\* renders.  Nothing is asked of the user.
LiveSpec == /\ Spec /\ WF_vars(LateCallback) /\ WF_vars(Render)
            /\ \A c \in Requests : /\ WF_vars(Respond(c) \/ Fail(c))
                                   /\ WF_vars(Finish(c) \/ Fail(c))

----------------------------------------------------------------------------
(* Properties *)
Messages == [role : {"user", "assistant"}, from : Requests,
             status : {"done", "thinking", "generating"},
             raw : Seq(STRING), thinking : Seq(STRING), content : Seq(STRING)]
Fetches == [phase : {"unused", "pending", "open", "over"}, model : Models \cup {NoCluster},
            sent : Seq(STRING), half : BOOLEAN, asked : Seq({"user", "assistant"} \X Requests)]

\* Type invariant of the chat service.
TypeOK ==
  /\ cluster \in Models \cup {NoCluster} /\ input \in {"", "text"}
  /\ status \in Statuses /\ messages \in Seq(Messages)
  /\ shown \in [status : Statuses, messages : Seq(Messages)]
  /\ conn \in [Requests -> Fetches]
  /\ reader \in 0 .. MaxRequests /\ control \in 0 .. MaxRequests
  /\ late \in Seq({"closed", "error"})

Busy == status \in {"opened", "generating"}

\* The status, set by callbacks, is the state of the network: the chat is opened or
\* generating exactly as long as one request, and no second one, can still deliver to
\* it, and when none can every message is done.
StatusIsConnection ==
  /\ Busy <=> \E c \in Requests : Live(c)
  /\ \A c, d \in Requests : Live(c) /\ Live(d) => c = d
  /\ ~Busy => \A k \in DOMAIN messages : messages[k].status = "done"

\* Handlers read the last render, and generate and clear overwrite the messages with
\* what they read: whenever they may run, the last render shows the present messages,
\* and nothing can still change them.
HandlersReadPresent ==
  Event /\ shown.status \in {"closed", "error"}
    => shown.messages = messages /\ ~Busy

\* The updaters of onClose and onError take the last message apart: as long as a
\* callback can come there is a message, so that none of them throws while rendering.
UpdatersNeverThrow ==
  late # <<>> \/ (\E c \in Requests : Live(c)) => messages # <<>>

\* Each answer is the answer to exactly the conversation displayed above it, and
\* consists of all that its own request has received, in order: whatever was stopped,
\* failed, cleared or asked again before.
AnswersItsConversation ==
  \A k \in DOMAIN messages : messages[k].role = "assistant" =>
    LET m == messages[k]
    IN /\ m.raw = conn[m.from].sent
       /\ Ids(SubSeq(messages, 1, k - 1)) = conn[m.from].asked

\* What is shown as thinking and as the answer is, at every moment of the stream, what a
\* reader who takes the tokens one by one would file there; for thinking tags, if none
\* closes a block that was not opened.
ThinkingApart ==
  \A k \in DOMAIN messages : messages[k].role = "assistant" =>
    LET m == messages[k]
        shows == Parts(m.thinking, m.content)
    IN CASE conn[m.from].model = "gpt-oss" -> shows = ReadAll(ReadChannel, m.raw)
         [] conn[m.from].model = "qwen" ->
              WellTagged(m.raw) => shows = ReadAll(ReadTagged, m.raw)
         [] OTHER -> shows = Parts(<<>>, m.raw)

\* A chat that is busy comes to rest, with a server that answers and ends.
ComesToRest == Busy ~> ~Busy

\* The abstract talk: who speaks, and the words of the answers.
Talk == [k \in DOMAIN messages |-> [who |-> messages[k].role, words |-> messages[k].raw]]

Abstract == INSTANCE Conversation
              WITH talk <- Talk, busy <- Busy, Words <- UNION {Vocabulary[m] : m \in Models}

\* The chat, with its stale handlers, shared reader and repeated callbacks, implements
\* a talk in which one question at a time is answered.
ImplementsConversation == Abstract!ASpec
=============================================================================
