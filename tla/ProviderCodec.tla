---------------------------- MODULE ProviderCodec ----------------------------
(***************************************************************************)
(* What the run loop makes of one Provider stream: the decoder turns the   *)
(* chunks of a response into canonical events                              *)
(* (packages/providers/openai-compatible.ts), and the loop collects the    *)
(* answer and its tool calls from them (read-only-run-loop.ts).            *)
(*                                                                         *)
(* A chunk carries one choice, at most one piece of text or one fragment   *)
(* of a tool call, and the finish reason of its choice or "none".  Text    *)
(* and argument fragments are data: the two halves of the Provider         *)
(* credential, or anything else.  Reasoning is a second kind of text.      *)
(* Usage and response ids are left out.                                    *)
(***************************************************************************)
EXTENDS Naturals, Sequences, SequencesExt

CONSTANTS
    ChoiceIndices,      \* choice.index
    CallIndices,        \* tool_calls[].index, within a choice
    Reasons             \* finish reasons

\* "none" stands for a chunk without a finish reason.
ASSUME CodecAssumption == "none" \notin Reasons

Data == {"head", "tail", "other"}
Keys == ChoiceIndices \X CallIndices      \* stateKey

Nothing == [kind |-> "nothing"]
TextPart == [kind : {"text", "reasoning"}, data : Data]
CallPart == [kind : {"call"}, index : CallIndices, named : BOOLEAN,
             data : Data \cup {"none"}]
Chunk == [choice : ChoiceIndices, part : {Nothing} \cup TextPart \cup CallPart,
          reason : Reasons \cup {"none"}]

\* The canonical events: two kinds of text, and a tool call that starts, grows
\* and completes.
Delta(kind, data) == [kind |-> kind, data |-> data]
Started(key) == [kind |-> "started", key |-> key]
Argument(key, data) == [kind |-> "argument", key |-> key, data |-> data]
Completed(key, raw) == [kind |-> "completed", key |-> key, raw |-> raw]
End(reason) == [kind |-> "end", reason |-> reason]
Event == [kind : {"text", "reasoning"}, data : Data]
         \cup [kind : {"started"}, key : Keys]
         \cup [kind : {"argument"}, key : Keys, data : Data]
         \cup [kind : {"completed"}, key : Keys, raw : Seq(Data)]
         \cup [kind : {"end"}, reason : Reasons]

\* The elements of s that belong to S, in their order, and their data.
Kept(s, S) == FoldLeft(LAMBDA kept, e : IF e \in S THEN Append(kept, e) ELSE kept,
                       <<>>, s)
Join(s) == [i \in DOMAIN s |-> s[i].data]

-----------------------------------------------------------------------------
(* decodeOpenAiCompatibleChatCompletionChunks.  The state of the decoder:   *)
(* its tool calls in the order of their first fragment, the events so far,  *)
(* and the first finish reason.                                             *)

Empty == [calls |-> <<>>, events |-> <<>>, reason |-> "none"]

NewCall(key) == [key |-> key, named |-> FALSE, started |-> FALSE, raw |-> <<>>,
                 emitted |-> 0, completed |-> FALSE]

Emit(d, events) == [d EXCEPT !.events = @ \o events]

StartToolCallIfReady(d, i) ==
    IF d.calls[i].started \/ ~d.calls[i].named THEN d
    ELSE Emit([d EXCEPT !.calls[i].started = TRUE], <<Started(d.calls[i].key)>>)

EmitPendingArgumentDeltas(d, i) ==
    LET c == d.calls[i] IN
    IF ~c.started THEN d
    ELSE Emit([d EXCEPT !.calls[i].emitted = Len(c.raw)],
              [j \in 1 .. Len(c.raw) - c.emitted |->
                  Argument(c.key, c.raw[c.emitted + j])])

\* One call, when a finish reason of its choice arrives.
CompleteCall(d, i) ==
    LET e == EmitPendingArgumentDeltas(StartToolCallIfReady(d, i), i) IN
    IF d.calls[i].completed \/ ~e.calls[i].started THEN d
    ELSE Emit([e EXCEPT !.calls[i].completed = TRUE],
              <<Completed(e.calls[i].key, e.calls[i].raw)>>)

CompleteChoiceToolCalls(d, choice) ==
    FoldLeft(LAMBDA e, i : IF e.calls[i].key[1] = choice THEN CompleteCall(e, i)
                           ELSE e,
             d, [i \in DOMAIN d.calls |-> i])

\* Mutant: a fragment that comes before the name of its call is lost.
TakeNamedFragment(d, choice, part) ==
    LET key == <<choice, part.index>>
        known == \E i \in DOMAIN d.calls : d.calls[i].key = key
        e == IF known \/ ~part.named THEN d
             ELSE [d EXCEPT !.calls = Append(@, [NewCall(key) EXCEPT !.named = TRUE])]
        i == CHOOSE n \in DOMAIN e.calls : e.calls[n].key = key
        arguments == IF part.data = "none" THEN <<>> ELSE <<part.data>>
        f == [StartToolCallIfReady(e, i) EXCEPT !.calls[i].raw = @ \o arguments]
    IN  IF known \/ part.named THEN EmitPendingArgumentDeltas(f, i) ELSE d

\* One element of delta.tool_calls.
TakeFragment(d, choice, part) ==
    LET key == <<choice, part.index>>
        known == \E i \in DOMAIN d.calls : d.calls[i].key = key
        e == IF known THEN d ELSE [d EXCEPT !.calls = Append(@, NewCall(key))]
        i == CHOOSE n \in DOMAIN e.calls : e.calls[n].key = key
        f == StartToolCallIfReady([e EXCEPT !.calls[i].named = @ \/ part.named],
                                  i)
        arguments == IF part.data = "none" THEN <<>> ELSE <<part.data>>
    IN  EmitPendingArgumentDeltas([f EXCEPT !.calls[i].raw = @ \o arguments], i)

TakePart(d, choice, part) ==
    IF part = Nothing THEN d
    ELSE IF part.kind = "call" THEN TakeFragment(d, choice, part)
    ELSE Emit(d, <<Delta(part.kind, part.data)>>)

TakeChunk(d, chunk) ==
    LET e == TakePart(d, chunk.choice, chunk.part) IN
    IF chunk.reason = "none" THEN e
    ELSE [CompleteChoiceToolCalls(e, chunk.choice) EXCEPT
             !.reason = IF @ = "none" THEN chunk.reason ELSE @]

Decode(chunks) ==
    LET d == FoldLeft(TakeChunk, Empty, chunks) IN
    IF d.reason = "none" THEN d.events ELSE Append(d.events, End(d.reason))

-----------------------------------------------------------------------------
(* containsCredentialEcho *)

OfKind(events, kinds) == Kept(events, {e \in Event : e.kind \in kinds})
ArgumentsOf(events, key) ==
    Join(Kept(events, {e \in Event : e.kind = "argument" /\ e.key = key}))

\* The credential is its first half followed at once by its second half.
HasCredential(data) ==
    \E i \in 1 .. Len(data) - 1 : data[i] = "head" /\ data[i + 1] = "tail"

CallsOf(events) == {events[i].key : i \in
    {n \in DOMAIN events : events[n].kind \in {"started", "argument"}}}

\* Mutant: only the events as they come are joined.
ContainsAdjacentEcho(events) ==
    \/ \E i \in DOMAIN events :
          events[i].kind = "completed" /\ HasCredential(events[i].raw)
    \/ HasCredential(Join(OfKind(events, {"text", "reasoning", "argument"})))

ContainsCredentialEcho(events) ==
    \/ \E i \in DOMAIN events :
          events[i].kind = "completed" /\ HasCredential(events[i].raw)
    \/ \E kinds \in {{"text"}, {"reasoning"}, {"text", "reasoning", "argument"}} :
          HasCredential(Join(OfKind(events, kinds)))
    \/ \E key \in CallsOf(events) :
          HasCredential(ArgumentsOf(events, key))

-----------------------------------------------------------------------------
(* What the loop collects *)

AssistantContent(events) == Join(OfKind(events, {"text"}))
PrivateReasoning(events) == Join(OfKind(events, {"reasoning"}))

\* A completed call counts if a started event has its invocation id.
CompletedCalls(events) ==
    Kept(events, {c \in Event : /\ c.kind = "completed"
                                /\ \E i \in DOMAIN events :
                                      events[i] = Started(c.key)})

FinishReason(events) ==
    LET ends == OfKind(events, {"end"}) IN
    IF ends = <<>> THEN "none" ELSE ends[Len(ends)].reason
=============================================================================
