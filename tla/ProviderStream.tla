--------------------------- MODULE ProviderStream ---------------------------
(***************************************************************************)
(* One call of the Provider transport, next                                *)
(* (packages/providers/openai-compatible-transport.ts): the request, the   *)
(* SSE reader, its timer and the abort signal of the caller, and the event *)
(* the call ends with (packages/providers/errors.ts).                      *)
(*                                                                         *)
(* The environment is the Provider and its connection: it answers with any *)
(* status, sends any frames in segments of any length, stalls, closes in   *)
(* the middle of a frame or breaks.  A frame is a chunk, [DONE], or bytes  *)
(* that no chunk can be made of (bad JSON, an event over its limit); bytes *)
(* of a frame that is not complete stay in the buffer, and comments and    *)
(* empty segments change nothing.  Lengths are counted in frames.          *)
(*                                                                         *)
(* One action is what runs between two awaits.                             *)
(***************************************************************************)
EXTENDS ProviderCodec

CONSTANTS
    Frames,             \* the chunks the Provider may send
    MaxSegment,         \* frames that may arrive in one read
    MaxStream           \* maxResponseBytes, maxStreamBytes

VARIABLES
    pc,                 \* "fetch", "read", "cancel" or "done"
    timedOut,           \* the timer has fired
    callerAborted,      \* input.signal.aborted
    status,             \* of the response
    reader,             \* the chunks read and what is known of them
    error,              \* what was thrown while reader.cancel() is awaited
    result,             \* what next returns
    heard               \* history: the frames the reader has decoded

vars == <<pc, timedOut, callerAborted, status, reader, error, result, heard>>

ASSUME TransportAssumption ==
    /\ Frames \subseteq Chunk
    /\ MaxSegment \in Nat \ {0} /\ MaxStream \in Nat \ {0}

Done == [kind |-> "done"]
Bad == [kind |-> "bad"]
Wire == Frames \cup {Done, Bad}
Segments == UNION {[1 .. n -> Wire] : n \in 1 .. MaxSegment}

\* The bytes of one incomplete frame, or none.
Rests == {<<>>} \cup [1 .. 1 -> Wire]

Statuses == {"ok", "not_a_stream", "401", "429", "5xx", "other"}

\* request.signal.aborted: both the timer and the caller abort the request.
Aborted == timedOut \/ callerAborted

-----------------------------------------------------------------------------
(* The end of the call *)

Answer(events) == [kind |-> "answer", events |-> events, code |-> "none"]
Failure(code) == [kind |-> "failed", events |-> <<>>, code |-> code]
Cancelled == [kind |-> "cancelled", events |-> <<End("cancelled")>>,
              code |-> "none"]
Pending == [kind |-> "pending", events |-> <<>>, code |-> "none"]

\* Mutant: an overloaded Provider is taken for a rate limit.
OverloadedCode(s) ==
    CASE s = "401" -> "provider_authentication_failed"
      [] s \in {"429", "5xx"} -> "provider_rate_limited"
      [] OTHER -> "provider_request_failed"

HttpCode(s) ==
    CASE s = "401" -> "provider_authentication_failed"
      [] s = "429" -> "provider_rate_limited"
      [] s = "5xx" -> "provider_unavailable"
      [] OTHER -> "provider_request_failed"

\* classifyOpenAiCompatibleProviderFailure.
Classify(kind, s) ==
    CASE kind = "timeout" -> "provider_timeout"
      [] kind = "malformed_stream" -> "provider_malformed_stream"
      [] kind = "transport" -> "provider_unavailable"
      [] kind = "http" -> HttpCode(s)

\* The catch block of next: what it returns for a thrown value.
Caught(thrown, s) ==
    IF ~timedOut /\ callerAborted THEN Cancelled
    ELSE IF thrown \in {"http", "malformed_stream"}
    THEN Failure(Classify(thrown, s))
    ELSE Failure(Classify(IF timedOut THEN "timeout" ELSE "transport", s))

\* After readOpenAiSse has returned these chunks.
Returned(chunks) ==
    LET events == Decode(chunks) IN
    IF ContainsCredentialEcho(events)
    THEN Failure(Classify("malformed_stream", status))
    ELSE Answer(events)

Finish(r) ==
    /\ pc' = "done"
    /\ result' = r
    /\ error' = "none"
    /\ UNCHANGED <<timedOut, callerAborted>>

\* A throw inside the read loop awaits reader.cancel() first.
ThrowInLoop(thrown) ==
    /\ pc' = "cancel"
    /\ error' = thrown
    /\ UNCHANGED <<timedOut, callerAborted, result>>

-----------------------------------------------------------------------------
(* readOpenAiSse *)

Unread == [chunks |-> <<>>, done |-> FALSE, terminal |-> FALSE, bad |-> FALSE]

\* Mutant: [DONE] alone ends a stream successfully.
DispatchDone(r, frame) ==
    IF r.bad THEN r
    ELSE IF frame = Done THEN [r EXCEPT !.done = TRUE, !.terminal = TRUE]
    ELSE IF r.done \/ frame = Bad THEN [r EXCEPT !.bad = TRUE]
    ELSE [r EXCEPT !.chunks = Append(@, frame),
                   !.terminal = @ \/ frame.reason # "none"]

\* dispatch: one complete frame.
Dispatch(r, frame) ==
    IF r.bad THEN r
    ELSE IF frame = Done THEN [r EXCEPT !.done = TRUE]
    ELSE IF r.done \/ frame = Bad THEN [r EXCEPT !.bad = TRUE]
    ELSE [r EXCEPT !.chunks = Append(@, frame),
                   !.terminal = @ \/ frame.reason # "none"]

OverLimit(segment) == Len(heard) + Len(segment) > MaxStream
Consume(segment) == FoldLeft(Dispatch, reader, segment)

Hear(segment) ==
    /\ IF OverLimit(segment) THEN UNCHANGED <<heard, reader>>
       ELSE /\ heard' = heard \o segment
            /\ reader' = Consume(segment)
    /\ UNCHANGED status

\* The loop after reader.read() has resolved with these frames.
TakeSegment(segment) ==
    LET r == Consume(segment) IN
    /\ Hear(segment)
    /\ \/ /\ OverLimit(segment) \/ r.bad \/ (r.done /\ ~r.terminal)
          /\ ThrowInLoop("malformed_stream")
       \/ /\ ~OverLimit(segment) /\ ~r.bad /\ r.done /\ r.terminal
          /\ Finish(Returned(r.chunks))
       \/ /\ ~OverLimit(segment) /\ ~r.bad /\ ~r.done
          /\ UNCHANGED <<pc, timedOut, callerAborted, error, result>>

\* Mutant: a read that settles after the abort still counts.
ReadLate(segment) == pc = "read" /\ TakeSegment(segment)

Read(segment) == pc = "read" /\ ~Aborted /\ TakeSegment(segment)

\* The connection is closed; the bytes left in the buffer make the frames of
\* rest, a frame without its blank line or nothing.
Eof(rest) ==
    LET r == Consume(rest) IN
    /\ pc = "read" /\ ~Aborted
    /\ Hear(rest)
    /\ \/ /\ OverLimit(rest) \/ r.bad
          /\ ThrowInLoop("malformed_stream")
       \/ /\ ~OverLimit(rest) /\ ~r.bad /\ ~r.terminal
          /\ Finish(Caught("malformed_stream", status))
       \/ /\ ~OverLimit(rest) /\ ~r.bad /\ r.terminal
          /\ Finish(Returned(r.chunks))

\* The read fails, or the bytes are not UTF-8.
Broken ==
    /\ pc = "read" /\ ~Aborted
    /\ ThrowInLoop("transport")
    /\ UNCHANGED <<status, reader, heard>>

\* The read loses the race against the abort of the request.
AbortRead ==
    /\ pc = "read" /\ Aborted
    /\ ThrowInLoop("abort")
    /\ UNCHANGED <<status, reader, heard>>

\* Mutant: the error is lost while the reader is cancelled.
CancelQuietly ==
    /\ pc = "cancel"
    /\ Finish(result)
    /\ UNCHANGED <<status, reader, heard>>

\* reader.cancel() has settled: the error reaches the catch block of next.
CancelReader ==
    /\ pc = "cancel"
    /\ Finish(Caught(error, status))
    /\ UNCHANGED <<status, reader, heard>>

-----------------------------------------------------------------------------
(* next *)

Respond(s) ==
    /\ pc = "fetch" /\ ~Aborted
    /\ status' = s
    /\ UNCHANGED <<reader, heard>>
    /\ \/ /\ s = "ok"
          /\ pc' = "read"
          /\ UNCHANGED <<timedOut, callerAborted, error, result>>
       \/ s = "not_a_stream" /\ Finish(Caught("malformed_stream", s))
       \/ s \in {"401", "429", "5xx", "other"} /\ Finish(Caught("http", s))

\* fetch rejects: refused, unreachable, redirected.
Unreachable ==
    /\ pc = "fetch" /\ ~Aborted
    /\ Finish(Caught("transport", status))
    /\ UNCHANGED <<status, reader, heard>>

\* Mutant: the fetch is awaited without the race against the abort.
AbortFetchNever == FALSE

\* The signal was aborted before the request, or the fetch loses the race.
AbortFetch ==
    /\ pc = "fetch" /\ Aborted
    /\ Finish(Caught("abort", status))
    /\ UNCHANGED <<status, reader, heard>>

TimerFires ==
    /\ pc # "done" /\ ~timedOut
    /\ timedOut' = TRUE
    /\ UNCHANGED <<pc, callerAborted, status, reader, error, result, heard>>

CallerAborts ==
    /\ pc # "done" /\ ~callerAborted
    /\ callerAborted' = TRUE
    /\ UNCHANGED <<pc, timedOut, status, reader, error, result, heard>>
-----------------------------------------------------------------------------

Init ==
    /\ pc = "fetch"
    /\ timedOut = FALSE
    /\ callerAborted \in BOOLEAN
    /\ status = "none"
    /\ reader = Unread
    /\ error = "none"
    /\ result = Pending
    /\ heard = <<>>

Next ==
    \/ \E s \in Statuses : Respond(s)
    \/ Unreachable
    \/ AbortFetch
    \/ \E segment \in Segments : Read(segment)
    \/ \E rest \in Rests : Eof(rest)
    \/ Broken
    \/ AbortRead
    \/ CancelReader
    \/ TimerFires
    \/ CallerAborts

Spec == Init /\ [][Next]_vars

\* The transport runs its own code and its timer fires; the Provider and the
\* caller owe nothing.
FairSpec ==
    /\ Spec
    /\ WF_vars(AbortFetch \/ AbortRead \/ CancelReader)
    /\ WF_vars(TimerFires)

-----------------------------------------------------------------------------
(* What the loop does with the result: the failed event of next, or the     *)
(* collected answer.                                                        *)

DeterministicFailures == {"provider_authentication_failed",
                          "provider_rate_limited"}

Verdict ==
    CASE result.kind = "pending" -> "none"
      [] result.kind = "failed" ->
            IF result.code \in DeterministicFailures THEN "step_failed"
            ELSE "outcome_unknown"
      [] OTHER -> "step_recorded"

-----------------------------------------------------------------------------
(* Properties *)

\* The variables keep their types, and the call has a result when it is over.
TypeOK ==
    /\ pc \in {"fetch", "read", "cancel", "done"}
    /\ timedOut \in BOOLEAN /\ callerAborted \in BOOLEAN
    /\ status \in Statuses \cup {"none"}
    /\ reader.chunks \in Seq(Frames)
    /\ error \in {"none", "malformed_stream", "transport", "abort"}
    /\ heard \in Seq(Wire)
    /\ (pc = "done") = (result.kind # "pending")

\* The frames of the stream itself: those before its end marker.
Stream ==
    IF \E i \in DOMAIN heard : heard[i] = Done
    THEN SubSeq(heard, 1, CHOOSE n \in 0 .. Len(heard) - 1 :
            heard[n + 1] = Done /\ \A j \in 1 .. n : heard[j] # Done)
    ELSE heard

Answered == result.kind = "answer"

TextOf(chunks, kind) ==
    Join(Kept([i \in DOMAIN chunks |-> chunks[i].part],
              {part \in TextPart : part.kind = kind}))
Finishes(chunks, choices) ==
    {i \in DOMAIN chunks : chunks[i].choice \in choices /\ chunks[i].reason # "none"}

\* An answer is the stream of the Provider and nothing else, however the
\* connection cut it into segments: no frame that could not be read, nothing
\* over the limit, at least one finish reason, all of the text in its order,
\* and the first reason given.
AnswerMatchesStream ==
    Answered =>
        /\ \A i \in DOMAIN heard : heard[i] # Bad
        /\ Len(heard) <= MaxStream
        /\ AssistantContent(result.events) = TextOf(Stream, "text")
        /\ PrivateReasoning(result.events) = TextOf(Stream, "reasoning")
        /\ \E i \in Finishes(Stream, ChoiceIndices) :
              /\ \A j \in Finishes(Stream, ChoiceIndices) : i <= j
              /\ FinishReason(result.events) = Stream[i].reason

\* The fragments of a tool call in the stream, and the frames at which the call
\* is complete: the finishes of its choice at which its name is known.
FragmentsOf(chunks, key) ==
    {i \in DOMAIN chunks : /\ chunks[i].part.kind = "call"
                           /\ <<chunks[i].choice, chunks[i].part.index>> = key}
CompleteAt(chunks, key) ==
    {i \in Finishes(chunks, {key[1]}) :
        \E j \in FragmentsOf(chunks, key) : j <= i /\ chunks[j].part.named}
ArgumentsUpTo(chunks, key, end) ==
    Join(Kept([i \in 1 .. end |-> IF i \in FragmentsOf(chunks, key)
                                  THEN chunks[i].part ELSE Nothing],
              {part \in CallPart : part.data # "none"}))

\* The loop executes exactly the calls that the Provider named and finished,
\* each once, with all the arguments sent until then, in whatever order names,
\* arguments and other calls were interleaved; and the deltas shown before a
\* completed call are its arguments.
CallsAreWhole ==
    Answered =>
        LET calls == CompletedCalls(result.events)
            Whole(key) == CHOOSE i \in CompleteAt(Stream, key) :
                              \A j \in CompleteAt(Stream, key) : i <= j
        IN  /\ {calls[i] : i \in DOMAIN calls} =
                   {Completed(key, ArgumentsUpTo(Stream, key, Whole(key))) :
                       key \in {k \in Keys : CompleteAt(Stream, k) # {}}}
            /\ \A i, j \in DOMAIN calls : calls[i].key = calls[j].key => i = j
            /\ \A i \in DOMAIN result.events :
                  result.events[i].kind = "completed" =>
                     result.events[i].raw =
                        ArgumentsOf(SubSeq(result.events, 1, i),
                                    result.events[i].key)

\* Nothing the loop takes from an answer contains the credential, in one
\* fragment or across several, with fragments of other calls between them.
NothingTakenHasTheCredential ==
    Answered =>
        /\ ~HasCredential(TextOf(Stream, "text"))
        /\ ~HasCredential(TextOf(Stream, "reasoning"))
        /\ \A key \in Keys : \A i \in CompleteAt(Stream, key) :
              ~HasCredential(ArgumentsUpTo(Stream, key, i))

\* A model step is recorded as failed, with nothing unknown about it, only if
\* the Provider refused the request before it did any work.
StepFailsOnlyIfRefused ==
    Verdict = "step_failed" => status \in {"401", "429"} /\ heard = <<>>

\* Once the timer has fired or the caller has aborted, no answer is delivered,
\* whatever arrives while the call unwinds.
NoAnswerAfterAbort == Answered => ~timedOut /\ ~callerAborted

\* The call ends although the Provider may stall for ever.
NextSettles == <>(pc = "done")
=============================================================================
