---------------------------- MODULE PublicStream ----------------------------
(***************************************************************************)
(* How a browser page follows one Run: the public log of the Run, the      *)
(* routes that serve it (apps/server/src/server.ts) and the live           *)
(* controller of the page with its reducer (apps/web/src/live-adapter.ts,  *)
(* live-state.ts, main.tsx).                                               *)
(*                                                                         *)
(* The log only grows, without gaps and without changing a row: theorems   *)
(* GaplessLog and FactsAreFinal of SessionStoreProofs.  Whether a row may  *)
(* be shown is therefore a fact about the row, its class:                  *)
(*                                                                         *)
(*   "hidden"    private, or not decodable, or not authorized: skipped     *)
(*   "public"    shown, and the Run goes on                                *)
(*   "terminal"  shown, and the stream ends here                           *)
(*                                                                         *)
(* A request is in one place at a time: the page waits for its answer.     *)
(* The phase "connecting" is left in the synchronous code that enters it,  *)
(* so no state of this module shows it.                                    *)
(***************************************************************************)
EXTENDS Naturals, Sequences, FiniteSets

CONSTANTS
    MaxLog,         \* bound: records of the Run
    PageSize,       \* PUBLIC_RESUME_PAGE_SIZE
    StreamPage,     \* limit of one readEvents of the stream
    MaxSource,      \* MAX_PUBLIC_RESUME_SOURCE_EVENTS
    MaxResponse,    \* MAX_PUBLIC_RESUME_RESPONSE_BYTES, in public events
    AutoReconnects, \* automatic reconnects of one page
    Tails,          \* TRUE: records may follow a terminal event
    Faults,         \* what may go wrong: "stop", "lost", "reject", "reload"
    MaxFaults       \* bound: how often

VARIABLES
    command,    \* the POST: "none", "sent", "reserved"
    log,        \* classes of the Run's records, by sequence
    saved,      \* the browser's live session: "none", "pending", "run"
    client,     \* LiveRunState of the page, and what its controller does
    request,    \* the request in flight, on both sides
    faults      \* how much went wrong

vars == <<command, log, saved, client, request, faults>>

ASSUME StreamAssumption ==
    /\ MaxLog \in Nat
    /\ PageSize \in Nat \ {0}
    /\ StreamPage \in Nat \ {0}
    /\ MaxSource \in Nat
    /\ MaxResponse \in Nat
    /\ AutoReconnects \in Nat
    /\ Tails \in BOOLEAN
    /\ Faults \subseteq {"stop", "lost", "reject", "reload"}
    /\ MaxFaults \in Nat

Classes == {"hidden", "public", "terminal"}

Least(m, n) == IF m <= n THEN m ELSE n

(***************************************************************************)
(* What the server shows of the log.  authorizePublicStoredEvent answers   *)
(* "rejected" also when the store throws: skip holds the record that this  *)
(* happens to in one reading, if any.                                      *)
(***************************************************************************)

\* decodeAndAuthorizePublicEvent, on the records after from and up to to.
Visible(from, to) == {s \in (from + 1) .. to : log[s] # "hidden"}

\* Mutant: the decoder's answer is not looked at.
ShownUndecoded(from, to, skip) == ((from + 1) .. to) \ skip

Shown(from, to, skip) == Visible(from, to) \ skip

\* isTerminalPublicEvent.
IsTerminal(s) == log[s] = "terminal"
Ended == \E s \in 1 .. Len(log) : IsTerminal(s)

\* emitEvents: it stops after the first terminal event that it shows.
Emitted(from, to, skip) ==
    {s \in Shown(from, to, skip) :
        \A t \in Shown(from, to, skip) : t < s => ~IsTerminal(t)}

\* validatePublicCursor.
CursorAnswer(sequence, skip) ==
    IF sequence = 0 THEN "origin"
    ELSE IF sequence \notin Shown(0, Len(log), skip) THEN "invalid"
    ELSE IF ~IsTerminal(sequence) THEN "event"
    ELSE IF sequence = Len(log) THEN "terminal_complete"
    ELSE "terminal_tail"

(***************************************************************************)
(* The page.  seen and cursor are events and cursor of LiveRunState, known *)
(* says that its identity is set; op is the controller method that runs,   *)
(* "fallback" and "confirm" being the resumes inside reconnect and         *)
(* consume.  cause tells refusals apart that errorCode merges.             *)
(***************************************************************************)
Phases == {"idle", "submitting", "resuming", "live", "disconnected",
           "terminal", "error"}
Operations == {"none", "start", "restore", "reconnect", "fallback", "confirm"}
Causes == {"none", "network", "unknown_outcome", "event_cursor_conflict",
           "invalid_public_event", "snapshot_conflict", "too_large",
           "no_terminal_event"}

Clients ==
    [phase : Phases, known : BOOLEAN, seen : SUBSET Nat, cursor : Nat,
     reconnects : Nat, op : Operations, cause : Causes]

NewClient ==
    [phase |-> "idle", known |-> FALSE, seen |-> {}, cursor |-> 0,
     reconnects |-> 0, op |-> "none", cause |-> "none"]

\* asked is the Last-Event-ID; the server has read the log up to upto, a
\* snapshot wants it through the watermark and has found its events; wire
\* is what a stream has sent and the page not yet received.  "closing" is a
\* stream whose end the page has shown, while it waits for reader.cancel.
Requests ==
    [kind : {"none", "post", "events", "stream", "closing", "resume"},
     asked : Nat, upto : Nat, through : Nat, found : SUBSET Nat,
     wire : SUBSET Nat, ended : BOOLEAN]

Nothing == [kind |-> "none", asked |-> 0, upto |-> 0, through |-> 0,
            found |-> {}, wire |-> {}, ended |-> FALSE]
Post == [Nothing EXCEPT !.kind = "post"]
GetEvents(sequence) == [Nothing EXCEPT !.kind = "events", !.asked = sequence]
GetResume == [Nothing EXCEPT !.kind = "resume"]
Closing == [Nothing EXCEPT !.kind = "closing"]

\* Mutant: the first read starts after the record that follows the cursor.
StreamFromNext(sequence) ==
    [Nothing EXCEPT !.kind = "stream", !.upto = sequence + 1]

Stream(sequence) == [Nothing EXCEPT !.kind = "stream", !.upto = sequence]

TypeOK ==
    /\ command \in {"none", "sent", "reserved"}
    /\ log \in Seq(Classes)
    /\ saved \in {"none", "pending", "run"}
    /\ client \in Clients
    /\ request \in Requests
    /\ faults \in Nat

Init ==
    /\ command = "none"
    /\ log = <<>>
    /\ saved = "none"
    /\ client = NewClient
    /\ request = Nothing
    /\ faults = 0

\* The catch blocks of start, restore and reconnect.
Failed(cause) == [client EXCEPT !.phase = "error", !.cause = cause]

\* One more fault of a kind.
Fault(kind) ==
    /\ kind \in Faults
    /\ faults < MaxFaults
    /\ faults' = faults + 1

\* A reading of some records may fail to authorize one of them.
Skips(from, to) ==
    {{}} \cup IF "reject" \in Faults /\ faults < MaxFaults
              THEN {{s} : s \in Visible(from, to)}
              ELSE {}
Count(skip) == faults' = IF skip = {} THEN faults ELSE faults + 1

(***************************************************************************)
(* The Run, and the POST that starts it.                                   *)
(***************************************************************************)

\* The store appends a record.
AppendRecord(class) ==
    /\ command = "reserved"
    /\ Len(log) < MaxLog
    /\ Tails \/ ~Ended
    /\ log' = Append(log, class)
    /\ UNCHANGED <<command, saved, client, request, faults>>

\* send of main.tsx, then start: the marker is saved before the POST.
Send ==
    /\ client.phase = "idle"
    /\ command = "none"
    /\ command' = "sent"
    /\ saved' = "pending"
    /\ client' = [NewClient EXCEPT !.phase = "submitting", !.op = "start"]
    /\ request' = Post
    /\ UNCHANGED <<log, faults>>

\* submitTurnCommand reserves the Command, whether or not the page waits.
AcceptPost ==
    /\ command = "sent"
    /\ command' = "reserved"
    /\ UNCHANGED <<log, saved, client, request, faults>>

\* consume: stream_opened, then the request with the cursor of the page.
Consume(page) ==
    /\ client' = [page EXCEPT !.phase = "live"]
    /\ request' = GetEvents(page.cursor)

\* command_accepted; the page saves the Run as soon as it knows it.
SubmitAnswered ==
    /\ request.kind = "post"
    /\ command = "reserved"
    /\ saved' = "run"
    /\ Consume([client EXCEPT !.known = TRUE])
    /\ UNCHANGED <<command, log, faults>>

(***************************************************************************)
(* GET /api/runs/:runId/events.                                            *)
(***************************************************************************)

\* The answer to the cursor, and what consume and reconnect make of it.
OpenEvents(skip) ==
    LET answer == CursorAnswer(request.asked, skip)
        opened == answer \in {"origin", "event"}
        resumes == \/ answer = "terminal_complete"
                   \/ ~opened /\ client.op = "reconnect"
    IN  /\ request.kind = "events"
        /\ request' = IF opened THEN Stream(request.asked)
                      ELSE IF resumes THEN GetResume ELSE Nothing
        /\ client' = IF opened THEN client
                     ELSE IF resumes
                     THEN [client EXCEPT !.phase = "resuming",
                              !.op = IF answer = "terminal_complete"
                                     THEN "confirm" ELSE "fallback"]
                     ELSE Failed("event_cursor_conflict")
        /\ Count(skip)
        /\ UNCHANGED <<command, log, saved>>

\* Mutant: the cursor only moves past records that are shown.
PollLastShown ==
    IF Visible(request.upto, Least(request.upto + StreamPage, Len(log))) = {}
    THEN request.upto ELSE Least(request.upto + StreamPage, Len(log))

\* The first read of the stream, or a poll: one page, shown up to the end.
PollLast == Least(request.upto + StreamPage, Len(log))
Poll(skip) ==
    /\ request.kind = "stream" /\ ~request.ended
    /\ request.upto < Len(log)
    /\ request' = [request EXCEPT !.upto = PollLast,
          !.wire = @ \cup Emitted(request.upto, PollLast, skip),
          !.ended = \E t \in Shown(request.upto, PollLast, skip) :
                        IsTerminal(t)]
    /\ Count(skip)
    /\ UNCHANGED <<command, log, saved, client>>

\* A store call of a poll throws: the server ends the response.
ServerStops ==
    /\ request.kind = "stream" /\ ~request.ended
    /\ request' = [request EXCEPT !.ended = TRUE]
    /\ Fault("stop")
    /\ UNCHANGED <<command, log, saved, client>>

\* stream and event_received: the next event on the wire, in order.
Receive ==
    \E s \in request.wire :
        LET drifts == s < client.cursor
            ends == s > client.cursor /\ IsTerminal(s)
        IN  /\ request.kind = "stream"
            /\ \A t \in request.wire : s <= t
            /\ client' = IF drifts THEN Failed("invalid_public_event")
                         ELSE IF s = client.cursor THEN client
                         ELSE [client EXCEPT !.seen = @ \cup {s}, !.cursor = s,
                                  !.phase = IF ends THEN "terminal" ELSE @]
            /\ request' = IF drifts THEN Nothing
                          ELSE IF ends THEN Closing
                          ELSE [request EXCEPT !.wire = @ \ {s}]
            /\ UNCHANGED <<command, log, saved, faults>>

\* consume goes on when reader.cancel settles; if the user has reset the page
\* meanwhile, it takes the end for a 204 and asks for the snapshot.
StreamCancelled ==
    /\ request.kind = "closing"
    /\ IF client.phase = "terminal"
       THEN request' = Nothing /\ client' = client
       ELSE /\ request' = GetResume
            /\ client' = [client EXCEPT !.phase = "resuming",
                             !.op = "confirm"]
    /\ UNCHANGED <<command, log, saved, faults>>

\* Mutant: a stream that closes is taken for the end of the Run.
StreamClosedAsEnd ==
    /\ request.kind = "stream" /\ request.ended /\ request.wire = {}
    /\ client' = [client EXCEPT !.phase = "terminal"]
    /\ request' = Nothing
    /\ UNCHANGED <<command, log, saved, faults>>

\* stream_closed.
StreamClosed ==
    /\ request.kind = "stream" /\ request.ended /\ request.wire = {}
    /\ client' = [client EXCEPT !.phase = "disconnected"]
    /\ request' = Nothing
    /\ UNCHANGED <<command, log, saved, faults>>

(***************************************************************************)
(* GET /api/runs/:runId/resume.                                            *)
(***************************************************************************)

\* One page: the first one fixes the watermark.
ResumeThrough == IF request.upto = 0 THEN Len(log) ELSE request.through
ResumeLast == Least(request.upto + PageSize, ResumeThrough)
ResumePage(skip) ==
    [request EXCEPT !.upto = ResumeLast, !.through = ResumeThrough,
        !.found = @ \cup Shown(request.upto, ResumeLast, skip)]

\* terminalSeen: a record follows the first terminal event.
TailSeen(read) == \E t \in read.found : IsTerminal(t) /\ t < read.upto

\* readPublicRunResumeSnapshot, after the page it has just read.
ResumeVerdict(read) ==
    IF read.upto > MaxSource THEN "too_large"
    ELSE IF TailSeen(read) THEN "snapshot_conflict"
    ELSE IF read.upto < read.through THEN "more"
    ELSE IF Cardinality(read.found) > MaxResponse THEN "too_large"
    ELSE "found"

\* Mutant: the watermark is taken for the resume point.
IsWatermark(read, s) == s = read.through

\* resumePoint: the last public event, not the watermark.
IsResumePoint(read, s) ==
    IF read.found = {} THEN s = 0
    ELSE s \in read.found /\ \A t \in read.found : t <= s

ReadResumePage(skip) ==
    /\ request.kind = "resume"
    /\ ResumeVerdict(ResumePage(skip)) = "more"
    /\ request' = ResumePage(skip)
    /\ Count(skip)
    /\ UNCHANGED <<command, log, saved, client>>

\* resume_loaded; restore and reconnect go on with consume, while consume
\* itself only asked to confirm an end.
ResumeLoaded(skip) ==
    \E point \in 0 .. Len(log) :
        LET read == ResumePage(skip)
            ends == point # 0 /\ IsTerminal(point)
            loaded == [client EXCEPT !.known = TRUE, !.seen = read.found,
                          !.cursor = point, !.cause = "none"]
        IN  /\ request.kind = "resume"
            /\ ResumeVerdict(read) = "found"
            /\ IsResumePoint(read, point)
            /\ saved' = "run"
            /\ IF ~ends /\ client.op # "confirm" THEN Consume(loaded)
               ELSE /\ request' = Nothing
                    /\ client' = IF ends
                                 THEN [loaded EXCEPT !.phase = "terminal"]
                                 ELSE [loaded EXCEPT !.phase = "error",
                                          !.cause = "no_terminal_event"]
            /\ Count(skip)
            /\ UNCHANGED <<command, log>>

ResumeRefused(skip) ==
    LET verdict == ResumeVerdict(ResumePage(skip))
    IN  /\ request.kind = "resume"
        /\ verdict \in {"too_large", "snapshot_conflict"}
        /\ client' = Failed(verdict)
        /\ request' = Nothing
        /\ Count(skip)
        /\ UNCHANGED <<command, log, saved>>

(***************************************************************************)
(* The network, and the user.                                              *)
(***************************************************************************)

\* fetch or the body reader throws, or the server answers 500.
RequestLost ==
    /\ request.kind \notin {"none", "closing"}
    /\ client' = Failed("network")
    /\ request' = Nothing
    /\ Fault("lost")
    /\ UNCHANGED <<command, log, saved>>

\* reconnect.
Reconnect ==
    /\ Consume([client EXCEPT !.op = "reconnect", !.cause = "none",
                   !.reconnects = Least(@ + 1, AutoReconnects)])
    /\ UNCHANGED <<command, log, saved, faults>>

\* The timer of the page.
AutoReconnect ==
    /\ client.phase = "disconnected"
    /\ client.reconnects < AutoReconnects
    /\ Reconnect

\* The button of the page.
UserReconnect ==
    /\ client.phase \in {"disconnected", "error"}
    /\ client.known
    /\ Reconnect

\* A new page: its controller starts from what the browser has saved.
Reload ==
    /\ Fault("reload")
    /\ client' = CASE saved = "none" -> NewClient
                   [] saved = "pending" ->
                        [NewClient EXCEPT !.phase = "error",
                            !.cause = "unknown_outcome"]
                   [] saved = "run" ->
                        [NewClient EXCEPT !.phase = "resuming",
                            !.op = "restore"]
    /\ request' = IF saved = "run" THEN GetResume ELSE Nothing
    /\ UNCHANGED <<command, log, saved>>

\* resetLiveTask and the buttons that unlock a submission or forget a Run.
Forget ==
    /\ client.phase \in {"error", "terminal"}
    /\ saved' = "none"
    /\ client' = NewClient
    /\ UNCHANGED <<command, log, request, faults>>

Serve ==
    \/ \E skip \in Skips(0, request.asked) : OpenEvents(skip)
    \/ \E skip \in Skips(request.upto, PollLast) : Poll(skip)
    \/ \E skip \in Skips(request.upto, ResumeLast) :
          \/ ReadResumePage(skip)
          \/ ResumeLoaded(skip)
          \/ ResumeRefused(skip)

Page ==
    \/ SubmitAnswered
    \/ Receive
    \/ StreamCancelled
    \/ StreamClosed
    \/ AutoReconnect

Next ==
    \/ \E class \in Classes : AppendRecord(class)
    \/ Send
    \/ AcceptPost
    \/ Serve
    \/ Page
    \/ ServerStops
    \/ RequestLost
    \/ UserReconnect
    \/ Reload
    \/ Forget

Spec == Init /\ [][Next]_vars

\* The server answers, the network delivers, the timer fires.  Nothing is
\* assumed of the Run, of the POST and of the user.
FairSpec == Spec /\ WF_vars(Serve) /\ WF_vars(Page)

(***************************************************************************)
(* Properties.                                                             *)
(***************************************************************************)

\* The page has every public event up to its cursor and none after the first
\* terminal one, however the snapshot, the pages of a growing log, the wire
\* and reconnects were interleaved.  A reading whose authorization fails on
\* a store error is the one exception.
ViewIsAPrefix ==
    "reject" \notin Faults =>
        /\ client.seen = Visible(0, client.cursor)
        /\ \A t \in client.seen : IsTerminal(t) => t = client.cursor

\* Whatever fails, the page shows only records that may be shown, and its
\* cursor is the last of them.
ViewIsSound ==
    /\ client.seen \subseteq Visible(0, client.cursor)
    /\ client.cursor # 0 => client.cursor \in client.seen

\* The page says that the Run has ended exactly when the last event it shows
\* is a terminal one: a stream that just closes is not an end.
EndIsExact ==
    client.phase = "terminal" <=>
        client.cursor # 0 /\ IsTerminal(client.cursor)

\* The server accepts every cursor a page presents, no event on the wire is
\* older than the cursor, a snapshot that was asked to confirm an end has it,
\* and a refused snapshot has its reason in the log.
PageAndServerAgree ==
    /\ request.kind = "events" =>
          CursorAnswer(request.asked, {}) \in {"origin", "event"}
    /\ client.cause # "invalid_public_event"
    /\ "reject" \notin Faults => client.cause # "no_terminal_event"
    /\ client.cause = "snapshot_conflict" =>
          \E t \in 1 .. Len(log) : IsTerminal(t) /\ t < Len(log)
    /\ client.cause = "too_large" =>
          \/ Len(log) > MaxSource
          \/ Cardinality(Visible(0, Len(log))) > MaxResponse

\* Without help of the user, a page that knows its Run does not wait for ever
\* once the Run has ended: across reloads, streams that the server stops and
\* pages of the log without a public event it shows the end.  Only a lost
\* request, and a log that a snapshot may not show, leave an error instead.
EndReachesThePage ==
    Ended /\ saved = "run"
        ~> \/ client.phase = "terminal"
           \/ client.cause \in {"network", "too_large", "snapshot_conflict"}
           \/ saved # "run"

\* apps/web/README.md, line 51: a refresh first asks for /resume, a lost
\* connection goes on from the cursor, and "only event_cursor_conflict" falls
\* back to the snapshot.
OnlyConflictsResume ==
    [][client'.phase = "resuming" /\ client.phase # "resuming"
          => client'.op \in {"restore", "fallback"}]_vars

=============================================================================
