# TLA+ models of meliora-harness

This directory specifies the durable core of the harness and what a user sees
of it: one Run in the SQLite session store, the processes that carry that Run
through Provider and tool calls, crashes and recovery, the sweep of the recovery
coordinator over many Runs, the stream by which a browser page follows one, one
call of the Provider transport, one call of a workspace tool, and the in-memory
store that the contract tests run on.
TLC checks the modules on small instances; TLAPS proves, for every instance, every
safety property that a passing run checks.
Everything is translated from the source at the lines `PROJECT.json` lists under `map`.

## 1. The system and its parts

| Part | Source | State | Operations | Hard because |
|---|---|---|---|---|
| Session store (SQLite) | `packages/session-store/src/sqlite-session-store.ts` | Commands, Runs, Attempts, leases, events, model steps, snapshots, invocations, receipts | one transaction per public method | many callers, stale lease tokens, five ways to open an Attempt, writes over several tables |
| Session store (memory) | `packages/session-store/memory-session-store.ts` | the same in maps | the same port | must agree with SQLite |
| Migrations | `packages/session-store/migrations` | schema | v1 to v5 | old rows get a new meaning |
| Turn command composition | `apps/server/src/turn-command-composition.ts` | local state of a worker | submit, worker, settlements, catch block | everything may happen between two awaits |
| Read-only run loop | `packages/agent-runtime/read-only-run-loop.ts` | status, sequence, budget, current step | `run` | each store call may be refused; external calls cannot be taken back |
| Run state machine | `packages/agent-runtime/run-state.ts` | none | `canTransitionRun` | every path must have a legal end |
| Safe recovery dispatcher | `packages/agent-runtime/safe-recovery-dispatcher.ts` | one read bundle | `dispatchOne` | must prove that nothing went out |
| Recovery coordinator | `packages/agent-runtime/recovery-coordinator.ts` | one read bundle, page cursor | `recoverOnce` | decides by old reads |
| Outcome projection | `packages/agent-runtime/outcome.ts` | none | pure | many combinations |
| HTTP server, SSE, resume | `apps/server/src/server.ts`, `packages/agent-runtime/public-*.ts` | poll cursor | routes, SSE poll, resume snapshot | a log that moves while it is read |
| Provider transport and codecs | `packages/providers` | stream buffers | streaming request | partial answers, errors, limits |
| Tool runtime, workspace host | `packages/tool-runtime`, `packages/workspace-host` | none | action gate, read-only tools | argument checks, confinement |
| Web application | `apps/web/src` | event list, cursor | live adapter, replay | reconnect and merge |
| Start-up, deployment, vendored runtime, fixtures | `apps/server/src/deploy-*.ts` and others, `deploy`, `vendor`, `fixtures` | none that matters | configuration | - |

How they interact. `POST /api/turns` reserves a Command (with its Session, Turn,
Run and Attempt #1) and defers a *worker* on Attempt #1; a repeated POST of a
Command that is not terminal defers another one. The worker takes the lease of
its Attempt and drives the *run loop*, which talks to the store between calls to
the Provider and to the Host of the tools. The *dispatcher* opens Attempt #2 for
a Command that never called out and starts a worker there. The *coordinator*
opens a new Attempt only to write `run_blocked` for a Command whose external
call has an unknown outcome. The store is the only shared state: processes
coordinate through leases, expected sequences and the Command status. The server
streams the log to clients, which stop at the first terminal event.

What makes each part correct:

- *store*: one lease owner per Run; a gapless log with one writer at a time;
  `dispatched` exactly from the first Provider permit on; at most Attempt #2
  before dispatch; steps, history and the latest snapshot agree; a receipt and
  its events are one fact; nobody finishes the work of an earlier Attempt;
- *workers and recovery*: one external call at a time; no rewritten prefix;
  nothing after a terminal event; a terminal Command shows its end; completion
  rests on verified evidence; recovery never overwrites an end; safe work is
  continued and unknown work is closed;
- *sweep*: paging over a changing table misses nobody and starves nobody;
- *stream and page*: each public event once and in order, an end exactly when the
  Run has ended, page and server agree on every cursor, and the end arrives;
- *in-memory store*: its Maps never contradict each other, and every call it accepts is
  one that SQLite accepts;
- *tools*: evidence that was cut says so, the clean sentence is told only of a clean
  worktree, a listing is of the directories it opened unless one is moved away and back
  meanwhile, a search leaves nothing out;
- *Provider call*: an answer is all of a complete stream however it was cut, tool
  calls run with all of their arguments, a failure is called deterministic only if
  the Provider refused, and the call ends.

## 2. Modules

| Module | What it is |
|---|---|
| `SessionStore` | the store as seen from one Run; one action per writing method, under the most general callers |
| `FencedLog` | the abstract promise: a growing log, one epoch in force, authority that lapses, is granted again or passes on |
| `SessionStoreLog` | the refinement mapping, `ImplementsFencedLog` |
| `TurnWorkers` | extends `SessionStore` with the processes of the server: POST workers, dispatchers, coordinators |
| `RecoverySweep` | the coordinator over many Commands: pages, cursor, owner |
| `PublicStream` | a page, its requests and the routes that answer them, over the log of one Run |
| `ProviderCodec` | pure: the decoder of Provider chunks, the credential check, and what the run loop collects |
| `ProviderStream` | extends `ProviderCodec` with one call of the transport: request, reader, timer, abort |
| `MemoryStore` | the in-memory adapter: one action per method over its Maps, write hooks that throw, and the refinement mapping to `SessionStore` |
| `WorkspaceTools` | one call of a read-only tool: arguments, host, git, artifact, projection |
| `SessionStoreProofs` | theorems about the store: types, log, lease and refinement; steps, snapshots and receipts |
| `TurnWorkersProofs` | theorems about the processes: who holds the Run; what they do to the outside and to the log |
| `RecoverySweepProofs`, `PublicStreamProofs`, `ProviderStreamProofs`, `WorkspaceToolsProofs`, `MemoryStoreProofs` | theorems about the sweep, the page, the Provider call, the tool call, the in-memory adapter |
| `FoldLemmas` | lemmas: induction over numbers, and what a fold of the library computes |
| `MCSessionStore`, `MCTurnWorkers`, `MCRecoverySweep`, `MCPublicStream`, `MCProviderStream`, `MCMemoryStore`, `MCWorkspaceTools` | instances for TLC |

`TurnWorkers` extends `SessionStore`, so every write of a worker is an action of
the store. `RecoverySweep` and `PublicStream` stand beside them and take from
them, as facts about a row, what is proved or checked there. `ProviderStream`
opens up what `TurnWorkers` takes for one external call: its verdicts
(`outcome_unknown`, `step_failed`, `step_recorded`) are the branches of
`ProviderReturns`. `WorkspaceTools` opens up the Host call in the same way: its
`succeeded`, `failed` and `cancelled` are the branches of `HostReturns`, whose
`verified` is what `Project` may say. `MemoryStore` is an implementation of
`SessionStore` beside the SQLite one.

### SessionStore

A SQLite transaction is atomic and the store runs on one synchronous
connection, so a method is one action. Calls that end in a conflict or an exact
replay change nothing and are stuttering steps. Next lets any process call any
method with any Attempt, any token ever issued and any expected sequence.

| Variable | Table or column |
|---|---|
| `command` | `run_commands.status`, terminal status |
| `active` | `runs.active_attempt_id` and `latest_attempt_number`, which are only written together |
| `lastSeq` | `run_attempts.last_event_sequence` |
| `leases` | `run_leases`; `left` counts ticks to `expires_at`, 0 is expired for good |
| `issued` | the nonces handed out; a nonce never repeats |
| `events` | `events`, with `UNIQUE(run_id, sequence)` as `NoClash` |
| `steps` | `model_steps` |
| `history`, `latest` | `run_snapshot_history` with `model_step_terminal_results`; `run_snapshots` |
| `invocations` | `invocations`, `receipts`, receipt bindings, staged derivatives |

`LegacyPort` switches on the methods that the port retains but the server no
longer uses for a Command: `createRunAttempt`, `writeSnapshot`, `commitReceipt`.
Event kinds are those a reader in the modelled code tells apart; contents,
hashes and ids are left out.

Time only moves forward. A wall clock set back can revive a lease; that is
outside the model.

### TurnWorkers

`job[j]` is the local state of a process: its place (`pc`), its Attempt and
token, the loop's own `sequence` and `status`, the open step and call, the
remaining budget. One action is one store call with the local code up to the
next call, so that between any two store calls other processes run, the lease
may expire or the server may crash. Three simplifications are made, each because
the pair cannot be told apart by anybody else:

- a lease renewal and the lease-checked call after it are one action, since both
  refuse for the same reason;
- a read whose answer only changes when the reader loses its lease is done in
  the action that uses it;
- the private events of one model step are appended in one action.

The public text of a final answer (`assistant_text_delta`, appended between
`verifying` and the terminal event) is left out: `Verify` goes straight to the end.

A Provider or Host call takes two actions (`asking`, `hosting`), so a lease can
expire while it runs. The Provider may throw, return something ambiguous, reject,
or return a result; the gate may allow, block or fail a call; a tool may succeed,
fail or be cancelled, verified or not. `Crash` returns every process to idle and
keeps the database. With `StoreFaults` a store call may throw without effect, and
each place goes where the code's `try`/`catch` sends it: `StoreFails` follows the
inner handlers (`begin`, `stage`, `receipt` and so on) and the worker's catch
block otherwise.

The Command is left by `settleCommand` (`SettleCommand`, after the terminal event
and in a separate write), `settleOutcomeUnknown` (`SettleOutcomeUnknown`, one
write with `run_blocked`), the catch block (`Catch`, `AppendWorkerFailure`), or
the coordinator (`Block`).

### RecoverySweep

`TurnWorkers` shows what recovery does to one Command; here there are several,
and the question is which of them recovery reaches.

| Variable | Code |
|---|---|
| `command` | per Run: `run_commands.status` and `created_at`, and `work`, what `classifyBundle` would say of it and whether a worker holds the lease |
| `sweep` | the locals of `recoverOnce` (page, cursor, `counts.nextCursor`, pages left) and, between calls, the cursor the owner passes on |
| `unlisted` | history: what was open when the sweep began and has not been listed |
| `faults` | store calls that threw, restarts |

`pending` stands for reserved and accepted, which the coordinator treats alike.
`work = "leave"` covers both answers after which nothing is written, retain and
indeterminate, so a bundle above its limits is a row that stays and is passed
over. `ListPage`, `ReadBundle` and `Settle` are the three store calls;
`ListThrows` returns the counts found so far, `RowThrows` counts a row and goes
on. `Move` is everybody else: a worker dispatches, finishes, loses its lease or
takes it, a dispatcher or another coordinator settles. When it happens between
the bundle and the settlement it may set `moved`, since it may have written what
the settlement's expected sequence and Attempt compare. `Reserve` takes a time
from `Times`, in any order: the clock of the server need not be monotone.
`Restart` loses the cursor, which the code keeps nowhere. One owner is modelled.
The code's server has none of its own: `recoverOnce` is a hook that a deployment
calls with the last `nextCursor`.

### PublicStream

| Variable | Code |
|---|---|
| `log` | the Run's records, each reduced to its class: hidden, public, terminal |
| `client` | `LiveRunState` and the method of `LiveRunController` that runs; `cause` keeps refusals apart that `errorCode` merges |
| `request` | the one request in flight, on both sides: what it asked, how far the server has read, what is on the wire |
| `saved` | the live session in the browser's storage |
| `command` | the POST: none, sent, reserved |

That a row's class is fixed and the log only grows at its head is what
`GaplessLog` and `FactsAreFinal` prove of the store. `authorizePublicStoredEvent`
answers "rejected" for a row it may not show and also when the store throws;
`skip` is the row to which the latter happens in a reading (fault `reject`).

Server: `OpenEvents` validates the cursor, `Poll` reads a page and writes its
events in one action, since nobody can observe the gap within a poll, and
`ServerStops` is a poll whose read throws. `ReadResumePage`, `ResumeLoaded` and
`ResumeRefused` are `readPublicRunResumeSnapshot`, one log page at a time, the
first page fixing the watermark. Page: `Send`, `SubmitAnswered`, `Receive`,
`StreamClosed`, the timer (`AutoReconnect`), the buttons (`UserReconnect`,
`Forget`) and `Reload`. `StreamCancelled` is the continuation of `consume` after
`reader.cancel`, which happens while the page already shows the end.

Left out: heartbeats, framing, payloads and byte sizes (`MaxResponse` counts
events); a second Run in one page; the old stream of a page that was reloaded,
whose answers nobody reads; the phase `connecting`, left by the synchronous code
that enters it; and the branch of `start` for an answer already terminal, since
a new submission has a new key. A 204 is a branch of `OpenEvents` and
`PageAndServerAgree` shows that no page with a cursor of its own gets one; it is
the store's failing authorization that reaches the fallback of `reconnect`.

### MemoryStore

A method of the adapter checks and writes without an await, so it is one action
too; but there is no database under it. What SQLite gets from keys, indexes and
transactions is kept by hand: some facts are in two Maps (`reservations` and
`invocations`; `receipts`, `receiptByReservation` and
`receiptPublicEventBindings`; `modelSteps`, `terminalModelStepResults`, the
history and `artifacts`), the log is an array whose positions must be sequences,
and two methods call test hooks between their writes and put the Maps back in a
`catch` block when one throws. `db` is a record with one field per Map, a method
is an `EXCEPT` over it, and `TerminalWrites` and `ReceiptWrites` list the Maps as
they are before each hook; `RolledBack(partial, restored)` is what a `catch`
block that restores the Maps in `restored` leaves. The recovery methods call
their hook before their first write (`AfterFailedHook`).

`ImplementsSessionStore` maps the Maps to the tables of `SessionStore` (with
`LegacyPort`): events as a set, the history in the order of its ordinals, an
invocation from its reservation, its alias and its binding. The
mapping is proved for every instance, so everything that is proved of
`SessionStore` with its legacy port holds of this adapter, and what a contract test
learns from it is not a feature of the adapter alone. The guards are written
from the adapter's own code, which finds the watermark of a new Attempt
(`LastSequence`), the live lease (`ActiveLeaseForRun`) and the absence of outbound
history (`NoOutboundHistory`) by other means than SQLite. Assumed of the callers:
a receipt id is used once (`FreshReceiptIds`, as the run loop draws them), and so is
an event id: event ids are left out on both sides, where `appendEvents` of the adapter
accepts one that is taken and SQLite refuses it by the primary key of `events`
(`0001_initial.sql:27`). The refinement says nothing of a caller that repeats an id.

### WorkspaceTools

| Variable | Code |
|---|---|
| `fs` | directories, files and links as inodes, the changes so far; as history, which directories had no place yet (`fresh`) and which were given one again (`moved`) |
| `git` | the child process: what it wants to write, how far it is, how it ended |
| `aborted` | the signal of the Run |
| `call` | locals of `execute` and of the host method it awaits; `stack` is the recursion of `#listDirectory` or `#findFiles`, a frame per directory |
| `artifact` | what `writePrivate` stored |

The host awaits its system calls, and between two actions another program may change
the workspace (`Relink`, `Rewrite`, at most `MaxChanges` in a call): any name may get any
inode or none, also one that was removed before, so names are replaced, moved, exchanged
and put back; only that a directory has one name is kept, as in any file system.
`open`, `readdir`, `lstat` and `read` are an action each. Calls that only check are one
action where the last of them compares: `realpath` and `stat` of
`validateDirectoryIdentity`, `stat` of the handle, `realpath` and `stat` of
`readCappedFile` (`VerifyFile`), and the resolution of an argument (`Resolve`). So a name
that is swapped between `realpath` and `stat` is not represented, and no property speaks
of what these checks are for besides identity, that reads stay within the root. An `open`
that follows a link out is taken to fail at once, since the check after it refuses the
directory; `readdir` and `lstat` that follow one find any of `Outside` and any kind.
`handle.read` is taken to fill the buffer if the file has so many bytes: the code takes
the count of a single read for the length of the file, which a short read would make
wrong. Any system call may fail. `git` writes an arbitrary output in
chunks of any size, more chunks may follow `kill`, and it may end with any code.
Text is made of units of one byte and of scalars of two bytes, so that a limit
can fall inside one; the limits of the code (64 KiB, 4 MiB, 32 levels, 20 000
candidates) are constants.

`validateDirectoryIdentity` compares `dev` and `ino` of the name before and after
`readdir` and `lstat`, which go by the name. If a directory is renamed away, another
directory or a link put in its place, read, and the first renamed back before the next
check, nothing differs and the listing shows names or kinds of something else; two
changes suffice. No document or test of the repository promises otherwise, so this is
not a finding but a premise of `ListingReadsWhatItOpened`: it says nothing of a directory
if that directory, or one that was above it when it was opened (`way`), is given a place
again during the call (`fs.moved`). Every other change of the model is covered; a deleted
directory does not lend its inode number to a new one while the host holds it open. `moved`,
`fresh` and `way` guide no step. The path of an
argument has at most `MaxNames` names. Candidates are sorted by path, name by name;
the code compares the paths as strings, which differs only where one name begins
another and goes on with a character below `/`. Left out: UTF-16 and byte order marks, several start paths, confinement of paths to the root other
than by links, and what the projection hides line by line.

### ProviderCodec and ProviderStream

`Decode` is `decodeOpenAiCompatibleChatCompletionChunks` as a fold over the
chunks, one operator per inner function. A chunk carries one choice with one
piece of text or one fragment of a call; pieces are `head`, `tail` (the halves of
the credential) or `other`. `CompletedCalls` and its neighbours are what the run
loop takes from the events.

| Variable | Code |
|---|---|
| `pc` | where `next` awaits: `fetch`, `reader.read()`, `reader.cancel()`, or over |
| `timedOut`, `callerAborted` | `timedOut`, `input.signal.aborted`; either aborts the request |
| `reader` | `chunks`, `seenDone`, `seenTerminal` of `readOpenAiSse` |
| `error` | what was thrown while `reader.cancel()` is awaited; the catch block of `next` looks at timer and caller only after that |
| `status`, `result` | the response, and the event or events `next` returns |
| `heard` | history: the frames decoded |

The Provider is the environment: any status, any frames, any segmentation, a
stall, an end inside a frame (`Eof` with the frame the leftover bytes make), a
broken connection or bytes that are not UTF-8 (`Broken`). A frame that is not
complete only waits in the buffer, so a segment is counted by the frames it
completes. The byte limits are counts of frames; an event over its own limit is
a `Bad` frame. `Read` is not enabled once the request is aborted, since
`raceWithAbort` rejects and the loop looks at the signal before each read. What
the code does with a fragment that comes after the finish of its choice, pass it
on as a delta and leave it out of the arguments, is in `CallsAreWhole`.

## 3. Runs

`SessionStore`, `TurnWorkers` and `PublicStream` look at one Command.
`MaxTokens` counts lease grants; since every expiry and every crash in
`TurnWorkers` needs a token in reserve (`Spare`), it also bounds how often
authority is lost. `CHECK_DEADLOCK FALSE` everywhere: a Command that is terminal
with all tokens used, and a page whose Run has ended with all faults used, have
nothing more to do.

| Run | Instance | Question and answer |
|---|---|---|
| `store_log` | legacy writes on, 1 step or 1 call, 3 Attempts, 2 events, 3 tokens | fencing, log, dispatch boundary, Attempt #2, refinement of `FencedLog`: all hold, with or without the help of the Command |
| `store_work` | 2 steps, 2 calls, 2 Attempts, 3 events | agreement of steps, snapshots and receipts; superseded work stays as it was: all hold |
| `memory_store` | legacy writes on, 1 step or 1 call, 3 Attempts, 2 events, 3 tokens, every hook may throw | the Maps agree, and the adapter implements `SessionStore`: hold |
| `tools` | 2 names in 2 levels, 3 directories, 2 files, 1 link, outputs of at most 5 units, arguments of at most one name, limits of 3 and 4, 2 changes, which is what it takes to replace a name and put it back | evidence says when it was cut, the clean sentence is earned, listings and searches are right: hold |
| `workers_safety` | 2 POSTs, 1 coordinator, 2 steps, 1 call, 3 tokens, any store call may throw | external calls never overlap, completion is earned, recovery keeps an end: all hold |
| `workers_live` | 1 POST that may repeat, dispatcher, coordinator, fairness | safe work continues, open calls are resolved; a terminal Command has its event, the prefix is written once, only a repeated POST follows an end: all hold |
| `workers_replay` | the same without fairness | **violated**: a second terminal event |
| `workers_settle` | the same | **violated**: a Command that stays `dispatched` |
| `recovery_sweep` | 3 Commands, pages of 1, 2 pages a call, 1 fault, fairness | a sweep misses nobody, nobody starves: hold |
| `stream` | 6 records, pages of 2, snapshots of at most 5 records and 3 events, 2 automatic reconnects, 2 faults, fairness | the page sees a prefix of what may be shown, agrees with the server, its ends are exact, and the end reaches it: hold |
| `provider_call` | 7 chunks of 2 calls and 2 choices, streams of 5 frames, reads of at most 2, fairness | answers and calls are those of the stream, no answer after an abort, only refusals fail a step, the call ends: all hold |
| `stream_forget` | 2 records, no faults | **violated**: a reset page loads the Run it left |

Two runs have a `CONSTRAINT` that stops the search behind states with both a
model step and a tool call (`ToolWorkAlone`, `OneKindOfWork`): these two kinds of
work share no table but the log and the lease, and `store_work` has them together.

Why the bounds are enough. *Store*: three Attempts cover a takeover of a
takeover; the proofs cover the rest. The same holds for the in-memory
store, whose runs have one of each id: two receipts or steps of one Run meet only
in `store_work`, and the Maps are keyed by those ids. In `store_work` two steps and two
calls let one be superseded while the other goes on, and let one receipt or
history record follow another. *Workers*: two steps and one call give a tool
round and an answer after it, the budget runs out in some behaviours, and no
behaviour writes more than 14 events, so `MaxEvents` never binds. Three tokens
allow a first worker, its loss, a takeover, its loss and another takeover; the
proofs cover the rest for the safety properties. The
two POSTs of `workers_safety` let two workers of one key run at the same time;
store calls throw there, and not in `workers_live`, where a fault after the end
would break `TerminalCommandHasItsEvent` (see below). The dispatcher together
with throwing store calls is in no run; the theorems whose hypotheses do not
exclude store faults hold there too. *Sweep*: pages of one Command and calls
of two pages make a sweep of three Commands cross both kinds of boundary; two of
the three can have the same millisecond, so both parts of the keyset count, and
one can arrive behind the cursor; the proof covers the rest for
`SweepMissesNobody`. *Stream*: six records are more than a snapshot may read
and make three pages; the end may be first or last in its page, with hidden
records before it and a tail after it. The number of stopped streams does not
exceed that of automatic reconnects (3 in the code): beyond it the page waits
for its user, as it should. Readings in which the authorization of a row fails
are in no run: the theorems of `ViewIsSound` and `EndIsExact` hold for them.
*Tools*: two levels have a directory to enter and one that takes its place; the
three files are text, text that ends in half a scalar under a limit, and bytes
that are not text; the outputs of git are empty, blank, undecodable, and longer
than both limits with a scalar across the smaller one; the proofs cover the rest for
what files and git are said to contain. *Provider call*: five
frames hold two interleaved calls with split arguments, a finish and `[DONE]`, or
one frame too many; reads of two frames put `[DONE]` and what follows it into one
read or two. `MCSymmetry` permutes ids that no property names.

### Fairness

`FairSpec` of `TurnWorkers` assumes that running code goes on (`Running`, one weak fairness per
process), that a lease nobody holds expires, that the owner of the deployment
keeps calling `dispatchOne` and `recoverOnce` (the code exposes both as explicit
lifecycle hooks and starts no timer itself), and that crashes end
(`<>[][~Crash]_vars`). A Provider or Host call that never returns is excluded by
the fairness of `Running`: the Provider transport has a timeout, and the Host's
tools are local reads. For the Host this is an assumption about the machine: the
`timeoutMs` a tool declares is read by nothing, and `git` is started without a
deadline or the caller's signal. Clients owe nothing: a POST may never be repeated. No worker needs to lose a
lease it holds.

`SafeWorkContinues` excepts a log that already shows `run_failed`: a worker of a
repeated POST starts its loop at sequence 0, and when an earlier worker left a
prefix there, its first append is refused and the catch block appends
`run_failed`. If the lease is then lost before the settlement, neither the
dispatcher (the prefix is no longer pristine) nor the coordinator (the Command is
not dispatched) takes the Command.

`RecoverySweep`: the owner keeps calling and running code goes on
(`WF_vars(Recover)`, one process). Commands owe nothing. There are finitely many,
so no sweep is outrun by arrivals; how fast the owner must call when they never
end is listed as an uncovered hazard.

`PublicStream`: the server answers and polls (`WF_vars(Serve)`), the network
delivers and the timer of the page fires (`WF_vars(Page)`). The Run may stop at
any time, a POST may never be accepted, and the user presses nothing.

`ProviderStream`: the transport runs its own code, which includes that
`reader.cancel()` settles, and its timer fires. The Provider and the caller owe
nothing, so `NextSettles` rests on the timer alone.

### What the violations show

- `workers_replay`: the terminal event and `settleCommand` are separate writes. If
  the lease is lost between them and the POST is repeated, the next worker on
  Attempt #1 fails its first append and `appendWorkerFailureEvent` appends
  `run_failed` at the head of the log, after the first end. `recovery-coordinator.ts`
  81-84 takes care of exactly this state; the worker does not. `OnlyARepeatedPostFollowsAnEnd`
  in `workers_live` shows that this is the only way: nobody else ever writes
  after an end.
- `workers_settle`: a rejected Provider request ends its step as failed; a crash
  before the Command is settled leaves `dispatched` with nothing open. The
  coordinator retains it (line 187), the dispatcher wants a pristine prefix, and a
  worker of a repeated POST finds no open step. `PERSISTENCE_AND_EVENTS.md` line 81
  rules out a permanent 202 without an owner.
- `stream_forget`: `stream` returns after the terminal event only when
  `reader.cancel` has settled, and the page shows its buttons before that. If the
  user resets the page in between, `consume` finds a phase that is not terminal,
  takes the end for a 204 and loads the snapshot of the Run that was left, which
  the page then saves again. `apps/web/README.md` line 51 lets only a refresh and
  `event_cursor_conflict` ask for a snapshot.

Five further limits were met without a document that contradicts them. The
legacy `writeSnapshot` (line 1110) refuses snapshots that bind a terminal step
but not those that replace one, after which every reader of the snapshot throws
(`SnapshotIntegrity` fails with `LegacyPort` and one step); the server never
calls it for a Command. When the timer fires while `reader.cancel()` is awaited,
a call that the user cancelled ends as a timeout. When the store throws in
`appendWorkerFailureEvent`, the Command is settled without a terminal event;
with store faults a failed `settleCommand` after a terminal event leads to a
second one in the catch block; and a row whose authorization meets a throwing
store is missing from a stream that has moved its cursor past it, a terminal one
included. `ViewIsAPrefix` is therefore stated for readings that do not fail in
this way, `ViewIsSound` and `EndIsExact` for all.

## 4. Proofs

Proved with TLAPS for every value of the constants, under the assumption of the
module that declares them: `BoundsAssumption` (`SessionStore`, with or without
`LegacyPort`), `WorkersAssumption` (`TurnWorkers`: no legacy writes, since the
server calls none of them for a Command; a positive budget, and an id for each
step it allows), `SweepAssumption` (Runs and times are positive numbers, limits are
numbers, a page and a call have at least one element), `StreamAssumption`
(limits are numbers, pages are not empty), `ToolAssumption` (`WorkspaceTools`: limits
are numbers, files and outputs are text, and `Nothing` is neither an encoding nor
the clean sentence) and `TreeAssumption` (before the call the root is a directory, an
inode is only one of directory, file and link, and a directory has one name, as in any
file system: hard links to directories do not exist, which `Relink` keeps), `CodecAssumption` (`ProviderCodec`: the mark for a chunk
without a finish reason is not a finish reason), `MemoryAssumption` (`MemoryStore`: batches, outcomes and
results are those of the store, limits are numbers, a Run may have an Attempt, and steps, calls and the absence of a
receipt have ids of their own).

Four theorems have a hypothesis of their own. `SnapshotIsHistory` and
`ReceiptsAreWhole` are about a store without the legacy port: `writeSnapshot` and
`commitReceipt` do break what they state. `TerminalCommandsShowTheirEnd` and
`EndsAreFollowedByPostsOnly` are about store calls that do not throw: the last
paragraph of section 3 says how a throwing one breaks them. All others about
`TurnWorkers` hold with throwing store calls.

| Theorem | Statement |
|---|---|
| `TypeCorrect` | `Spec => []TypeOK` |
| `OneLeaseOwner` | `Spec => []LeaseFencing` |
| `GaplessLog` | `Spec => []LogMatchesWatermark` |
| `AttemptsInTurn` | `Spec => []AttemptsWriteInTurn` (in no run; `ImplementsFencedLog` implies it) |
| `FactsAreFinal` | `Spec => DurableFactsAreFinal` |
| `StoreIsFencedLog` | `Spec => ImplementsFencedLog` |
| `DispatchIsHonest` | `Spec => []DispatchBoundary` |
| `TwoPreDispatchAttempts` | `Spec => []NoThirdPreDispatchAttempt` |
| `SupersededStaysFrozen` | `Spec => SupersededWorkIsFrozen` |
| `HistoryIsExact` | `Spec => []HistoryMatchesSteps` |
| `SnapshotIsHistory` | `Spec => []SnapshotIntegrity`, if `~LegacyPort` |
| `ReceiptsAreWhole` | `Spec => []ReceiptsOwnTheirEvents`, if `~LegacyPort` |
| `WorkersAreClients` | `WorkersSpec => Init /\ [][StoreStep]_storeVars` |
| `CallsNeverOverlap` | `WorkersSpec => []ExternalCallsNeverOverlap` |
| `PrefixIsWrittenOnce` | `WorkersSpec => []PrefixWrittenOnce` |
| `RecoveryNeverOverwrites` | `WorkersSpec => RecoveryKeepsTheEnd` |
| `CompletionsAreEarned` | `WorkersSpec => []CompletionIsEarned` |
| `TerminalCommandsShowTheirEnd` | `WorkersSpec => []TerminalCommandHasItsEvent`, if `~StoreFaults` |
| `EndsAreFollowedByPostsOnly` | `WorkersSpec => OnlyARepeatedPostFollowsAnEnd`, if `~StoreFaults` |
| `SweepTypes` | `Spec => []TypeOK` of `RecoverySweep` |
| `NobodyIsMissed` | `Spec => SweepMissesNobody` |
| `StreamTypes` | `Spec => []TypeOK` of `PublicStream` |
| `PageSeesAPrefix` | `Spec => []ViewIsAPrefix` |
| `PageSeesOnlyPublic` | `Spec => []ViewIsSound` |
| `PageEndsExactly` | `Spec => []EndIsExact` |
| `ServerAcceptsThePage` | `Spec => []PageAndServerAgree` |
| `TypesAreKept` | `Spec => []TypeOK` of `ProviderStream` |
| `AnswersMatchTheStream` | `Spec => []AnswerMatchesStream` |
| `CompletedCallsAreWhole` | `Spec => []CallsAreWhole` |
| `AnswersHaveNoCredential` | `Spec => []NothingTakenHasTheCredential` |
| `OnlyRefusalsFailAStep` | `Spec => []StepFailsOnlyIfRefused` |
| `AbortedCallsDoNotAnswer` | `Spec => []NoAnswerAfterAbort` |
| `EvidenceIsWhole` | `Spec => []WholeUnlessTruncated` |
| `CleanIsEarned` | `Spec => []CleanFactIsEarned` |
| `ListingIsOfWhatWasOpened` | `Spec => []ListingReadsWhatItOpened` |
| `SearchesMissNothing` | `Spec => []SearchMissesNothing` |
| `MapsNeverDisagree` | `Spec => []MapsAgree` of `MemoryStore` |
| `MemoryStoreIsSessionStore` | `Spec => ImplementsSessionStore` (the refinement of `SessionStore` by `MemoryStore`) |

*The log.* None of the three log properties is inductive.
`appendEvents` only looks at the lease of its own Attempt, so the log stays
ordered only while no other Attempt has a live lease; a takeover compares
expected sequences with the watermark of the active Attempt, so the watermark
must be the head of the log. `LogInv` joins them: `TypeOK`, a Run that does not
exist has neither events nor leases (`FreshRun`), `LeaseFencing`, and the log is
gapless, ordered by Attempt, and written by no Attempt above the active one.
Instead of one case per method, `LogStep` says the few things a method can do to
authority and log (reserve, grant, let time pass, take over, append, leave
alone); four lemmas show that every operation is a `LogStep`, and one,
`LogInvStep`, that a `LogStep` preserves `LogInv`. `FactsAreFinal` and the
refinement reuse `LogStep`: each of its cases is a step of `FencedLog` or a
stutter, given `LogInv`.

*The work of a Run.* `DispatchBoundary` and `NoThirdPreDispatchAttempt` are
inductive together, given `TypeOK`. `SupersededWorkIsFrozen` speaks of the Attempt written in a
row, so it needs `Unbegun` (a row nobody began names no Attempt) and
`OnlyOwnWorkMoves`: an operation begins a row or goes on with one of the active
Attempt, and it is the takeover, not the work, that changes the Attempt.
`HistoryInv` adds to `HistoryMatchesSteps` that a history begins only with an
Attempt, because the watermark a record is compared with is that of the active
one; it needs the log (`LogGrows`): a takeover must not lower the watermark.
`SnapshotIntegrity` is inductive once the writes of the legacy port are away.
For `ReceiptsOwnTheirEvents` the rows of a receipt are new, hence of no other
receipt: they lie above the watermark and `LogInv` has nothing there.

*The workers.* Everything above is proved of `StoreStep`, not of `Next`: any caller,
any arguments. `WorkersAreClients` shows that each step of a process is one of
them or none, so `LogInv` and `BoundaryInv` hold of the server by the same lemmas.
For the rest, the actions of `TurnWorkers` are sorted into classes by what they
do (`WorkerCases`): a worker waits, goes on, gives up, begins, writes under its
lease, ends the Command. `WorkersInv` says which fields of a worker mean
something at which place (`JobIsSound`), that a lease token is handed out once
(`TokensAreUnique`), and what the holder of the lease knows of ids and budget
(`OwnerIsSound`); the last is needed because the loop takes a fresh step id
wherever its budget allows, without a guard that there is one. From unique tokens follow
`OwnerIsAlone` and `OthersRest`: while a worker holds the lease, nobody else
writes, so an invariant of the form "who holds the lease knows ..." is only to be
checked of the worker that moves. `StepShapes` turns that into two cases, and
each theorem has one more invariant:

- `CallInv` (`ExternalCallsNeverOverlap`): a worker that calls has started a step,
  so the Command is past the point where a second worker is admitted; and while a
  worker in the loop holds the lease, nobody else is still calling, although a
  call outlives the lease it was started under.
- `PrefixInv`: a worker inside the loop has left status `created`; one that enters
  with it expects an empty log.
- `EndInv` (`RecoveryKeepsTheEnd`): a worker in the loop has no end behind it; a
  coordinator that will block has seen none up to the sequence it will compare;
  and no snapshot covers an end (`SnapshotsPrecedeTheEnd`), since the bundle is
  read from the snapshot on.
- `EarnInv` (`CompletionIsEarned`): `verified` has its event at or before the
  worker's sequence, at most one step is open, and between a step and the next
  nothing is open. The converse half, that nothing opens after the completion, is
  `EndInv` again: who opens something holds the lease and knows no end.
- `SettleInv` (`TerminalCommandHasItsEvent`): whoever is about to settle has its
  event in the log, or has been refused the event, which means that it no longer
  holds the lease and will be refused the settlement.
- `PostInv` (`OnlyARepeatedPostFollowsAnEnd`): Attempt #1 belongs to POSTs, and a
  holder of the lease that gives up has seen no end, or has read nothing of the
  Run because it entered on Attempt #1 at sequence 0.

*The sweep.* `SweepMissesNobody` speaks of the end of a sweep only. The invariant
`IInv` of `RecoverySweepProofs` says where the sweep stands on the way: whatever
it still owes (`Owed`, open and unlisted) has a key after `Position`, which is the
owner's cursor between calls, the cursor of the call before a page, and the last
row of the page after it (`Ahead`). It needs that a Command keeps its key and is
dated once reserved (`Dated`), that a complete page leaves nothing owed, and that
a row's key is never null (`Place`): otherwise an unfinished sweep could end with
the cursor of a new one. `PageIsAPrefix` is the fact about the query: what a page
leaves lies after its last row. Commands that are reserved behind the cursor owe
nothing, since they were not open at the beginning.

*The stream.* `ViewIsAPrefix` is not inductive: a page's view is put together by a
snapshot, by streams and by what is on the wire. `IInv` of `PublicStreamProofs`
adds that the wire holds exactly the events between the page's cursor and the
server's, up to the first end (`Complete`), that a snapshot in progress has found
exactly what may be shown up to where it has read, that nothing is ahead of the
log (`Held`), which request goes with which phase (`Shape`), that a snapshot to
confirm an end is only asked for when there is one (`Confirmed`), and that each
refusal has its reason (`Reasons`). There is one lemma per action.

*The Provider call.* `CallInv` adds to the two properties what each place of the
call knows: nothing is read before the response, there is no result before the
end, and what waits for `reader.cancel()` is never a status. `CaughtIsHarmless`
and `HttpCodes` say which codes can come out of the catch block, `FinishKeeps` and
`ThrowKeeps` are the two ways to leave a place.

What an answer says is a fold over the frames, in three stages, and no run bounds
what is proved of it: a stream of any length, any choices and calls. The *reader* has
the frames before the end marker and nothing that could not be read (`ReaderOK`,
kept by each frame of a segment, hence by a segment: `ConsumeKeepsReader`), so its
chunks are `Stream` however the connection cut them. The *decoder*, after each chunk
(`Decoded`), has for every key of a call exactly the name, the arguments and the
completion that the chunks so far give it (`CallsHeard`, `CompletionsHeard`), the
first finish reason (`ReasonHeard`) and the texts (`TextHeard`), and its events show
them (`DecoderOK`: what was emitted joins to the arguments, a completed event has
the arguments shown before it, and there is one per call). That a name may come after
its arguments is `Tidy` and `Shown`: a call without a name has shown nothing, and one
with a name everything. Each operation has a lemma of its own, from `StartFacts` and
`PendingFacts` by `TakeFragmentFacts`, `CompleteCallFacts` and `CompleteChoiceFacts`
to `TakeChunkFacts`. The *loop* collects from the events what the decoder had in its
calls (`WholeCalls`). `TransportInv` puts the three together. For the credential,
what is taken is a beginning of what was checked (`ArgumentsOnlyGrow`,
`LongerHasCredential`): the arguments of a complete call are followed at most by
fragments that came too late for it.

*Folds.* The library defines a fold by choosing a recursive function, and the prover
has no induction over data: its induction theorems take an operator. `FoldLemmas`
gets it from two facts about relations that it does have, that `<` is well founded on
numbers and that a set has a minimal element then (`LeastOf`): a least counterexample
is below a number at which the claim held. So it is shown that the function exists
and that a fold takes the elements of a sequence one by one. What is proved of
`Kept`, `Dispatch` over a segment, `CompleteChoiceToolCalls`, `Decode`, `InodeIn` and
of the lines and files of a search rests on this.

*A tool call.* The artifact is checked when it is there, but it comes to be in
several steps, so `ToolInv` of `WorkspaceToolsProofs` says what each place knows.
While git writes (`GitIsRead`), what was kept is the beginning of what arrived, up to one byte
more than the limit (`Kept`); `KeepingMore` shows that the handler of a piece keeps
it so, however the output was cut into pieces. That one byte is what tells output
that fits from output that does not: `OutputIsABeginning` takes a text through
`outputFromBytes` and `capText` and shows that an output which is not marked as
truncated is the whole source and not longer than the limit, so git was not killed
and `close` came with 0. An output that waits to be written is already `Honest`, and
the clean sentence is what honesty says of an artifact without a byte. Of a listing
or a search `ToolInv` only uses that its answer has no encoding, and of the steps that
lead to it that they go on, fail or answer (`Browses`); what is in these answers is the
matter of the next two invariants.

For `ListingReadsWhatItOpened` the invariant `ListInv` speaks of paths, which other
programs change. What `validateDirectoryIdentity` compares is the inode at a path before
and after a read, so the proof must show where the path may have led elsewhere in
between and come back. A directory has one parent (`OneParent`), so the chain of directories
to it is the only one (`ChainsAgree`); when a directory is opened, this chain is its `way`
(`OpenedIsAnchored`). A later chain down to it along the same path consists of directories
of that `way` (`Anchored`), for a link that is new in it must put a directory of the `way`
at a place, and these have all had one: it would count as moved. Hence, as long as nothing
on the `way` was moved, a path that once leads elsewhere never leads there again
(`RelinkedAnchors`), and what the checks compare decides (`StillThere`). The run allows two
changes in a call, the theorem any number.

For `SearchMissesNothing` the invariant `SearchInv` says, as long as no other program has
changed anything, what each place of the search still owes (`SearchOK`). While
`#findFiles` walks, every file below the path is among the candidates or lies `Ahead` of a
frame of the recursion: below the directory of a frame that is not opened yet, or below a
name that the frame has not taken (`Collecting`). When the last frame is gone, nothing is
ahead, so the candidates are all files (`FoundAllFinds`), and `Sorted` has each once and in
order, because the rank of a path in a set is a number that no other path has
(`SortedHasEach`). While files are read, those left are the ones after the first `m`
(`Remains`), and the matches shown are those of these `m`, or a beginning of them that
meets a limit (`Taken`). `SearchLines`, `MatchesIn` and `AllMatches` are folds; each is
followed element by element as above, and `OneMoreMatch` compares the first two line by
line: a match is shown, or a limit is met and from there on nothing is. A file that is
not text contributes nothing to either side, which is where the proof would fail if such
a file ended the search. With the premises of the property `pread` reads a file whole
(`FileIsReadWhole`). The theorem holds for trees of any shape and depth, while the run has
two levels.

*The in-memory adapter.* `MapsAgree` is not inductive: that one Map follows another is kept
by a method only if the rows it looks at are what their writer left. `MemInv` of
`MemoryStoreProofs` has one part per group of Maps that are written together: the log
(`LogOK`), steps, history and latest snapshot (`StepsOK`), reservations, calls and
receipts (`CallsOK`), the receipt bindings (`BindingOK`) and the artifacts
(`ArtifactsOK`). `Only(Maps)` says that a method leaves all other Maps alone, so each
method is compared with the parts it writes. A method whose hook throws is
`Only({})`: what the `catch` block restores is everything that was written before the
hook (`NothingWritten`), at each of the places where a hook may throw. The log needs
what the lease gives: `appendEvents` takes the next position of an array, and that
position is the next sequence only while no superseded Attempt holds a live lease.

`MemoryStoreIsSessionStore` rests on the same invariant. It has one lemma for each
method (`AppendRefines`, `ClaimRefines`, ...), which shows that the method is the
transaction of the same name under the mapping; a method that is rolled back, or
whose hook throws before its first write, changes no variable of the store
(`NoWriteStutters`). What the two stores compute by different means is shown equal
once: the rows of a batch and that they clash with no row
(`SameBatch`, `RowsDoNotClash`: positions of an array against keys), the absence of
outbound history (`NothingOutInTheTable`), the prefix of a Command that never
dispatched (`PrefixInTheTable`), the history in the order of its
ordinals, which a terminal commit extends by one record (`HistoryGrows`), and the
row of a call from its reservation, its alias and its binding (`RowChanges`). That
SQLite refuses a terminal commit on a broken history needs `IntegrityInTheTable`:
what the adapter asserts implies what the store asserts.

Only model-checked: everything about liveness
(`NobodyStarves`, `EndReachesThePage`, `NextSettles`, `SafeWorkContinues`,
`OpenWorkIsResolved`), which the prover does not reach (no ENABLED, no
fairness). No module here uses RECURSIVE operators.

## 5. Not modelled

- Idempotency keys and scopes of several Commands: `reserveRunCommand` looks for
  the key and inserts in one transaction, so two POSTs of one key meet in one
  row; `workers_safety` starts there.
- `checkOutcomeContract`: the run loop, its only caller outside of tests, passes no
  pending work, its own receipts and verifications, and comes here with at least
  one verification and its evidence (`Verify`), so the check cannot reject.
- `evaluateActionGate`: its only caller passes no grants and risk L0, for which it
  allows; `TurnWorkers` lets the gate block all the same.
- The migrations. Each runs in a transaction that looks at the history again; the
  one that changes rows turns invocations without an execution boundary into
  `outcome_unknown`, which no modelled operation starts from. What is read outside
  of these transactions is listed as a hazard.
- The configuration and request mapping of the Provider transport; `putArtifact`
  and the reads that serve artifacts; sensitive data (what a line may contain).
- Pure I/O, configuration, type declarations, presentation and the vendored
  runtime, which no package imports.

## 6. Plan

Done: the modules and proofs above. Next, in this order:

1. `CommandReservation` and the opening of a database file by several processes.
2. The history a model step sends (`mapMessages`) against what the loop builds.
