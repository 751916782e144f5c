---------------------------- MODULE SessionStore ----------------------------
(***************************************************************************)
(* The durable session store of the harness, seen from one Run             *)
(* (packages/session-store/src/sqlite-session-store.ts).                   *)
(*                                                                         *)
(* Every public operation of the store is one SQLite transaction, so every *)
(* operation is one action here.  An action is the transaction that        *)
(* writes; a call that ends in a conflict or in an exact replay leaves the *)
(* database alone and is a stuttering step.  The callers are the most      *)
(* general clients: any process may call any operation with any Attempt,   *)
(* any lease token ever issued and any expected sequence.  Modules that    *)
(* model a particular caller extend this one and conjoin its control.      *)
(*                                                                         *)
(* An Attempt is named by its attempt_number.  runs.active_attempt_id and  *)
(* runs.latest_attempt_number are only ever written together and name the  *)
(* same row, so one variable, active, stands for both.                     *)
(*                                                                         *)
(* A lease row keeps the ticks left until expires_at instead of            *)
(* expires_at itself; 0 is the instant of expiry and all later time.       *)
(***************************************************************************)
EXTENDS Integers, Sequences

CONSTANTS
    Batches,        \* event batches the callers pass to appendEvents
    ModelSteps,     \* ids of Provider calls (model_step_id)
    Invocations,    \* reservations of tool calls (reservation_id)
    LeaseTtl,       \* ticks a lease lives without a renewal (ttlMs)
    LegacyPort,     \* TRUE: callers also use the port's retained legacy writes
    MaxAttempts,    \* bound: Attempts of the Run
    MaxEvents,      \* bound: rows of the event log
    MaxTokens,      \* bound: lease tokens issued
    NoStep          \* a snapshot that binds no terminal model step

VARIABLES
    command,        \* run_commands row: status and terminal status
    active,         \* runs.active_attempt_id; 0 before the reservation
    lastSeq,        \* run_attempts.last_event_sequence
    leases,         \* run_leases: one row per Attempt, token 0 is no row
    issued,         \* lease tokens handed out so far (nonces never repeat)
    events,         \* events rows
    steps,          \* model_steps rows
    history,        \* run_snapshot_history and model_step_terminal_results,
                    \* in the order of commit_ordinal
    latest,         \* run_snapshots row: the latest snapshot
    invocations     \* invocations, receipts, bindings and staged derivatives

storeVars == <<command, active, lastSeq, leases, issued, events, steps,
               history, latest, invocations>>

-----------------------------------------------------------------------------
(* Rows *)

Attempts == 1 .. MaxAttempts
Outcomes == {"completed", "blocked", "failed", "cancelled"}
Results == {"succeeded", "failed", "cancelled"}
CommandStatus == {"none", "reserved", "accepted", "dispatched", "terminal"}
PreDispatch == {"reserved", "accepted"}
Unsettled == PreDispatch \cup {"dispatched"}

\* The event kinds the store and its readers tell apart: the two statuses a
\* Run has before its first Provider call, every other status change, private
\* model events, tool cards, and the four terminal events.
TerminalKind(o) == [completed |-> "run_completed", blocked |-> "run_blocked",
                    failed |-> "run_failed", cancelled |-> "run_cancelled"][o]
TerminalKinds == {TerminalKind(o) : o \in Outcomes}
ReceiptKinds == {"tool_result_presented", "verification_updated"}
OrdinaryKinds == {"preparing", "model_streaming", "status", "model",
                  "tool_call_presented"}
Kinds == OrdinaryKinds \cup ReceiptKinds \cup TerminalKinds

Event == [seq : Nat \ {0}, attempt : Attempts, kind : Kinds]
ASSUME BoundsAssumption ==
    /\ Batches \subseteq Seq(Kinds)
    /\ LeaseTtl \in Nat \ {0}
    /\ LegacyPort \in BOOLEAN
    /\ MaxAttempts \in Nat \ {0}
    /\ MaxEvents \in Nat
    /\ MaxTokens \in Nat
    /\ NoStep \notin ModelSteps

\* The rows of the other tables, as far as they are modelled.
CommandRow == [status : CommandStatus, outcome : Outcomes \cup {"none"}]
LeaseRow == [token : Nat, left : 0 .. LeaseTtl]
StepRow == [status : {"none", "started", "terminal", "failed"},
            attempt : 0 .. MaxAttempts]
Snapshot == [step : ModelSteps \cup {NoStep}, attempt : 0 .. MaxAttempts,
             through : Int]
InvocationRow == [status : {"none", "reserved", "executing"} \cup Results,
                  attempt : 0 .. MaxAttempts,
                  staged : BOOLEAN,
                  bound : SUBSET Event]

\* Rows for a batch of events: consecutive sequences after `from`.
NewRows(a, from, kinds) ==
    {[seq |-> from + i, attempt |-> a, kind |-> kinds[i]] : i \in DOMAIN kinds}

\* UNIQUE(run_id, sequence): an INSERT that clashes aborts its transaction.
NoClash(rows) == \A new \in rows : \A old \in events : old.seq # new.seq

\* Mutant: a Command may fall back from dispatched.
CommandEdgesBothWays ==
    {<<"reserved", "accepted">>, <<"dispatched", "accepted">>,
     <<"dispatched", "terminal">>}
\* canTransitionRunCommand; only startModelStep writes dispatched.
CommandEdges == {<<"reserved", "accepted">>, <<"reserved", "terminal">>,
                 <<"accepted", "terminal">>, <<"dispatched", "terminal">>}
CanTransitionRunCommand(from, to) == <<from, to>> \in CommandEdges

-----------------------------------------------------------------------------
(* Guards shared by the operations *)

Exists(a) == a \in 1 .. active
IsActiveAttempt(a) == a = active
Watermark == IF active = 0 THEN 0 ELSE lastSeq[active]
Live(a) == leases[a].left > 0
\* Mutant: a takeover does not look at leases.
LeasesIgnored == TRUE
NoLiveLease == \A a \in Attempts : ~Live(a)

\* Mutant: the token is compared, the expiry is not.
HoldsToken(a, tok) == leases[a].token = tok

\* leaseConflict(run, attempt, token) = null.
HoldsLease(a, tok) == leases[a].token = tok /\ Live(a)

\* Attempt #2 of a Command that never dispatched: its lease can only be
\* replaced by reclaimInitialPreDispatchExecutionAuthority.
IsC2bPristineAttempt(a) ==
    IsActiveAttempt(a) /\ a = 2 /\ command.status \in PreDispatch

\* Mutant: a lease that outlives its ttl.
OverlongLease == [token |-> issued + 1, left |-> LeaseTtl + 1]

NewLease == [token |-> issued + 1, left |-> LeaseTtl]

\* No model step, snapshot, invocation, receipt or staged derivative exists.
NoOutboundHistory ==
    /\ \A m \in ModelSteps : steps[m].status = "none"
    /\ history = <<>>
    /\ latest.through = -1
    /\ \A i \in Invocations : invocations[i].status = "none"

\* The log is what the run loop writes before startModelStep: nothing,
\* preparing, or preparing and model_streaming; a prefix written by Attempt #1
\* may be continued by Attempt #2, and a reserved Command has written nothing.
PreDispatchPrefix(head) ==
    /\ head <= 2
    /\ {e.seq : e \in events} = 1 .. head
    /\ command.status = "reserved" => head = 0
    /\ \A e \in events :
          e.kind = IF e.seq = 1 THEN "preparing" ELSE "model_streaming"
    /\ \A e, f \in events : e.seq < f.seq => e.attempt <= f.attempt

-----------------------------------------------------------------------------
(* Reservation and the Command *)

Init ==
    /\ command = [status |-> "none", outcome |-> "none"]
    /\ active = 0
    /\ lastSeq = [a \in Attempts |-> 0]
    /\ leases = [a \in Attempts |-> [token |-> 0, left |-> 0]]
    /\ issued = 0
    /\ events = {}
    /\ steps = [m \in ModelSteps |-> [status |-> "none", attempt |-> 0]]
    /\ history = <<>>
    /\ latest = [step |-> NoStep, attempt |-> 0, through |-> -1]
    /\ invocations = [i \in Invocations |->
          [status |-> "none", attempt |-> 0, staged |-> FALSE, bound |-> {}]]

\* reserveRunCommand, outcome "owner": Session, Turn, Run, Attempt #1, Command
\* and private input appear together.
ReserveRunCommand ==
    /\ command.status = "none"
    /\ command' = [status |-> "reserved", outcome |-> "none"]
    /\ active' = 1
    /\ UNCHANGED <<lastSeq, leases, issued, events, steps, history, latest,
                   invocations>>

\* transitionRunCommand, outcome "updated".  `dispatched` is refused: only
\* StartModelStep may write it.
TransitionRunCommand(a, tok, expected, next, outcome) ==
    /\ next # "dispatched"
    /\ IsActiveAttempt(a)
    /\ HoldsLease(a, tok)
    /\ command.status = expected
    /\ CanTransitionRunCommand(expected, next)
    /\ command' = [status |-> next, outcome |-> outcome]
    /\ UNCHANGED <<active, lastSeq, leases, issued, events, steps, history,
                   latest, invocations>>

\* settleRunCommandWithTerminalEvent, outcome "settled": the terminal event,
\* the watermark and the Command move together.
SettleRunCommandWithTerminalEvent(a, tok, expected, expectedSeq, outcome) ==
    LET rows == NewRows(a, expectedSeq, <<TerminalKind(outcome)>>) IN
    /\ IsActiveAttempt(a)
    /\ HoldsLease(a, tok)
    /\ command.status = expected
    /\ CanTransitionRunCommand(expected, "terminal")
    /\ lastSeq[a] = expectedSeq
    /\ NoClash(rows)
    /\ expectedSeq < MaxEvents
    /\ events' = events \cup rows
    /\ lastSeq' = [lastSeq EXCEPT ![a] = expectedSeq + 1]
    /\ command' = [status |-> "terminal", outcome |-> outcome]
    /\ UNCHANGED <<active, leases, issued, steps, history, latest, invocations>>

\* Mutant: the new Attempt does not inherit the watermark.
OpenAttemptFromZero(n, watermark) ==
    /\ n \in Attempts
    /\ issued < MaxTokens
    /\ active' = n
    /\ UNCHANGED lastSeq
    /\ leases' = [leases EXCEPT ![n] = NewLease]
    /\ issued' = issued + 1

\* What creating Attempt n with a lease and a starting watermark writes.
OpenAttempt(n, watermark) ==
    /\ n \in Attempts
    /\ issued < MaxTokens
    /\ active' = n
    /\ lastSeq' = [lastSeq EXCEPT ![n] = watermark]
    /\ leases' = [leases EXCEPT ![n] = NewLease]
    /\ issued' = issued + 1

\* recoverAndSettleRunCommandWithTerminalEvent, outcome "settled": a new
\* Attempt, its lease, run_blocked and the terminal Command in one write.
RecoverAndSettleRunCommandWithTerminalEvent(expectedActive, expectedSeq) ==
    LET next == expectedActive + 1
        rows == NewRows(next, expectedSeq, <<TerminalKind("blocked")>>) IN
    /\ active = expectedActive
    /\ active # 0
    /\ NoLiveLease
    /\ command.status = "dispatched"
    /\ lastSeq[active] = expectedSeq
    /\ NoClash(rows)
    /\ expectedSeq < MaxEvents
    /\ OpenAttempt(next, expectedSeq + 1)
    /\ events' = events \cup rows
    /\ command' = [status |-> "terminal", outcome |-> "blocked"]
    /\ UNCHANGED <<steps, history, latest, invocations>>

\* Mutant: any Attempt of a pre-dispatch Command can be taken over.
ClaimFromAnyAttempt(expected, expectedSeq) ==
    /\ active # 0
    /\ command.status = expected
    /\ NoLiveLease
    /\ lastSeq[active] = expectedSeq
    /\ PreDispatchPrefix(expectedSeq)
    /\ OpenAttempt(active + 1, expectedSeq)
    /\ UNCHANGED <<command, events, steps, history, latest, invocations>>

\* claimInitialPreDispatchRunCommandForRecovery, outcome "claimed": Attempt #2
\* takes over a Command that provably never called out.
ClaimInitialPreDispatch(expected, expectedSeq) ==
    /\ expected \in PreDispatch
    /\ active = 1
    /\ command.status = expected
    /\ NoLiveLease
    /\ lastSeq[1] = expectedSeq
    /\ PreDispatchPrefix(expectedSeq)
    /\ \A e \in events : e.attempt = 1
    /\ NoOutboundHistory
    /\ OpenAttempt(2, expectedSeq)
    /\ UNCHANGED <<command, events, steps, history, latest, invocations>>

\* reclaimInitialPreDispatchExecutionAuthority, outcome "reclaimed": the same
\* proof over Attempts #1 and #2; only the lease row of #2 is replaced.
ReclaimInitialPreDispatch(expected, expectedSeq) ==
    /\ expected \in PreDispatch
    /\ active = 2
    /\ command.status = expected
    /\ lastSeq[2] = expectedSeq
    /\ \A e \in events : e.attempt = 1 => e.seq <= lastSeq[1]
    /\ lastSeq[1] # 0 => \E e \in events : e.attempt = 1 /\ e.seq = lastSeq[1]
    /\ PreDispatchPrefix(expectedSeq)
    /\ NoOutboundHistory
    /\ leases[2].token # 0
    /\ NoLiveLease
    /\ issued < MaxTokens
    /\ leases' = [leases EXCEPT ![2] = NewLease]
    /\ issued' = issued + 1
    /\ UNCHANGED <<command, active, lastSeq, events, steps, history, latest,
                   invocations>>

\* createRunAttempt, outcome "created" (legacy port): the next Attempt inherits
\* the watermark of the active one.  It reads no Command.
CreateRunAttempt(expectedActive) ==
    /\ LegacyPort
    /\ active = expectedActive
    /\ active # 0
    /\ ~IsC2bPristineAttempt(active)
    /\ NoLiveLease
    /\ OpenAttempt(active + 1, lastSeq[active])
    /\ UNCHANGED <<command, events, steps, history, latest, invocations>>

-----------------------------------------------------------------------------
(* Leases and time *)

\* acquireLease, outcome "acquired".  Only the row of this Attempt is read.
AcquireLease(a) ==
    /\ a # 0
    /\ IsActiveAttempt(a)
    /\ ~IsC2bPristineAttempt(a)
    /\ ~Live(a)
    /\ issued < MaxTokens
    /\ leases' = [leases EXCEPT ![a] = NewLease]
    /\ issued' = issued + 1
    /\ UNCHANGED <<command, active, lastSeq, events, steps, history, latest,
                   invocations>>

\* renewLease, result true.  It does not ask whether the Attempt is active.
RenewLease(a, tok) ==
    /\ HoldsLease(a, tok)
    /\ leases' = [leases EXCEPT ![a].left = LeaseTtl]
    /\ UNCHANGED <<command, active, lastSeq, issued, events, steps, history,
                   latest, invocations>>

\* The clock moves on: every unexpired lease is one tick closer to its expiry.
Tick ==
    /\ \E a \in Attempts : Live(a)
    /\ leases' = [a \in Attempts |->
          [leases[a] EXCEPT !.left = IF Live(a) THEN leases[a].left - 1 ELSE 0]]
    /\ UNCHANGED <<command, active, lastSeq, issued, events, steps, history,
                   latest, invocations>>

-----------------------------------------------------------------------------
(* The event log *)

\* appendEvents, outcome "appended".  The Attempt must exist and hold its
\* lease; whether it is the active one is not checked.
AppendEvents(a, tok, expectedSeq, kinds) ==
    LET rows == NewRows(a, expectedSeq, kinds) IN
    /\ Exists(a)
    /\ HoldsLease(a, tok)
    /\ lastSeq[a] = expectedSeq
    /\ NoClash(rows)
    /\ expectedSeq + Len(kinds) <= MaxEvents
    /\ events' = events \cup rows
    /\ lastSeq' = [lastSeq EXCEPT ![a] = expectedSeq + Len(kinds)]
    /\ UNCHANGED <<command, active, leases, issued, steps, history, latest,
                   invocations>>

-----------------------------------------------------------------------------
(* Model steps and snapshots *)

\* startModelStep, outcome "started": the permit for one Provider request.
\* The first one moves the Command from accepted to dispatched.
StartModelStep(a, tok, m) ==
    /\ IsActiveAttempt(a)
    /\ steps[m].status = "none"
    /\ HoldsLease(a, tok)
    /\ \A n \in ModelSteps : steps[n].status # "started"
    /\ command.status \in {"accepted", "dispatched"}
    /\ command' = [command EXCEPT !.status = "dispatched"]
    /\ steps' = [steps EXCEPT ![m] = [status |-> "started", attempt |-> a]]
    /\ UNCHANGED <<active, lastSeq, leases, issued, events, history, latest,
                   invocations>>

\* Mutant: a step is failed whoever started it and however it ended.
FinishAnyModelStep(a, tok, m) ==
    /\ IsActiveAttempt(a)
    /\ HoldsLease(a, tok)
    /\ steps[m].status # "none"
    /\ steps' = [steps EXCEPT ![m].status = "failed"]
    /\ UNCHANGED <<command, active, lastSeq, leases, issued, events, history,
                   latest, invocations>>

\* finishModelStep, outcome "committed"; only a failure may end a step here.
FinishModelStep(a, tok, m) ==
    /\ IsActiveAttempt(a)
    /\ HoldsLease(a, tok)
    /\ steps[m] = [status |-> "started", attempt |-> a]
    /\ steps' = [steps EXCEPT ![m].status = "failed"]
    /\ UNCHANGED <<command, active, lastSeq, leases, issued, events, history,
                   latest, invocations>>

\* assertTerminalResultSnapshotInvariant: the newest history record, its
\* terminal step and the latest snapshot are one fact.  Readers throw
\* snapshot_integrity_conflict without it.
SnapshotIntegrity ==
    IF history = <<>>
    THEN latest.step = NoStep
    ELSE /\ latest = history[Len(history)]
         /\ \A k \in DOMAIN history :
               steps[history[k].step].status = "terminal"

\* Mutant: the result is committed, the latest snapshot stays behind.
CommitTerminalWithoutSnapshot(a, tok, m, expectedSeq, through) ==
    /\ through \in 0 .. expectedSeq
    /\ IsActiveAttempt(a)
    /\ HoldsLease(a, tok)
    /\ lastSeq[a] = expectedSeq
    /\ steps[m] = [status |-> "started", attempt |-> a]
    /\ steps' = [steps EXCEPT ![m].status = "terminal"]
    /\ history' = Append(history, [step |-> m, attempt |-> a,
                                   through |-> through])
    /\ UNCHANGED <<command, active, lastSeq, leases, issued, events, latest,
                   invocations>>

\* commitTerminalModelStepResultAndSnapshot, outcome "committed": artifact,
\* checkpoint, history record, result and latest snapshot in one write.
CommitTerminalModelStep(a, tok, m, expectedSeq, through) ==
    LET snapshot == [step |-> m, attempt |-> a, through |-> through] IN
    /\ through \in 0 .. expectedSeq
    /\ IsActiveAttempt(a)
    /\ HoldsLease(a, tok)
    /\ lastSeq[a] = expectedSeq
    /\ steps[m] = [status |-> "started", attempt |-> a]
    /\ SnapshotIntegrity
    /\ latest.through <= through
    /\ steps' = [steps EXCEPT ![m].status = "terminal"]
    /\ history' = Append(history, snapshot)
    /\ latest' = snapshot
    /\ UNCHANGED <<command, active, lastSeq, leases, issued, events,
                   invocations>>

\* writeSnapshot (legacy port): replaces the latest snapshot by one that binds
\* no terminal step.  Neither the active Attempt nor the history is consulted.
WriteSnapshot(a, tok, expectedSeq, through) ==
    /\ LegacyPort
    /\ Exists(a)
    /\ lastSeq[a] = expectedSeq
    /\ through \in 0 .. expectedSeq
    /\ HoldsLease(a, tok)
    /\ latest.through < through
    /\ latest' = [step |-> NoStep, attempt |-> a, through |-> through]
    /\ UNCHANGED <<command, active, lastSeq, leases, issued, events, steps,
                   history, invocations>>

-----------------------------------------------------------------------------
(* Tool invocations and receipts *)

\* reserveInvocation, outcome "owner".
ReserveInvocation(a, tok, i) ==
    /\ Exists(a)
    /\ invocations[i].status = "none"
    /\ HoldsLease(a, tok)
    /\ invocations' = [invocations EXCEPT ![i].status = "reserved",
                                          ![i].attempt = a]
    /\ UNCHANGED <<command, active, lastSeq, leases, issued, events, steps,
                   history, latest>>

\* Mutant: the permit is given whatever became of the reservation.
BeginAnyInvocation(a, tok, i) ==
    /\ IsActiveAttempt(a)
    /\ HoldsLease(a, tok)
    /\ invocations[i].attempt = a
    /\ invocations' = [invocations EXCEPT ![i].status = "executing"]
    /\ UNCHANGED <<command, active, lastSeq, leases, issued, events, steps,
                   history, latest>>

\* beginInvocationExecution, outcome "started": the permit for one Host call.
BeginInvocationExecution(a, tok, i) ==
    /\ IsActiveAttempt(a)
    /\ HoldsLease(a, tok)
    /\ invocations[i].attempt = a
    /\ invocations[i].status = "reserved"
    /\ invocations' = [invocations EXCEPT ![i].status = "executing"]
    /\ UNCHANGED <<command, active, lastSeq, leases, issued, events, steps,
                   history, latest>>

\* stagePublicToolResultDerivative, outcome "staged".
StagePublicToolResultDerivative(a, tok, i) ==
    /\ ~invocations[i].staged
    /\ IsActiveAttempt(a)
    /\ HoldsLease(a, tok)
    /\ invocations[i].attempt = a
    /\ invocations[i].status = "executing"
    /\ invocations' = [invocations EXCEPT ![i].staged = TRUE]
    /\ UNCHANGED <<command, active, lastSeq, leases, issued, events, steps,
                   history, latest>>

\* commitReceipt, outcome "committed" (legacy port): a receipt without public
\* events.
CommitReceipt(a, tok, i, result) ==
    /\ LegacyPort
    /\ invocations[i].attempt = a
    /\ IsActiveAttempt(a)
    /\ HoldsLease(a, tok)
    /\ invocations[i].status = "executing"
    /\ invocations' = [invocations EXCEPT ![i].status = result]
    /\ UNCHANGED <<command, active, lastSeq, leases, issued, events, steps,
                   history, latest>>

\* commitReceiptWithPublicEvents, outcome "committed": the receipt, its one or
\* two public events, their binding and the watermark in one write.  A verified
\* receipt must have succeeded, and its artifact is the staged derivative.
CommitReceiptWithPublicEvents(a, tok, i, result, verified, expectedSeq) ==
    LET kinds == IF verified
                 THEN <<"tool_result_presented", "verification_updated">>
                 ELSE <<"tool_result_presented">>
        rows == NewRows(a, expectedSeq, kinds) IN
    /\ invocations[i].attempt = a
    /\ IsActiveAttempt(a)
    /\ HoldsLease(a, tok)
    /\ invocations[i].status = "executing"
    /\ invocations[i].staged
    /\ lastSeq[a] = expectedSeq
    /\ verified => result = "succeeded"
    /\ NoClash(rows)
    /\ expectedSeq + Len(kinds) <= MaxEvents
    /\ events' = events \cup rows
    /\ lastSeq' = [lastSeq EXCEPT ![a] = expectedSeq + Len(kinds)]
    /\ invocations' = [invocations EXCEPT ![i].status = result,
                                          ![i].bound = rows]
    /\ UNCHANGED <<command, active, leases, issued, steps, history, latest>>

-----------------------------------------------------------------------------
(* The store under its most general clients *)

CommandOperation ==
    \/ ReserveRunCommand
    \/ \E expectedSeq \in 0 .. MaxEvents :
          \/ RecoverAndSettleRunCommandWithTerminalEvent(active, expectedSeq)
          \/ \E expected \in PreDispatch :
                \/ ClaimInitialPreDispatch(expected, expectedSeq)
                \/ ReclaimInitialPreDispatch(expected, expectedSeq)
    \/ CreateRunAttempt(active)

AuthorizedOperation(a, tok) ==
    \/ \E expected \in Unsettled, next \in {"accepted", "terminal"} :
          \E o \in IF next = "terminal" THEN Outcomes ELSE {"none"} :
              TransitionRunCommand(a, tok, expected, next, o)
    \/ \E expected \in Unsettled, seq \in 0 .. MaxEvents, o \in Outcomes :
          SettleRunCommandWithTerminalEvent(a, tok, expected, seq, o)
    \/ RenewLease(a, tok)
    \/ \E seq \in 0 .. MaxEvents, kinds \in Batches :
          AppendEvents(a, tok, seq, kinds)

StepOperation(a, tok) ==
    \/ \E m \in ModelSteps :
          \/ StartModelStep(a, tok, m)
          \/ FinishModelStep(a, tok, m)
          \/ \E seq, through \in 0 .. MaxEvents :
                CommitTerminalModelStep(a, tok, m, seq, through)
    \/ \E seq, through \in 0 .. MaxEvents : WriteSnapshot(a, tok, seq, through)

InvocationOperation(a, tok) ==
    \E i \in Invocations :
        \/ ReserveInvocation(a, tok, i)
        \/ BeginInvocationExecution(a, tok, i)
        \/ StagePublicToolResultDerivative(a, tok, i)
        \/ \E result \in Results :
              \/ CommitReceipt(a, tok, i, result)
              \/ \E verified \in BOOLEAN, seq \in 0 .. MaxEvents :
                    CommitReceiptWithPublicEvents(a, tok, i, result, verified,
                                                  seq)

Next ==
    \/ CommandOperation
    \/ Tick
    \/ \E a \in Attempts :
          \/ AcquireLease(a)
          \/ \E tok \in 1 .. issued :
                \/ AuthorizedOperation(a, tok)
                \/ StepOperation(a, tok)
                \/ InvocationOperation(a, tok)

Spec == Init /\ [][Next]_storeVars

-----------------------------------------------------------------------------
(* Invariants *)

TypeOK ==
    /\ command \in CommandRow
    /\ active \in 0 .. MaxAttempts
    /\ lastSeq \in [Attempts -> Nat]
    /\ leases \in [Attempts -> LeaseRow]
    /\ issued \in Nat
    /\ events \subseteq Event
    /\ steps \in [ModelSteps -> StepRow]
    /\ history \in Seq(Snapshot)
    /\ latest \in Snapshot
    /\ invocations \in [Invocations -> InvocationRow]

\* An unexpired lease belongs to the active Attempt, so the Run has at most one
\* lease owner.  appendEvents, renewLease, reserveInvocation and writeSnapshot
\* never ask whether their Attempt is active: this is all that fences off a
\* superseded worker.
LeaseFencing == \A a \in Attempts : Live(a) => IsActiveAttempt(a)

\* The watermark each writer compares with its expected sequence is the head of
\* a log without gaps or duplicates, across changes of the active Attempt.
\* readEventLogPage answers event_watermark_conflict to every reader otherwise.
LogMatchesWatermark ==
    /\ {e.seq : e \in events} = 1 .. Watermark
    /\ \A e, f \in events : e.seq = f.seq => e = f

\* Attempts write in turn: no event of an older Attempt follows one of a newer.
AttemptsWriteInTurn ==
    \A e, f \in events : e.seq < f.seq => e.attempt <= f.attempt

\* A Command that still looks safe to dispatch has asked no Provider, and a
\* dispatched one has: startModelStep moves both facts in one transaction.
DispatchBoundary ==
    /\ command.status \in {"none"} \cup PreDispatch =>
          \A m \in ModelSteps : steps[m].status = "none"
    /\ command.status = "dispatched" =>
          \E m \in ModelSteps : steps[m].status # "none"

\* A Command that never dispatched is carried by Attempt #1 or #2: repeated
\* crashes of the safe continuation never create Attempt #3.
NoThirdPreDispatchAttempt == command.status \in PreDispatch => active <= 2

\* Each terminal step has exactly one history record, and history never goes
\* back in the event log nor ahead of it.
HistoryMatchesSteps ==
    /\ \A m \in ModelSteps :
          steps[m].status = "terminal" <=>
              \E k \in DOMAIN history : history[k].step = m
    /\ \A j, k \in DOMAIN history :
          /\ history[j].step = history[k].step => j = k
          /\ j < k => history[j].through <= history[k].through
    /\ \A k \in DOMAIN history : history[k].through <= lastSeq[active]

\* A settled invocation, its receipt and its public events are one fact: bound
\* rows are in the log, written by the Attempt that executed the call, and no
\* two receipts share a row.
ReceiptsOwnTheirEvents ==
    \A i \in Invocations :
        /\ invocations[i].status \in Results <=> invocations[i].bound # {}
        /\ \A e \in invocations[i].bound :
              e \in events /\ e.attempt = invocations[i].attempt
        /\ \A j \in Invocations \ {i} :
              invocations[i].bound \cap invocations[j].bound = {}

-----------------------------------------------------------------------------
(* Action properties *)

\* A row appears in the log only under the authority in force: the Attempt that
\* is active after the step and either held the lease before it or took over.
\* Rows never change or disappear, and a terminal Command never changes.
KeepsDurableFacts ==
    /\ events \subseteq events'
    /\ \A e \in events' \ events :
          /\ e.attempt = active'
          /\ active' = active => Live(active)
    /\ command.status = "terminal" => command' = command

DurableFactsAreFinal == [][KeepsDurableFacts]_storeVars

\* What a superseded Attempt left open stays open for good: no later Attempt
\* finishes its Provider call, executes its tool call or writes its receipt.
FreezesSupersededWork ==
    /\ \A m \in ModelSteps :
          steps[m].attempt \in 1 .. active' - 1 => steps'[m] = steps[m]
    /\ \A i \in Invocations :
          invocations[i].attempt \in 1 .. active' - 1 =>
              invocations'[i] = invocations[i]

SupersededWorkIsFrozen == [][FreezesSupersededWork]_storeVars
=============================================================================
