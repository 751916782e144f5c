----------------------------- MODULE MemoryStore -----------------------------
(***************************************************************************)
(* The in-memory adapter of the session store, seen from one Run           *)
(* (packages/session-store/memory-session-store.ts): the same port as      *)
(* SessionStore without a database under it.  What SQLite gets from keys,  *)
(* indexes and transactions is here a set of JavaScript Maps that each     *)
(* method keeps in step by hand, an array for the event log, and catch     *)
(* blocks that put back what was written before a failure.                 *)
(*                                                                         *)
(* db has one field for each Map (or group of Maps written together).  A   *)
(* method runs without an await between its checks and its writes, so it   *)
(* is one action; the injectable write hooks may throw between two of its  *)
(* writes.  Calls that end in a conflict or an exact replay write nothing. *)
(***************************************************************************)
EXTENDS Integers, FiniteSets, SequencesExt

CONSTANTS
    Batches,        \* event batches the callers pass to appendEvents
    ModelSteps,     \* ids of Provider calls, and of their result artifacts
    SnapshotIds,    \* ids of the snapshots that bind a terminal step
    Invocations,    \* tool calls: idempotency key, reservation and derivative
    ReceiptIds,     \* ids the callers give their receipts
    TerminalStatuses, \* terminal statuses the callers settle with
    ReceiptStatuses,  \* statuses the callers' receipts have
    LeaseTtl,       \* ticks a lease lives without a renewal (ttlMs)
    MaxAttempts,    \* bound: Attempts of the Run
    MaxEvents,      \* bound: rows of the event log
    MaxTokens,      \* bound: lease tokens given to callers
    NoStep, NoReceipt   \* absent ids

VARIABLES
    db,             \* the Maps
    leaseSequence   \* lease tokens given to callers so far

memVars == <<db, leaseSequence>>

Attempts == 1 .. MaxAttempts
PreDispatch == {"reserved", "accepted"}

\* run_${terminalStatus}
TerminalKind(o) == [completed |-> "run_completed", blocked |-> "run_blocked",
                    failed |-> "run_failed", cancelled |-> "run_cancelled"][o]

-----------------------------------------------------------------------------
(* Helpers of the class *)

Absent == [status |-> "none", attempt |-> 0]
NoSnapshot == [id |-> NoStep, step |-> NoStep, attempt |-> 0, through |-> -1]
NoBinding == [receipt |-> NoReceipt, expected |-> 0, events |-> <<>>]

Exists(a) == a \in 1 .. db.active
IsActive(a) == a = db.active

\* isExpired: left is expiresAt less the clock, as far as it is positive; an
\* absent lease has none left.
IsExpired(a) == db.leases[a].left = 0

\* activeLeaseForRun: it looks through the leases of every Attempt.
ActiveLeaseForRun == \E a \in Attempts : ~IsExpired(a)

\* leaseConflict(run, attempt, token) = null.
HoldsLease(a, tok) == db.leases[a].token = tok /\ ~IsExpired(a)

\* newLease.  A token is only ever compared for equality, so those that a
\* failed hook draws and loses are not counted.
NewLease == [token |-> leaseSequence + 1, left |-> LeaseTtl]
HandToken == leaseSequence < MaxTokens /\ leaseSequence' = leaseSequence + 1

IsC2bPristineAttempt(a) ==
    IsActive(a) /\ a = 2 /\ db.commands.status \in PreDispatch

CanSettle(from) == from \in {"reserved", "accepted", "dispatched"}

\* toStoredEvent over a batch.
Stored(a, from, kinds) ==
    [k \in DOMAIN kinds |-> [seq |-> from + k, attempt |-> a, kind |-> kinds[k]]]

\* The sequence of the last element of the array, 0 without one.
LastSequence == IF db.events = <<>> THEN 0 ELSE db.events[Len(db.events)].seq

\* hasOnlyInitialPreDispatchPrefix; writers are the Attempts that may have
\* written it, the older one first.
HasOnlyPreDispatchPrefix(writers, status, expectedSeq) ==
    LET Prefix == <<"preparing", "model_streaming">> IN
    /\ Len(db.events) = expectedSeq
    /\ Len(db.events) <= Len(Prefix)
    /\ status = "reserved" => db.events = <<>>
    /\ \A k \in DOMAIN db.events :
          /\ db.events[k].seq = k
          /\ db.events[k].kind = Prefix[k]
          /\ db.events[k].attempt \in writers
          /\ k > 1 => db.events[k - 1].attempt <= db.events[k].attempt

\* No Map holds a trace of a Provider or tool call of this Run.
NoOutboundHistory ==
    /\ \A m \in ModelSteps : db.modelSteps[m] = Absent
    /\ db.snapshots = NoSnapshot
    /\ \A s \in SnapshotIds : db.terminalSnapshotHistory[s].ordinal = 0
    /\ \A m \in ModelSteps : db.terminalModelStepResults[m].ordinal = 0
    /\ \A i \in Invocations : db.invocations[i] = Absent
    /\ \A r \in ReceiptIds : db.receipts[r] = Absent
    /\ \A i \in Invocations : db.receiptPublicEventBindings[i] = NoBinding
    /\ db.staged = {}

Histories == {s \in SnapshotIds : db.terminalSnapshotHistory[s].ordinal > 0}
Rows == {m \in ModelSteps : db.terminalModelStepResults[m].ordinal > 0}

\* assertTerminalResultSnapshotInvariant does not throw: result rows, history,
\* checkpoints, artifacts and the latest snapshot tell one story.
TerminalResultSnapshotInvariant ==
    /\ Cardinality(Rows) = Cardinality(Histories)
    /\ Rows = {} => db.snapshots.step = NoStep
    /\ \A m \in Rows :
          LET row == db.terminalModelStepResults[m]
              record == db.terminalSnapshotHistory[row.snapshotId] IN
          /\ record.ordinal = row.ordinal
          /\ record.snapshot.step = m
          /\ record.snapshot.through = row.through
          /\ db.modelSteps[m] = [status |-> "terminal",
                                 attempt |-> record.snapshot.attempt]
          /\ m \in db.artifacts
    /\ \A s, t \in Histories :
          db.terminalSnapshotHistory[s].ordinal
              = db.terminalSnapshotHistory[t].ordinal => s = t
    /\ \A s \in Histories :
          (\A t \in Histories : db.terminalSnapshotHistory[t].ordinal
                                  <= db.terminalSnapshotHistory[s].ordinal)
              => db.snapshots = db.terminalSnapshotHistory[s].snapshot

-----------------------------------------------------------------------------
(* Reservation and the Command *)

Init ==
    /\ db = [commands |-> [status |-> "none", outcome |-> "none"],
             active |-> 0,
             attempts |-> [a \in Attempts |-> 0],
             events |-> <<>>,
             leases |-> [a \in Attempts |-> [token |-> 0, left |-> 0]],
             modelSteps |-> [m \in ModelSteps |-> Absent],
             snapshots |-> NoSnapshot,
             terminalSnapshotHistory |->
                 [s \in SnapshotIds |-> [snapshot |-> NoSnapshot, ordinal |-> 0]],
             terminalModelStepResults |->
                 [m \in ModelSteps |->
                     [snapshotId |-> NoStep, ordinal |-> 0, through |-> 0]],
             artifacts |-> {},
             reservations |-> [i \in Invocations |-> Absent],
             invocations |-> [i \in Invocations |-> Absent],
             receipts |-> [r \in ReceiptIds |-> Absent],
             receiptByReservation |-> [i \in Invocations |-> NoReceipt],
             receiptPublicEventBindings |-> [i \in Invocations |-> NoBinding],
             staged |-> {}]
    /\ leaseSequence = 0

\* reserveRunCommand, "owner".
ReserveRunCommand ==
    /\ db.commands.status = "none"
    /\ db' = [db EXCEPT !.commands.status = "reserved", !.active = 1]
    /\ UNCHANGED leaseSequence

\* transitionRunCommand, "updated"; canTransitionRunCommand without dispatched.
TransitionRunCommand(a, tok, expected, next, outcome) ==
    /\ IsActive(a)
    /\ HoldsLease(a, tok)
    /\ db.commands.status = expected
    /\ \/ expected = "reserved" /\ next = "accepted"
       \/ CanSettle(expected) /\ next = "terminal"
    /\ db' = [db EXCEPT !.commands = [status |-> next, outcome |-> outcome]]
    /\ UNCHANGED leaseSequence

\* settleRunCommandWithTerminalEvent, "settled".
SettleRunCommandWithTerminalEvent(a, tok, expected, expectedSeq, outcome) ==
    /\ IsActive(a)
    /\ HoldsLease(a, tok)
    /\ db.commands.status = expected
    /\ CanSettle(expected)
    /\ db.attempts[a] = expectedSeq
    /\ expectedSeq < MaxEvents
    /\ db' = [db EXCEPT
          !.events = @ \o Stored(a, expectedSeq, <<TerminalKind(outcome)>>),
          !.attempts[a] = expectedSeq + 1,
          !.commands = [status |-> "terminal", outcome |-> outcome]]
    /\ UNCHANGED leaseSequence

\* Mutant: the new Attempt is made active before the hooks have run.
SwitchedBeforeHooks(next) == [db EXCEPT !.active = next]
\* onRecoveryAtomicWrite runs before the first write, after newLease.
AfterFailedHook(next) == db

\* recoverAndSettleRunCommandWithTerminalEvent, "settled", or a hook that
\* throws and leaves nothing behind.
RecoverAndSettleRunCommandWithTerminalEvent(expectedActive, expectedSeq) ==
    LET next == expectedActive + 1 IN
    /\ expectedActive # 0
    /\ db.active = expectedActive
    /\ next \in Attempts
    /\ ~ActiveLeaseForRun
    /\ db.commands.status = "dispatched"
    /\ db.attempts[expectedActive] = expectedSeq
    /\ expectedSeq < MaxEvents
    /\ \/ /\ db' = AfterFailedHook(next)
          /\ UNCHANGED leaseSequence
       \/ /\ db' = [db EXCEPT
                !.attempts[next] = expectedSeq + 1,
                !.active = next,
                !.leases[next] = NewLease,
                !.events = @ \o Stored(next, expectedSeq,
                                       <<TerminalKind("blocked")>>),
                !.commands = [status |-> "terminal", outcome |-> "blocked"]]
          /\ HandToken

\* claimInitialPreDispatchRunCommandForRecovery, "claimed", or a failed hook.
ClaimInitialPreDispatch(expected, expectedSeq) ==
    /\ expected \in PreDispatch
    /\ db.active = 1
    /\ 2 \in Attempts
    /\ db.commands.status = expected
    /\ ~ActiveLeaseForRun
    /\ db.attempts[1] = expectedSeq
    /\ HasOnlyPreDispatchPrefix({1}, expected, expectedSeq)
    /\ NoOutboundHistory
    /\ \/ /\ db' = AfterFailedHook(2)
          /\ UNCHANGED leaseSequence
       \/ /\ db' = [db EXCEPT !.attempts[2] = expectedSeq,
                              !.active = 2,
                              !.leases[2] = NewLease]
          /\ HandToken

\* reclaimInitialPreDispatchExecutionAuthority, "reclaimed".
ReclaimInitialPreDispatch(expected, expectedSeq) ==
    LET ofInitial == {k \in DOMAIN db.events : db.events[k].attempt = 1} IN
    /\ expected \in PreDispatch
    /\ db.active = 2
    /\ db.attempts[2] = expectedSeq
    /\ db.commands.status = expected
    /\ db.attempts[1] = IF ofInitial = {} THEN 0
                        ELSE db.events[Max(ofInitial)].seq
    /\ HasOnlyPreDispatchPrefix({1, 2}, expected, expectedSeq)
    /\ NoOutboundHistory
    /\ db.leases[2].token # 0
    /\ ~ActiveLeaseForRun
    /\ HandToken
    /\ db' = [db EXCEPT !.leases[2] = NewLease]

\* Mutant: the watermark of Attempt #1 is inherited.
InheritedFromFirst == db.attempts[1]
\* The watermark of a new Attempt comes from the array, not from an Attempt.
InheritedWatermark == LastSequence

\* createRunAttempt, "created".
CreateRunAttempt(expectedActive) ==
    LET next == expectedActive + 1 IN
    /\ expectedActive # 0
    /\ db.active = expectedActive
    /\ next \in Attempts
    /\ ~IsC2bPristineAttempt(expectedActive)
    /\ ~ActiveLeaseForRun
    /\ HandToken
    /\ db' = [db EXCEPT !.attempts[next] = InheritedWatermark,
                        !.active = next,
                        !.leases[next] = NewLease]

-----------------------------------------------------------------------------
(* Leases, time and the event log *)

\* acquireLease, "acquired".
AcquireLease(a) ==
    /\ a # 0
    /\ IsActive(a)
    /\ ~IsC2bPristineAttempt(a)
    /\ ~ActiveLeaseForRun
    /\ HandToken
    /\ db' = [db EXCEPT !.leases[a] = NewLease]

\* renewLease, true.
RenewLease(a, tok) ==
    /\ HoldsLease(a, tok)
    /\ db' = [db EXCEPT !.leases[a].left = LeaseTtl]
    /\ UNCHANGED leaseSequence

\* The injected clock goes on by one; it stands still when no lease runs.
Tick ==
    /\ ActiveLeaseForRun
    /\ db' = [db EXCEPT !.leases =
          [a \in Attempts |-> [db.leases[a] EXCEPT !.left = Max({0, @ - 1})]]]
    /\ UNCHANGED leaseSequence

\* appendEvents, "appended".  Events have no ids here: this adapter does not look
\* for an id that is taken, SQLite refuses it by the key of its table, so callers
\* are assumed to draw a new one for each event.
AppendEvents(a, tok, expectedSeq, kinds) ==
    /\ Exists(a)
    /\ HoldsLease(a, tok)
    /\ db.attempts[a] = expectedSeq
    /\ expectedSeq + Len(kinds) <= MaxEvents
    /\ db' = [db EXCEPT !.events = @ \o Stored(a, expectedSeq, kinds),
                        !.attempts[a] = expectedSeq + Len(kinds)]
    /\ UNCHANGED leaseSequence

-----------------------------------------------------------------------------
(* Model steps and snapshots *)

\* startModelStep, "started".
StartModelStep(a, tok, m) ==
    /\ IsActive(a)
    /\ db.modelSteps[m] = Absent
    /\ HoldsLease(a, tok)
    /\ db.commands.status \in {"accepted", "dispatched"}
    /\ \A n \in ModelSteps : db.modelSteps[n].status # "started"
    /\ db' = [db EXCEPT
          !.commands.status = "dispatched",
          !.modelSteps[m] = [status |-> "started", attempt |-> a]]
    /\ UNCHANGED leaseSequence

\* finishModelStep, "committed"; terminal is refused.
FinishModelStep(a, tok, m) ==
    /\ IsActive(a)
    /\ HoldsLease(a, tok)
    /\ db.modelSteps[m] = [status |-> "started", attempt |-> a]
    /\ db' = [db EXCEPT !.modelSteps[m].status = "failed"]
    /\ UNCHANGED leaseSequence

\* writeSnapshot: the snapshot binds no terminal step.
WriteSnapshot(a, tok, expectedSeq, through) ==
    /\ Exists(a)
    /\ db.attempts[a] = expectedSeq
    /\ through \in 0 .. expectedSeq
    /\ HoldsLease(a, tok)
    /\ db.snapshots.through < through
    /\ db' = [db EXCEPT !.snapshots = [id |-> NoStep, step |-> NoStep,
                                       attempt |-> a, through |-> through]]
    /\ UNCHANGED leaseSequence

\* What is left of db after a failure: the catch block puts the Maps of
\* restored back, whatever else was written stays.
RolledBack(partial, restored) ==
    [map \in DOMAIN db |-> IF map \in restored THEN db[map] ELSE partial[map]]

\* Mutant: the catch block forgets the snapshot history.
RestoredButHistory == {"artifacts", "modelSteps", "terminalModelStepResults",
                       "snapshots"}
\* The Maps that the catch block of the terminal commit puts back.
RestoredByTerminalCommit ==
    {"artifacts", "modelSteps", "terminalModelStepResults",
     "terminalSnapshotHistory", "snapshots"}

\* Max(0, ...ordinals) of the snapshot history.
LastOrdinal(records) == Max({0} \cup {records[s].ordinal : s \in SnapshotIds})
NextOrdinal == LastOrdinal(db.terminalSnapshotHistory) + 1

\* The Maps as the terminal commit leaves them before each hook, and at its
\* end: the artifact, the checkpoint, the history with the result row, and the
\* latest snapshot.
TerminalWrites(a, m, s, through) ==
    LET snapshot == [id |-> s, step |-> m, attempt |-> a, through |-> through]
        w1 == [db EXCEPT !.artifacts = @ \cup {m}]
        w2 == [w1 EXCEPT !.modelSteps[m].status = "terminal"]
        w3 == [w2 EXCEPT
            !.terminalSnapshotHistory[s] =
                [snapshot |-> snapshot, ordinal |-> NextOrdinal],
            !.terminalModelStepResults[m] =
                [snapshotId |-> s, ordinal |-> NextOrdinal, through |-> through]]
    IN <<db, w1, w2, w3, [w3 EXCEPT !.snapshots = snapshot]>>

\* commitTerminalModelStepResultAndSnapshot: committed, or a hook throws.
CommitTerminalModelStep(a, tok, m, s, expectedSeq, through) ==
    LET writes == TerminalWrites(a, m, s, through) IN
    /\ through \in 0 .. expectedSeq
    /\ IsActive(a)
    /\ HoldsLease(a, tok)
    /\ db.attempts[a] = expectedSeq
    /\ db.modelSteps[m] = [status |-> "started", attempt |-> a]
    /\ m \notin db.artifacts
    /\ s \notin Histories
    /\ TerminalResultSnapshotInvariant
    /\ db.snapshots.through <= through
    /\ \/ db' = writes[Len(writes)]
       \/ \E k \in 1 .. Len(writes) - 1 :
             db' = RolledBack(writes[k], RestoredByTerminalCommit)
    /\ UNCHANGED leaseSequence

-----------------------------------------------------------------------------
(* Tool invocations and receipts *)

\* reserveInvocation, "owner": invocation, reservation and key.
ReserveInvocation(a, tok, i) ==
    LET reserved == [status |-> "reserved", attempt |-> a] IN
    /\ Exists(a)
    /\ db.reservations[i] = Absent
    /\ HoldsLease(a, tok)
    /\ db' = [db EXCEPT !.invocations[i] = reserved, !.reservations[i] = reserved]
    /\ UNCHANGED leaseSequence

\* The reservation and the invocation both say that Attempt a is executing.
Executing(a, i) ==
    LET executing == [status |-> "executing", attempt |-> a] IN
    db.reservations[i] = executing /\ db.invocations[i] = executing

\* beginInvocationExecution, "started": it asks the reservation only.
BeginInvocationExecution(a, tok, i) ==
    /\ IsActive(a)
    /\ HoldsLease(a, tok)
    /\ db.reservations[i] = [status |-> "reserved", attempt |-> a]
    /\ db.receiptByReservation[i] = NoReceipt
    /\ db' = [db EXCEPT !.invocations[i].status = "executing",
                        !.reservations[i].status = "executing"]
    /\ UNCHANGED leaseSequence

\* stagePublicToolResultDerivative, "staged": the physical artifact and the
\* three alias Maps.
StagePublicToolResultDerivative(a, tok, i) ==
    /\ i \notin db.staged
    /\ IsActive(a)
    /\ HoldsLease(a, tok)
    /\ Executing(a, i)
    /\ i \notin db.artifacts
    /\ db' = [db EXCEPT !.artifacts = @ \cup {i}, !.staged = @ \cup {i}]
    /\ UNCHANGED leaseSequence

\* A receipt names its invocation (its status and attempt are the Map's value).
Receipt(a, i, result) == [status |-> result, attempt |-> a, of |-> i]

\* commitReceipt, "committed": a receipt without public events.
CommitReceipt(a, tok, i, r, result) ==
    /\ db.reservations[i].attempt = a
    /\ db.receiptByReservation[i] = NoReceipt
    /\ IsActive(a)
    /\ HoldsLease(a, tok)
    /\ Executing(a, i)
    /\ db.receipts[r] \in {Absent, Receipt(a, i, result)}
    /\ db' = [db EXCEPT !.receipts[r] = Receipt(a, i, result),
                        !.receiptByReservation[i] = r,
                        !.invocations[i].status = result,
                        !.reservations[i].status = result]
    /\ UNCHANGED leaseSequence

\* Mutant: the catch block forgets the log.
RestoredButEvents == {"receipts", "receiptByReservation", "invocations",
                      "receiptPublicEventBindings", "reservations", "attempts"}
\* The Maps that the catch block of the receipt commit puts back.
RestoredByReceiptCommit ==
    {"receipts", "receiptByReservation", "receiptPublicEventBindings",
     "invocations", "reservations", "events", "attempts"}

\* The Maps as the receipt commit leaves them before each hook and at its end.
\* The last hook runs after the last write.
ReceiptWrites(a, i, r, result, expectedSeq, events) ==
    LET w1 == [db EXCEPT !.receipts[r] = Receipt(a, i, result)]
        w2 == [w1 EXCEPT !.receiptByReservation[i] = r,
                         !.events = @ \o events]
        w3 == [w2 EXCEPT !.receiptPublicEventBindings[i] =
                  [receipt |-> r, expected |-> expectedSeq, events |-> events]]
        w4 == [w3 EXCEPT !.invocations[i].status = result]
    IN <<w1, w2, w3, w4,
         [w4 EXCEPT !.reservations[i].status = result,
                    !.attempts[a] = expectedSeq + Len(events)]>>

\* commitReceiptWithPublicEvents: committed, or a hook throws.  Nothing here
\* asks whether r is already the id of another receipt.
CommitReceiptWithPublicEvents(a, tok, i, r, result, verified, expectedSeq) ==
    LET kinds == IF verified
                 THEN <<"tool_result_presented", "verification_updated">>
                 ELSE <<"tool_result_presented">>
        writes == ReceiptWrites(a, i, r, result, expectedSeq,
                                Stored(a, expectedSeq, kinds)) IN
    /\ db.receiptByReservation[i] = NoReceipt
    /\ db.reservations[i].attempt = a
    /\ IsActive(a)
    /\ HoldsLease(a, tok)
    /\ Executing(a, i)
    /\ db.attempts[a] = expectedSeq
    /\ verified => result = "succeeded"
    /\ i \in db.staged
    /\ expectedSeq + Len(kinds) <= MaxEvents
    /\ \/ db' = writes[Len(writes)]
       \/ \E k \in DOMAIN writes :
             db' = RolledBack(writes[k], RestoredByReceiptCommit)
    /\ UNCHANGED leaseSequence

-----------------------------------------------------------------------------
(* The adapter under its most general clients *)

Positions == 0 .. MaxEvents

CommandOperation ==
    \/ ReserveRunCommand
    \/ \E seq \in Positions :
          \/ RecoverAndSettleRunCommandWithTerminalEvent(db.active, seq)
          \/ \E expected \in PreDispatch :
                \/ ClaimInitialPreDispatch(expected, seq)
                \/ ReclaimInitialPreDispatch(expected, seq)
    \/ CreateRunAttempt(db.active)

AuthorizedOperation(a, tok) ==
    \/ \E expected \in PreDispatch \cup {"dispatched"} :
          \/ TransitionRunCommand(a, tok, expected, "accepted", "none")
          \/ \E o \in TerminalStatuses :
                \/ TransitionRunCommand(a, tok, expected, "terminal", o)
                \/ \E seq \in Positions :
                      SettleRunCommandWithTerminalEvent(a, tok, expected, seq, o)
    \/ RenewLease(a, tok)
    \/ \E seq \in Positions, kinds \in Batches : AppendEvents(a, tok, seq, kinds)

StepOperation(a, tok) ==
    \/ \E m \in ModelSteps :
          \/ StartModelStep(a, tok, m)
          \/ FinishModelStep(a, tok, m)
          \/ \E s \in SnapshotIds, seq, through \in Positions :
                CommitTerminalModelStep(a, tok, m, s, seq, through)
    \/ \E seq, through \in Positions : WriteSnapshot(a, tok, seq, through)

\* The callers draw a new id for every receipt (ids.nextReceiptId of the run
\* loop).
FreshReceiptIds == {r \in ReceiptIds : db.receipts[r] = Absent}

InvocationOperation(a, tok) ==
    \E i \in Invocations :
        \/ ReserveInvocation(a, tok, i)
        \/ BeginInvocationExecution(a, tok, i)
        \/ StagePublicToolResultDerivative(a, tok, i)
        \/ \E r \in FreshReceiptIds, result \in ReceiptStatuses :
              \/ CommitReceipt(a, tok, i, r, result)
              \/ \E verified \in BOOLEAN, seq \in Positions :
                    CommitReceiptWithPublicEvents(a, tok, i, r, result,
                                                  verified, seq)

Next ==
    \/ CommandOperation
    \/ Tick
    \/ \E a \in Attempts :
          \/ AcquireLease(a)
          \/ \E tok \in 1 .. leaseSequence :
                \/ AuthorizedOperation(a, tok)
                \/ StepOperation(a, tok)
                \/ InvocationOperation(a, tok)

Spec == Init /\ [][Next]_memVars

-----------------------------------------------------------------------------
(* What the adapter promises *)

\* The history in the order of commitOrdinal.
Bare(snapshot) == [step |-> snapshot.step, attempt |-> snapshot.attempt,
                   through |-> snapshot.through]
InOrder(records) ==
    [k \in 1 .. LastOrdinal(records) |->
        Bare(records[CHOOSE s \in SnapshotIds :
                        records[s].ordinal = k].snapshot)]

\* The rows that the Maps of tool calls stand for.
CallRows(reservations, bindings, staged) ==
    [i \in Invocations |->
        [status |-> reservations[i].status,
         attempt |-> reservations[i].attempt,
         staged |-> i \in staged,
         bound |-> ToSet(bindings[i].events)]]

Store == INSTANCE SessionStore WITH
    LegacyPort <- TRUE,
    command <- db.commands,
    active <- db.active,
    lastSeq <- db.attempts,
    leases <- db.leases,
    issued <- leaseSequence,
    events <- ToSet(db.events),
    steps <- db.modelSteps,
    history <- InOrder(db.terminalSnapshotHistory),
    latest <- Bare(db.snapshots),
    invocations <- CallRows(db.reservations, db.receiptPublicEventBindings,
                            db.staged)

ASSUME MemoryAssumption ==
    /\ Batches \subseteq Seq(Store!Kinds)
    /\ TerminalStatuses \subseteq Store!Outcomes
    /\ ReceiptStatuses \subseteq Store!Results
    /\ LeaseTtl \in Nat /\ MaxAttempts \in Nat \ {0} /\ MaxEvents \in Nat
    /\ NoReceipt \notin ReceiptIds
    /\ ModelSteps \cap Invocations = {}

\* Every write of the in-memory adapter, with its retained legacy methods and
\* with hooks that throw half-way, is a write of the SQLite store or nothing:
\* what the contract tests learn from it holds for the store that is deployed.
ImplementsSessionStore == Store!Spec

\* The Maps that keep one fact twice never disagree, in any state between two
\* calls, so no reader of one contradicts a reader of another: reservation and
\* invocation; receipt, its index and its binding; a binding and the rows of
\* the log; a terminal checkpoint, its result row and its artifact; and the
\* position of an event in the array and its sequence.
MapsAgree ==
    /\ db.reservations = db.invocations
    /\ \A i \in Invocations :
          LET r == db.receiptByReservation[i]
              binding == db.receiptPublicEventBindings[i] IN
          /\ db.reservations[i].status \in ReceiptStatuses <=> r # NoReceipt
          /\ r # NoReceipt =>
                db.receipts[r] = Receipt(db.reservations[i].attempt, i,
                                         db.reservations[i].status)
          /\ binding # NoBinding =>
                /\ binding.receipt = r
                /\ \A k \in DOMAIN binding.events :
                      db.events[binding.expected + k] = binding.events[k]
    /\ \A r \in ReceiptIds : db.receipts[r] # Absent =>
          db.receiptByReservation[db.receipts[r].of] = r
    /\ \A m \in ModelSteps :
          /\ db.modelSteps[m].status = "terminal" <=> m \in Rows
          /\ m \in Rows <=> m \in db.artifacts
    /\ db.staged = db.artifacts \cap Invocations
    /\ \A k \in DOMAIN db.events : db.events[k].seq = k
=============================================================================
