----------------------------- MODULE TurnWorkers -----------------------------
(***************************************************************************)
(* The processes that work on one durable Command over the session store   *)
(* (apps/server/src/turn-command-composition.ts, packages/agent-runtime):  *)
(*                                                                         *)
(*   - a POST reserves the Command, or finds it again, and starts a worker *)
(*     on Attempt #1;                                                      *)
(*   - the safe dispatcher claims or reclaims a Command that never called  *)
(*     out, and starts a worker on Attempt #2;                             *)
(*   - the recovery coordinator settles a Command left behind.             *)
(*                                                                         *)
(* A worker runs the read-only run loop: between two store calls it holds  *)
(* only local state, and any other process may move, the lease may expire  *)
(* or the whole server may crash.  One action is one store call together   *)
(* with the local code up to the next one; reads whose result can only     *)
(* change by losing the lease are read in the action that uses them.  A    *)
(* renewal and the lease-checked call that follows it are one action: both *)
(* refuse for the same reason.  A Provider or Host call takes two actions, *)
(* its start and its end.                                                  *)
(***************************************************************************)
EXTENDS SessionStore, FiniteSets

CONSTANTS
    Posts,              \* POST /api/turns requests with the same key
    Dispatchers,        \* callers of dispatchOne
    Coordinators,       \* callers of recoverOnce
    MaxModelSteps,      \* maxModelSteps: Provider calls of one run loop
    StoreFaults         \* TRUE: a store call may throw and have no effect

VARIABLE job            \* what each process is doing

vars == <<storeVars, job>>

Jobs == Posts \cup Dispatchers \cup Coordinators

ASSUME WorkersAssumption ==
    /\ ~LegacyPort
    /\ MaxModelSteps \in Nat \ {0}
    /\ StoreFaults \in BOOLEAN
    /\ Cardinality(ModelSteps) >= MaxModelSteps

\* RUN_TRANSITIONS.
Closed == {"completed", "failed", "cancelled", "blocked"}
RunTransitions ==
    [created |-> {"preparing", "cancelled", "failed"},
     preparing |-> {"model_streaming", "cancelled", "failed", "blocked"},
     model_streaming |-> {"tool_assembling", "verifying", "cancelled", "failed",
                          "blocked"},
     tool_assembling |-> {"executing_tools", "cancelled", "failed", "blocked"},
     executing_tools |-> {"model_streaming", "verifying", "cancelled",
                          "failed", "blocked"},
     verifying |-> {"completed", "model_streaming", "cancelled", "failed",
                    "blocked"}]
CanTransitionRun(from, to) ==
    from \in DOMAIN RunTransitions /\ to \in RunTransitions[from]

Idle == [pc |-> "idle", attempt |-> 0, token |-> 0, seq |-> 0,
         status |-> "created", step |-> NoStep, inv |-> NoStep,
         budget |-> MaxModelSteps, verified |-> FALSE, end |-> "none"]

At(j, pc) == job[j].pc = pc
Become(j, r) == job' = [job EXCEPT ![j] = r]
Goto(j, pc) == job' = [job EXCEPT ![j].pc = pc]
Stop(j) == Become(j, Idle)
Keep == UNCHANGED storeVars

Held(j) == job[j].attempt # 0 /\ HoldsLease(job[j].attempt, job[j].token)

\* terminal(): the run loop goes on to publish this outcome.
Terminal(r, outcome) == [r EXCEPT !.pc = "close", !.end = outcome]

\* An exception of the run loop reaches the catch block of the worker.
Throw(j) == Keep /\ Goto(j, "catch")

-----------------------------------------------------------------------------
(* Store calls of a worker *)

MayAppend(j) == Held(j) /\ lastSeq[job[j].attempt] = job[j].seq

\* append: renewLeaseOrThrow, then appendEvents.  Whatever refuses throws.
Append1(j, kind, next) ==
    \/ /\ AppendEvents(job[j].attempt, job[j].token, job[j].seq, <<kind>>)
       /\ Become(j, [next EXCEPT !.seq = job[j].seq + 1])
    \/ ~MayAppend(j) /\ Throw(j)

StatusKind(status) ==
    IF status \in {"preparing", "model_streaming"} THEN status ELSE "status"

\* changeStatus: an illegal transition throws.
ChangeStatus(j, status, next) ==
    \/ /\ CanTransitionRun(job[j].status, status)
       /\ Append1(j, StatusKind(status), [next EXCEPT !.status = status])
    \/ ~CanTransitionRun(job[j].status, status) /\ Throw(j)

\* The newest model step of the Run is started: no second one can be open.
StepIsOpen == \E m \in ModelSteps : steps[m].status = "started"

\* startedCheckpointRemains.
StartedCheckpointRemains(j) ==
    steps[job[j].step] = [status |-> "started", attempt |-> job[j].attempt]

\* classifyInvocationRecoveryState.
InvocationRecoveryState ==
    LET settled == {i \in Invocations : invocations[i].status \in Results} IN
    IF \E i \in Invocations : invocations[i].status = "executing"
    THEN "present"
    ELSE IF \E i \in settled : invocations[i].bound = {}
    THEN "settled_unbound"
    ELSE IF settled # {} THEN "settled" ELSE "absent"

\* The settlement of settleOutcomeUnknown, at the head of the log it has read.
Settle(j) ==
    SettleRunCommandWithTerminalEvent(job[j].attempt, job[j].token,
                                      command.status, Watermark, "blocked")
MaySettle(j) ==
    /\ IsActiveAttempt(job[j].attempt)
    /\ Held(j)
    /\ command.status \in Unsettled

\* What the worker does when an external call may or may not have happened;
\* a refused settlement leaves the Command for a later worker.
UnknownOutcome(r, stepRequired) ==
    [r EXCEPT !.pc = IF stepRequired THEN "settle_step" ELSE "settle_tool"]

-----------------------------------------------------------------------------
(* POST /api/turns and the safe dispatcher *)

\* createTurnCommandSubmitter: the reservation, or a replay that finds a
\* Command which is not terminal, defers a worker on the initial Attempt.
Submit(j) ==
    /\ At(j, "idle")
    /\ \/ ReserveRunCommand
       \/ command.status \in Unsettled /\ Keep
    /\ Become(j, [Idle EXCEPT !.pc = "acquire", !.attempt = 1])

\* runWorkerWithAuthority without authority: anything but a new lease ends it.
AcquireInitial(j) ==
    /\ At(j, "acquire")
    /\ \/ /\ AcquireLease(1)
          /\ Become(j, [job[j] EXCEPT !.pc = "admit", !.token = issued + 1])
       \/ /\ ~IsActiveAttempt(1) \/ Live(1)
          /\ Keep
          /\ Stop(j)

\* Mutant: a Command that Attempt #2 already took over is left alone.
ReadForFirstDispatch(j) ==
    /\ At(j, "idle")
    /\ command.status \in PreDispatch
    /\ active = 1
    /\ Watermark <= 2
    /\ Keep
    /\ Become(j, [Idle EXCEPT !.pc = "claim", !.attempt = active,
                              !.seq = Watermark, !.status = command.status])

\* dispatchOne: the recovery bundle of a Command that never called out.
ReadForDispatch(j) ==
    /\ At(j, "idle")
    /\ command.status \in PreDispatch
    /\ active \in {1, 2}
    /\ Watermark <= 2
    /\ Keep
    /\ Become(j, [Idle EXCEPT !.pc = "claim", !.attempt = active,
                              !.seq = Watermark, !.status = command.status])

\* Mutant: a continuation starts from the beginning.
ContinuationFromScratch(head) == "created"

\* continuationForPrefix.
ContinuationStatus(head) == <<"created", "preparing", "model_streaming">>[head + 1]

\* dispatchOne: claim Attempt #2, or reclaim its lease, with what was read.
ClaimOrReclaim(from, expected, expectedSeq) ==
    \/ from = 1 /\ ClaimInitialPreDispatch(expected, expectedSeq)
    \/ from = 2 /\ ReclaimInitialPreDispatch(expected, expectedSeq)

Unsafe(from, expected, expectedSeq) ==
    \/ active # from
    \/ command.status # expected
    \/ Watermark # expectedSeq
    \/ ~NoLiveLease
    \/ ~PreDispatchPrefix(expectedSeq)
    \/ ~NoOutboundHistory

TakeAuthority(j) ==
    LET read == job[j] IN
    /\ At(j, "claim")
    /\ \/ /\ ClaimOrReclaim(read.attempt, read.status, read.seq)
          /\ Become(j, [Idle EXCEPT
                 !.pc = IF read.status = "reserved" THEN "accept" ELSE "admit",
                 !.attempt = 2, !.token = issued + 1, !.seq = read.seq,
                 !.status = ContinuationStatus(read.seq)])
       \/ Unsafe(read.attempt, read.status, read.seq) /\ Keep /\ Stop(j)

\* reserved -> accepted, by the dispatcher before it starts the worker or by
\* the worker itself; an exact replay counts.
Accept(j) ==
    LET accepted == Goto(j, IF j \in Dispatchers THEN "admit" ELSE "loop") IN
    /\ At(j, "accept")
    /\ \/ /\ TransitionRunCommand(job[j].attempt, job[j].token, "reserved",
                                  "accepted", "none")
          /\ accepted
       \/ /\ command.status = "accepted"
          /\ IsActiveAttempt(job[j].attempt)
          /\ Held(j)
          /\ Keep
          /\ accepted
       \/ /\ \/ ~IsActiveAttempt(job[j].attempt)
             \/ ~Held(j)
             \/ command.status \notin {"reserved", "accepted"}
          /\ Keep
          /\ Stop(j)

\* Mutant: a worker that finds an open Provider call asks again.
AdmitAndRetry(j) ==
    /\ At(j, "admit")
    /\ Keep
    /\ \/ command.status = "terminal" /\ Stop(j)
       \/ /\ command.status = "dispatched"
          /\ \/ \E m \in ModelSteps :
                   /\ steps[m].status = "started"
                   /\ Become(j, [job[j] EXCEPT !.pc = "ask", !.step = m])
             \/ ~StepIsOpen /\ Stop(j)
       \/ command.status = "reserved" /\ Goto(j, "accept")
       \/ command.status = "accepted" /\ Goto(j, "loop")

\* runWorkerWithAuthority: what the Command allows this worker to do.
Admit(j) ==
    /\ At(j, "admit")
    /\ Keep
    /\ \/ command.status = "terminal" /\ Stop(j)
       \/ /\ command.status = "dispatched"
          /\ Become(j, UnknownOutcome(job[j], InvocationRecoveryState = "absent"))
       \/ command.status = "reserved" /\ Goto(j, "accept")
       \/ command.status = "accepted" /\ Goto(j, "loop")

-----------------------------------------------------------------------------
(* The read-only run loop *)

Prepare(j) ==
    /\ At(j, "loop")
    /\ \/ /\ job[j].status = "created"
          /\ ChangeStatus(j, "preparing", [job[j] EXCEPT !.pc = "next_step"])
       \/ /\ job[j].status # "created"
          /\ Keep
          /\ Goto(j, "next_step")

\* The head of the loop over model steps.
NextStep(j) ==
    /\ At(j, "next_step")
    /\ \/ job[j].budget = 0 /\ Keep /\ Become(j, Terminal(job[j], "blocked"))
       \/ /\ job[j].budget > 0
          /\ job[j].status # "model_streaming"
          /\ ChangeStatus(j, "model_streaming", [job[j] EXCEPT !.pc = "start"])
       \/ /\ job[j].budget > 0
          /\ job[j].status = "model_streaming"
          /\ Keep
          /\ Goto(j, "start")

\* startModelStep with a fresh id.
StartStep(j) ==
    LET m == CHOOSE n \in ModelSteps : steps[n].status = "none"
        mine == IsActiveAttempt(job[j].attempt) /\ Held(j) IN
    /\ At(j, "start")
    /\ \/ /\ StartModelStep(job[j].attempt, job[j].token, m)
          /\ Become(j, [job[j] EXCEPT !.pc = "ask", !.step = m,
                                      !.budget = job[j].budget - 1])
       \/ mine /\ StepIsOpen /\ Keep /\ Become(j, Terminal(job[j], "blocked"))
       \/ /\ ~mine \/ (~StepIsOpen /\ command.status \in {"reserved", "terminal"})
          /\ Keep
          /\ Become(j, Terminal(job[j], "failed"))

\* withLeaseHeartbeat: the lease is renewed, then the Provider is called.
AskProvider(j) ==
    /\ At(j, "ask")
    /\ \/ Held(j) /\ Keep /\ Goto(j, "asking")
       \/ ~Held(j) /\ Throw(j)

\* The Provider call ends: it throws, or it returns and the lease is renewed.
\* What it returned is ambiguous, a rejection, or a whole result.
ProviderReturns(j) ==
    /\ At(j, "asking")
    /\ \/ /\ Keep
          /\ Become(j, IF StartedCheckpointRemains(j)
                       THEN UnknownOutcome(job[j], TRUE)
                       ELSE Terminal(job[j], "failed"))
       \/ Held(j) /\ Keep /\ Become(j, UnknownOutcome(job[j], TRUE))
       \/ \E next \in {"reject", "record"} : Held(j) /\ Keep /\ Goto(j, next)
       \/ ~Held(j) /\ Throw(j)

\* finishModelStep for a rejected request.
RejectStep(j) ==
    /\ At(j, "reject")
    /\ \/ /\ FinishModelStep(job[j].attempt, job[j].token, job[j].step)
          /\ Goto(j, "record_failure")
       \/ /\ ~IsActiveAttempt(job[j].attempt) \/ ~Held(j)
          /\ Keep
          /\ Become(j, IF StartedCheckpointRemains(j)
                       THEN UnknownOutcome(job[j], TRUE)
                       ELSE Terminal(job[j], "failed"))

\* persistModelEvent, for all private events of the step at once.
RecordModelEvents(j) ==
    \/ /\ At(j, "record_failure")
       /\ Append1(j, "model", Terminal(job[j], "failed"))
    \/ /\ At(j, "record")
       /\ Append1(j, "model", [job[j] EXCEPT !.pc = "commit_step"])

\* Tool calls the Provider may still ask for: Invocations bounds them.
Unused == {i \in Invocations : invocations[i].status = "none"}

\* What the loop does with a committed result: an incomplete finish, a
\* cancelled or a malformed one, a final answer, or tool calls.
AfterStep(r) ==
    {Terminal(r, "blocked"), Terminal(r, "cancelled"), Terminal(r, "failed"),
     [r EXCEPT !.pc = "verify"]}
    \cup {[r EXCEPT !.pc = "assemble"] : i \in Unused}

\* commitTerminalModelStepResultAndSnapshot through the loop's own sequence.
CommitStep(j) ==
    /\ At(j, "commit_step")
    /\ \/ /\ CommitTerminalModelStep(job[j].attempt, job[j].token, job[j].step,
                                     job[j].seq, job[j].seq)
          /\ \E next \in AfterStep(job[j]) : Become(j, next)
       \/ ~Held(j) /\ Throw(j)
       \/ /\ ~MayAppend(j) \/ ~IsActiveAttempt(job[j].attempt)
          /\ Keep
          /\ Become(j, UnknownOutcome(job[j], TRUE))

\* Mutant: every final answer completes the Run.
VerifyWithoutEvidence(j) ==
    /\ At(j, "verify")
    /\ ChangeStatus(j, "verifying", Terminal(job[j], "completed"))

\* A final answer needs verified evidence.  The public text of the answer, which
\* is appended between verifying and the end, is left out.
Verify(j) ==
    /\ At(j, "verify")
    /\ ChangeStatus(j, "verifying",
           Terminal(job[j], IF job[j].verified THEN "completed" ELSE "blocked"))

\* Tool calls start with a status change; each call then passes the argument
\* checks and the action gate, or ends the Run.
AfterGate(r) ==
    {Terminal(r, "failed"), Terminal(r, "blocked")}
    \cup {[r EXCEPT !.pc = "present"] : i \in Unused}

Assemble(j) ==
    /\ At(j, "assemble")
    /\ \E next \in AfterGate(job[j]) : ChangeStatus(j, "tool_assembling", next)

PresentCall(j) ==
    /\ At(j, "present")
    /\ Append1(j, "tool_call_presented", [job[j] EXCEPT !.pc = "reserve"])

\* reserveInvocation with a fresh id, then executing_tools before the first.
ReserveCall(j) ==
    LET i == CHOOSE k \in Unused : TRUE IN
    /\ At(j, "reserve")
    /\ \/ /\ ReserveInvocation(job[j].attempt, job[j].token, i)
          /\ Become(j, [job[j] EXCEPT !.inv = i, !.pc =
                IF job[j].status = "executing_tools" THEN "begin" ELSE "execute"])
       \/ ~Held(j) /\ Keep /\ Become(j, Terminal(job[j], "failed"))

ExecuteTools(j) ==
    /\ At(j, "execute")
    /\ ChangeStatus(j, "executing_tools", [job[j] EXCEPT !.pc = "begin"])

\* beginInvocationExecution: only a started permit reaches the Host.
BeginCall(j) ==
    /\ At(j, "begin")
    /\ \/ /\ BeginInvocationExecution(job[j].attempt, job[j].token, job[j].inv)
          /\ Goto(j, "host")
       \/ /\ ~IsActiveAttempt(job[j].attempt) \/ ~Held(j)
          /\ Keep
          /\ Become(j, UnknownOutcome(job[j], FALSE))

CallHost(j) ==
    /\ At(j, "host")
    /\ \/ Held(j) /\ Keep /\ Goto(j, "hosting")
       \/ ~Held(j) /\ Throw(j)

\* The Host call throws, or it returns and the lease is renewed.
HostReturns(j) ==
    /\ At(j, "hosting")
    /\ \/ Keep /\ Become(j, UnknownOutcome(job[j], FALSE))
       \/ Held(j) /\ Keep /\ Goto(j, "stage")
       \/ ~Held(j) /\ Throw(j)

StageResult(j) ==
    /\ At(j, "stage")
    /\ \/ /\ StagePublicToolResultDerivative(job[j].attempt, job[j].token,
                                             job[j].inv)
          /\ Goto(j, "receipt")
       \/ ~Held(j) /\ Throw(j)
       \/ /\ ~IsActiveAttempt(job[j].attempt) \/ ~Held(j)
          /\ Keep
          /\ Become(j, UnknownOutcome(job[j], FALSE))

\* What follows a receipt: a failed, cancelled or unverified call ends the
\* Run; a verified one is followed by the step's next call or the next step.
AfterReceipt(r, result, verified) ==
    IF result \in {"failed", "cancelled"} THEN {Terminal(r, result)}
    ELSE IF ~verified THEN {Terminal(r, "blocked")}
    ELSE {[r EXCEPT !.pc = "next_step", !.verified = TRUE]}
         \cup {[next EXCEPT !.verified = TRUE] : next \in AfterGate(r)}

CommitResult(j) ==
    /\ At(j, "receipt")
    /\ \/ \E result \in Results, verified \in BOOLEAN :
          /\ CommitReceiptWithPublicEvents(job[j].attempt, job[j].token,
                 job[j].inv, result, verified, job[j].seq)
          /\ \E next \in AfterReceipt(job[j], result, verified) :
                Become(j, [next EXCEPT !.seq =
                              job[j].seq + IF verified THEN 2 ELSE 1])
       \/ ~Held(j) /\ Throw(j)
       \/ /\ ~MayAppend(j) \/ ~IsActiveAttempt(job[j].attempt)
          /\ Keep
          /\ Become(j, UnknownOutcome(job[j], FALSE))

-----------------------------------------------------------------------------
(* The end of a worker *)

\* Mutant: the terminal event is forgotten.
CloseWithoutEvent(j) ==
    /\ At(j, "close")
    /\ ChangeStatus(j, job[j].end, [job[j] EXCEPT !.pc = "settle"])

\* terminal(): the terminal status, the terminal event, and then settleCommand
\* are three writes.
Close(j) ==
    /\ At(j, "close")
    /\ ChangeStatus(j, job[j].end, [job[j] EXCEPT !.pc = "publish_end"])

PublishEnd(j) ==
    /\ At(j, "publish_end")
    /\ Append1(j, TerminalKind(job[j].end), [job[j] EXCEPT !.pc = "settle"])

\* settleCommand: a refused transition is ignored.
SettleCommand(j) ==
    /\ At(j, "settle") \/ At(j, "settle_failed")
    /\ \/ TransitionRunCommand(job[j].attempt, job[j].token, command.status,
                               "terminal", job[j].end)
       \/ ~MaySettle(j) /\ Keep
    /\ Stop(j)

\* settleOutcomeUnknown after the run loop or on admission.
SettleOutcomeUnknown(j) ==
    /\ At(j, "settle_step") \/ At(j, "settle_tool")
    /\ \/ (At(j, "settle_step") => StepIsOpen) /\ Settle(j)
       \/ ~MaySettle(j) /\ Keep
       \/ At(j, "settle_step") /\ ~StepIsOpen /\ Keep
    /\ Stop(j)

\* The catch block: a tool call that may have happened is left alone, an open
\* model step is settled as unknown, and otherwise the worker reports a failure.
Catch(j) ==
    /\ At(j, "catch")
    /\ \/ InvocationRecoveryState # "absent" /\ Keep /\ Stop(j)
       \/ /\ InvocationRecoveryState = "absent"
          /\ command.status # "terminal" /\ StepIsOpen
          /\ Settle(j) \/ (~MaySettle(j) /\ Keep)
          /\ Stop(j)
       \/ /\ InvocationRecoveryState = "absent"
          /\ command.status = "terminal" \/ ~StepIsOpen
          /\ Keep
          /\ Goto(j, "fail")

\* appendWorkerFailureEvent at the head of the log; its refusal is ignored.
AppendWorkerFailure(j) ==
    /\ At(j, "fail")
    /\ \/ AppendEvents(job[j].attempt, job[j].token, Watermark, <<"run_failed">>)
       \/ (~Held(j) \/ lastSeq[job[j].attempt] # Watermark) /\ Keep
    /\ Become(j, [job[j] EXCEPT !.pc = "settle_failed", !.end = "failed"])

-----------------------------------------------------------------------------
(* The recovery coordinator *)

\* Mutant: only a completion counts as an end.
CompletionInTail ==
    \E e \in events : e.seq > latest.through /\ e.kind = "run_completed"

\* The bundle's events start after the latest snapshot.
TerminalEventInTail ==
    \E e \in events : e.seq > latest.through /\ e.kind \in TerminalKinds

\* Mutant: the events of the bundle are not looked at.
MustBlockRegardless ==
    /\ command.status = "dispatched"
    /\ \/ InvocationRecoveryState # "absent"
       \/ \E m \in ModelSteps :
             steps[m] = [status |-> "started", attempt |-> active]

\* Mutant: tool calls are not looked at.
MustBlockOpenStep ==
    /\ command.status = "dispatched"
    /\ ~TerminalEventInTail
    /\ \E m \in ModelSteps :
          steps[m] = [status |-> "started", attempt |-> active]

\* classifyBundle: work that may have reached the outside.
MustBlock ==
    /\ command.status = "dispatched"
    /\ ~TerminalEventInTail
    /\ \/ InvocationRecoveryState # "absent"
       \/ \E m \in ModelSteps :
             steps[m] = [status |-> "started", attempt |-> active]

\* recoverOnce: reads and classifies, and only later writes.
ReadForRecovery(j) ==
    /\ At(j, "idle")
    /\ MustBlock
    /\ Keep
    /\ Become(j, [Idle EXCEPT !.pc = "block", !.attempt = active,
                              !.seq = Watermark])

Block(j) ==
    /\ At(j, "block")
    /\ \/ RecoverAndSettleRunCommandWithTerminalEvent(job[j].attempt, job[j].seq)
       \/ /\ \/ active # job[j].attempt
             \/ ~NoLiveLease
             \/ command.status # "dispatched"
             \/ Watermark # job[j].seq
          /\ Keep
    /\ Stop(j)

-----------------------------------------------------------------------------
(* A store call throws *)

\* Calls of the worker and of the run loop that no inner handler guards, and
\* renewals, whose failure counts as a lost lease.
Unguarded ==
    {"admit", "accept", "loop", "next_step", "start", "ask", "asking", "record",
     "record_failure", "commit_step", "verify", "assemble", "present",
     "reserve", "execute", "host", "hosting", "stage", "receipt", "close",
     "publish_end", "settle", "settle_step", "settle_tool"}

\* Calls whose failure ends the process and leaves the rest to a later one;
\* the last but one is the settlement itself, the last the bundle that the
\* catch block reads.
Abandoning == {"acquire", "claim", "block", "settle_failed", "settle_step",
               "settle_tool", "catch"}

StoreFails(j) ==
    /\ StoreFaults
    /\ Keep
    /\ \/ /\ \/ job[j].pc \in Abandoning
             \/ At(j, "accept") /\ j \in Dispatchers
          /\ Stop(j)
       \/ /\ job[j].pc \in Unguarded
          /\ ~(At(j, "accept") /\ j \in Dispatchers)
          /\ Goto(j, "catch")
       \/ At(j, "start") /\ Become(j, Terminal(job[j], "failed"))
       \/ /\ At(j, "reject") \/ At(j, "commit_step")
          /\ Become(j, UnknownOutcome(job[j], TRUE))
       \/ /\ At(j, "begin") \/ At(j, "stage") \/ At(j, "receipt")
          /\ Become(j, UnknownOutcome(job[j], FALSE))
       \/ At(j, "catch") /\ InvocationRecoveryState = "absent" /\ Goto(j, "fail")
       \/ At(j, "fail")
          /\ Become(j, [job[j] EXCEPT !.pc = "settle_failed", !.end = "failed"])

-----------------------------------------------------------------------------
(* The system *)

Running(j) ==
    \/ AcquireInitial(j) \/ TakeAuthority(j) \/ Accept(j) \/ Admit(j)
    \/ Prepare(j) \/ NextStep(j) \/ StartStep(j) \/ AskProvider(j)
    \/ ProviderReturns(j) \/ RejectStep(j) \/ RecordModelEvents(j)
    \/ CommitStep(j) \/ Verify(j) \/ Assemble(j) \/ PresentCall(j)
    \/ ReserveCall(j) \/ ExecuteTools(j) \/ BeginCall(j) \/ CallHost(j)
    \/ HostReturns(j) \/ StageResult(j) \/ CommitResult(j) \/ Close(j)
    \/ PublishEnd(j) \/ SettleCommand(j) \/ SettleOutcomeUnknown(j)
    \/ Catch(j) \/ AppendWorkerFailure(j) \/ Block(j)

\* Every expiry and every crash needs a token in reserve: MaxTokens bounds how
\* often workers lose their authority.
Spare == issued < MaxTokens

LeaseExpires == Spare /\ Tick /\ UNCHANGED job

\* The server process dies; the database survives.
Crash ==
    /\ Spare
    /\ \E j \in Jobs : ~At(j, "idle")
    /\ Keep
    /\ job' = [j \in Jobs |-> Idle]

WorkersInit == Init /\ job = [j \in Jobs |-> Idle]

WorkersNext ==
    \/ \E j \in Posts : Submit(j)
    \/ \E j \in Dispatchers : ReadForDispatch(j)
    \/ \E j \in Coordinators : ReadForRecovery(j)
    \/ \E j \in Jobs : Running(j) \/ StoreFails(j)
    \/ LeaseExpires
    \/ Crash

WorkersSpec == WorkersInit /\ [][WorkersNext]_vars

\* Code that runs goes on, an abandoned lease expires, and the owner of the
\* deployment keeps calling dispatchOne and recoverOnce.  The server does not
\* crash for ever.  Clients owe nothing, and a worker need not lose a lease.
Abandoned == \A j \in Jobs : ~Held(j)

Fairness ==
    /\ \A j \in Jobs : WF_vars(Running(j))
    /\ \A j \in Dispatchers : WF_vars(ReadForDispatch(j))
    /\ \A j \in Coordinators : WF_vars(ReadForRecovery(j))
    /\ WF_vars(Abandoned /\ LeaseExpires)
    /\ <>[][~Crash]_vars

FairSpec == WorkersSpec /\ Fairness

-----------------------------------------------------------------------------
(* Invariants *)

\* A terminal Command shows how it ended in its log, although the event and
\* the Command are written apart and refused appends are ignored on the way.
TerminalCommandHasItsEvent ==
    command.status = "terminal" =>
        \E e \in events : e.kind = TerminalKind(command.outcome)

\* Provider and Host are asked by one worker at a time, even when a worker has
\* lost its lease in the middle of a call and others have moved on.
ExternalCallsNeverOverlap ==
    Cardinality({j \in Jobs : At(j, "asking") \/ At(j, "hosting")}) <= 1

\* A safe continuation goes on where the earlier worker stopped: the prefix of
\* the log is never written twice.
PrefixWrittenOnce == \A e \in events : e.kind = "preparing" => e.seq = 1

\* A Run that reports completion has a verified receipt in the same log, and
\* nothing that may still be going on outside.
CompletionIsEarned ==
    \A end \in events : end.kind = "run_completed" =>
        /\ ~StepIsOpen
        /\ \A i \in Invocations : invocations[i].status # "executing"
        /\ \E e \in events : e.kind = "verification_updated" /\ e.seq < end.seq

\* Nothing follows a terminal event: clients stop reading there.  (A repeated
\* POST breaks it.)
TerminalEventIsLast ==
    \A e, f \in events : e.kind \in TerminalKinds => f.seq <= e.seq

-----------------------------------------------------------------------------
(* Action and liveness properties *)

\* The coordinator never writes its run_blocked over the end of a Run, however
\* old the bundle it decides by.
RecoveryKeepsTheEnd ==
    [][command.status # "terminal" /\ command'.status = "terminal"
       /\ active' # active
          => \A e \in events : e.kind \notin TerminalKinds]_vars

\* A continuation and the coordinator never write after an end, and neither
\* does the worker that wrote it: only a worker of a repeated POST does, when
\* it reports a failure or an unknown outcome on Attempt #1.
OnlyARepeatedPostFollowsAnEnd ==
    [][\A f \in events' \ events, e \in events : e.kind \in TerminalKinds =>
          \E j \in Posts :
              /\ job'[j] # job[j]
              /\ job[j].attempt = 1 /\ job[j].seq < e.seq
              /\ job[j].pc \in {"fail", "settle_step", "settle_tool"}]_vars

\* A Command that never called out is dispatched or settled in the end, as
\* long as no worker has reported its failure into the log.
SafeWorkContinues ==
    command.status \in PreDispatch
        ~> (command.status \notin PreDispatch
            \/ \E e \in events : e.kind = "run_failed")

\* A Provider or Host call of an unsettled Command does not stay open.
OpenWork ==
    /\ command.status = "dispatched"
    /\ StepIsOpen \/ \E i \in Invocations : invocations[i].status = "executing"

OpenWorkIsResolved == OpenWork ~> ~OpenWork

\* Every reserved Command reaches a terminal status.
EveryCommandSettles ==
    command.status = "reserved" ~> command.status = "terminal"
=============================================================================
