-------------------------- MODULE TurnWorkersProofs --------------------------
(***************************************************************************)
(* Proofs about the processes of the server: at most one of them holds the *)
(* authority of the Run, and what that is worth; then what they do to the  *)
(* outside and to the log of one Run: external calls never overlap, the    *)
(* prefix of the log is written once, and nothing that ends a Run is       *)
(* claimed without cause.                                                  *)
(*                                                                         *)
(* Every action of a worker is a success, which writes under a lease, or a *)
(* refusal, which only moves the worker.  WorkerCases says so once, and    *)
(* OwnerIsAlone that nothing but the worker that holds the lease, the      *)
(* passing of time and a crash changes anything while it is held: an       *)
(* invariant that a worker keeps by itself while it holds the lease needs  *)
(* no look at the others.                                                  *)
(*                                                                         *)
(* Each theorem of the second half has an invariant of its own beside      *)
(* WorkersInv.  A step is a rest of all workers or a step of one of them   *)
(* (StepShapes); the others keep what they know, because while they hold   *)
(* the lease nobody else writes (OthersRest); the worker that moves is     *)
(* looked at class by class.                                               *)
(***************************************************************************)
EXTENDS TurnWorkers, SessionStoreProofs, FiniteSetTheorems

-----------------------------------------------------------------------------
(* Where a worker is *)

Entering == {"admit", "accept", "loop"}

Called == {"ask", "asking", "reject", "record", "commit_step"}

InHost == {"host", "hosting", "stage", "receipt"}

PastCommit == {"verify", "assemble", "present", "reserve", "execute", "begin"}
                 \cup InHost

Closing == {"close", "publish_end"}

InLoop == {"next_step", "start", "record_failure"} \cup Called \cup PastCommit
             \cup Closing

Quitting == {"catch", "settle_step", "settle_tool"}

Pcs == {"idle", "acquire", "claim", "admit", "accept", "loop", "next_step",
        "start", "ask", "asking", "reject", "record_failure", "record",
        "commit_step", "verify", "assemble", "present", "reserve", "execute",
        "begin", "host", "hosting", "stage", "receipt", "close", "publish_end",
        "settle", "settle_failed", "settle_step", "settle_tool", "catch", "fail",
        "block"}

\* The status of the Run, or of the Command while a dispatcher decides.
Statuses == {"created", "preparing", "model_streaming", "tool_assembling",
             "executing_tools", "verifying", "completed", "failed",
             "cancelled", "blocked", "reserved", "accepted"}

JobRow == [pc : Pcs, attempt : 0 .. MaxAttempts, token : Nat, seq : Nat,
           status : Statuses, step : ModelSteps \cup {NoStep},
           inv : Invocations \cup {NoStep}, budget : 0 .. MaxModelSteps,
           verified : BOOLEAN, end : Outcomes \cup {"none"}]

-----------------------------------------------------------------------------
(* What a worker does *)

\* What a run loop goes on with: nothing that names its authority, its ids or
\* its budget has changed.
GoesOnWith(j, next) ==
    /\ next \in JobRow
    /\ next.attempt = job[j].attempt /\ next.token = job[j].token
    /\ next.step = job[j].step /\ next.inv = job[j].inv
    /\ next.budget = job[j].budget /\ next.verified = job[j].verified

Keeps(j) ==
    /\ GoesOnWith(j, job'[j])
    /\ job'[j].seq = job[j].seq /\ job'[j].status = job[j].status

\* The refusals: the process ends, gives up on the Command, goes on to close
\* the Run, or goes on to its next call.
Quits(j) == Keep /\ job'[j] = Idle

GivesUp(j) ==
    /\ Keep
    /\ Keeps(j) /\ job'[j].end = job[j].end
    /\ job'[j].pc \in Quitting
    /\ \/ job[j].pc \in InLoop
       \/ job[j].pc = "loop" /\ job'[j].pc = "catch"
       \/ /\ job[j].pc = "admit" /\ job'[j].pc # "catch"
          /\ command.status = "dispatched"
       \/ /\ StoreFaults /\ job'[j].pc = "catch"
          /\ job[j].pc \in Entering \cup {"settle", "settle_step", "settle_tool"}

Closes(j) ==
    /\ Keep
    /\ Keeps(j) /\ job'[j].end \in {"blocked", "failed"}
    /\ job'[j].pc = "close"
    /\ job[j].pc \in InLoop

GoesOn(j) ==
    /\ Keep
    /\ Keeps(j) /\ job'[j].end = job[j].end
    /\ \/ At(j, "loop") /\ job'[j].pc = "next_step" /\ job[j].status # "created"
       \/ At(j, "next_step") /\ job'[j].pc = "start" /\ job[j].budget > 0
       \/ /\ Held(j)
          /\ \/ At(j, "ask") /\ job'[j].pc = "asking"
             \/ At(j, "asking") /\ job'[j].pc \in {"reject", "record"}
             \/ At(j, "host") /\ job'[j].pc = "hosting"
             \/ At(j, "hosting") /\ job'[j].pc = "stage"

\* A worker gets an Attempt and a lease, and is admitted to the run loop.
Acquires(j) ==
    /\ At(j, "acquire")
    /\ AcquireLease(1)
    /\ job'[j] = [job[j] EXCEPT !.pc = "admit", !.token = issued + 1]

Claims(j) ==
    /\ At(j, "claim")
    /\ ClaimOrReclaim(job[j].attempt, job[j].status, job[j].seq)
    /\ job'[j] = [Idle EXCEPT
           !.pc = IF job[j].status = "reserved" THEN "accept" ELSE "admit",
           !.attempt = 2, !.token = issued + 1, !.seq = job[j].seq,
           !.status = ContinuationStatus(job[j].seq)]

Accepts(j) ==
    /\ At(j, "accept")
    /\ TransitionRunCommand(job[j].attempt, job[j].token, "reserved",
                            "accepted", "none")
    /\ Keeps(j) /\ job'[j].end = job[j].end
    /\ job'[j].pc \in {"admit", "loop"}

Admits(j) ==
    /\ Keep
    /\ Keeps(j) /\ job'[j].end = job[j].end
    /\ \/ At(j, "admit") /\ job'[j].pc = "accept"
       \/ /\ At(j, "admit") \/ At(j, "accept")
          /\ command.status = "accepted"
          /\ job'[j].pc \in {"admit", "loop"}

\* One event by a run loop that knows the head of the log.
Writes(j, kind) ==
    /\ AppendEvents(job[j].attempt, job[j].token, job[j].seq, <<kind>>)
    /\ GoesOnWith(j, job'[j]) /\ job'[j].seq = job[j].seq + 1

\* The events of the run loop before its terminal event.
Records(j) ==
    \/ /\ Writes(j, "preparing")
       /\ At(j, "loop") /\ job[j].status = "created"
       /\ job'[j].pc = "next_step"
       /\ job'[j].status = "preparing" /\ job'[j].end = job[j].end
    \/ /\ \E kind \in {"model_streaming", "status", "model",
                       "tool_call_presented"} : Writes(j, kind)
       /\ job'[j].status \in {job[j].status, "model_streaming", "verifying",
                              "tool_assembling", "executing_tools", job[j].end}
       /\ \/ /\ job'[j].end = job[j].end
             /\ \/ /\ At(j, "next_step") /\ job'[j].pc = "start"
                   /\ job[j].budget > 0
                \/ At(j, "record") /\ job'[j].pc = "commit_step"
                \/ At(j, "assemble") /\ job'[j].pc = "present" /\ Unused # {}
                \/ At(j, "present") /\ job'[j].pc = "reserve"
                \/ At(j, "execute") /\ job'[j].pc = "begin"
                \/ At(j, "close") /\ job'[j].pc = "publish_end"
          \/ /\ At(j, "record_failure") \/ At(j, "assemble")
             /\ job'[j].pc = "close" /\ job'[j].end \in {"failed", "blocked"}
          \/ /\ At(j, "verify") /\ job'[j].pc = "close"
             /\ job'[j].end = IF job[j].verified THEN "completed" ELSE "blocked"

\* The terminal event of the run loop.
Publishes(j) ==
    /\ At(j, "publish_end")
    /\ Writes(j, TerminalKind(job[j].end))
    /\ job'[j].pc = "settle"
    /\ job'[j].status = job[j].status /\ job'[j].end = job[j].end

\* The Provider calls of the run loop.
StartsStep(j) ==
    /\ At(j, "start")
    /\ \E m \in ModelSteps :
          /\ StartModelStep(job[j].attempt, job[j].token, m)
          /\ job'[j] = [job[j] EXCEPT !.pc = "ask", !.step = m,
                                      !.budget = job[j].budget - 1]

FailsStep(j) ==
    /\ At(j, "reject")
    /\ FinishModelStep(job[j].attempt, job[j].token, job[j].step)
    /\ Keeps(j) /\ job'[j].end = job[j].end
    /\ job'[j].pc = "record_failure"

CommitsStep(j) ==
    /\ At(j, "commit_step")
    /\ CommitTerminalModelStep(job[j].attempt, job[j].token, job[j].step,
                               job[j].seq, job[j].seq)
    /\ Keeps(j)
    /\ \/ job'[j].pc = "close" /\ job'[j].end \in {"blocked", "cancelled", "failed"}
       \/ job'[j].pc = "verify" /\ job'[j].end = job[j].end
       \/ /\ job'[j].pc = "assemble" /\ job'[j].end = job[j].end
          /\ Unused # {}

\* The tool calls of the run loop.
ReservesCall(j) ==
    /\ At(j, "reserve")
    /\ \E i \in Invocations :
          /\ ReserveInvocation(job[j].attempt, job[j].token, i)
          /\ \E pc \in {"execute", "begin"} :
                job'[j] = [job[j] EXCEPT !.inv = i, !.pc = pc]

BeginsCall(j) ==
    /\ At(j, "begin")
    /\ BeginInvocationExecution(job[j].attempt, job[j].token, job[j].inv)
    /\ Keeps(j) /\ job'[j].end = job[j].end
    /\ job'[j].pc = "host"

StagesResult(j) ==
    /\ At(j, "stage")
    /\ StagePublicToolResultDerivative(job[j].attempt, job[j].token, job[j].inv)
    /\ Keeps(j) /\ job'[j].end = job[j].end
    /\ job'[j].pc = "receipt"

CommitsReceipt(j) ==
    /\ At(j, "receipt")
    /\ \E result \in Results, verified \in BOOLEAN :
          /\ CommitReceiptWithPublicEvents(job[j].attempt, job[j].token,
                 job[j].inv, result, verified, job[j].seq)
          /\ job'[j] \in JobRow
          /\ job'[j].attempt = job[j].attempt /\ job'[j].token = job[j].token
          /\ job'[j].seq = job[j].seq + IF verified THEN 2 ELSE 1
          /\ job'[j].verified => job[j].verified \/ verified
    /\ job'[j].budget = job[j].budget /\ job'[j].status = job[j].status
    /\ \/ job'[j].pc = "close" /\ job'[j].end \in {"blocked", "cancelled", "failed"}
       \/ job'[j].pc = "next_step" /\ job'[j].end = job[j].end
       \/ /\ job'[j].pc = "present" /\ job'[j].end = job[j].end
          /\ Unused # {}

\* The end of a worker, and the settlement by the coordinator.
SettlesCommand(j) ==
    /\ At(j, "settle") \/ At(j, "settle_failed")
    /\ TransitionRunCommand(job[j].attempt, job[j].token, command.status,
                            "terminal", job[j].end)
    /\ job'[j] = Idle

SettlesUnknown(j) ==
    /\ \/ At(j, "settle_step") \/ At(j, "settle_tool")
       \/ At(j, "catch") /\ StepIsOpen
    /\ Settle(j)
    /\ job'[j] = Idle

Fails(j) ==
    /\ Keep
    /\ At(j, "catch")
    /\ Keeps(j) /\ job'[j].end = job[j].end
    /\ job'[j].pc = "fail"

ReportsFailure(j) ==
    /\ At(j, "fail")
    /\ \/ AppendEvents(job[j].attempt, job[j].token, Watermark, <<"run_failed">>)
       \/ Keep /\ (~Held(j) \/ lastSeq[job[j].attempt] # Watermark \/ StoreFaults)
    /\ Keeps(j) /\ job'[j].end = "failed"
    /\ job'[j].pc = "settle_failed"

Blocks(j) ==
    /\ At(j, "block")
    /\ RecoverAndSettleRunCommandWithTerminalEvent(job[j].attempt, job[j].seq)
    /\ job'[j] = Idle

\* Nothing is written.
Waits(j) ==
    \/ Quits(j) \/ GivesUp(j) \/ Closes(j) \/ GoesOn(j) \/ Admits(j) \/ Fails(j)

\* A process takes the Command up.
Begins(j) ==
    \/ j \in Posts /\ Submit(j)
    \/ ReadForDispatch(j) \/ ReadForRecovery(j) \/ Acquires(j) \/ Claims(j)

\* A worker writes under its lease.
WritesUnderLease(j) ==
    \/ Accepts(j) \/ Records(j) \/ Publishes(j)
    \/ StartsStep(j) \/ FailsStep(j) \/ CommitsStep(j)
    \/ ReservesCall(j) \/ BeginsCall(j) \/ StagesResult(j) \/ CommitsReceipt(j)

Ends(j) ==
    SettlesCommand(j) \/ SettlesUnknown(j) \/ ReportsFailure(j) \/ Blocks(j)

WorkerStep(j) ==
    /\ \A k \in Jobs \ {j} : job'[k] = job[k]
    /\ Waits(j) \/ Begins(j) \/ WritesUnderLease(j) \/ Ends(j)

-----------------------------------------------------------------------------
(* What a worker knows of itself *)

\* The rows a worker refers to exist.
JobIsSound(j) ==
    /\ job[j].pc \notin {"idle", "block"} => job[j].attempt \in Attempts
    /\ job[j].pc \in {"idle", "acquire", "claim", "block"} => job[j].token = 0
    /\ job[j].pc \in Called => job[j].step \in ModelSteps
    /\ job[j].pc \in {"execute", "begin"} \cup InHost => job[j].inv \in Invocations
    /\ job[j].pc = "start" => job[j].budget > 0
    /\ job[j].pc \in Closing \cup {"settle", "settle_failed"} =>
          job[j].end \in Outcomes

UsedSteps == {m \in ModelSteps : steps[m].status # "none"}

\* What the owner of the lease knows of the Command and of fresh ids.
OwnerIsSound(j) ==
    /\ job[j].pc = "loop" => command.status = "accepted"
    /\ job[j].pc \in {"assemble", "present", "reserve"} => Unused # {}
    /\ job[j].pc \in InLoop \cup {"loop"} =>
          /\ IsFiniteSet(UsedSteps)
          /\ Cardinality(UsedSteps) + job[j].budget <= MaxModelSteps

\* Lease tokens are handed out once.
TokensAreUnique ==
    /\ \A a \in Attempts : leases[a].token <= issued
    /\ \A a \in Attempts : leases[a].token = 0 => leases[a].left = 0
    /\ \A j \in Jobs : job[j].token <= issued
    /\ \A j, k \in Jobs : job[j].token = job[k].token => j = k \/ job[j].token = 0

EventsBounded == \A a \in Attempts : lastSeq[a] <= MaxEvents

WorkersInv ==
    /\ LogInv
    /\ BoundaryInv
    /\ EventsBounded
    /\ job \in [Jobs -> JobRow]
    /\ TokensAreUnique
    /\ \A j \in Jobs : JobIsSound(j)
    /\ \A j \in Jobs : Held(j) => OwnerIsSound(j)

-----------------------------------------------------------------------------
(* Every action is one of these *)

NextAt(j, pc) == [job[j] EXCEPT !.pc = pc]

LEMMA NextRows ==
    ASSUME job \in [Jobs -> JobRow], NEW j \in Jobs
    PROVE  /\ \A pc \in Pcs :
                 LET next == NextAt(j, pc) IN
                 /\ GoesOnWith(j, next) /\ next.pc = pc /\ next.end = job[j].end
                 /\ next.seq = job[j].seq /\ next.status = job[j].status
           /\ \A o \in Outcomes :
                 LET next == Terminal(job[j], o) IN
                 /\ GoesOnWith(j, next) /\ next.pc = "close" /\ next.end = o
                 /\ next.seq = job[j].seq /\ next.status = job[j].status
  <1>1. job[j] \in JobRow
    OBVIOUS
  <1>2. ASSUME NEW pc \in Pcs
        PROVE  LET next == NextAt(j, pc) IN
               /\ GoesOnWith(j, next) /\ next.pc = pc /\ next.end = job[j].end
               /\ next.seq = job[j].seq /\ next.status = job[j].status
    BY <1>1 DEF GoesOnWith, JobRow, NextAt
  <1>3. ASSUME NEW o \in Outcomes
        PROVE  LET next == Terminal(job[j], o) IN
               /\ GoesOnWith(j, next) /\ next.pc = "close" /\ next.end = o
               /\ next.seq = job[j].seq /\ next.status = job[j].status
    <2>1. Terminal(job[j], o) \in JobRow
      <3>1. NextAt(j, "close") \in JobRow
        BY <1>2 DEF GoesOnWith, Pcs
      <3>2. Terminal(job[j], o) = [NextAt(j, "close") EXCEPT !.end = o]
        BY DEF NextAt, Terminal
      <3> QED
        BY <3>1, <3>2 DEF JobRow
    <2> QED
      BY <1>1, <2>1 DEF GoesOnWith, JobRow, Terminal
  <1> QED
    BY <1>2, <1>3

\* A move that writes nothing.
LEMMA Moves ==
    ASSUME job \in [Jobs -> JobRow], NEW j \in Jobs
    PROVE  /\ \A r : Become(j, r) =>
                 job'[j] = r /\ \A k \in Jobs \ {j} : job'[k] = job[k]
           /\ \A pc \in Pcs : Goto(j, pc) =>
                 /\ Keeps(j) /\ job'[j].end = job[j].end /\ job'[j].pc = pc
                 /\ \A k \in Jobs \ {j} : job'[k] = job[k]
           /\ Stop(j) => job'[j] = Idle /\ \A k \in Jobs \ {j} : job'[k] = job[k]
           /\ Throw(j) =>
                 /\ Keep
                 /\ Keeps(j) /\ job'[j].end = job[j].end /\ job'[j].pc = "catch"
                 /\ \A k \in Jobs \ {j} : job'[k] = job[k]
           /\ \A stepRequired : Become(j, UnknownOutcome(job[j], stepRequired)) =>
                 /\ Keeps(j) /\ job'[j].end = job[j].end
                 /\ job'[j].pc \in Quitting \ {"catch"}
                 /\ \A k \in Jobs \ {j} : job'[k] = job[k]
           /\ \A o \in Outcomes : Become(j, Terminal(job[j], o)) =>
                 /\ Keeps(j) /\ job'[j].end = o /\ job'[j].pc = "close"
                 /\ \A k \in Jobs \ {j} : job'[k] = job[k]
  <1>1. DOMAIN job = Jobs
    OBVIOUS
  <1>2. ASSUME NEW r
        PROVE  Become(j, r) =>
                 job'[j] = r /\ \A k \in Jobs \ {j} : job'[k] = job[k]
    BY DEF Become
  <1>3. ASSUME NEW pc \in Pcs
        PROVE  Goto(j, pc) =>
                 /\ Keeps(j) /\ job'[j].end = job[j].end /\ job'[j].pc = pc
                 /\ \A k \in Jobs \ {j} : job'[k] = job[k]
    <2>1. Goto(j, pc) =>
            job'[j] = NextAt(j, pc) /\ \A k \in Jobs \ {j} : job'[k] = job[k]
      BY DEF Goto, NextAt
    <2> QED
      BY <2>1, NextRows DEF Keeps
  <1>4. Throw(j) =>
           /\ Keep
           /\ Keeps(j) /\ job'[j].end = job[j].end /\ job'[j].pc = "catch"
           /\ \A k \in Jobs \ {j} : job'[k] = job[k]
    BY <1>3 DEF Throw, Pcs
  <1>5. ASSUME NEW stepRequired, Become(j, UnknownOutcome(job[j], stepRequired))
        PROVE  /\ Keeps(j) /\ job'[j].end = job[j].end
               /\ job'[j].pc \in Quitting \ {"catch"}
               /\ \A k \in Jobs \ {j} : job'[k] = job[k]
    <2>1. \E pc \in {"settle_step", "settle_tool"} : Goto(j, pc)
      BY <1>5 DEF Become, UnknownOutcome, Goto
    <2> QED
      BY <1>3, <2>1 DEF Pcs, Quitting
  <1>6. ASSUME NEW o \in Outcomes, Become(j, Terminal(job[j], o))
        PROVE  /\ Keeps(j) /\ job'[j].end = o /\ job'[j].pc = "close"
               /\ \A k \in Jobs \ {j} : job'[k] = job[k]
    BY <1>2, <1>6, NextRows DEF Keeps
  <1>7. Stop(j) => job'[j] = Idle /\ \A k \in Jobs \ {j} : job'[k] = job[k]
    BY <1>2 DEF Stop
  <1> QED
    BY <1>2, <1>3, <1>4, <1>5, <1>6, <1>7

\* A refused append is an exception.
LEMMA Refused ==
    ASSUME job \in [Jobs -> JobRow], NEW j \in Jobs,
           job[j].pc \in InLoop \cup {"loop"}, Throw(j)
    PROVE  WorkerStep(j)
  BY Moves DEF WorkerStep, Waits, GivesUp, Quitting

LEMMA AppendCases ==
    ASSUME job \in [Jobs -> JobRow], NEW j \in Jobs, NEW kind,
           NEW next, GoesOnWith(j, next), Append1(j, kind, next)
    PROVE  \/ Throw(j)
           \/ /\ \A k \in Jobs \ {j} : job'[k] = job[k]
              /\ Writes(j, kind)
              /\ job'[j].pc = next.pc /\ job'[j].status = next.status
              /\ job'[j].end = next.end
  <1>1. CASE Throw(j)
    BY <1>1
  <1>2. ASSUME AppendEvents(job[j].attempt, job[j].token, job[j].seq, <<kind>>),
               Become(j, [next EXCEPT !.seq = job[j].seq + 1])
        PROVE  /\ \A k \in Jobs \ {j} : job'[k] = job[k]
               /\ Writes(j, kind)
               /\ job'[j].pc = next.pc /\ job'[j].status = next.status
               /\ job'[j].end = next.end
    <2>1. /\ job'[j] = [next EXCEPT !.seq = job[j].seq + 1]
          /\ \A k \in Jobs \ {j} : job'[k] = job[k]
      BY <1>2, Moves
    <2> QED
      BY <1>2, <2>1 DEF Writes, GoesOnWith, JobRow
  <1> QED
    BY <1>1, <1>2 DEF Append1

LEMMA StatusCases ==
    ASSUME job \in [Jobs -> JobRow], NEW j \in Jobs, NEW status \in Statuses,
           NEW next, GoesOnWith(j, next), ChangeStatus(j, status, next)
    PROVE  \/ Throw(j)
           \/ /\ \A k \in Jobs \ {j} : job'[k] = job[k]
              /\ Writes(j, StatusKind(status))
              /\ job'[j].pc = next.pc /\ job'[j].status = status
              /\ job'[j].end = next.end
  <1> DEFINE row == [next EXCEPT !.status = status]
  <1>1. /\ GoesOnWith(j, row)
        /\ row.pc = next.pc /\ row.status = status /\ row.end = next.end
    BY DEF GoesOnWith, JobRow
  <1>2. Append1(j, StatusKind(status), row) \/ Throw(j)
    BY DEF ChangeStatus
  <1> HIDE DEF row
  <1> QED
    BY <1>1, <1>2, AppendCases

\* An event, and the next call or the close of the Run.
LEMMA WriteCases ==
    ASSUME job \in [Jobs -> JobRow], NEW j \in Jobs
    PROVE  /\ \A kind : \A pc \in Pcs :
                 Append1(j, kind, NextAt(j, pc)) =>
                    \/ Throw(j)
                    \/ /\ \A k \in Jobs \ {j} : job'[k] = job[k]
                       /\ Writes(j, kind)
                       /\ job'[j].pc = pc /\ job'[j].status = job[j].status
                       /\ job'[j].end = job[j].end
           /\ \A kind : \A o \in Outcomes :
                 Append1(j, kind, Terminal(job[j], o)) =>
                    \/ Throw(j)
                    \/ /\ \A k \in Jobs \ {j} : job'[k] = job[k]
                       /\ Writes(j, kind)
                       /\ job'[j].pc = "close" /\ job'[j].status = job[j].status
                       /\ job'[j].end = o
           /\ \A status \in Statuses, pc \in Pcs :
                 ChangeStatus(j, status, NextAt(j, pc)) =>
                    \/ Throw(j)
                    \/ /\ \A k \in Jobs \ {j} : job'[k] = job[k]
                       /\ Writes(j, StatusKind(status))
                       /\ job'[j].pc = pc /\ job'[j].status = status
                       /\ job'[j].end = job[j].end
           /\ \A status \in Statuses, o \in Outcomes :
                 ChangeStatus(j, status, Terminal(job[j], o)) =>
                    \/ Throw(j)
                    \/ /\ \A k \in Jobs \ {j} : job'[k] = job[k]
                       /\ Writes(j, StatusKind(status))
                       /\ job'[j].pc = "close" /\ job'[j].status = status
                       /\ job'[j].end = o
  <1>1. ASSUME NEW kind, NEW pc \in Pcs,
               Append1(j, kind, NextAt(j, pc))
        PROVE  \/ Throw(j)
               \/ /\ \A k \in Jobs \ {j} : job'[k] = job[k]
                  /\ Writes(j, kind)
                  /\ job'[j].pc = pc /\ job'[j].status = job[j].status
                  /\ job'[j].end = job[j].end
    <2> DEFINE row == NextAt(j, pc)
    <2>1. /\ GoesOnWith(j, row) /\ Append1(j, kind, row)
          /\ row.pc = pc /\ row.status = job[j].status /\ row.end = job[j].end
      BY <1>1, NextRows
    <2> HIDE DEF row
    <2> QED
      BY <2>1, AppendCases
  <1>2. ASSUME NEW kind, NEW o \in Outcomes,
               Append1(j, kind, Terminal(job[j], o))
        PROVE  \/ Throw(j)
               \/ /\ \A k \in Jobs \ {j} : job'[k] = job[k]
                  /\ Writes(j, kind)
                  /\ job'[j].pc = "close" /\ job'[j].status = job[j].status
                  /\ job'[j].end = o
    BY <1>2, NextRows, AppendCases
  <1>3. ASSUME NEW status \in Statuses, NEW pc \in Pcs,
               ChangeStatus(j, status, NextAt(j, pc))
        PROVE  \/ Throw(j)
               \/ /\ \A k \in Jobs \ {j} : job'[k] = job[k]
                  /\ Writes(j, StatusKind(status))
                  /\ job'[j].pc = pc /\ job'[j].status = status
                  /\ job'[j].end = job[j].end
    <2> DEFINE row == NextAt(j, pc)
    <2>1. /\ GoesOnWith(j, row) /\ ChangeStatus(j, status, row)
          /\ row.pc = pc /\ row.status = job[j].status /\ row.end = job[j].end
      BY <1>3, NextRows
    <2> HIDE DEF row
    <2> QED
      BY <2>1, StatusCases
  <1>4. ASSUME NEW status \in Statuses, NEW o \in Outcomes,
               ChangeStatus(j, status, Terminal(job[j], o))
        PROVE  \/ Throw(j)
               \/ /\ \A k \in Jobs \ {j} : job'[k] = job[k]
                  /\ Writes(j, StatusKind(status))
                  /\ job'[j].pc = "close" /\ job'[j].status = status
                  /\ job'[j].end = o
    BY <1>4, NextRows, StatusCases
  <1> QED
    BY <1>1, <1>2, <1>3, <1>4

LEMMA EntryCases ==
    ASSUME job \in [Jobs -> JobRow], NEW j \in Jobs,
           \/ j \in Posts /\ Submit(j)
           \/ ReadForDispatch(j) \/ ReadForRecovery(j)
           \/ AcquireInitial(j) \/ TakeAuthority(j) \/ Accept(j) \/ Admit(j)
    PROVE  WorkerStep(j)
  <1>1. job[j] \in JobRow
    OBVIOUS
  <1>2. CASE j \in Posts /\ Submit(j)
    BY <1>2, Moves DEF Submit, WorkerStep, Begins
  <1>3. CASE ReadForDispatch(j) \/ ReadForRecovery(j)
    BY <1>3, Moves DEF ReadForDispatch, ReadForRecovery, WorkerStep, Begins
  <1>4. CASE AcquireInitial(j)
    BY <1>4, Moves DEF AcquireInitial, WorkerStep, Begins, Acquires, Waits, Quits
  <1>5. CASE TakeAuthority(j)
    BY <1>5, Moves DEF TakeAuthority, WorkerStep, Begins, Claims, Waits, Quits
  <1>6. CASE Accept(j)
    <2>1. ASSUME Goto(j, IF j \in Dispatchers THEN "admit" ELSE "loop")
          PROVE  /\ \A k \in Jobs \ {j} : job'[k] = job[k]
                 /\ Keeps(j) /\ job'[j].end = job[j].end
                 /\ job'[j].pc \in {"admit", "loop"}
      BY <2>1, Moves DEF Pcs
    <2> QED
      BY <1>6, <2>1, Moves
      DEF Accept, WorkerStep, WritesUnderLease, Accepts, Waits, Quits, Admits
  <1>7. CASE Admit(j)
    <2>1. At(j, "admit") /\ Keep
      BY <1>7 DEF Admit
    <2>2. CASE command.status = "terminal" /\ Stop(j)
      BY <2>1, <2>2, Moves DEF WorkerStep, Waits, Quits
    <2>3. CASE command.status = "dispatched"
      <3>1. Become(j, UnknownOutcome(job[j], InvocationRecoveryState = "absent"))
        BY <1>7, <2>3 DEF Admit
      <3> QED
        BY <2>1, <2>3, <3>1, Moves DEF WorkerStep, Waits, GivesUp, At
    <2>4. CASE Goto(j, "accept") \/ (command.status = "accepted" /\ Goto(j, "loop"))
      BY <2>1, <2>4, Moves DEF WorkerStep, Waits, Admits, Pcs
    <2> QED
      BY <1>7, <2>2, <2>3, <2>4 DEF Admit
  <1> QED
    BY <1>2, <1>3, <1>4, <1>5, <1>6, <1>7

\* The budget leaves the owner of the lease an id for its next Provider call.
LEMMA FreshStep ==
    ASSUME WorkersInv, NEW j \in Jobs, At(j, "start"), Held(j)
    PROVE  \E n \in ModelSteps : steps[n].status = "none"
  <1>1. /\ IsFiniteSet(UsedSteps)
        /\ Cardinality(UsedSteps) + job[j].budget <= MaxModelSteps
    BY DEF WorkersInv, OwnerIsSound, At, InLoop
  <1>2. job[j].budget \in Nat /\ job[j].budget > 0
    BY WorkersAssumption DEF WorkersInv, JobRow, JobIsSound, At
  <1>3. Cardinality(UsedSteps) \in Nat
    BY <1>1, FS_CardinalityType
  <1>4. UsedSteps # ModelSteps
    BY <1>1, <1>2, <1>3, WorkersAssumption
  <1> QED
    BY <1>4 DEF UsedSteps

LEMMA StepCallCases ==
    ASSUME WorkersInv, NEW j \in Jobs,
           \/ Prepare(j) \/ NextStep(j) \/ StartStep(j) \/ AskProvider(j)
           \/ ProviderReturns(j) \/ RejectStep(j) \/ RecordModelEvents(j)
           \/ CommitStep(j)
    PROVE  WorkerStep(j)
  <1>1. job \in [Jobs -> JobRow] /\ job[j] \in JobRow
    BY DEF WorkersInv
  <1>2. ASSUME job[j].pc \in InLoop \cup {"loop"}, Throw(j)
        PROVE  WorkerStep(j)
    BY <1>1, <1>2, Refused
  <1>3. ASSUME job[j].pc \in InLoop, Keep, NEW stepRequired,
               Become(j, UnknownOutcome(job[j], stepRequired))
        PROVE  WorkerStep(j)
    BY <1>1, <1>3, Moves DEF WorkerStep, Waits, GivesUp
  <1>4. ASSUME job[j].pc \in InLoop, Keep, NEW o \in {"blocked", "failed"},
               Become(j, Terminal(job[j], o))
        PROVE  WorkerStep(j)
    BY <1>1, <1>4, Moves DEF WorkerStep, Waits, Closes, Outcomes
  <1>5. CASE Prepare(j)
    <2>1. CASE job[j].status = "created"
      <3>1. ChangeStatus(j, "preparing", NextAt(j, "next_step"))
        BY <1>5, <2>1 DEF Prepare, NextAt
      <3>2. /\ At(j, "loop") /\ StatusKind("preparing") = "preparing"
            /\ "preparing" \in Statuses /\ "next_step" \in Pcs
        BY <1>5 DEF Prepare, StatusKind, Statuses, Pcs
      <3>3. CASE Throw(j)
        BY <1>2, <3>2, <3>3 DEF At
      <3>4. ~Throw(j) =>
               /\ \A k \in Jobs \ {j} : job'[k] = job[k]
               /\ Writes(j, "preparing")
               /\ job'[j].pc = "next_step" /\ job'[j].status = "preparing"
               /\ job'[j].end = job[j].end
        BY <1>1, <3>1, <3>2, WriteCases
      <3> QED
        BY <2>1, <3>2, <3>3, <3>4 DEF WorkerStep, WritesUnderLease, Records
    <2>2. CASE job[j].status # "created"
      BY <1>1, <1>5, <2>2, Moves DEF Prepare, WorkerStep, Waits, GoesOn, Pcs
    <2> QED
      BY <2>1, <2>2
  <1>6. CASE NextStep(j)
    <2>1. At(j, "next_step") /\ job[j].pc \in InLoop
      BY <1>6 DEF NextStep, At, InLoop
    <2>2. CASE Keep /\ Become(j, Terminal(job[j], "blocked"))
      BY <1>4, <2>1, <2>2
    <2>3. CASE job[j].budget > 0 /\ Keep /\ Goto(j, "start")
      BY <1>1, <2>1, <2>3, Moves DEF WorkerStep, Waits, GoesOn, Pcs
    <2>4. CASE /\ job[j].budget > 0
               /\ ChangeStatus(j, "model_streaming", NextAt(j, "start"))
      <3>1. /\ StatusKind("model_streaming") = "model_streaming"
            /\ "model_streaming" \in Statuses /\ "start" \in Pcs
        BY DEF StatusKind, Statuses, Pcs
      <3>2. CASE Throw(j)
        BY <1>2, <2>1, <3>2
      <3>3. ~Throw(j) =>
               /\ \A k \in Jobs \ {j} : job'[k] = job[k]
               /\ Writes(j, "model_streaming")
               /\ job'[j].pc = "start" /\ job'[j].status = "model_streaming"
               /\ job'[j].end = job[j].end
        BY <1>1, <2>4, <3>1, WriteCases
      <3> QED
        BY <2>1, <2>4, <3>2, <3>3 DEF WorkerStep, WritesUnderLease, Records
    <2> QED
      BY <1>6, <2>2, <2>3, <2>4 DEF NextStep, NextAt
  <1>7. CASE StartStep(j)
    <2>1. At(j, "start") /\ job[j].pc \in InLoop
      BY <1>7 DEF StartStep, At, InLoop
    <2>2. CASE Keep /\ \E o \in {"blocked", "failed"} : Become(j, Terminal(job[j], o))
      BY <1>4, <2>1, <2>2
    <2> DEFINE m == CHOOSE n \in ModelSteps : steps[n].status = "none"
    <2>3. CASE /\ StartModelStep(job[j].attempt, job[j].token, m)
               /\ Become(j, [job[j] EXCEPT !.pc = "ask", !.step = m,
                                           !.budget = job[j].budget - 1])
      <3>1. Held(j)
        <4>1. job[j].attempt \in Attempts
          BY <2>1 DEF WorkersInv, JobIsSound, At
        <4> QED
          BY <2>3, <4>1 DEF StartModelStep, Held, Attempts
      <3>2. m \in ModelSteps
        BY <2>1, <3>1, FreshStep
      <3> HIDE DEF m
      <3>3. StartsStep(j) /\ \A k \in Jobs \ {j} : job'[k] = job[k]
        BY <1>1, <2>1, <2>3, <3>2, Moves DEF StartsStep
      <3> QED
        BY <3>3 DEF WorkerStep, WritesUnderLease
    <2> QED
      BY <1>7, <2>2, <2>3 DEF StartStep
  <1>8. CASE AskProvider(j)
    <2>1. At(j, "ask") /\ job[j].pc \in InLoop
      BY <1>8 DEF AskProvider, At, InLoop, Called
    <2>2. CASE Held(j) /\ Keep /\ Goto(j, "asking")
      BY <1>1, <2>1, <2>2, Moves DEF WorkerStep, Waits, GoesOn, Pcs
    <2> QED
      BY <1>2, <1>8, <2>1, <2>2 DEF AskProvider
  <1>9. CASE ProviderReturns(j)
    <2>1. At(j, "asking") /\ job[j].pc \in InLoop
      BY <1>9 DEF ProviderReturns, At, InLoop, Called
    <2>2. ASSUME NEW next \in {"reject", "record"}, Held(j), Keep, Goto(j, next)
          PROVE  WorkerStep(j)
      BY <1>1, <2>1, <2>2, Moves DEF WorkerStep, Waits, GoesOn, Pcs
    <2> QED
      BY <1>2, <1>3, <1>4, <1>9, <2>1, <2>2 DEF ProviderReturns
  <1>10. CASE RejectStep(j)
    <2>1. At(j, "reject") /\ job[j].pc \in InLoop
      BY <1>10 DEF RejectStep, At, InLoop, Called
    <2>2. CASE /\ FinishModelStep(job[j].attempt, job[j].token, job[j].step)
               /\ Goto(j, "record_failure")
      BY <1>1, <2>1, <2>2, Moves
      DEF WorkerStep, WritesUnderLease, FailsStep, Pcs
    <2> QED
      BY <1>3, <1>4, <1>10, <2>1, <2>2 DEF RejectStep
  <1>11. CASE RecordModelEvents(j)
    <2>1. CASE /\ At(j, "record_failure")
               /\ Append1(j, "model", Terminal(job[j], "failed"))
      <3>1. CASE Throw(j)
        BY <1>2, <2>1, <3>1 DEF At, InLoop
      <3>2. ~Throw(j) =>
               /\ \A k \in Jobs \ {j} : job'[k] = job[k]
               /\ Writes(j, "model")
               /\ job'[j].pc = "close" /\ job'[j].status = job[j].status
               /\ job'[j].end = "failed"
        BY <1>1, <2>1, WriteCases DEF Outcomes
      <3> QED
        BY <2>1, <3>1, <3>2 DEF WorkerStep, WritesUnderLease, Records
    <2>2. CASE At(j, "record") /\ Append1(j, "model", NextAt(j, "commit_step"))
      <3>1. CASE Throw(j)
        BY <1>2, <2>2, <3>1 DEF At, InLoop, Called
      <3>2. ~Throw(j) =>
               /\ \A k \in Jobs \ {j} : job'[k] = job[k]
               /\ Writes(j, "model")
               /\ job'[j].pc = "commit_step" /\ job'[j].status = job[j].status
               /\ job'[j].end = job[j].end
        BY <1>1, <2>2, WriteCases DEF Pcs
      <3> QED
        BY <2>2, <3>1, <3>2 DEF WorkerStep, WritesUnderLease, Records
    <2> QED
      BY <1>11, <2>1, <2>2 DEF RecordModelEvents, NextAt
  <1>12. CASE CommitStep(j)
    <2>1. At(j, "commit_step") /\ job[j].pc \in InLoop
      BY <1>12 DEF CommitStep, At, InLoop, Called
    <2>2. ASSUME CommitTerminalModelStep(job[j].attempt, job[j].token,
                     job[j].step, job[j].seq, job[j].seq),
                 NEW next \in AfterStep(job[j]), Become(j, next)
          PROVE  WorkerStep(j)
      <3>1. CASE \E o \in {"blocked", "cancelled", "failed"} :
                    next = Terminal(job[j], o)
        BY <1>1, <2>1, <2>2, <3>1, Moves
        DEF WorkerStep, WritesUnderLease, CommitsStep, Outcomes
      <3>2. CASE next = NextAt(j, "verify")
        <4>1. Goto(j, "verify")
          BY <2>2, <3>2 DEF Become, Goto, NextAt
        <4> QED
          BY <1>1, <2>1, <2>2, <4>1, Moves
          DEF WorkerStep, WritesUnderLease, CommitsStep, Pcs
      <3>3. CASE next = NextAt(j, "assemble") /\ Unused # {}
        <4>1. Goto(j, "assemble")
          BY <2>2, <3>3 DEF Become, Goto, NextAt
        <4> QED
          BY <1>1, <2>1, <2>2, <3>3, <4>1, Moves
          DEF WorkerStep, WritesUnderLease, CommitsStep, Pcs
      <3> QED
        BY <2>2, <3>1, <3>2, <3>3 DEF AfterStep, NextAt
    <2> QED
      BY <1>2, <1>3, <1>12, <2>1, <2>2 DEF CommitStep
  <1> QED
    BY <1>5, <1>6, <1>7, <1>8, <1>9, <1>10, <1>11, <1>12

LEMMA CallCases ==
    ASSUME WorkersInv, NEW j \in Jobs,
           \/ Verify(j) \/ Assemble(j) \/ PresentCall(j) \/ ReserveCall(j)
           \/ ExecuteTools(j) \/ BeginCall(j) \/ CallHost(j) \/ HostReturns(j)
           \/ StageResult(j) \/ CommitResult(j)
    PROVE  WorkerStep(j)
  <1>1. job \in [Jobs -> JobRow] /\ job[j] \in JobRow
    BY DEF WorkersInv
  <1>2. ASSUME job[j].pc \in InLoop \cup {"loop"}, Throw(j)
        PROVE  WorkerStep(j)
    BY <1>1, <1>2, Refused
  <1>3. ASSUME job[j].pc \in InLoop, Keep, NEW stepRequired,
               Become(j, UnknownOutcome(job[j], stepRequired))
        PROVE  WorkerStep(j)
    BY <1>1, <1>3, Moves DEF WorkerStep, Waits, GivesUp
  <1>4. CASE Verify(j)
    <2> DEFINE o == IF job[j].verified THEN "completed" ELSE "blocked"
    <2>1. /\ At(j, "verify") /\ job[j].pc \in InLoop
          /\ ChangeStatus(j, "verifying", Terminal(job[j], o))
      BY <1>4 DEF Verify, At, InLoop, PastCommit
    <2>2. /\ StatusKind("verifying") = "status"
          /\ "verifying" \in Statuses /\ o \in Outcomes
      BY DEF StatusKind, Statuses, Outcomes
    <2> HIDE DEF o
    <2>3. ~Throw(j) =>
             /\ \A k \in Jobs \ {j} : job'[k] = job[k]
             /\ Writes(j, "status")
             /\ job'[j].pc = "close" /\ job'[j].status = "verifying"
             /\ job'[j].end = o
      BY <1>1, <2>1, <2>2, WriteCases
    <2> QED
      BY <1>2, <2>1, <2>3 DEF WorkerStep, WritesUnderLease, Records, o
  <1>5. CASE Assemble(j)
    <2>1. At(j, "assemble") /\ job[j].pc \in InLoop
      BY <1>5 DEF Assemble, At, InLoop, PastCommit
    <2>2. /\ StatusKind("tool_assembling") = "status"
          /\ "tool_assembling" \in Statuses
      BY DEF StatusKind, Statuses
    <2>3. ASSUME NEW o \in {"failed", "blocked"},
                 ChangeStatus(j, "tool_assembling", Terminal(job[j], o))
          PROVE  WorkerStep(j)
      <3>1. o \in Outcomes
        BY DEF Outcomes
      <3>2. ~Throw(j) =>
               /\ \A k \in Jobs \ {j} : job'[k] = job[k]
               /\ Writes(j, "status")
               /\ job'[j].pc = "close" /\ job'[j].status = "tool_assembling"
               /\ job'[j].end = o
        BY <1>1, <2>2, <2>3, <3>1, WriteCases
      <3> QED
        BY <1>2, <2>1, <3>2 DEF WorkerStep, WritesUnderLease, Records
    <2>4. ASSUME Unused # {},
                 ChangeStatus(j, "tool_assembling", NextAt(j, "present"))
          PROVE  WorkerStep(j)
      <3>1. "present" \in Pcs
        BY DEF Pcs
      <3>2. ~Throw(j) =>
               /\ \A k \in Jobs \ {j} : job'[k] = job[k]
               /\ Writes(j, "status")
               /\ job'[j].pc = "present" /\ job'[j].status = "tool_assembling"
               /\ job'[j].end = job[j].end
        BY <1>1, <2>2, <2>4, <3>1, WriteCases
      <3> QED
        BY <1>2, <2>1, <2>4, <3>2 DEF WorkerStep, WritesUnderLease, Records
    <2> QED
      BY <1>5, <2>3, <2>4 DEF Assemble, AfterGate, NextAt
  <1>6. CASE PresentCall(j)
    <2>1. /\ At(j, "present") /\ job[j].pc \in InLoop
          /\ Append1(j, "tool_call_presented", NextAt(j, "reserve"))
      BY <1>6 DEF PresentCall, At, InLoop, PastCommit, NextAt
    <2>2. ~Throw(j) =>
             /\ \A k \in Jobs \ {j} : job'[k] = job[k]
             /\ Writes(j, "tool_call_presented")
             /\ job'[j].pc = "reserve" /\ job'[j].status = job[j].status
             /\ job'[j].end = job[j].end
      BY <1>1, <2>1, WriteCases DEF Pcs
    <2> QED
      BY <1>2, <2>1, <2>2 DEF WorkerStep, WritesUnderLease, Records
  <1>7. CASE ReserveCall(j)
    <2>1. At(j, "reserve") /\ job[j].pc \in InLoop
      BY <1>7 DEF ReserveCall, At, InLoop, PastCommit
    <2>2. CASE Keep /\ Become(j, Terminal(job[j], "failed"))
      BY <1>1, <2>1, <2>2, Moves DEF WorkerStep, Waits, Closes, Outcomes
    <2> DEFINE i == CHOOSE k \in Unused : TRUE
    <2>3. CASE /\ ReserveInvocation(job[j].attempt, job[j].token, i)
               /\ Become(j, [job[j] EXCEPT !.inv = i, !.pc =
                     IF job[j].status = "executing_tools" THEN "begin"
                                                          ELSE "execute"])
      <3>1. Held(j)
        <4>1. job[j].attempt \in Attempts
          BY <2>1 DEF WorkersInv, JobIsSound, At
        <4> QED
          BY <2>3, <4>1 DEF ReserveInvocation, Held, Attempts
      <3>2. i \in Invocations
        BY <2>1, <3>1 DEF WorkersInv, OwnerIsSound, At, Unused
      <3> DEFINE pc == IF job[j].status = "executing_tools" THEN "begin"
                                                            ELSE "execute"
      <3>3. pc \in {"execute", "begin"}
        OBVIOUS
      <3> HIDE DEF i, pc
      <3>4. /\ ReserveInvocation(job[j].attempt, job[j].token, i)
            /\ Become(j, [job[j] EXCEPT !.inv = i, !.pc = pc])
        BY <2>3 DEF pc
      <3>5. ReservesCall(j) /\ \A k \in Jobs \ {j} : job'[k] = job[k]
        BY <1>1, <2>1, <3>2, <3>3, <3>4, Moves DEF ReservesCall
      <3> QED
        BY <3>5 DEF WorkerStep, WritesUnderLease
    <2> QED
      BY <1>7, <2>2, <2>3 DEF ReserveCall
  <1>8. CASE ExecuteTools(j)
    <2>1. /\ At(j, "execute") /\ job[j].pc \in InLoop
          /\ ChangeStatus(j, "executing_tools", NextAt(j, "begin"))
      BY <1>8 DEF ExecuteTools, At, InLoop, PastCommit, NextAt
    <2>2. /\ StatusKind("executing_tools") = "status"
          /\ "executing_tools" \in Statuses /\ "begin" \in Pcs
      BY DEF StatusKind, Statuses, Pcs
    <2>3. ~Throw(j) =>
             /\ \A k \in Jobs \ {j} : job'[k] = job[k]
             /\ Writes(j, "status")
             /\ job'[j].pc = "begin" /\ job'[j].status = "executing_tools"
             /\ job'[j].end = job[j].end
      BY <1>1, <2>1, <2>2, WriteCases
    <2> QED
      BY <1>2, <2>1, <2>3 DEF WorkerStep, WritesUnderLease, Records
  <1>9. CASE BeginCall(j)
    <2>1. At(j, "begin") /\ job[j].pc \in InLoop
      BY <1>9 DEF BeginCall, At, InLoop, PastCommit
    <2>2. CASE /\ BeginInvocationExecution(job[j].attempt, job[j].token, job[j].inv)
               /\ Goto(j, "host")
      BY <1>1, <2>1, <2>2, Moves DEF WorkerStep, WritesUnderLease, BeginsCall, Pcs
    <2> QED
      BY <1>3, <1>9, <2>1, <2>2 DEF BeginCall
  <1>10. CASE CallHost(j)
    <2>1. At(j, "host") /\ job[j].pc \in InLoop
      BY <1>10 DEF CallHost, At, InLoop, PastCommit, InHost
    <2>2. CASE Held(j) /\ Keep /\ Goto(j, "hosting")
      BY <1>1, <2>1, <2>2, Moves DEF WorkerStep, Waits, GoesOn, Pcs
    <2> QED
      BY <1>2, <1>10, <2>1, <2>2 DEF CallHost
  <1>11. CASE HostReturns(j)
    <2>1. At(j, "hosting") /\ job[j].pc \in InLoop
      BY <1>11 DEF HostReturns, At, InLoop, PastCommit, InHost
    <2>2. CASE Held(j) /\ Keep /\ Goto(j, "stage")
      BY <1>1, <2>1, <2>2, Moves DEF WorkerStep, Waits, GoesOn, Pcs
    <2> QED
      BY <1>2, <1>3, <1>11, <2>1, <2>2 DEF HostReturns
  <1>12. CASE StageResult(j)
    <2>1. At(j, "stage") /\ job[j].pc \in InLoop
      BY <1>12 DEF StageResult, At, InLoop, PastCommit, InHost
    <2>2. CASE /\ StagePublicToolResultDerivative(job[j].attempt, job[j].token,
                                                  job[j].inv)
               /\ Goto(j, "receipt")
      BY <1>1, <2>1, <2>2, Moves DEF WorkerStep, WritesUnderLease, StagesResult, Pcs
    <2> QED
      BY <1>2, <1>3, <1>12, <2>1, <2>2 DEF StageResult
  <1>13. CASE CommitResult(j)
    <2>1. At(j, "receipt") /\ job[j].pc \in InLoop
      BY <1>13 DEF CommitResult, At, InLoop, PastCommit, InHost
    <2>2. ASSUME NEW result \in Results, NEW verified \in BOOLEAN,
                 CommitReceiptWithPublicEvents(job[j].attempt, job[j].token,
                     job[j].inv, result, verified, job[j].seq),
                 NEW next \in AfterReceipt(job[j], result, verified),
                 Become(j, [next EXCEPT !.seq =
                               job[j].seq + IF verified THEN 2 ELSE 1])
          PROVE  WorkerStep(j)
      <3> DEFINE seq == job[j].seq + IF verified THEN 2 ELSE 1
      <3>1. seq \in Nat
        BY <1>1 DEF JobRow
      <3>2. /\ job'[j] = [next EXCEPT !.seq = seq]
            /\ \A k \in Jobs \ {j} : job'[k] = job[k]
        BY <1>1, <2>2, Moves
      <3>3. /\ next \in JobRow
            /\ next.attempt = job[j].attempt /\ next.token = job[j].token
            /\ next.budget = job[j].budget /\ next.status = job[j].status
            /\ next.verified => job[j].verified \/ verified
            /\ \/ /\ next.pc = "close"
                  /\ next.end \in {"blocked", "cancelled", "failed"}
               \/ next.pc = "next_step" /\ next.end = job[j].end
               \/ next.pc = "present" /\ next.end = job[j].end /\ Unused # {}
        <4>1. ASSUME NEW o \in {"blocked", "cancelled", "failed"}
              PROVE  LET row == Terminal(job[j], o) IN
                     /\ row \in JobRow
                     /\ row.attempt = job[j].attempt /\ row.token = job[j].token
                     /\ row.budget = job[j].budget /\ row.status = job[j].status
                     /\ row.verified = job[j].verified
                     /\ row.pc = "close" /\ row.end = o
          BY <1>1, NextRows DEF GoesOnWith, Outcomes
        <4>2. ASSUME NEW pc \in {"next_step", "present"}
              PROVE  LET row == NextAt(j, pc) IN
                     /\ row \in JobRow
                     /\ row.attempt = job[j].attempt /\ row.token = job[j].token
                     /\ row.budget = job[j].budget /\ row.status = job[j].status
                     /\ row.pc = pc /\ row.end = job[j].end
          BY <1>1, NextRows DEF GoesOnWith, Pcs
        <4>3. CASE result \in {"failed", "cancelled"} \/ ~verified
          <5>1. PICK o \in {"blocked", "cancelled", "failed"} :
                   next = Terminal(job[j], o)
            BY <2>2, <4>3 DEF AfterReceipt
          <5> QED
            BY <4>1, <5>1
        <4>4. CASE ~(result \in {"failed", "cancelled"} \/ ~verified)
          <5>1. \/ next = [NextAt(j, "next_step") EXCEPT !.verified = TRUE]
                \/ \E row \in AfterGate(job[j]) :
                       next = [row EXCEPT !.verified = TRUE]
            BY <2>2, <4>4 DEF AfterReceipt, NextAt
          <5>2. CASE next = [NextAt(j, "next_step") EXCEPT !.verified = TRUE]
            BY <4>2, <4>4, <5>2 DEF JobRow
          <5>3. ASSUME NEW row \in AfterGate(job[j]),
                       next = [row EXCEPT !.verified = TRUE]
                PROVE  /\ row \in JobRow
                       /\ row.attempt = job[j].attempt /\ row.token = job[j].token
                       /\ row.budget = job[j].budget /\ row.status = job[j].status
                       /\ \/ /\ row.pc = "close"
                             /\ row.end \in {"blocked", "cancelled", "failed"}
                          \/ /\ row.pc = "present" /\ row.end = job[j].end
                             /\ Unused # {}
            <6>1. \/ \E o \in {"failed", "blocked"} : row = Terminal(job[j], o)
                  \/ row = NextAt(j, "present") /\ Unused # {}
              BY <5>3 DEF AfterGate, NextAt
            <6> QED
              BY <4>1, <4>2, <6>1
          <5>4. CASE \E row \in AfterGate(job[j]) :
                       next = [row EXCEPT !.verified = TRUE]
            <6>1. PICK row \in AfterGate(job[j]) :
                     next = [row EXCEPT !.verified = TRUE]
              BY <5>4
            <6> QED
              BY <4>4, <5>3, <6>1 DEF JobRow
          <5> QED
            BY <5>1, <5>2, <5>4
        <4> QED
          BY <4>3, <4>4
      <3>4. /\ job'[j] \in JobRow
            /\ job'[j].attempt = job[j].attempt /\ job'[j].token = job[j].token
            /\ job'[j].budget = job[j].budget /\ job'[j].status = job[j].status
            /\ job'[j].verified = next.verified /\ job'[j].pc = next.pc
            /\ job'[j].end = next.end /\ job'[j].seq = seq
        BY <3>1, <3>2, <3>3 DEF JobRow
      <3> QED
        BY <2>1, <2>2, <3>2, <3>3, <3>4
        DEF WorkerStep, WritesUnderLease, CommitsReceipt
    <2> QED
      BY <1>2, <1>3, <1>13, <2>1, <2>2 DEF CommitResult
  <1> QED
    BY <1>4, <1>5, <1>6, <1>7, <1>8, <1>9, <1>10, <1>11, <1>12, <1>13

LEMMA EndCases ==
    ASSUME WorkersInv, NEW j \in Jobs,
           \/ Close(j) \/ PublishEnd(j) \/ SettleCommand(j)
           \/ SettleOutcomeUnknown(j) \/ Catch(j) \/ AppendWorkerFailure(j)
           \/ Block(j) \/ StoreFails(j)
    PROVE  WorkerStep(j)
  <1>1. job \in [Jobs -> JobRow] /\ job[j] \in JobRow
    BY DEF WorkersInv
  <1>2. ASSUME job[j].pc \in InLoop \cup {"loop"}, Throw(j)
        PROVE  WorkerStep(j)
    BY <1>1, <1>2, Refused
  <1>3. ASSUME Keep, Stop(j)
        PROVE  WorkerStep(j)
    BY <1>1, <1>3, Moves DEF WorkerStep, Waits, Quits
  <1> DEFINE failed == [job[j] EXCEPT !.pc = "settle_failed", !.end = "failed"]
  <1>4. Become(j, failed) =>
           /\ Keeps(j) /\ job'[j].pc = "settle_failed" /\ job'[j].end = "failed"
           /\ \A k \in Jobs \ {j} : job'[k] = job[k]
    <2>1. /\ GoesOnWith(j, failed)
          /\ failed.seq = job[j].seq /\ failed.status = job[j].status
          /\ failed.pc = "settle_failed" /\ failed.end = "failed"
      BY <1>1 DEF GoesOnWith, JobRow, Pcs, Outcomes
    <2> HIDE DEF failed
    <2> QED
      BY <1>1, <2>1, Moves DEF Keeps
  <1>5. CASE Close(j)
    <2>1. /\ At(j, "close") /\ job[j].pc \in InLoop
          /\ ChangeStatus(j, job[j].end, NextAt(j, "publish_end"))
      BY <1>5 DEF Close, At, InLoop, Closing, NextAt
    <2>2. job[j].end \in Outcomes
      BY <2>1 DEF WorkersInv, JobIsSound, At, Closing
    <2>3. /\ StatusKind(job[j].end) = "status"
          /\ job[j].end \in Statuses /\ "publish_end" \in Pcs
      BY <2>2 DEF Outcomes, StatusKind, Statuses, Pcs
    <2>4. ~Throw(j) =>
             /\ \A k \in Jobs \ {j} : job'[k] = job[k]
             /\ Writes(j, "status")
             /\ job'[j].pc = "publish_end" /\ job'[j].status = job[j].end
             /\ job'[j].end = job[j].end
      BY <1>1, <2>1, <2>3, WriteCases
    <2> QED
      BY <1>2, <2>1, <2>4 DEF WorkerStep, WritesUnderLease, Records
  <1>6. CASE PublishEnd(j)
    <2>1. /\ At(j, "publish_end") /\ job[j].pc \in InLoop
          /\ Append1(j, TerminalKind(job[j].end), NextAt(j, "settle"))
      BY <1>6 DEF PublishEnd, At, InLoop, Closing, NextAt
    <2>2. ~Throw(j) =>
             /\ \A k \in Jobs \ {j} : job'[k] = job[k]
             /\ Writes(j, TerminalKind(job[j].end))
             /\ job'[j].pc = "settle" /\ job'[j].status = job[j].status
             /\ job'[j].end = job[j].end
      BY <1>1, <2>1, WriteCases DEF Pcs
    <2> QED
      BY <1>2, <2>1, <2>2 DEF WorkerStep, WritesUnderLease, Publishes
  <1>7. CASE SettleCommand(j)
    BY <1>1, <1>3, <1>7, Moves
    DEF SettleCommand, WorkerStep, Ends, SettlesCommand
  <1>8. CASE SettleOutcomeUnknown(j)
    BY <1>1, <1>3, <1>8, Moves
    DEF SettleOutcomeUnknown, WorkerStep, Ends, SettlesUnknown
  <1>9. CASE Catch(j)
    <2>1. CASE Keep /\ Goto(j, "fail")
      BY <1>1, <1>9, <2>1, Moves DEF Catch, WorkerStep, Waits, Fails, Pcs
    <2>2. CASE StepIsOpen /\ Settle(j) /\ Stop(j)
      BY <1>1, <1>9, <2>2, Moves DEF Catch, WorkerStep, Ends, SettlesUnknown
    <2> QED
      BY <1>3, <1>9, <2>1, <2>2 DEF Catch
  <1>10. CASE AppendWorkerFailure(j)
    BY <1>4, <1>10 DEF AppendWorkerFailure, WorkerStep, Ends, ReportsFailure
  <1>11. CASE Block(j)
    <2>1. CASE /\ RecoverAndSettleRunCommandWithTerminalEvent(job[j].attempt,
                                                              job[j].seq)
               /\ Stop(j)
      BY <1>1, <1>11, <2>1, Moves DEF Block, WorkerStep, Ends, Blocks
    <2> QED
      BY <1>3, <1>11, <2>1 DEF Block
  <1>12. CASE StoreFails(j)
    <2>1. StoreFaults /\ Keep
      BY <1>12 DEF StoreFails
    <2>2. CASE job[j].pc \in Unguarded /\ Goto(j, "catch")
      <3>1. /\ Keeps(j) /\ job'[j].end = job[j].end /\ job'[j].pc = "catch"
            /\ \A k \in Jobs \ {j} : job'[k] = job[k]
        BY <1>1, <2>2, Moves DEF Pcs
      <3>2. job[j].pc \in InLoop \cup Entering \cup {"settle", "settle_step", "settle_tool"}
        BY <2>2 DEF Unguarded, InLoop, Entering, Called, PastCommit, InHost, Closing
      <3> QED
        BY <2>1, <3>1, <3>2 DEF WorkerStep, Waits, GivesUp, Quitting
    <2>3. CASE At(j, "start") /\ Become(j, Terminal(job[j], "failed"))
      BY <1>1, <2>1, <2>3, Moves DEF At, WorkerStep, Waits, Closes, Outcomes, InLoop
    <2>4. CASE \/ /\ At(j, "reject") \/ At(j, "commit_step")
                  /\ Become(j, UnknownOutcome(job[j], TRUE))
               \/ /\ At(j, "begin") \/ At(j, "stage") \/ At(j, "receipt")
                  /\ Become(j, UnknownOutcome(job[j], FALSE))
      <3>1. job[j].pc \in InLoop
        BY <2>4 DEF At, InLoop, Called, PastCommit, InHost
      <3>2. \E pc \in Quitting \ {"catch"} : Goto(j, pc)
        BY <2>4 DEF Become, UnknownOutcome, Goto, Quitting
      <3> QED
        BY <1>1, <2>1, <3>1, <3>2, Moves DEF WorkerStep, Waits, GivesUp, Quitting, Pcs
    <2>5. CASE At(j, "catch") /\ Goto(j, "fail")
      BY <1>1, <2>1, <2>5, Moves DEF WorkerStep, Waits, Fails, Pcs
    <2>6. CASE /\ At(j, "fail")
               /\ Become(j, [job[j] EXCEPT !.pc = "settle_failed", !.end = "failed"])
      BY <1>4, <2>1, <2>6 DEF WorkerStep, Ends, ReportsFailure
    <2>7. At(j, "fail") /\ Become(j, failed) => WorkerStep(j)
      BY <2>6
    <2> HIDE DEF failed
    <2>8. \/ Stop(j)
          \/ job[j].pc \in Unguarded /\ Goto(j, "catch")
          \/ At(j, "start") /\ Become(j, Terminal(job[j], "failed"))
          \/ /\ At(j, "reject") \/ At(j, "commit_step")
             /\ Become(j, UnknownOutcome(job[j], TRUE))
          \/ /\ At(j, "begin") \/ At(j, "stage") \/ At(j, "receipt")
             /\ Become(j, UnknownOutcome(job[j], FALSE))
          \/ At(j, "catch") /\ Goto(j, "fail")
          \/ At(j, "fail") /\ Become(j, failed)
      BY <1>12 DEF StoreFails, failed
    <2> QED
      BY <1>3, <2>1, <2>2, <2>3, <2>4, <2>5, <2>7, <2>8
  <1> QED
    BY <1>5, <1>6, <1>7, <1>8, <1>9, <1>10, <1>11, <1>12

LEMMA WorkerCases ==
    ASSUME WorkersInv, WorkersNext
    PROVE  LeaseExpires \/ Crash \/ \E j \in Jobs : WorkerStep(j)
  <1>1. job \in [Jobs -> JobRow]
    BY DEF WorkersInv
  <1>2. ASSUME NEW j \in Posts, Submit(j)
        PROVE  \E k \in Jobs : WorkerStep(k)
    BY <1>1, <1>2, EntryCases DEF Jobs
  <1>3. ASSUME NEW j \in Jobs, ReadForDispatch(j) \/ ReadForRecovery(j)
        PROVE  \E k \in Jobs : WorkerStep(k)
    BY <1>1, <1>3, EntryCases
  <1>4. ASSUME NEW j \in Jobs, Running(j) \/ StoreFails(j)
        PROVE  WorkerStep(j)
    BY <1>1, <1>4, EntryCases, StepCallCases, CallCases, EndCases DEF Running
  <1> QED
    BY <1>2, <1>3, <1>4 DEF WorkersNext, Jobs

\* A step moves rows of job and keeps its domain.
SameWorkers == job' \in [Jobs -> {job'[k] : k \in Jobs}]

LEMMA WorkersStay ==
    ASSUME job \in [Jobs -> JobRow], WorkersNext
    PROVE  SameWorkers
  <1>1. ASSUME NEW j \in Jobs, NEW r, Become(j, r)
        PROVE  SameWorkers
    BY <1>1 DEF Become, SameWorkers
  <1>2. ASSUME NEW j \in Jobs, NEW pc, Goto(j, pc)
        PROVE  SameWorkers
    BY <1>2 DEF Goto, SameWorkers
  <1>3. ASSUME NEW j \in Jobs
        PROVE  Stop(j) \/ Throw(j) => SameWorkers
    BY <1>1, <1>2 DEF Stop, Throw
  <1>4. ASSUME NEW j \in Jobs, NEW kind, NEW next, Append1(j, kind, next)
        PROVE  SameWorkers
    BY <1>1, <1>3, <1>4 DEF Append1
  <1>5. ASSUME NEW j \in Jobs, NEW status, NEW next, ChangeStatus(j, status, next)
        PROVE  SameWorkers
    BY <1>3, <1>4, <1>5 DEF ChangeStatus
  <1>6. UNCHANGED job => SameWorkers
    BY DEF SameWorkers
  <1>7. Crash => SameWorkers
    BY DEF Crash, SameWorkers
  <1> HIDE DEF SameWorkers
  <1>8. ASSUME NEW j \in Jobs,
               \/ Submit(j) \/ ReadForDispatch(j) \/ ReadForRecovery(j)
               \/ AcquireInitial(j) \/ TakeAuthority(j) \/ Accept(j) \/ Admit(j)
        PROVE  SameWorkers
    BY <1>1, <1>2, <1>3, <1>8
    DEF Submit, ReadForDispatch, ReadForRecovery, AcquireInitial, TakeAuthority,
        Accept, Admit
  <1>9. ASSUME NEW j \in Jobs,
               \/ Prepare(j) \/ NextStep(j) \/ StartStep(j) \/ AskProvider(j)
               \/ ProviderReturns(j) \/ RejectStep(j) \/ RecordModelEvents(j)
               \/ CommitStep(j)
        PROVE  SameWorkers
    BY <1>1, <1>2, <1>3, <1>4, <1>5, <1>9
    DEF Prepare, NextStep, StartStep, AskProvider, ProviderReturns, RejectStep,
        RecordModelEvents, CommitStep
  <1>10. ASSUME NEW j \in Jobs,
                \/ Verify(j) \/ Assemble(j) \/ PresentCall(j) \/ ReserveCall(j)
                \/ ExecuteTools(j) \/ BeginCall(j) \/ CallHost(j)
                \/ HostReturns(j) \/ StageResult(j) \/ CommitResult(j)
         PROVE  SameWorkers
    BY <1>1, <1>2, <1>3, <1>4, <1>5, <1>10
    DEF Verify, Assemble, PresentCall, ReserveCall, ExecuteTools, BeginCall,
        CallHost, HostReturns, StageResult, CommitResult
  <1>11. ASSUME NEW j \in Jobs,
                \/ Close(j) \/ PublishEnd(j) \/ SettleCommand(j)
                \/ SettleOutcomeUnknown(j) \/ Catch(j)
                \/ AppendWorkerFailure(j) \/ Block(j) \/ StoreFails(j)
         PROVE  SameWorkers
    BY <1>1, <1>2, <1>3, <1>4, <1>5, <1>11
    DEF Close, PublishEnd, SettleCommand, SettleOutcomeUnknown, Catch,
        AppendWorkerFailure, Block, StoreFails
  <1> QED
    BY <1>6, <1>7, <1>8, <1>9, <1>10, <1>11
    DEF WorkersNext, Running, Jobs, LeaseExpires

-----------------------------------------------------------------------------
(* Every step is a step of the store *)

LEMMA JobFacts ==
    ASSUME WorkersInv, NEW j \in Jobs
    PROVE  /\ job[j] \in JobRow
           /\ job[j].token \in Nat /\ job[j].seq \in Nat
           /\ job[j].attempt \in 0 .. MaxAttempts
           /\ job[j].budget \in Nat
           /\ job[j].pc \notin {"idle", "block"} => job[j].attempt \in Attempts
           /\ \A a \in Attempts :
                 lastSeq[a] = job[j].seq => job[j].seq \in 0 .. MaxEvents
  <1>1. job[j] \in JobRow /\ JobIsSound(j)
    BY DEF WorkersInv
  <1>2. \A a \in Attempts : lastSeq[a] <= MaxEvents
    BY DEF WorkersInv, EventsBounded
  <1> QED
    BY <1>1, <1>2, BoundsAssumption, WorkersAssumption DEF JobIsSound, JobRow

LEMMA RecordKinds ==
    /\ \A kind \in {"preparing", "model_streaming", "status", "model",
                     "tool_call_presented", "run_failed"} :
          <<kind>> \in Seq(Kinds) /\ Len(<<kind>>) = 1
    /\ \A o \in Outcomes : <<TerminalKind(o)>> \in Seq(Kinds)
  <1>1. "run_failed" = TerminalKind("failed") /\ "failed" \in Outcomes
    BY DEF TerminalKind, Outcomes
  <1>2. "run_failed" \in TerminalKinds
    BY <1>1 DEF TerminalKinds
  <1>3. \A kind \in {"preparing", "model_streaming", "status", "model",
                     "tool_call_presented", "run_failed"} : kind \in Kinds
    BY <1>2 DEF Kinds, OrdinaryKinds
  <1> QED
    BY <1>3, KnownKinds

LEMMA WorkerStoreStep ==
    ASSUME WorkersInv, NEW j \in Jobs, WorkerStep(j)
    PROVE  StoreStep
  <1> DEFINE a == job[j].attempt
             tok == job[j].token
             seq == job[j].seq
  <1>1. /\ tok \in Nat
        /\ job[j].pc \notin {"idle", "block"} => a \in Attempts
        /\ \A b \in Attempts : lastSeq[b] = seq => seq \in 0 .. MaxEvents
    BY JobFacts
  <1>2. TypeOK /\ JobIsSound(j)
    BY DEF WorkersInv, LogInv
  <1>3. Keep => StoreStep
    BY DEF Keep, StoreStep
  <1>4. CASE Waits(j)
    BY <1>3, <1>4 DEF Waits, Quits, GivesUp, Closes, GoesOn, Admits, Fails
  <1>5. CASE Begins(j)
    <2>1. 1 \in Attempts
      BY BoundsAssumption DEF Attempts
    <2>2. CASE Acquires(j)
      BY <2>1, <2>2 DEF Acquires, StoreStep
    <2>3. CASE Claims(j)
      <3>1. CASE ClaimInitialPreDispatch(job[j].status, seq)
        BY <1>1, <2>1, <3>1
        DEF ClaimInitialPreDispatch, CommandOperation, StoreStep
      <3>2. CASE ReclaimInitialPreDispatch(job[j].status, seq)
        <4>1. 2 \in Attempts
          BY <1>2, <3>2 DEF ReclaimInitialPreDispatch, TypeOK, Attempts
        <4> QED
          BY <1>1, <3>2, <4>1
          DEF ReclaimInitialPreDispatch, CommandOperation, StoreStep
      <3> QED
        BY <2>3, <3>1, <3>2 DEF Claims, ClaimOrReclaim
    <2> QED
      BY <1>3, <1>5, <2>2, <2>3
      DEF Begins, Submit, ReadForDispatch, ReadForRecovery, CommandOperation,
          StoreStep
  <1>6. CASE WritesUnderLease(j)
    <2>1. CASE Accepts(j)
      <3>1. AuthorizedOperation(a, tok)
        BY <2>1 DEF Accepts, AuthorizedOperation, Unsettled, PreDispatch
      <3> QED
        BY <1>1, <2>1, <3>1 DEF Accepts, At, StoreStep
    <2>2. ASSUME NEW kind, Writes(j, kind), <<kind>> \in Seq(Kinds), a \in Attempts
          PROVE  StoreStep
      <3>1. AppendEvents(a, tok, seq, <<kind>>) /\ seq \in 0 .. MaxEvents
        BY <1>1, <2>2 DEF Writes, AppendEvents
      <3> QED
        BY <1>1, <2>2, <3>1 DEF StoreStep
    <2>3. CASE Records(j)
      <3>1. a \in Attempts
        BY <1>1, <2>3 DEF Records, At
      <3> QED
        BY <2>2, <2>3, <3>1, RecordKinds DEF Records
    <2>4. CASE Publishes(j)
      <3>1. a \in Attempts /\ job[j].end \in Outcomes
        BY <1>1, <1>2, <2>4 DEF Publishes, At, JobIsSound, Closing
      <3> QED
        BY <2>2, <2>4, <3>1, RecordKinds DEF Publishes
    <2>5. ASSUME a \in Attempts, StepOperation(a, tok) \/ InvocationOperation(a, tok)
          PROVE  StoreStep
      BY <1>1, <2>5 DEF StoreStep
    <2>6. CASE StartsStep(j)
      BY <1>1, <2>5, <2>6 DEF StartsStep, At, StepOperation
    <2>7. CASE FailsStep(j)
      <3>1. job[j].step \in ModelSteps /\ a \in Attempts
        BY <1>1, <1>2, <2>7 DEF FailsStep, At, JobIsSound, Called
      <3> QED
        BY <2>5, <2>7, <3>1 DEF FailsStep, StepOperation
    <2>8. CASE CommitsStep(j)
      <3>1. job[j].step \in ModelSteps /\ a \in Attempts
        BY <1>1, <1>2, <2>8 DEF CommitsStep, At, JobIsSound, Called
      <3>2. seq \in 0 .. MaxEvents
        BY <1>1, <2>8, <3>1 DEF CommitsStep, CommitTerminalModelStep
      <3> QED
        BY <2>5, <2>8, <3>1, <3>2 DEF CommitsStep, StepOperation
    <2>9. CASE ReservesCall(j)
      BY <1>1, <2>5, <2>9 DEF ReservesCall, At, InvocationOperation
    <2>10. CASE BeginsCall(j) \/ StagesResult(j)
      <3>1. job[j].inv \in Invocations /\ a \in Attempts
        BY <1>1, <1>2, <2>10 DEF BeginsCall, StagesResult, At, JobIsSound, InHost
      <3> QED
        BY <2>5, <2>10, <3>1 DEF BeginsCall, StagesResult, InvocationOperation
    <2>11. CASE CommitsReceipt(j)
      <3>1. job[j].inv \in Invocations /\ a \in Attempts
        BY <1>1, <1>2, <2>11 DEF CommitsReceipt, At, JobIsSound, InHost
      <3>2. PICK result \in Results, verified \in BOOLEAN :
               CommitReceiptWithPublicEvents(a, tok, job[j].inv, result, verified,
                                             seq)
        BY <2>11 DEF CommitsReceipt
      <3>3. seq \in 0 .. MaxEvents
        BY <1>1, <3>1, <3>2 DEF CommitReceiptWithPublicEvents
      <3> QED
        BY <2>5, <3>1, <3>2, <3>3 DEF InvocationOperation
    <2> QED
      BY <1>6, <2>1, <2>3, <2>4, <2>6, <2>7, <2>8, <2>9, <2>10, <2>11
      DEF WritesUnderLease
  <1>7. CASE Ends(j)
    <2>1. ASSUME a \in Attempts, AuthorizedOperation(a, tok)
          PROVE  StoreStep
      BY <1>1, <2>1 DEF StoreStep
    <2>2. CASE SettlesCommand(j)
      <3>1. a \in Attempts /\ job[j].end \in Outcomes
        BY <1>1, <1>2, <2>2 DEF SettlesCommand, At, JobIsSound
      <3>2. command.status \in Unsettled
        BY <2>2
        DEF SettlesCommand, TransitionRunCommand, CanTransitionRunCommand,
            CommandEdges, Unsettled, PreDispatch
      <3>3. AuthorizedOperation(a, tok)
        BY <2>2, <3>1, <3>2 DEF SettlesCommand, AuthorizedOperation
      <3> QED
        BY <2>1, <3>1, <3>3
    <2>3. CASE SettlesUnknown(j)
      <3>1. a \in Attempts /\ a # 0
        BY <1>1, <2>3 DEF SettlesUnknown, At, Attempts
      <3>2. command.status \in Unsettled
        BY <2>3
        DEF SettlesUnknown, Settle, SettleRunCommandWithTerminalEvent,
            CanTransitionRunCommand, CommandEdges, Unsettled, PreDispatch
      <3>3. Watermark \in 0 .. MaxEvents
        BY <1>2, <2>3, <3>1, BoundsAssumption
        DEF SettlesUnknown, Settle, SettleRunCommandWithTerminalEvent,
            WorkersInv, EventsBounded, TypeOK
      <3>4. AuthorizedOperation(a, tok)
        BY <2>3, <3>2, <3>3 DEF SettlesUnknown, Settle, AuthorizedOperation, Outcomes
      <3> QED
        BY <2>1, <3>1, <3>4
    <2>4. CASE ReportsFailure(j)
      <3>1. a \in Attempts
        BY <1>1, <2>4 DEF ReportsFailure, At
      <3>2. CASE AppendEvents(a, tok, Watermark, <<"run_failed">>)
        <4>1. Watermark \in 0 .. MaxEvents
          BY <1>2, <3>1, <3>2, BoundsAssumption DEF AppendEvents, WorkersInv, EventsBounded, TypeOK
        <4> QED
          BY <1>1, <3>1, <3>2, <4>1, RecordKinds DEF StoreStep
      <3> QED
        BY <1>3, <2>4, <3>2 DEF ReportsFailure
    <2>5. CASE Blocks(j)
      <3>1. /\ RecoverAndSettleRunCommandWithTerminalEvent(active, seq)
            /\ active \in Attempts /\ lastSeq[active] = seq
        BY <1>2, <2>5
        DEF Blocks, RecoverAndSettleRunCommandWithTerminalEvent, TypeOK, Attempts
      <3> QED
        BY <1>1, <3>1 DEF CommandOperation, StoreStep
    <2> QED
      BY <1>7, <2>2, <2>3, <2>4, <2>5 DEF Ends
  <1> QED
    BY <1>4, <1>5, <1>6, <1>7 DEF WorkerStep

LEMMA WorkersStoreStep ==
    ASSUME WorkersInv, [WorkersNext]_vars
    PROVE  StoreStep
  <1>1. CASE LeaseExpires
    BY <1>1 DEF LeaseExpires, StoreStep
  <1>2. CASE Crash \/ UNCHANGED vars
    BY <1>2 DEF Crash, Keep, vars, StoreStep
  <1> QED
    BY <1>1, <1>2, WorkerCases, WorkerStoreStep

-----------------------------------------------------------------------------
(* One owner at a time *)

\* A lease row keeps its token and may only run out, or gets a new token.
LeaseStep ==
    /\ issued' \in {issued, issued + 1}
    /\ \A a \in Attempts :
          \/ leases'[a].token = leases[a].token /\ (Live(a)' => Live(a))
          \/ leases'[a] = NewLease /\ issued' = issued + 1

LEMMA LeaseMoves ==
    ASSUME TypeOK, StoreStep
    PROVE  LeaseStep
  <1>1. UNCHANGED <<leases, issued>> => LeaseStep
    BY DEF LeaseStep, Live
  <1>2. ASSUME NEW a \in Attempts, leases' = [leases EXCEPT ![a] = NewLease],
               issued' = issued + 1
        PROVE  LeaseStep
    BY <1>2 DEF LeaseStep, TypeOK, Live
  <1>3. CASE CommandOperation
    <2>1. ASSUME NEW n, NEW w, OpenAttempt(n, w)
          PROVE  LeaseStep
      BY <1>2, <2>1 DEF OpenAttempt
    <2>2. ASSUME NEW expected, NEW seq, ReclaimInitialPreDispatch(expected, seq)
          PROVE  LeaseStep
      <3>1. 2 \in Attempts
        BY <2>2 DEF ReclaimInitialPreDispatch, TypeOK, Attempts
      <3> QED
        BY <1>2, <2>2, <3>1 DEF ReclaimInitialPreDispatch
    <2> QED
      BY <1>1, <1>3, <2>1, <2>2
      DEF CommandOperation, ReserveRunCommand, ClaimInitialPreDispatch,
          RecoverAndSettleRunCommandWithTerminalEvent, CreateRunAttempt
  <1>4. CASE Tick
    BY <1>4 DEF Tick, LeaseStep, TypeOK, Live, LeaseRow
  <1>5. ASSUME NEW a \in Attempts, AcquireLease(a)
        PROVE  LeaseStep
    BY <1>2, <1>5 DEF AcquireLease
  <1>6. ASSUME NEW a, NEW tok, NEW seq, NEW kinds, AppendEvents(a, tok, seq, kinds)
        PROVE  LeaseStep
    BY <1>1, <1>6 DEF AppendEvents
  <1>7. ASSUME NEW a \in Attempts, NEW tok, AuthorizedOperation(a, tok)
        PROVE  LeaseStep
    <2>1. CASE RenewLease(a, tok)
      BY <2>1 DEF RenewLease, HoldsLease, LeaseStep, TypeOK, Live, LeaseRow
    <2> QED
      BY <1>1, <1>7, <2>1
      DEF AuthorizedOperation, TransitionRunCommand,
          SettleRunCommandWithTerminalEvent, AppendEvents
  <1>8. ASSUME NEW a \in Attempts, NEW tok, StepOperation(a, tok)
        PROVE  LeaseStep
    BY <1>1, <1>8
    DEF StepOperation, StartModelStep, FinishModelStep, CommitTerminalModelStep,
        WriteSnapshot
  <1>9. ASSUME NEW a \in Attempts, NEW tok, InvocationOperation(a, tok)
        PROVE  LeaseStep
    BY <1>1, <1>9, InvocationFrame
  <1>10. UNCHANGED storeVars => LeaseStep
    BY <1>1 DEF storeVars
  <1> QED
    BY <1>3, <1>4, <1>5, <1>6, <1>7, <1>8, <1>9, <1>10 DEF StoreStep

\* The owner works on the active Attempt.
LEMMA HeldFacts ==
    ASSUME WorkersInv, NEW j \in Jobs, Held(j)
    PROVE  /\ job[j].attempt = active /\ active \in Attempts /\ active # 0
           /\ Live(active) /\ leases[active].token = job[j].token
           /\ job[j].token # 0
           /\ Watermark = lastSeq[job[j].attempt]
  <1>1. job[j].attempt \in Attempts
    BY JobFacts DEF Held, Attempts
  <1>2. job[j].attempt = active /\ Live(active)
    BY <1>1 DEF Held, HoldsLease, WorkersInv, LogInv, LeaseFencing, IsActiveAttempt
  <1>3. leases[active].token # 0
    BY <1>1, <1>2 DEF WorkersInv, TokensAreUnique, Live
  <1> QED
    BY <1>1, <1>2, <1>3 DEF Held, HoldsLease, Watermark

LEMMA OneOwner ==
    ASSUME WorkersInv, NEW j \in Jobs, NEW k \in Jobs, Held(j), Held(k)
    PROVE  j = k
  BY HeldFacts DEF WorkersInv, TokensAreUnique

\* A worker that writes holds the lease.
LEMMA WriterHolds ==
    ASSUME WorkersInv, NEW j \in Jobs,
           WritesUnderLease(j) \/ SettlesCommand(j) \/ SettlesUnknown(j)
              \/ (ReportsFailure(j) /\ ~Keep)
    PROVE  Held(j)
  <1>1. job[j].pc \notin {"idle", "block"}
    BY DEF WritesUnderLease, Accepts, Records, Publishes, StartsStep, FailsStep,
           CommitsStep, ReservesCall, BeginsCall, StagesResult, CommitsReceipt,
           SettlesCommand, SettlesUnknown, ReportsFailure, At
  <1>2. job[j].attempt \in Attempts /\ job[j].attempt # 0
    BY <1>1, JobFacts DEF Attempts
  <1>3. HoldsLease(job[j].attempt, job[j].token)
    BY DEF WritesUnderLease, Accepts, Records, Publishes, StartsStep, FailsStep,
           CommitsStep, ReservesCall, BeginsCall, StagesResult, CommitsReceipt,
           SettlesCommand, SettlesUnknown, ReportsFailure, Settle, Writes,
           TransitionRunCommand, AppendEvents, StartModelStep, FinishModelStep,
           CommitTerminalModelStep, ReserveInvocation, BeginInvocationExecution,
           StagePublicToolResultDerivative, CommitReceiptWithPublicEvents,
           SettleRunCommandWithTerminalEvent
  <1> QED
    BY <1>2, <1>3 DEF Held

\* While one worker holds the lease, no other one writes anything.
LEMMA OwnerIsAlone ==
    ASSUME WorkersInv, NEW j \in Jobs, NEW k \in Jobs, k # j, Held(j),
           WorkerStep(k)
    PROVE  UNCHANGED storeVars
  <1>1. /\ job[j].attempt = active /\ active \in Attempts /\ active # 0
        /\ Live(active)
    BY HeldFacts
  <1>2. ~NoLiveLease
    BY <1>1 DEF NoLiveLease
  <1>3. CASE Waits(k)
    BY <1>3 DEF Waits, Quits, GivesUp, Closes, GoesOn, Admits, Fails, Keep
  <1>4. CASE Begins(k)
    <2>1. ~ReserveRunCommand
      BY <1>1 DEF ReserveRunCommand, WorkersInv, LogInv, FreshRun
    <2>2. ~Acquires(k) /\ ~Claims(k)
      BY <1>1, <1>2
      DEF Acquires, Claims, AcquireLease, IsActiveAttempt, ClaimOrReclaim,
          ClaimInitialPreDispatch, ReclaimInitialPreDispatch
    <2> QED
      BY <1>4, <2>1, <2>2 DEF Begins, Submit, ReadForDispatch, ReadForRecovery, Keep
  <1>5. CASE WritesUnderLease(k) \/ Ends(k)
    <2>1. ~Blocks(k)
      BY <1>2 DEF Blocks, RecoverAndSettleRunCommandWithTerminalEvent
    <2>2. ~Held(k)
      BY OneOwner
    <2>3. ReportsFailure(k) /\ Keep
      BY <1>5, <2>1, <2>2, WriterHolds DEF Ends
    <2> QED
      BY <2>3 DEF Keep
  <1> QED
    BY <1>3, <1>4, <1>5 DEF WorkerStep

\* A lost lease stays lost.
LEMMA NoRevival ==
    ASSUME WorkersInv, StoreStep, NEW k \in Jobs, Held(k)',
           job'[k].attempt = job[k].attempt, job'[k].token = job[k].token
    PROVE  Held(k)
  <1>1. job[k].attempt \in Attempts /\ job[k].token \in Nat
    BY JobFacts DEF Held, Attempts
  <1>2. LeaseStep
    BY LeaseMoves DEF WorkersInv, LogInv
  <1>3. job[k].token <= issued /\ issued \in Nat
    BY DEF WorkersInv, TokensAreUnique, LogInv, TypeOK
  <1>4. leases'[job[k].attempt] # NewLease
    BY <1>1, <1>3 DEF Held, HoldsLease, NewLease
  <1> QED
    BY <1>1, <1>2, <1>4 DEF LeaseStep, Held, HoldsLease

\* What a worker sees while it holds the lease and another one moves.
LEMMA OthersRest ==
    ASSUME WorkersInv, NEW j \in Jobs, NEW k \in Jobs \ {j}, WorkerStep(j), Held(k)'
    PROVE  Held(k) /\ job'[k] = job[k] /\ UNCHANGED storeVars
  <1>1. job'[k] = job[k]
    BY DEF WorkerStep
  <1>2. Held(k)
    BY <1>1, NoRevival, WorkerStoreStep
  <1> QED
    BY <1>1, <1>2, OwnerIsAlone

LEMMA IdleRow == Idle \in JobRow
  BY BoundsAssumption, WorkersAssumption
  DEF Idle, JobRow, Pcs, Statuses

\* A worker keeps its authority, gives it up, or gets a new token.
LEMMA AuthorityMoves ==
    ASSUME WorkersInv, NEW j \in Jobs, WorkerStep(j)
    PROVE  /\ job'[j] \in JobRow
           /\ \/ job'[j].attempt = job[j].attempt /\ job'[j].token = job[j].token
              \/ job'[j].token = 0
              \/ /\ job'[j].token = issued + 1 /\ issued' = issued + 1
                 /\ job'[j].pc \in {"admit", "accept"}
  <1> DEFINE Conclusion ==
                /\ job'[j] \in JobRow
                /\ \/ job'[j].attempt = job[j].attempt /\ job'[j].token = job[j].token
                   \/ job'[j].token = 0
                   \/ /\ job'[j].token = issued + 1 /\ issued' = issued + 1
                      /\ job'[j].pc \in {"admit", "accept"}
  <1>1. job[j] \in JobRow
    BY JobFacts
  <1>2. GoesOnWith(j, job'[j]) => Conclusion
    BY DEF GoesOnWith
  <1>3. Keeps(j) => Conclusion
    BY <1>2 DEF Keeps
  <1>4. job'[j] = Idle => Conclusion
    BY IdleRow DEF Idle
  <1>5. CASE Begins(j)
    <2>2. TypeOK /\ issued \in Nat /\ Watermark \in Nat /\ active \in 0 .. MaxAttempts
      BY DEF WorkersInv, LogInv, TypeOK, Watermark, Attempts
    <2>3. CASE Submit(j)
      <3>1. job'[j] = [Idle EXCEPT !.pc = "acquire", !.attempt = 1]
        BY <2>3, Moves DEF Submit, WorkersInv
      <3>2. 1 \in 0 .. MaxAttempts
        BY BoundsAssumption
      <3>3. job'[j] \in JobRow
        BY <3>1, <3>2, IdleRow DEF Idle, JobRow, Pcs
      <3>4. job'[j].token = 0
        BY <3>1 DEF Idle
      <3> QED
        BY <3>3, <3>4
    <2>4. CASE ReadForDispatch(j)
      <3>1. /\ job'[j] = [Idle EXCEPT !.pc = "claim", !.attempt = active,
                                      !.seq = Watermark, !.status = command.status]
            /\ command.status \in Statuses
        BY <2>4, Moves DEF ReadForDispatch, WorkersInv, PreDispatch, Statuses
      <3> QED
        BY <2>2, <3>1, IdleRow DEF Idle, JobRow, Pcs
    <2>5. CASE ReadForRecovery(j)
      <3>1. job'[j] = [Idle EXCEPT !.pc = "block", !.attempt = active,
                                   !.seq = Watermark]
        BY <2>5, Moves DEF ReadForRecovery, WorkersInv
      <3> QED
        BY <2>2, <3>1, IdleRow DEF Idle, JobRow, Pcs
    <2>6. CASE Acquires(j)
      <3> DEFINE token == issued + 1
      <3>1. token \in Nat /\ issued' = token
        BY <2>2, <2>6 DEF Acquires, AcquireLease
      <3>2. job'[j] = [job[j] EXCEPT !.pc = "admit", !.token = token]
        BY <2>6 DEF Acquires
      <3> HIDE DEF token
      <3>3. job'[j] \in JobRow /\ job'[j].token = token /\ job'[j].pc = "admit"
        BY <1>1, <3>1, <3>2 DEF JobRow, Pcs
      <3> QED
        BY <3>1, <3>3 DEF token
    <2>7. CASE Claims(j)
      <3> DEFINE pc == IF job[j].status = "reserved" THEN "accept" ELSE "admit"
                 token == issued + 1
                 seq == job[j].seq
                 status == ContinuationStatus(job[j].seq)
      <3>1. /\ issued' = token /\ 2 \in 0 .. MaxAttempts
            /\ seq \in 0 .. 2
        BY <1>1, <2>2, <2>7, BoundsAssumption
        DEF Claims, ClaimOrReclaim, ClaimInitialPreDispatch,
            ReclaimInitialPreDispatch, OpenAttempt, Attempts, PreDispatchPrefix,
            JobRow
      <3>2. status \in Statuses
        BY <3>1 DEF ContinuationStatus, Statuses
      <3>3. pc \in Pcs /\ pc \in {"admit", "accept"}
        BY DEF Pcs
      <3>4. job'[j] = [Idle EXCEPT !.pc = pc, !.attempt = 2, !.token = token,
                           !.seq = seq, !.status = status]
        BY <2>7 DEF Claims
      <3>5. seq \in Nat /\ token \in Nat
        BY <2>2, <3>1
      <3> HIDE DEF pc, token, seq, status
      <3>6. /\ job'[j] \in JobRow /\ job'[j].pc = pc
            /\ job'[j].token = token
        <4>1. job'[j] = [pc |-> pc, attempt |-> 2, token |-> token, seq |-> seq,
                         status |-> status, step |-> NoStep, inv |-> NoStep,
                         budget |-> MaxModelSteps, verified |-> FALSE,
                         end |-> "none"]
          BY <3>4 DEF Idle
        <4>2. MaxModelSteps \in 0 .. MaxModelSteps
          BY WorkersAssumption
        <4> QED
          BY <3>1, <3>2, <3>3, <3>5, <4>1, <4>2 DEF JobRow
      <3> QED
        BY <3>1, <3>3, <3>6 DEF token
    <2> QED
      BY <1>5, <2>3, <2>4, <2>5, <2>6, <2>7 DEF Begins
  <1>6. CASE WritesUnderLease(j)
    <2>1. CASE Records(j) \/ Publishes(j)
      BY <1>2, <2>1 DEF Records, Publishes, Writes
    <2>2. CASE StartsStep(j)
      <3>1. job[j].budget > 0
        BY <2>2 DEF StartsStep, WorkersInv, JobIsSound, At
      <3>2. job[j].budget - 1 \in 0 .. MaxModelSteps
        BY <1>1, <3>1, WorkersAssumption DEF JobRow
      <3> QED
        BY <1>1, <2>2, <3>2 DEF StartsStep, JobRow, Pcs
    <2>3. CASE ReservesCall(j)
      BY <1>1, <2>3 DEF ReservesCall, JobRow, Pcs
    <2>4. CASE CommitsReceipt(j)
      BY <2>4 DEF CommitsReceipt
    <2> QED
      BY <1>3, <1>6, <2>1, <2>2, <2>3, <2>4
      DEF WritesUnderLease, Accepts, FailsStep, CommitsStep, BeginsCall,
          StagesResult
  <1>7. CASE Waits(j)
    BY <1>3, <1>4, <1>7 DEF Waits, Quits, GivesUp, Closes, GoesOn, Admits, Fails
  <1>8. CASE Ends(j)
    BY <1>3, <1>4, <1>8
    DEF Ends, SettlesCommand, SettlesUnknown, ReportsFailure, Blocks
  <1> QED
    BY <1>5, <1>6, <1>7, <1>8 DEF WorkerStep

-----------------------------------------------------------------------------
(* The inductive invariant *)

LEMMA EventsBoundedStep ==
    ASSUME TypeOK, EventsBounded, StoreStep
    PROVE  EventsBounded'
  <1>1. UNCHANGED lastSeq => EventsBounded'
    BY DEF EventsBounded
  <1>2. ASSUME NEW a \in Attempts, NEW w, w <= MaxEvents,
               lastSeq' = [lastSeq EXCEPT ![a] = w]
        PROVE  EventsBounded'
    BY <1>2 DEF EventsBounded, TypeOK
  <1>3. ASSUME NEW a \in Attempts, NEW tok, NEW seq, NEW kinds,
               AppendEvents(a, tok, seq, kinds)
        PROVE  EventsBounded'
    BY <1>2, <1>3 DEF AppendEvents
  <1>4. CASE CommandOperation
    <2>1. ASSUME NEW n \in Attempts, NEW w, w <= MaxEvents, OpenAttempt(n, w)
          PROVE  EventsBounded'
      BY <1>2, <2>1 DEF OpenAttempt
    <2>2. ASSUME NEW seq \in 0 .. MaxEvents,
                 RecoverAndSettleRunCommandWithTerminalEvent(active, seq)
          PROVE  EventsBounded'
      <3>1. /\ active + 1 \in Attempts /\ OpenAttempt(active + 1, seq + 1)
            /\ seq + 1 <= MaxEvents
        BY <2>2, BoundsAssumption
        DEF RecoverAndSettleRunCommandWithTerminalEvent, OpenAttempt
      <3> QED
        BY <2>1, <3>1
    <2>3. ASSUME NEW seq \in 0 .. MaxEvents, NEW expected,
                 ClaimInitialPreDispatch(expected, seq)
          PROVE  EventsBounded'
      <3>1. 2 \in Attempts /\ OpenAttempt(2, seq) /\ seq <= MaxEvents
        BY <2>3, BoundsAssumption DEF ClaimInitialPreDispatch, OpenAttempt
      <3> QED
        BY <2>1, <3>1
    <2>4. CASE CreateRunAttempt(active)
      <3>1. /\ active + 1 \in Attempts /\ OpenAttempt(active + 1, lastSeq[active])
            /\ active \in Attempts
        BY <2>4 DEF CreateRunAttempt, OpenAttempt, TypeOK, Attempts
      <3>2. lastSeq[active] <= MaxEvents
        BY <3>1 DEF EventsBounded
      <3> QED
        BY <2>1, <3>1, <3>2
    <2> QED
      BY <1>1, <1>4, <2>2, <2>3, <2>4
      DEF CommandOperation, ReserveRunCommand, ReclaimInitialPreDispatch
  <1>5. Tick \/ (\E a \in Attempts : AcquireLease(a)) \/ UNCHANGED storeVars
           => EventsBounded'
    BY <1>1 DEF Tick, AcquireLease, storeVars
  <1>6. ASSUME NEW a \in Attempts, NEW tok, AuthorizedOperation(a, tok)
        PROVE  EventsBounded'
    <2>1. ASSUME NEW expected, NEW seq \in 0 .. MaxEvents, NEW o,
                 SettleRunCommandWithTerminalEvent(a, tok, expected, seq, o)
          PROVE  EventsBounded'
      <3>1. seq + 1 <= MaxEvents /\ lastSeq' = [lastSeq EXCEPT ![a] = seq + 1]
        BY <2>1, BoundsAssumption DEF SettleRunCommandWithTerminalEvent
      <3> QED
        BY <1>2, <3>1
    <2> QED
      BY <1>1, <1>3, <1>6, <2>1
      DEF AuthorizedOperation, TransitionRunCommand, RenewLease
  <1>7. ASSUME NEW a \in Attempts, NEW tok, StepOperation(a, tok)
        PROVE  EventsBounded'
    BY <1>1, <1>7
    DEF StepOperation, StartModelStep, FinishModelStep, CommitTerminalModelStep,
        WriteSnapshot
  <1>8. ASSUME NEW a \in Attempts, NEW tok, InvocationOperation(a, tok)
        PROVE  EventsBounded'
    <2>1. ASSUME NEW i \in Invocations, NEW result \in Results,
                 NEW verified \in BOOLEAN, NEW seq \in 0 .. MaxEvents,
                 CommitReceiptWithPublicEvents(a, tok, i, result, verified, seq)
          PROVE  EventsBounded'
      BY <1>2, <2>1 DEF CommitReceiptWithPublicEvents
    <2>2. ASSUME NEW i \in Invocations,
                 \/ ReserveInvocation(a, tok, i) \/ BeginInvocationExecution(a, tok, i)
                 \/ StagePublicToolResultDerivative(a, tok, i)
          PROVE  EventsBounded'
      BY <1>1, <2>2
      DEF ReserveInvocation, BeginInvocationExecution,
          StagePublicToolResultDerivative
    <2>3. ASSUME NEW i \in Invocations, NEW result \in Results,
                 CommitReceipt(a, tok, i, result)
          PROVE  EventsBounded'
      BY <1>1, <2>3 DEF CommitReceipt
    <2> QED
      BY <1>8, <2>1, <2>2, <2>3 DEF InvocationOperation
  <1> QED
    BY <1>3, <1>4, <1>5, <1>6, <1>7, <1>8 DEF StoreStep

LEMMA TokensStep ==
    ASSUME WorkersInv, TypeOK', StoreStep,
           \A j \in Jobs :
              \/ job'[j].token \in {job[j].token, 0}
              \/ /\ job'[j].token = issued + 1 /\ issued' = issued + 1
                 /\ \A k \in Jobs \ {j} : job'[k] = job[k]
    PROVE  TokensAreUnique'
  <1>1. LeaseStep
    BY LeaseMoves DEF WorkersInv, LogInv
  <1>2. TypeOK /\ TokensAreUnique
    BY DEF WorkersInv, LogInv
  <1>3. issued \in Nat /\ issued' \in Nat
    BY <1>2 DEF TypeOK
  <1>4. \A a \in Attempts : leases[a] \in LeaseRow /\ leases'[a] \in LeaseRow
    BY <1>2 DEF TypeOK
  <1>5. \A a \in Attempts :
           leases'[a].token <= issued' /\ (leases'[a].token = 0 => leases'[a].left = 0)
    <2>1. SUFFICES ASSUME NEW a \in Attempts
                   PROVE  /\ leases'[a].token <= issued'
                          /\ leases'[a].token = 0 => leases'[a].left = 0
      OBVIOUS
    <2>2. CASE leases'[a].token = leases[a].token /\ (Live(a)' => Live(a))
      BY <1>1, <1>2, <1>3, <1>4, <2>2, BoundsAssumption
      DEF LeaseStep, TokensAreUnique, Live, LeaseRow
    <2>3. CASE leases'[a] = NewLease /\ issued' = issued + 1
      BY <1>3, <2>3 DEF NewLease
    <2> QED
      BY <1>1, <2>2, <2>3 DEF LeaseStep
  <1>6. \A j \in Jobs : job[j].token \in Nat /\ job[j].token <= issued
    BY <1>2, JobFacts DEF TokensAreUnique
  <1>7. \A j \in Jobs : job'[j].token <= issued'
    BY <1>1, <1>3, <1>6 DEF LeaseStep
  <1>8. \A j, k \in Jobs :
           job'[j].token = job'[k].token => j = k \/ job'[j].token = 0
    BY <1>2, <1>3, <1>6 DEF TokensAreUnique
  <1> QED
    BY <1>5, <1>7, <1>8 DEF TokensAreUnique

\* What a process that takes the Command up knows.
LEMMA BeginRows ==
    ASSUME WorkersInv, NEW j \in Jobs, Begins(j)
    PROVE  LET next == job'[j] IN
           \/ /\ Submit(j)
              /\ next.pc = "acquire" /\ next.attempt = 1 /\ next.token = 0
              /\ next.seq = 0 /\ next.status = "created"
              /\ next.end = "none" /\ ~next.verified
              /\ j \in Posts
           \/ /\ ReadForDispatch(j)
              /\ next.pc = "claim" /\ next.attempt = active /\ next.token = 0
              /\ next.seq = Watermark /\ next.status = command.status
              /\ next.end = "none" /\ ~next.verified
           \/ /\ ReadForRecovery(j)
              /\ next.pc = "block" /\ next.attempt = active /\ next.token = 0
              /\ next.seq = Watermark /\ next.status = "created"
              /\ next.end = "none" /\ ~next.verified
           \/ /\ Acquires(j)
              /\ next.pc = "admit" /\ next.attempt = job[j].attempt
              /\ next.seq = job[j].seq /\ next.status = job[j].status
              /\ next.end = job[j].end /\ next.verified = job[j].verified
           \/ /\ Claims(j)
              /\ next.pc \in {"accept", "admit"} /\ next.attempt = 2
              /\ next.seq = job[j].seq
              /\ next.status = ContinuationStatus(job[j].seq)
              /\ next.end = "none" /\ ~next.verified
  <1>1. job[j] \in JobRow /\ job \in [Jobs -> JobRow]
    BY JobFacts DEF WorkersInv
  <1>2. ASSUME NEW r, Become(j, r)
        PROVE  job'[j] = r
    BY <1>1, <1>2, Moves
  <1>3. CASE j \in Posts /\ Submit(j)
    <2>1. job'[j] = [Idle EXCEPT !.pc = "acquire", !.attempt = 1]
      BY <1>1, <1>3, Moves DEF Submit
    <2> QED
      BY <1>3, <2>1 DEF Idle
  <1>4. CASE ReadForDispatch(j)
    <2>1. job'[j] = [Idle EXCEPT !.pc = "claim", !.attempt = active,
                                 !.seq = Watermark, !.status = command.status]
      BY <1>1, <1>4, Moves DEF ReadForDispatch
    <2> QED
      BY <1>4, <2>1 DEF Idle
  <1>5. CASE ReadForRecovery(j)
    <2>1. job'[j] = [Idle EXCEPT !.pc = "block", !.attempt = active,
                                 !.seq = Watermark]
      BY <1>1, <1>5, Moves DEF ReadForRecovery
    <2> QED
      BY <1>5, <2>1 DEF Idle
  <1>6. CASE Acquires(j)
    <2>1. job'[j] = [job[j] EXCEPT !.pc = "admit", !.token = issued + 1]
      BY <1>6 DEF Acquires
    <2> QED
      BY <1>1, <1>6, <2>1 DEF JobRow
  <1>7. CASE Claims(j)
    <2> DEFINE pc == IF job[j].status = "reserved" THEN "accept" ELSE "admit"
    <2>1. job'[j] = [Idle EXCEPT !.pc = pc, !.attempt = 2, !.token = issued + 1,
                         !.seq = job[j].seq,
                         !.status = ContinuationStatus(job[j].seq)]
      BY <1>7 DEF Claims
    <2>2. pc \in {"accept", "admit"}
      OBVIOUS
    <2> HIDE DEF pc
    <2> QED
      BY <1>7, <2>1, <2>2 DEF Idle
  <1> QED
    BY <1>3, <1>4, <1>5, <1>6, <1>7 DEF Begins

\* What a worker refers to exists after its step.
LEMMA SoundStep ==
    ASSUME WorkersInv, NEW j \in Jobs, WorkerStep(j)
    PROVE  JobIsSound(j)'
  <1> DEFINE next == job'[j]
             Sound ==
                /\ next.pc \notin {"idle", "block"} => next.attempt \in Attempts
                /\ next.pc \in {"idle", "acquire", "claim", "block"} => next.token = 0
                /\ next.pc \in Called => next.step \in ModelSteps
                /\ next.pc \in {"execute", "begin"} \cup InHost =>
                      next.inv \in Invocations
                /\ next.pc = "start" => next.budget > 0
                /\ next.pc \in Closing \cup {"settle", "settle_failed"} =>
                      next.end \in Outcomes
  <1>1. SUFFICES Sound
    BY DEF JobIsSound
  <1>2. JobIsSound(j) /\ TypeOK
    BY DEF WorkersInv, LogInv
  <1>3. job'[j] = Idle => Sound
    BY DEF Idle, Called, InHost, Closing
  <1>4. CASE Waits(j)
    <2>1. CASE GivesUp(j)
      <3>1. job[j].attempt \in Attempts
        BY <1>2, <2>1
        DEF GivesUp, JobIsSound, InLoop, Entering, Called, PastCommit, InHost, Closing
      <3> QED
        BY <2>1, <3>1
        DEF GivesUp, Keeps, GoesOnWith, Quitting, Called, InHost, Closing
    <2>2. CASE Closes(j)
      <3>1. job[j].attempt \in Attempts
        BY <1>2, <2>2
        DEF Closes, JobIsSound, InLoop, Called, PastCommit, InHost, Closing
      <3> QED
        BY <2>2, <3>1
        DEF Closes, Keeps, GoesOnWith, Called, InHost, Closing, Outcomes
    <2>3. CASE GoesOn(j)
      BY <1>2, <2>3
      DEF GoesOn, At, JobIsSound, Keeps, GoesOnWith, Called, InHost, Closing
    <2>4. CASE Admits(j) \/ Fails(j)
      BY <1>2, <2>4
      DEF Admits, Fails, At, JobIsSound, Keeps, GoesOnWith, Called, InHost, Closing
    <2> QED
      BY <1>3, <1>4, <2>1, <2>2, <2>3, <2>4 DEF Waits, Quits
  <1>5. CASE Begins(j)
    <2>1. 1 \in Attempts
      BY BoundsAssumption DEF Attempts
    <2>2. next.pc \in {"acquire", "claim", "block", "admit", "accept"}
      BY <1>5, BeginRows
    <2>3. ReadForDispatch(j) => active \in Attempts
      BY <1>2 DEF ReadForDispatch, TypeOK, Attempts
    <2>4. Acquires(j) => job[j].attempt \in Attempts
      BY <1>2 DEF Acquires, At, JobIsSound
    <2>5. Claims(j) => 2 \in Attempts
      BY <1>2
      DEF Claims, ClaimOrReclaim, ClaimInitialPreDispatch,
          ReclaimInitialPreDispatch, OpenAttempt, TypeOK, Attempts
    <2>6. /\ next.pc # "block" => next.attempt \in Attempts
          /\ next.pc \in {"acquire", "claim", "block"} => next.token = 0
      BY <1>5, <2>1, <2>3, <2>4, <2>5, BeginRows
    <2> QED
      BY <2>2, <2>6 DEF Called, InHost, Closing
  <1>6. CASE WritesUnderLease(j)
    <2>1. job[j].attempt \in Attempts
      BY <1>2, <1>6
      DEF WritesUnderLease, Accepts, Records, Publishes, StartsStep, FailsStep,
          CommitsStep, ReservesCall, BeginsCall, StagesResult, CommitsReceipt,
          JobIsSound, At
    <2>2. CASE Accepts(j) \/ FailsStep(j)
      BY <2>1, <2>2
      DEF Accepts, FailsStep, Keeps, GoesOnWith, Called, InHost, Closing
    <2>3. CASE CommitsStep(j)
      BY <2>1, <2>3
      DEF CommitsStep, Keeps, GoesOnWith, Called, InHost, Closing, Outcomes
    <2>4. CASE BeginsCall(j) \/ StagesResult(j)
      BY <1>2, <2>1, <2>4
      DEF BeginsCall, StagesResult, Keeps, GoesOnWith, At, JobIsSound, Called,
          InHost, Closing
    <2>5. CASE Records(j)
      <3>1. GoesOnWith(j, next)
        BY <2>5 DEF Records, Writes
      <3> QED
        BY <1>2, <2>1, <2>5, <3>1
        DEF Records, GoesOnWith, At, JobIsSound, Called, InHost, Closing, Outcomes
    <2>6. CASE Publishes(j)
      BY <1>2, <2>1, <2>6
      DEF Publishes, Writes, GoesOnWith, At, JobIsSound, Called, InHost, Closing
    <2>7. CASE StartsStep(j)
      <3>1. /\ next.pc = "ask" /\ next.attempt = job[j].attempt
            /\ next.step \in ModelSteps
        BY <2>7, JobFacts DEF StartsStep, JobRow
      <3> QED
        BY <2>1, <3>1 DEF Called, InHost, Closing
    <2>8. CASE ReservesCall(j)
      <3>1. /\ next.pc \in {"execute", "begin"} /\ next.attempt = job[j].attempt
            /\ next.inv \in Invocations
        BY <2>8, JobFacts DEF ReservesCall, JobRow
      <3> QED
        BY <2>1, <3>1 DEF Called, InHost, Closing
    <2>9. CASE CommitsReceipt(j)
      BY <2>1, <2>9 DEF CommitsReceipt, Called, InHost, Closing, Outcomes
    <2> QED
      BY <1>6, <2>2, <2>3, <2>4, <2>5, <2>6, <2>7, <2>8, <2>9 DEF WritesUnderLease
  <1>7. CASE Ends(j)
    <2>1. CASE ReportsFailure(j)
      BY <1>2, <2>1
      DEF ReportsFailure, Keeps, GoesOnWith, At, JobIsSound, Called, InHost,
          Closing, Outcomes
    <2> QED
      BY <1>3, <1>7, <2>1 DEF Ends, SettlesCommand, SettlesUnknown, Blocks
  <1> QED
    BY <1>4, <1>5, <1>6, <1>7 DEF WorkerStep

LEMMA OwnerStep ==
    ASSUME WorkersInv, NEW j \in Jobs, WorkerStep(j), Held(j)'
    PROVE  OwnerIsSound(j)'
  <1>1. /\ TypeOK /\ BoundaryInv /\ JobIsSound(j) /\ StoreStep
        /\ job[j] \in JobRow /\ job'[j] \in JobRow
    BY WorkerStoreStep, AuthorityMoves, JobFacts DEF WorkersInv, LogInv
  <1>2. ASSUME job'[j].pc \notin InLoop \cup {"loop"}
        PROVE  OwnerIsSound(j)'
    BY <1>2 DEF OwnerIsSound, InLoop, PastCommit
  <1>3. job'[j] # Idle
    BY DEF Held, Idle
  <1>4. ASSUME job'[j].attempt = job[j].attempt, job'[j].token = job[j].token
        PROVE  Held(j) /\ OwnerIsSound(j)
    BY <1>1, <1>4, NoRevival DEF WorkersInv
  <1>5. ASSUME UNCHANGED <<command, steps>>, command.status = "accepted",
               job'[j].pc \notin {"assemble", "present", "reserve"}
        PROVE  OwnerIsSound(j)'
    <2>1. UsedSteps' = {}
      BY <1>1, <1>5 DEF UsedSteps, BoundaryInv, DispatchBoundary, PreDispatch
    <2>2. job'[j].budget \in 0 .. MaxModelSteps
      BY <1>1 DEF JobRow
    <2>3. 0 + job'[j].budget <= MaxModelSteps
      BY <2>2, WorkersAssumption
    <2> QED
      BY <1>5, <2>1, <2>3, FS_EmptySet DEF OwnerIsSound
  <1>6. ASSUME OwnerIsSound(j), job[j].pc \in InLoop \cup {"loop"},
               job'[j].pc # "loop", job'[j].budget = job[j].budget,
               UsedSteps' = UsedSteps,
               job'[j].pc \in {"assemble", "present", "reserve"} => Unused' # {}
        PROVE  OwnerIsSound(j)'
    BY <1>6 DEF OwnerIsSound
  <1>7. UNCHANGED steps => UsedSteps' = UsedSteps
    BY DEF UsedSteps
  <1>8. UNCHANGED invocations => Unused' = Unused
    BY DEF Unused
  <1>9. CASE Waits(j)
    <2>1. UNCHANGED <<command, steps, invocations>>
      BY <1>9 DEF Waits, Quits, GivesUp, Closes, GoesOn, Admits, Fails, Keep, storeVars
    <2>2. CASE Closes(j)
      BY <1>4, <1>6, <1>7, <2>1, <2>2 DEF Closes, Keeps, GoesOnWith
    <2>3. CASE GoesOn(j)
      <3>1. /\ job[j].pc \in InLoop \cup {"loop"}
            /\ job'[j].pc \notin {"loop", "assemble", "present", "reserve"}
        BY <2>3 DEF GoesOn, At, InLoop, Called, PastCommit, InHost
      <3> QED
        BY <1>4, <1>6, <1>7, <2>1, <2>3, <3>1 DEF GoesOn, Keeps, GoesOnWith
    <2>4. CASE Admits(j)
      <3>1. CASE job'[j].pc = "loop"
        BY <1>5, <2>1, <2>4, <3>1 DEF Admits
      <3> QED
        BY <1>2, <2>4, <3>1 DEF Admits, InLoop, Called, PastCommit, InHost, Closing
    <2>5. CASE GivesUp(j) \/ Fails(j)
      BY <1>2, <2>5
      DEF GivesUp, Fails, Quitting, InLoop, Called, PastCommit, InHost, Closing
    <2> QED
      BY <1>3, <1>9, <2>2, <2>3, <2>4, <2>5 DEF Waits, Quits
  <1>10. CASE Begins(j)
    <2>1. job'[j].pc \in {"acquire", "claim", "block", "admit", "accept"}
      BY <1>10, BeginRows
    <2> QED
      BY <1>2, <2>1 DEF InLoop, Called, PastCommit, InHost, Closing
  <1>11. CASE Ends(j)
    BY <1>2, <1>3, <1>11
    DEF Ends, SettlesCommand, SettlesUnknown, ReportsFailure, Blocks, InLoop,
        Called, PastCommit, InHost, Closing
  <1>12. CASE WritesUnderLease(j)
    <2>1. Held(j) /\ OwnerIsSound(j)
      BY <1>12, WriterHolds DEF WorkersInv
    <2>2. CASE Accepts(j)
      <3>1. /\ command.status = "reserved" /\ command'.status = "accepted"
            /\ UNCHANGED steps /\ job'[j].pc \in {"admit", "loop"}
        BY <2>2 DEF Accepts, TransitionRunCommand
      <3>2. UsedSteps' = {}
        BY <1>1, <3>1 DEF UsedSteps, BoundaryInv, DispatchBoundary, PreDispatch
      <3>3. job'[j].budget \in 0 .. MaxModelSteps
        BY <1>1 DEF JobRow
      <3>4. 0 + job'[j].budget <= MaxModelSteps
        BY <3>3, WorkersAssumption
      <3> QED
        BY <3>1, <3>2, <3>4, FS_EmptySet DEF OwnerIsSound
    <2>3. CASE Records(j)
      <3>1. /\ UNCHANGED <<steps, invocations>>
            /\ job'[j].budget = job[j].budget
        BY <2>3 DEF Records, Writes, AppendEvents, GoesOnWith
      <3>2. /\ job[j].pc \in InLoop \cup {"loop"} /\ job'[j].pc # "loop"
            /\ job'[j].pc \in {"assemble", "present", "reserve"} =>
                  Unused # {} \/ job[j].pc = "present"
        BY <2>3 DEF Records, At, InLoop, Called, PastCommit, Closing
      <3>3. job[j].pc = "present" => Unused # {}
        BY <2>1 DEF OwnerIsSound
      <3> QED
        BY <1>6, <1>7, <1>8, <2>1, <3>1, <3>2, <3>3
    <2>4. CASE Publishes(j)
      BY <1>2, <2>4 DEF Publishes, InLoop, Called, PastCommit, InHost, Closing
    <2>5. CASE StartsStep(j)
      <3>1. PICK m \in ModelSteps :
               /\ StartModelStep(job[j].attempt, job[j].token, m)
               /\ job'[j] = [job[j] EXCEPT !.pc = "ask", !.step = m,
                                           !.budget = job[j].budget - 1]
        BY <2>5 DEF StartsStep
      <3>2. job'[j].pc = "ask" /\ job'[j].budget = job[j].budget - 1
        BY <1>1, <3>1 DEF JobRow
      <3>3. /\ steps[m].status = "none"
            /\ steps' = [steps EXCEPT ![m] = [status |-> "started",
                                              attempt |-> job[j].attempt]]
        BY <3>1 DEF StartModelStep
      <3>4. UsedSteps' = UsedSteps \cup {m} /\ m \notin UsedSteps
        BY <1>1, <3>3 DEF UsedSteps, TypeOK
      <3>5. /\ IsFiniteSet(UsedSteps)
            /\ Cardinality(UsedSteps) + job[j].budget <= MaxModelSteps
        BY <2>1, <2>5 DEF OwnerIsSound, StartsStep, At, InLoop
      <3>6. /\ IsFiniteSet(UsedSteps')
            /\ Cardinality(UsedSteps') = Cardinality(UsedSteps) + 1
            /\ Cardinality(UsedSteps) \in Nat
        BY <3>4, <3>5, FS_AddElement, FS_CardinalityType
      <3>7. Cardinality(UsedSteps') + job'[j].budget <= MaxModelSteps
        BY <3>2, <3>5, <3>6, JobFacts, WorkersAssumption
      <3> QED
        BY <3>2, <3>6, <3>7 DEF OwnerIsSound
    <2>6. CASE FailsStep(j) \/ CommitsStep(j)
      <3>1. /\ steps[job[j].step].status # "none" /\ UNCHANGED invocations
            /\ \E status \in {"failed", "terminal"} :
                  steps' = [steps EXCEPT ![job[j].step].status = status]
            /\ job'[j].budget = job[j].budget
        BY <2>6
        DEF FailsStep, CommitsStep, FinishModelStep, CommitTerminalModelStep,
            Keeps, GoesOnWith
      <3>2. UsedSteps' = UsedSteps
        BY <1>1, <3>1 DEF UsedSteps, TypeOK
      <3>3. /\ job[j].pc \in InLoop /\ job'[j].pc # "loop"
            /\ job'[j].pc \in {"assemble", "present", "reserve"} => Unused # {}
        BY <2>6 DEF FailsStep, CommitsStep, At, InLoop, Called
      <3> QED
        BY <1>6, <1>8, <2>1, <3>1, <3>2, <3>3
    <2>7. CASE ReservesCall(j)
      <3>1. /\ UNCHANGED steps /\ job[j].pc \in InLoop
            /\ job'[j].pc \in {"execute", "begin"}
            /\ job'[j].budget = job[j].budget
        BY <1>1, <2>7
        DEF ReservesCall, ReserveInvocation, JobRow, At, InLoop, PastCommit
      <3> QED
        BY <1>6, <1>7, <2>1, <3>1
    <2>8. CASE BeginsCall(j) \/ StagesResult(j)
      <3>1. /\ UNCHANGED steps /\ job[j].pc \in InLoop
            /\ job'[j].pc \in {"host", "receipt"}
            /\ job'[j].budget = job[j].budget
        BY <2>8
        DEF BeginsCall, StagesResult, BeginInvocationExecution,
            StagePublicToolResultDerivative, Keeps, GoesOnWith, At, InLoop,
            PastCommit, InHost
      <3> QED
        BY <1>6, <1>7, <2>1, <3>1
    <2>9. CASE CommitsReceipt(j)
      <3>1. /\ UNCHANGED steps /\ job[j].pc \in InLoop
            /\ job'[j].pc # "loop" /\ job'[j].budget = job[j].budget
            /\ job'[j].pc \in {"assemble", "present", "reserve"} => Unused # {}
        BY <2>9
        DEF CommitsReceipt, CommitReceiptWithPublicEvents, At, InLoop,
            PastCommit, InHost
      <3>2. PICK result \in Results :
               /\ invocations[job[j].inv].status = "executing"
               /\ \E rows : invocations' = [invocations EXCEPT
                      ![job[j].inv].status = result, ![job[j].inv].bound = rows]
        BY <2>9 DEF CommitsReceipt, CommitReceiptWithPublicEvents
      <3>3. Unused \subseteq Unused'
        BY <1>1, <3>2 DEF Unused, TypeOK
      <3> QED
        BY <1>6, <1>7, <2>1, <3>1, <3>3
    <2> QED
      BY <1>12, <2>2, <2>3, <2>4, <2>5, <2>6, <2>7, <2>8, <2>9 DEF WritesUnderLease
  <1> QED
    BY <1>9, <1>10, <1>11, <1>12 DEF WorkerStep

\* Time passes, the server crashes, or nothing happens.
Rests ==
    /\ UNCHANGED <<command, active, lastSeq, events, steps, history, latest,
                   invocations>>
    /\ issued' = issued
    /\ \A k \in Jobs :
          \/ job'[k] = Idle
          \/ job'[k] = job[k] /\ (Held(k)' => Held(k))

LEMMA StepShapes ==
    ASSUME WorkersInv, [WorkersNext]_vars
    PROVE  Rests \/ \E j \in Jobs : WorkerStep(j)
  <1>1. CASE LeaseExpires
    <2>1. \A k \in Jobs : job'[k] = job[k] /\ (Held(k)' => Held(k))
      BY <1>1, NoRevival, WorkersStoreStep DEF LeaseExpires, vars
    <2> QED
      BY <1>1, <2>1 DEF LeaseExpires, Tick, Rests
  <1>2. CASE Crash
    <2>1. \A k \in Jobs : job'[k] = Idle
      BY <1>2 DEF Crash
    <2> QED
      BY <1>2, <2>1 DEF Crash, Keep, storeVars, Rests
  <1>3. CASE UNCHANGED vars
    BY <1>3 DEF vars, storeVars, Rests, Held, HoldsLease, Live
  <1> QED
    BY <1>1, <1>2, <1>3, WorkerCases

LEMMA WorkersInvInit ==
    ASSUME WorkersInit
    PROVE  WorkersInv
  <1>1. Init /\ job = [j \in Jobs |-> Idle]
    BY DEF WorkersInit
  <1>2. LogInv /\ BoundaryInv
    BY <1>1, TypeOKInit, LogInvInit, BoundaryInit DEF LogInv
  <1>3. EventsBounded
    BY <1>1, BoundsAssumption DEF Init, EventsBounded
  <1>4. job \in [Jobs -> JobRow]
    BY <1>1, IdleRow
  <1>5. \A j \in Jobs : job[j].pc = "idle" /\ job[j].token = 0 /\ job[j].attempt = 0
    BY <1>1 DEF Idle
  <1>6. TokensAreUnique
    BY <1>1, <1>5 DEF Init, TokensAreUnique
  <1>7. \A j \in Jobs : JobIsSound(j) /\ ~Held(j)
    BY <1>5 DEF JobIsSound, Held, Called, InHost, Closing
  <1> QED
    BY <1>2, <1>3, <1>4, <1>6, <1>7 DEF WorkersInv

LEMMA WorkersInvStep ==
    ASSUME WorkersInv, [WorkersNext]_vars
    PROVE  WorkersInv'
  <1>1. StoreStep
    BY WorkersStoreStep
  <1>2. TypeOK' /\ LogInv' /\ BoundaryInv' /\ EventsBounded'
    BY <1>1, StoreStepType, LogStepCases, LogInvStep, BoundaryStep,
       EventsBoundedStep DEF WorkersInv, LogInv
  <1>3. job' \in [Jobs -> {job'[k] : k \in Jobs}]
    BY WorkersStay DEF WorkersInv, SameWorkers, vars
  <1>4. \A k \in Jobs : job[k] \in JobRow /\ JobIsSound(k)
    BY DEF WorkersInv
  <1>5. CASE Rests
    <2>1. \A k \in Jobs : job'[k] \in JobRow
      BY <1>4, <1>5, IdleRow DEF Rests
    <2>2. job' \in [Jobs -> JobRow]
      BY <1>3, <2>1
    <2>3. \A k \in Jobs : JobIsSound(k)'
      <3>1. ASSUME NEW k \in Jobs, job'[k] = Idle
            PROVE  JobIsSound(k)'
        BY <3>1 DEF JobIsSound, Idle, Called, InHost, Closing
      <3>2. ASSUME NEW k \in Jobs, job'[k] = job[k]
            PROVE  JobIsSound(k)'
        BY <1>4, <3>2 DEF JobIsSound
      <3> QED
        BY <1>5, <3>1, <3>2 DEF Rests
    <2>4. \A k \in Jobs : Held(k)' => OwnerIsSound(k)'
      <3>1. ASSUME NEW k \in Jobs, Held(k)'
            PROVE  OwnerIsSound(k)'
        <4>1. job'[k] # Idle
          BY <3>1 DEF Held, Idle
        <4>2. job'[k] = job[k] /\ OwnerIsSound(k)
          BY <1>5, <3>1, <4>1 DEF Rests, WorkersInv
        <4>3. UsedSteps' = UsedSteps /\ Unused' = Unused
          BY <1>5 DEF Rests, UsedSteps, Unused
        <4> QED
          BY <1>5, <4>2, <4>3 DEF Rests, OwnerIsSound
      <3> QED
        BY <3>1
    <2>5. \A k \in Jobs : job'[k].token \in {job[k].token, 0}
      BY <1>5 DEF Rests, Idle
    <2>6. TokensAreUnique'
      BY <1>1, <1>2, <2>5, TokensStep
    <2> QED
      BY <1>2, <2>2, <2>3, <2>4, <2>6 DEF WorkersInv
  <1>6. ASSUME NEW j \in Jobs, WorkerStep(j)
        PROVE  WorkersInv'
    <2>1. \A k \in Jobs \ {j} : job'[k] = job[k]
      BY <1>6 DEF WorkerStep
    <2>2. job' \in [Jobs -> JobRow]
      BY <1>3, <1>4, <1>6, <2>1, AuthorityMoves
    <2>3. \A k \in Jobs : JobIsSound(k)'
      <3>1. ASSUME NEW k \in Jobs \ {j}
            PROVE  JobIsSound(k)'
        BY <1>4, <2>1 DEF JobIsSound
      <3> QED
        BY <1>6, <3>1, SoundStep
    <2>4. \A k \in Jobs : Held(k)' => OwnerIsSound(k)'
      <3>1. ASSUME NEW k \in Jobs \ {j}, Held(k)'
            PROVE  OwnerIsSound(k)'
        <4>1. Held(k) /\ job'[k] = job[k] /\ UNCHANGED storeVars
          BY <1>6, <3>1, OthersRest
        <4>2. OwnerIsSound(k)
          BY <4>1 DEF WorkersInv
        <4>3. UsedSteps' = UsedSteps /\ Unused' = Unused
          BY <4>1 DEF storeVars, UsedSteps, Unused
        <4> QED
          BY <4>1, <4>2, <4>3 DEF OwnerIsSound, storeVars
      <3> QED
        BY <1>6, <3>1, OwnerStep
    <2>5. \A k \in Jobs :
             \/ job'[k].token \in {job[k].token, 0}
             \/ /\ job'[k].token = issued + 1 /\ issued' = issued + 1
                /\ \A l \in Jobs \ {k} : job'[l] = job[l]
      BY <1>6, <2>1, AuthorityMoves
    <2>6. TokensAreUnique'
      BY <1>1, <1>2, <2>5, TokensStep
    <2> QED
      BY <1>2, <2>2, <2>3, <2>4, <2>6 DEF WorkersInv
  <1> QED
    BY <1>5, <1>6, StepShapes

LEMMA WorkersInvHolds == WorkersSpec => []WorkersInv
  BY WorkersInvInit, WorkersInvStep, PTL DEF WorkersSpec

\* The processes of the server are clients of the store: each of their steps is
\* one of its operations, or none, and so all that is proved of StoreStep holds
\* of them.
THEOREM WorkersAreClients == WorkersSpec => Init /\ [][StoreStep]_storeVars
  <1>1. WorkersInit => Init
    BY DEF WorkersInit
  <1>2. WorkersInv /\ [WorkersNext]_vars => [StoreStep]_storeVars
    BY WorkersStoreStep
  <1> QED
    BY <1>1, <1>2, WorkersInvHolds, PTL DEF WorkersSpec

-----------------------------------------------------------------------------
(* The events of a step *)

LEMMA OneRow ==
    ASSUME NEW a, NEW n, NEW kind
    PROVE  NewRows(a, n, <<kind>>) = {[seq |-> n + 1, attempt |-> a, kind |-> kind]}
  BY DEF NewRows

LEMMA TwoRows ==
    ASSUME NEW a, NEW n, NEW kind, NEW next
    PROVE  NewRows(a, n, <<kind, next>>) =
              {[seq |-> n + 1, attempt |-> a, kind |-> kind],
               [seq |-> n + 2, attempt |-> a, kind |-> next]}
  BY DEF NewRows

LEMMA KindsDiffer ==
    /\ TerminalKinds = {"run_completed", "run_blocked", "run_failed", "run_cancelled"}
    /\ \A o \in Outcomes : TerminalKind(o) \in TerminalKinds
    /\ \A o \in Outcomes : TerminalKind(o) = "run_completed" => o = "completed"
    /\ TerminalKind("blocked") = "run_blocked"
    /\ TerminalKind("failed") = "run_failed"
  <1>1. /\ TerminalKind("completed") = "run_completed"
        /\ TerminalKind("blocked") = "run_blocked"
        /\ TerminalKind("failed") = "run_failed"
        /\ TerminalKind("cancelled") = "run_cancelled"
    BY DEF TerminalKind
  <1> QED
    BY <1>1 DEF TerminalKinds, Outcomes

\* The receipt of a tool call is followed by a verification or not.
ReceiptRows(j) ==
    \/ events' = events \cup
          {[seq |-> job[j].seq + 1, attempt |-> job[j].attempt,
            kind |-> "tool_result_presented"]}
    \/ /\ events' = events \cup
             {[seq |-> job[j].seq + 1, attempt |-> job[j].attempt,
               kind |-> "tool_result_presented"],
              [seq |-> job[j].seq + 2, attempt |-> job[j].attempt,
               kind |-> "verification_updated"]}
       /\ job'[j].seq = job[j].seq + 2

LEMMA ReceiptEvents ==
    ASSUME NEW j \in Jobs, CommitsReceipt(j)
    PROVE  ReceiptRows(j)
  <1>1. PICK result \in Results, verified \in BOOLEAN :
           /\ CommitReceiptWithPublicEvents(job[j].attempt, job[j].token,
                  job[j].inv, result, verified, job[j].seq)
           /\ job'[j].seq = job[j].seq + IF verified THEN 2 ELSE 1
    BY DEF CommitsReceipt
  <1>2. CASE verified = TRUE
    BY <1>1, <1>2, TwoRows DEF CommitReceiptWithPublicEvents, ReceiptRows
  <1>3. CASE verified = FALSE
    BY <1>1, <1>3, OneRow DEF CommitReceiptWithPublicEvents, ReceiptRows
  <1> QED
    BY <1>2, <1>3

\* The log before and after a step of a worker.
LEMMA LogOfStep ==
    ASSUME WorkersInv, NEW j \in Jobs, WorkerStep(j)
    PROVE  /\ TypeOK /\ TypeOK' /\ LogInv /\ StoreStep
           /\ job[j] \in JobRow /\ job'[j] \in JobRow /\ JobIsSound(j)
           /\ events \subseteq events'
           /\ Watermark \in Nat /\ Watermark' \in Nat /\ Watermark <= Watermark'
           /\ \A e \in events : e.seq \in Nat /\ e.seq <= Watermark
           /\ \A e \in events' \ events : e.seq \in Nat /\ e.seq > Watermark
  <1>1. StoreStep /\ LogInv /\ TypeOK /\ JobIsSound(j) /\ job[j] \in JobRow
    BY WorkerStoreStep, JobFacts DEF WorkersInv, LogInv
  <1>2. TypeOK'
    BY <1>1, StoreStepType
  <1>3. job'[j] \in JobRow
    BY AuthorityMoves
  <1>4. /\ events \subseteq events' /\ Watermark <= Watermark'
        /\ \A e \in events' \ events : e.seq > Watermark
    BY <1>1, <1>2, LogGrows
  <1>5. Watermark \in Nat /\ Watermark' \in Nat
    BY <1>1, <1>2 DEF TypeOK, Watermark, Attempts
  <1>6. \A e \in events : e.seq \in Nat /\ e.seq <= Watermark
    BY <1>1, <1>5 DEF LogInv, Tidy, TypeOK, Event
  <1>7. \A e \in events' : e.seq \in Nat
    BY <1>2 DEF TypeOK, Event
  <1> QED
    BY <1>1, <1>2, <1>3, <1>4, <1>5, <1>6, <1>7

\* Every event has a writer, who knows why it writes it.
NewEvent(j, e) ==
    \/ /\ Records(j) /\ e.seq = job[j].seq + 1
       /\ e.kind \in OrdinaryKinds
       /\ e.kind = "preparing" => At(j, "loop") /\ job[j].status = "created"
    \/ /\ Publishes(j) /\ e.seq = job[j].seq + 1
       /\ e.kind = TerminalKind(job[j].end)
    \/ /\ CommitsReceipt(j) /\ e.kind \in ReceiptKinds
    \/ SettlesUnknown(j) /\ e.kind = "run_blocked"
    \/ ReportsFailure(j) /\ ~Keep /\ e.kind = "run_failed"
    \/ Blocks(j) /\ e.kind = "run_blocked"

LEMMA NewEvents ==
    ASSUME WorkersInv, NEW j \in Jobs, WorkerStep(j), NEW e \in events' \ events
    PROVE  NewEvent(j, e)
  <1>1. UNCHANGED events => FALSE
    OBVIOUS
  <1>2. CASE Waits(j)
    BY <1>1, <1>2
    DEF Waits, Quits, GivesUp, Closes, GoesOn, Admits, Fails, Keep, storeVars
  <1>3. CASE Begins(j)
    <2>1. UNCHANGED events
      BY <1>3
      DEF Begins, Submit, ReadForDispatch, ReadForRecovery, Acquires, Claims,
          Keep, storeVars, ReserveRunCommand, AcquireLease, ClaimOrReclaim,
          ClaimInitialPreDispatch, ReclaimInitialPreDispatch
    <2> QED
      BY <1>1, <2>1
  <1>4. ASSUME NEW kind, Writes(j, kind)
        PROVE  e.seq = job[j].seq + 1 /\ e.kind = kind
    <2>1. events' = events \cup
             {[seq |-> job[j].seq + 1, attempt |-> job[j].attempt, kind |-> kind]}
      BY <1>4, OneRow DEF Writes, AppendEvents
    <2> QED
      BY <2>1
  <1>5. CASE WritesUnderLease(j)
    <2>1. CASE Records(j)
      <3>1. CASE Writes(j, "preparing")
        <4>1. At(j, "loop") /\ job[j].status = "created"
          BY <1>4, <2>1, <3>1 DEF Records
        <4> QED
          BY <1>4, <2>1, <3>1, <4>1 DEF NewEvent, OrdinaryKinds
      <3>2. CASE \E kind \in {"model_streaming", "status", "model",
                              "tool_call_presented"} : Writes(j, kind)
        BY <1>4, <2>1, <3>2 DEF NewEvent, OrdinaryKinds
      <3> QED
        BY <2>1, <3>1, <3>2 DEF Records
    <2>2. CASE Publishes(j)
      BY <1>4, <2>2 DEF Publishes, NewEvent
    <2>3. CASE CommitsReceipt(j)
      BY <2>3, ReceiptEvents DEF ReceiptRows, ReceiptKinds, NewEvent
    <2>4. CASE \/ Accepts(j) \/ StartsStep(j) \/ FailsStep(j) \/ CommitsStep(j)
               \/ ReservesCall(j) \/ BeginsCall(j) \/ StagesResult(j)
      BY <1>1, <2>4
      DEF Accepts, StartsStep, FailsStep, CommitsStep, ReservesCall, BeginsCall,
          StagesResult, TransitionRunCommand, StartModelStep, FinishModelStep,
          CommitTerminalModelStep, ReserveInvocation, BeginInvocationExecution,
          StagePublicToolResultDerivative
    <2> QED
      BY <1>5, <2>1, <2>2, <2>3, <2>4 DEF WritesUnderLease
  <1>6. CASE Ends(j)
    <2>1. CASE SettlesCommand(j)
      BY <1>1, <2>1 DEF SettlesCommand, TransitionRunCommand
    <2>2. CASE SettlesUnknown(j)
      BY <2>2, OneRow, KindsDiffer
      DEF SettlesUnknown, Settle, SettleRunCommandWithTerminalEvent, NewEvent
    <2>3. CASE ReportsFailure(j)
      <3>1. ~Keep
        BY <1>1 DEF Keep, storeVars
      <3>2. events' = events \cup
               {[seq |-> Watermark + 1, attempt |-> job[j].attempt,
                 kind |-> "run_failed"]}
        BY <2>3, <3>1, OneRow DEF ReportsFailure, AppendEvents
      <3> QED
        BY <2>3, <3>1, <3>2 DEF NewEvent
    <2>4. CASE Blocks(j)
      BY <2>4, OneRow, KindsDiffer
      DEF Blocks, RecoverAndSettleRunCommandWithTerminalEvent, NewEvent
    <2> QED
      BY <1>6, <2>1, <2>2, <2>3, <2>4 DEF Ends
  <1> QED
    BY <1>2, <1>3, <1>5, <1>6 DEF WorkerStep

-----------------------------------------------------------------------------
(* The prefix of the log *)

\* A worker that has not announced its Run yet has nothing before it.
KnowsPrefix(j) ==
    /\ job[j].pc \in InLoop => job[j].status # "created"
    /\ job[j].pc \in Entering \cup {"acquire"} /\ job[j].status = "created" =>
          job[j].seq = 0

PrefixInv == PrefixWrittenOnce /\ \A j \in Jobs : KnowsPrefix(j)

LEMMA PrefixStep ==
    ASSUME WorkersInv, NEW j \in Jobs, WorkerStep(j), KnowsPrefix(j)
    PROVE  KnowsPrefix(j)'
  <1>1. job[j] \in JobRow /\ JobIsSound(j)
    BY LogOfStep
  <1>2. job'[j] = Idle => KnowsPrefix(j)'
    BY DEF KnowsPrefix, Idle, InLoop, Called, PastCommit, InHost, Closing, Entering
  <1>3. CASE Waits(j)
    <2>1. CASE GivesUp(j) \/ Fails(j)
      BY <2>1
      DEF GivesUp, Fails, Quitting, KnowsPrefix, InLoop, Called, PastCommit,
          InHost, Closing, Entering
    <2>2. CASE Closes(j)
      BY <2>2 DEF Closes, Keeps, KnowsPrefix, Entering
    <2>3. CASE GoesOn(j)
      BY <2>3
      DEF GoesOn, Keeps, At, KnowsPrefix, Entering, InLoop, Called, PastCommit,
          InHost
    <2>4. CASE Admits(j)
      BY <2>4
      DEF Admits, Keeps, At, KnowsPrefix, Entering, InLoop, Called, PastCommit,
          InHost, Closing
    <2> QED
      BY <1>2, <1>3, <2>1, <2>2, <2>3, <2>4 DEF Waits, Quits
  <1>4. CASE Begins(j)
    <2>1. ASSUME Claims(j), ContinuationStatus(job[j].seq) = "created"
          PROVE  job[j].seq = 0
      <3>1. job[j].seq \in 0 .. 2
        BY <1>1, <2>1
        DEF Claims, ClaimOrReclaim, ClaimInitialPreDispatch,
            ReclaimInitialPreDispatch, PreDispatchPrefix, JobRow
      <3> QED
        BY <2>1, <3>1 DEF ContinuationStatus
    <2>2. /\ job'[j].pc \in {"acquire", "claim", "block", "admit", "accept"}
          /\ job'[j].pc \in {"acquire", "admit", "accept"}
                /\ job'[j].status = "created" => job'[j].seq = 0
      BY <1>4, <2>1, BeginRows DEF KnowsPrefix, Acquires, At
    <2> QED
      BY <2>2 DEF KnowsPrefix, Entering, InLoop, Called, PastCommit, InHost, Closing
  <1>5. CASE WritesUnderLease(j)
    <2>1. CASE Accepts(j)
      BY <2>1
      DEF Accepts, Keeps, At, KnowsPrefix, Entering, InLoop, Called, PastCommit,
          InHost, Closing
    <2>2. CASE Records(j)
      <3>1. job[j].end # "created"
        BY <1>1 DEF JobRow, Outcomes
      <3>2. job[j].status # "created" \/ job'[j].status = "preparing"
        BY <2>2
        DEF Records, At, KnowsPrefix, InLoop, Called, PastCommit, Closing
      <3>3. job'[j].status # "created"
        BY <2>2, <3>1, <3>2 DEF Records
      <3> QED
        BY <3>3 DEF KnowsPrefix
    <2>3. CASE Publishes(j)
      BY <2>3
      DEF Publishes, KnowsPrefix, InLoop, Called, PastCommit, InHost, Closing,
          Entering
    <2>4. CASE \/ StartsStep(j) \/ FailsStep(j) \/ CommitsStep(j)
               \/ ReservesCall(j) \/ BeginsCall(j) \/ StagesResult(j)
               \/ CommitsReceipt(j)
      <3>1. job[j].pc \in InLoop
        BY <2>4
        DEF StartsStep, FailsStep, CommitsStep, ReservesCall, BeginsCall,
            StagesResult, CommitsReceipt, At, InLoop, Called, PastCommit, InHost
      <3>2. job'[j].status = job[j].status
        BY <1>1, <2>4
        DEF StartsStep, FailsStep, CommitsStep, ReservesCall, BeginsCall,
            StagesResult, CommitsReceipt, Keeps, JobRow
      <3> QED
        BY <3>1, <3>2 DEF KnowsPrefix
    <2> QED
      BY <1>5, <2>1, <2>2, <2>3, <2>4 DEF WritesUnderLease
  <1>6. CASE Ends(j)
    BY <1>2, <1>6
    DEF Ends, SettlesCommand, SettlesUnknown, ReportsFailure, Blocks, KnowsPrefix,
        InLoop, Called, PastCommit, InHost, Closing, Entering
  <1> QED
    BY <1>3, <1>4, <1>5, <1>6 DEF WorkerStep

LEMMA PrefixInvStep ==
    ASSUME WorkersInv, PrefixInv, [WorkersNext]_vars
    PROVE  PrefixInv'
  <1>1. CASE Rests
    <2>1. ASSUME NEW k \in Jobs
          PROVE  KnowsPrefix(k)'
      BY <1>1, <2>1
      DEF Rests, PrefixInv, KnowsPrefix, Idle, InLoop, Called, PastCommit, InHost,
          Closing, Entering
    <2> QED
      BY <1>1, <2>1 DEF Rests, PrefixInv, PrefixWrittenOnce
  <1>2. ASSUME NEW j \in Jobs, WorkerStep(j)
        PROVE  PrefixInv'
    <2>1. \A k \in Jobs : KnowsPrefix(k)'
      BY <1>2, PrefixStep DEF WorkerStep, PrefixInv, KnowsPrefix
    <2>2. ASSUME NEW e \in events' \ events, e.kind = "preparing"
          PROVE  e.seq = 1
      <3>1. NewEvent(j, e)
        BY <1>2, NewEvents
      <3>2. /\ At(j, "loop") /\ job[j].status = "created"
            /\ e.seq = job[j].seq + 1
        BY <1>2, <2>2, <3>1, KindsDiffer, LogOfStep
        DEF NewEvent, ReceiptKinds, Publishes, At, JobIsSound, Closing
      <3> QED
        BY <3>2 DEF PrefixInv, KnowsPrefix, At, Entering
    <2> QED
      BY <2>1, <2>2 DEF PrefixInv, PrefixWrittenOnce
  <1> QED
    BY <1>1, <1>2, StepShapes

\* However often a Command changes hands before its first Provider call, the
\* announcement that opens the log is written once, in the first row: a safe
\* continuation takes up the status the earlier worker has left.
THEOREM PrefixIsWrittenOnce == WorkersSpec => []PrefixWrittenOnce
  <1>1. WorkersInit => PrefixInv
    BY DEF WorkersInit, Init, PrefixInv, PrefixWrittenOnce, KnowsPrefix, Idle,
           InLoop, Called, PastCommit, InHost, Closing, Entering
  <1>2. PrefixInv => PrefixWrittenOnce
    BY DEF PrefixInv
  <1> QED
    BY <1>1, <1>2, PrefixInvStep, WorkersInvHolds, PTL DEF WorkersSpec

-----------------------------------------------------------------------------
(* External calls *)

Calling(j) == At(j, "asking") \/ At(j, "hosting")

HasCalledOut == command.status \in {"dispatched", "terminal"}

\* Where a worker can only be after the first Provider call of the Run.
PastStart == Called \cup PastCommit \cup {"record_failure"}

\* The loop as far as one worker may be alone in it.
LoopPcs == InLoop \cup {"loop"}

HasStarted(j) == job[j].pc \in PastStart \/ job[j].end = "completed"

CallInv ==
    /\ \A j \in Jobs : HasStarted(j) => HasCalledOut
    /\ \A j \in Jobs : Held(j) /\ job[j].pc \in LoopPcs =>
          \A k \in Jobs \ {j} : ~Calling(k)
    /\ \A j, k \in Jobs : Calling(j) /\ Calling(k) => j = k

\* A Run that has called out never becomes safe to dispatch again.
LEMMA CallsAreNotForgotten ==
    ASSUME StoreStep, HasCalledOut
    PROVE  HasCalledOut'
  <1>1. UNCHANGED command => HasCalledOut'
    BY DEF HasCalledOut
  <1>2. command'.status \in {"dispatched", "terminal"} => HasCalledOut'
    BY DEF HasCalledOut
  <1>3. CASE CommandOperation
    BY <1>1, <1>2, <1>3
    DEF CommandOperation, ReserveRunCommand, ClaimInitialPreDispatch,
        ReclaimInitialPreDispatch, CreateRunAttempt, HasCalledOut,
        RecoverAndSettleRunCommandWithTerminalEvent
  <1>4. ASSUME NEW a \in Attempts, NEW tok, AuthorizedOperation(a, tok)
        PROVE  HasCalledOut'
    <2>1. ASSUME NEW expected, NEW next, NEW o,
                 TransitionRunCommand(a, tok, expected, next, o)
          PROVE  command'.status = "terminal"
      BY <2>1
      DEF TransitionRunCommand, CanTransitionRunCommand, CommandEdges, HasCalledOut
    <2>2. ASSUME NEW expected, NEW seq, NEW o,
                 SettleRunCommandWithTerminalEvent(a, tok, expected, seq, o)
          PROVE  command'.status = "terminal"
      BY <2>2 DEF SettleRunCommandWithTerminalEvent
    <2>3. RenewLease(a, tok) => UNCHANGED command
      BY DEF RenewLease
    <2>4. ASSUME NEW seq, NEW kinds, AppendEvents(a, tok, seq, kinds)
          PROVE  UNCHANGED command
      BY <2>4 DEF AppendEvents
    <2> QED
      BY <1>1, <1>2, <1>4, <2>1, <2>2, <2>3, <2>4 DEF AuthorizedOperation
  <1>5. ASSUME NEW a \in Attempts, NEW tok, StepOperation(a, tok)
        PROVE  HasCalledOut'
    <2>1. ASSUME NEW m \in ModelSteps, StartModelStep(a, tok, m)
          PROVE  HasCalledOut'
      <3>1. command' = [command EXCEPT !.status = "dispatched"]
        BY <2>1 DEF StartModelStep
      <3>2. \/ command'.status = "dispatched"
            \/ command' = command
        BY <3>1
      <3> QED
        BY <1>1, <1>2, <3>2
    <2> QED
      BY <1>1, <1>5, <2>1
      DEF StepOperation, FinishModelStep, CommitTerminalModelStep, WriteSnapshot
  <1>6. ASSUME NEW a \in Attempts, NEW tok, InvocationOperation(a, tok)
        PROVE  HasCalledOut'
    BY <1>1, <1>6, InvocationFrame
  <1>7. Tick \/ (\E a \in Attempts : AcquireLease(a)) \/ UNCHANGED storeVars
           => HasCalledOut'
    BY <1>1 DEF Tick, AcquireLease, storeVars
  <1>8. ASSUME NEW a, NEW tok, NEW seq, NEW kinds, AppendEvents(a, tok, seq, kinds)
        PROVE  HasCalledOut'
    BY <1>1, <1>8 DEF AppendEvents
  <1> QED
    BY <1>3, <1>4, <1>5, <1>6, <1>7, <1>8 DEF StoreStep

LEMMA StartedStep ==
    ASSUME WorkersInv, NEW j \in Jobs, WorkerStep(j), HasStarted(j) => HasCalledOut,
           HasStarted(j)'
    PROVE  HasCalledOut'
  <1>1. StoreStep /\ TypeOK /\ job[j] \in JobRow
    BY LogOfStep
  <1>2. HasStarted(j) => HasCalledOut'
    BY <1>1, CallsAreNotForgotten
  <1>3. job'[j] # Idle
    BY DEF HasStarted, Idle, PastStart, Called, PastCommit, InHost
  <1>4. CASE Waits(j)
    BY <1>2, <1>3, <1>4
    DEF Waits, Quits, GivesUp, Closes, GoesOn, Admits, Fails, At, HasStarted,
        Quitting, PastStart, Called, PastCommit, InHost
  <1>5. CASE Begins(j)
    <2>1. /\ job'[j].pc \in {"acquire", "claim", "block", "admit", "accept"}
          /\ job'[j].end = "completed" => job[j].end = "completed"
      BY <1>5, BeginRows
    <2> QED
      BY <1>2, <2>1 DEF HasStarted, PastStart, Called, PastCommit, InHost
  <1>6. CASE WritesUnderLease(j)
    <2>1. CASE StartsStep(j)
      <3>1. PICK m \in ModelSteps : StartModelStep(job[j].attempt, job[j].token, m)
        BY <2>1 DEF StartsStep
      <3>2. command'.status = "dispatched"
        BY <1>1, <3>1 DEF StartModelStep, TypeOK, CommandRow
      <3> QED
        BY <3>2 DEF HasCalledOut
    <2>2. CASE Accepts(j) \/ Publishes(j)
      BY <1>2, <2>2
      DEF Accepts, Publishes, HasStarted, PastStart, Called, PastCommit, InHost
    <2>3. CASE Records(j)
      BY <1>2, <2>3
      DEF Records, At, HasStarted, PastStart, Called, PastCommit, InHost
    <2>4. CASE \/ FailsStep(j) \/ CommitsStep(j) \/ ReservesCall(j)
               \/ BeginsCall(j) \/ StagesResult(j) \/ CommitsReceipt(j)
      <3>1. job[j].pc \in PastStart
        BY <2>4
        DEF FailsStep, CommitsStep, ReservesCall, BeginsCall, StagesResult,
            CommitsReceipt, At, PastStart, Called, PastCommit, InHost
      <3> QED
        BY <1>2, <3>1 DEF HasStarted
    <2> QED
      BY <1>6, <2>1, <2>2, <2>3, <2>4 DEF WritesUnderLease
  <1>7. CASE Ends(j)
    BY <1>3, <1>7
    DEF Ends, SettlesCommand, SettlesUnknown, ReportsFailure, Blocks, HasStarted,
        PastStart, Called, PastCommit, InHost
  <1> QED
    BY <1>4, <1>5, <1>6, <1>7 DEF WorkerStep

\* Who asks holds the lease and is in the loop.
LEMMA CallerHolds ==
    ASSUME WorkersInv, NEW j \in Jobs, WorkerStep(j), Calling(j)'
    PROVE  Held(j) /\ job[j].pc \in LoopPcs
  <1>1. job'[j].pc \in {"asking", "hosting"}
    BY DEF Calling, At
  <1>2. ~Begins(j)
    BY <1>1, BeginRows
  <1>3. CASE Waits(j)
    BY <1>1, <1>3
    DEF Waits, Quits, GivesUp, Closes, GoesOn, Admits, Fails, At, Idle, Quitting,
        LoopPcs, InLoop, Called, PastCommit, InHost
  <1>4. ~Ends(j)
    BY <1>1
    DEF Ends, SettlesCommand, SettlesUnknown, ReportsFailure, Blocks, Idle
  <1>5. ~WritesUnderLease(j)
    <2>1. ~StartsStep(j) /\ ~ReservesCall(j)
      BY <1>1, LogOfStep DEF StartsStep, ReservesCall, JobRow
    <2> QED
      BY <1>1, <2>1
      DEF WritesUnderLease, Accepts, Records, Publishes, FailsStep, CommitsStep,
          BeginsCall, StagesResult, CommitsReceipt
  <1> QED
    BY <1>2, <1>3, <1>4, <1>5 DEF WorkerStep

\* A worker enters the loop while the Command is only accepted.
LEMMA LoopIsEntered ==
    ASSUME WorkersInv, NEW j \in Jobs, WorkerStep(j), Held(j)',
           job'[j].pc \in LoopPcs
    PROVE  \/ command'.status = "accepted"
           \/ Held(j) /\ job[j].pc \in LoopPcs
  <1>1. ASSUME job'[j].attempt = job[j].attempt, job'[j].token = job[j].token
        PROVE  Held(j)
    BY <1>1, LogOfStep, NoRevival
  <1>2. job'[j] # Idle
    BY DEF Idle, LoopPcs, InLoop, Called, PastCommit, InHost, Closing
  <1>3. CASE Waits(j)
    BY <1>1, <1>2, <1>3
    DEF Waits, Quits, GivesUp, Closes, GoesOn, Admits, Fails, At, Keeps,
        GoesOnWith, Keep, storeVars, Quitting, LoopPcs, InLoop, Called,
        PastCommit, InHost, Closing
  <1>4. ~Begins(j)
    <2>1. ASSUME Begins(j)
          PROVE  job'[j].pc \in {"acquire", "claim", "block", "admit", "accept"}
      BY <2>1, BeginRows
    <2> QED
      BY <2>1 DEF LoopPcs, InLoop, Called, PastCommit, InHost, Closing
  <1>5. CASE WritesUnderLease(j)
    <2>1. Held(j)
      BY <1>5, WriterHolds
    <2>2. Accepts(j) => command'.status = "accepted"
      BY DEF Accepts, TransitionRunCommand
    <2>3. ~Accepts(j) => job[j].pc \in LoopPcs
      BY <1>5
      DEF WritesUnderLease, Records, Publishes, StartsStep, FailsStep,
          CommitsStep, ReservesCall, BeginsCall, StagesResult, CommitsReceipt, At,
          LoopPcs, InLoop, Called, PastCommit, InHost, Closing
    <2> QED
      BY <2>1, <2>2, <2>3
  <1>6. ~Ends(j)
    BY <1>2
    DEF Ends, SettlesCommand, SettlesUnknown, ReportsFailure, Blocks, LoopPcs,
        InLoop, Called, PastCommit, InHost, Closing
  <1> QED
    BY <1>3, <1>4, <1>5, <1>6 DEF WorkerStep

LEMMA CallInvStep ==
    ASSUME WorkersInv, CallInv, [WorkersNext]_vars
    PROVE  CallInv'
  <1>1. CASE Rests
    <2>1. \A k \in Jobs :
             \/ job'[k] = Idle
             \/ job'[k] = job[k] /\ (Held(k)' => Held(k))
      BY <1>1 DEF Rests
    <2>2. command' = command
      BY <1>1 DEF Rests
    <2>3. \A k \in Jobs : job'[k] = Idle =>
             ~HasStarted(k)' /\ ~Calling(k)' /\ ~Held(k)'
      BY DEF Idle, HasStarted, Calling, At, Held, PastStart, Called, PastCommit,
             InHost
    <2>4. \A k \in Jobs : job'[k] = job[k] =>
             /\ HasStarted(k)' = HasStarted(k) /\ Calling(k)' = Calling(k)
      BY DEF HasStarted, Calling, At
    <2>5. HasCalledOut' = HasCalledOut
      BY <2>2 DEF HasCalledOut
    <2> QED
      BY <2>1, <2>3, <2>4, <2>5 DEF CallInv
  <1>2. ASSUME NEW j \in Jobs, WorkerStep(j)
        PROVE  CallInv'
    <2>1. StoreStep /\ \A k \in Jobs \ {j} : job'[k] = job[k]
      BY <1>2, LogOfStep DEF WorkerStep
    <2>2. \A k \in Jobs \ {j} :
             HasStarted(k)' = HasStarted(k) /\ Calling(k)' = Calling(k)
      BY <2>1 DEF HasStarted, Calling, At
    <2>3. \A k \in Jobs : HasStarted(k)' => HasCalledOut'
      BY <1>2, <2>1, <2>2, CallsAreNotForgotten, StartedStep DEF CallInv
    <2>4. Calling(j)' => Held(j) /\ job[j].pc \in LoopPcs
      BY <1>2, CallerHolds
    <2>5. ASSUME NEW k \in Jobs, NEW l \in Jobs, Calling(k)', Calling(l)'
          PROVE  k = l
      BY <2>2, <2>4, <2>5 DEF CallInv
    <2>6. ASSUME NEW k \in Jobs, Held(k)', job'[k].pc \in LoopPcs,
                 NEW l \in Jobs \ {k}
          PROVE  ~Calling(l)'
      <3>1. CASE k = j
        <4>1. CASE command'.status = "accepted"
          <5>1. ~HasCalledOut'
            BY <4>1 DEF HasCalledOut
          <5>2. Calling(l)' => HasStarted(l)'
            BY DEF Calling, At, HasStarted, PastStart, Called, PastCommit, InHost
          <5> QED
            BY <2>3, <5>1, <5>2
        <4>2. CASE Held(j) /\ job[j].pc \in LoopPcs
          BY <2>2, <3>1, <4>2 DEF CallInv
        <4> QED
          BY <1>2, <2>6, <3>1, <4>1, <4>2, LoopIsEntered
      <3>2. CASE k # j
        <4>1. Held(k) /\ job'[k] = job[k]
          BY <1>2, <2>6, <3>2, OthersRest
        <4>2. ~Calling(l) \/ l = j
          BY <2>6, <4>1 DEF CallInv
        <4>3. l = j => ~Held(j)
          BY <3>2, <4>1, OneOwner
        <4>4. l # j => ~Calling(l)
          BY <4>2
        <4> QED
          BY <2>2, <2>4, <4>3, <4>4
      <3> QED
        BY <3>1, <3>2
    <2> QED
      BY <2>3, <2>5, <2>6 DEF CallInv
  <1> QED
    BY <1>1, <1>2, StepShapes

LEMMA CallInvInit ==
    ASSUME WorkersInit
    PROVE  CallInv
  BY DEF WorkersInit, Init, CallInv, HasStarted, Held, Calling, At, Idle,
         PastStart, Called, PastCommit, InHost

LEMMA CallInvHolds == WorkersSpec => []CallInv
  BY CallInvInit, CallInvStep, WorkersInvHolds, PTL DEF WorkersSpec

\* Provider and Host are asked by one worker at a time, for every number of
\* workers and every order of expiry, crash and takeover: a worker that has
\* lost its lease in a call was alone when it started it, and once a Run has
\* called out nobody else is let into its loop.
THEOREM CallsNeverOverlap == WorkersSpec => []ExternalCallsNeverOverlap
  <1> DEFINE callers == {j \in Jobs : At(j, "asking") \/ At(j, "hosting")}
  <1>1. CallInv => ExternalCallsNeverOverlap
    <2>1. SUFFICES ASSUME CallInv
                   PROVE  Cardinality(callers) <= 1
      BY DEF ExternalCallsNeverOverlap
    <2>2. \A j, k \in callers : j = k
      BY <2>1 DEF CallInv, Calling
    <2> HIDE DEF callers
    <2>3. CASE callers = {}
      BY <2>3, FS_EmptySet
    <2>4. ASSUME NEW j \in callers
          PROVE  Cardinality(callers) <= 1
      <3>1. callers = {j}
        BY <2>2, <2>4
      <3> QED
        BY <3>1, FS_Singleton
    <2> QED
      BY <2>3, <2>4
  <1> QED
    BY <1>1, CallInvHolds, PTL

-----------------------------------------------------------------------------
(* The end of a Run *)

NoEnd == \A e \in events : e.kind \notin TerminalKinds

\* What the owner of the lease knows of the end: none was written, or it has
\* read nothing yet and can only write into an empty log.
KnowsNoEnd(j) ==
    /\ job[j].pc \in InLoop => NoEnd
    /\ job[j].pc \in Entering =>
          \/ NoEnd
          \/ job[j].attempt = 1 /\ job[j].seq = 0 /\ job[j].status = "created"

\* A coordinator that decides to block has seen no end up to its watermark.
BlocksByRight(j) ==
    job[j].pc = "block" =>
        /\ job[j].seq <= Watermark
        /\ \A e \in events : e.kind \in TerminalKinds => e.seq > job[j].seq

Fresh(j) ==
    job[j].pc = "acquire" =>
        job[j].attempt = 1 /\ job[j].seq = 0 /\ job[j].status = "created"

\* No snapshot covers the end of the Run: a reader that starts after the latest
\* snapshot does not miss it.
SnapshotsPrecedeTheEnd ==
    /\ latest.through <= Watermark
    /\ \A e \in events : e.kind \in TerminalKinds => e.seq > latest.through

EndInv ==
    /\ \A j \in Jobs : Held(j) => KnowsNoEnd(j)
    /\ \A j \in Jobs : Fresh(j) /\ BlocksByRight(j)
    /\ SnapshotsPrecedeTheEnd

\* The steps of a worker inside its loop.
LoopStep(j) == Closes(j) \/ GoesOn(j) \/ (WritesUnderLease(j) /\ ~Accepts(j))

LEMMA LoopSteps ==
    ASSUME WorkersInv, NEW j \in Jobs, WorkerStep(j), Held(j)',
           job'[j].pc \in InLoop
    PROVE  Held(j) /\ job[j].pc \in LoopPcs /\ LoopStep(j)
  <1>1. ASSUME job'[j].attempt = job[j].attempt, job'[j].token = job[j].token
        PROVE  Held(j)
    BY <1>1, LogOfStep, NoRevival
  <1>2. job'[j] # Idle
    BY DEF Idle, InLoop, Called, PastCommit, InHost, Closing
  <1>3. job'[j].pc \notin Entering \cup Quitting \cup {"fail", "settle_failed"}
    BY DEF Entering, Quitting, InLoop, Called, PastCommit, InHost, Closing
  <1>4. CASE Waits(j)
    <2>1. Closes(j) \/ GoesOn(j)
      BY <1>2, <1>3, <1>4
      DEF Waits, Quits, GivesUp, Admits, Fails, Entering, Quitting
    <2> QED
      BY <1>1, <2>1
      DEF Closes, GoesOn, At, Keeps, GoesOnWith, LoopStep, LoopPcs, InLoop,
          Called, PastCommit, InHost
  <1>5. ~Begins(j)
    <2>1. ASSUME Begins(j)
          PROVE  job'[j].pc \in {"acquire", "claim", "block", "admit", "accept"}
      BY <2>1, BeginRows
    <2> QED
      BY <2>1 DEF InLoop, Called, PastCommit, InHost, Closing
  <1>6. CASE WritesUnderLease(j)
    <2>1. Held(j)
      BY <1>6, WriterHolds
    <2>2. ~Accepts(j)
      BY <1>3 DEF Accepts, Entering
    <2>3. job[j].pc \in LoopPcs
      BY <1>6, <2>2
      DEF WritesUnderLease, Records, Publishes, StartsStep, FailsStep,
          CommitsStep, ReservesCall, BeginsCall, StagesResult, CommitsReceipt, At,
          LoopPcs, InLoop, Called, PastCommit, InHost, Closing
    <2> QED
      BY <1>6, <2>1, <2>2, <2>3 DEF LoopStep
  <1>7. ~Ends(j)
    BY <1>2, <1>3
    DEF Ends, SettlesCommand, SettlesUnknown, ReportsFailure, Blocks
  <1> QED
    BY <1>4, <1>5, <1>6, <1>7 DEF WorkerStep

\* Who writes the work of the Run.
LEMMA WorkMoves ==
    ASSUME NEW j \in Jobs, WorkerStep(j)
    PROVE  \/ UNCHANGED <<steps, invocations, latest>>
           \/ /\ StartsStep(j) \/ FailsStep(j)
              /\ UNCHANGED <<invocations, latest, events>>
           \/ CommitsStep(j) /\ UNCHANGED <<invocations, events>>
           \/ /\ ReservesCall(j) \/ BeginsCall(j) \/ StagesResult(j)
              /\ UNCHANGED <<steps, latest, events>>
           \/ CommitsReceipt(j) /\ UNCHANGED <<steps, latest>>
  <1> DEFINE frame == UNCHANGED <<steps, invocations, latest>>
  <1>1. CASE Waits(j)
    BY <1>1
    DEF Waits, Quits, GivesUp, Closes, GoesOn, Admits, Fails, Keep, storeVars
  <1>2. CASE Begins(j)
    <2>1. frame
      BY <1>2
      DEF Begins, Submit, ReadForDispatch, ReadForRecovery, Acquires, Claims,
          Keep, storeVars, ReserveRunCommand, AcquireLease, ClaimOrReclaim,
          ClaimInitialPreDispatch, ReclaimInitialPreDispatch
    <2> QED
      BY <2>1
  <1>3. CASE WritesUnderLease(j)
    <2>1. ASSUME NEW kind, Writes(j, kind)
          PROVE  frame
      BY <2>1 DEF Writes, AppendEvents
    <2>2. Records(j) \/ Publishes(j) \/ Accepts(j) => frame
      <3>1. Accepts(j) => frame
        BY DEF Accepts, TransitionRunCommand
      <3> HIDE DEF frame
      <3> QED
        BY <2>1, <3>1 DEF Records, Publishes
    <2>3. StartsStep(j) \/ FailsStep(j) => UNCHANGED <<invocations, latest, events>>
      BY DEF StartsStep, FailsStep, StartModelStep, FinishModelStep
    <2>4. CommitsStep(j) => UNCHANGED <<invocations, events>>
      BY DEF CommitsStep, CommitTerminalModelStep
    <2>5. ReservesCall(j) \/ BeginsCall(j) \/ StagesResult(j)
             => UNCHANGED <<steps, latest, events>>
      BY DEF ReservesCall, BeginsCall, StagesResult, ReserveInvocation,
             BeginInvocationExecution, StagePublicToolResultDerivative
    <2>6. CommitsReceipt(j) => UNCHANGED <<steps, latest>>
      BY DEF CommitsReceipt, CommitReceiptWithPublicEvents
    <2> QED
      BY <1>3, <2>2, <2>3, <2>4, <2>5, <2>6 DEF WritesUnderLease
  <1>4. CASE Ends(j)
    BY <1>4
    DEF Ends, SettlesCommand, SettlesUnknown, ReportsFailure, Blocks, Settle,
        TransitionRunCommand, SettleRunCommandWithTerminalEvent, AppendEvents,
        RecoverAndSettleRunCommandWithTerminalEvent, Keep, storeVars
  <1> QED
    BY <1>1, <1>2, <1>3, <1>4 DEF WorkerStep

LEMMA EndWriters ==
    ASSUME WorkersInv, NEW j \in Jobs, WorkerStep(j), NEW e \in events' \ events,
           e.kind \in TerminalKinds
    PROVE  \/ Publishes(j) /\ e.kind = TerminalKind(job[j].end)
           \/ SettlesUnknown(j) /\ e.kind = "run_blocked"
           \/ ReportsFailure(j) /\ ~Keep /\ e.kind = "run_failed"
           \/ Blocks(j) /\ e.kind = "run_blocked"
  BY NewEvents, KindsDiffer DEF NewEvent, OrdinaryKinds, ReceiptKinds

\* In an empty log there is no end.
LEMMA EmptyLog ==
    ASSUME WorkersInv, NEW j \in Jobs, WorkerStep(j), Watermark = 0
    PROVE  NoEnd
  <1>1. \A e \in events : e.seq \in Nat \ {0} /\ e.seq <= 0
    BY LogOfStep DEF TypeOK, Event
  <1>2. events = {}
    BY <1>1
  <1> QED
    BY <1>2 DEF NoEnd

LEMMA NoEndStep ==
    ASSUME WorkersInv, NEW j \in Jobs, WorkerStep(j), Held(j) => KnowsNoEnd(j),
           Fresh(j), Held(j)'
    PROVE  KnowsNoEnd(j)'
  <1>1. \/ NoEnd'
        \/ ~NoEnd
        \/ Publishes(j) \/ SettlesUnknown(j) \/ ReportsFailure(j) \/ Blocks(j)
    BY EndWriters DEF NoEnd
  <1>2. ASSUME job'[j].pc \in InLoop
        PROVE  NoEnd'
    <2>1. Held(j) /\ job[j].pc \in LoopPcs /\ LoopStep(j)
      BY <1>2, LoopSteps
    <2>2. job'[j].pc \notin {"settle", "settle_failed"} /\ job'[j] # Idle
      BY <1>2 DEF Idle, InLoop, Called, PastCommit, InHost, Closing
    <2>3. NoEnd
      <3>1. CASE job[j].pc \in InLoop
        BY <2>1, <3>1 DEF KnowsNoEnd
      <3>2. CASE job[j].pc = "loop" /\ GoesOn(j)
        BY <2>1, <3>2 DEF GoesOn, At, KnowsNoEnd, Entering
      <3>3. CASE job[j].pc = "loop" /\ Records(j)
        <4>1. Writes(j, "preparing")
          BY <3>3 DEF Records, At
        <4>2. lastSeq[job[j].attempt] = job[j].seq
          BY <4>1 DEF Writes, AppendEvents
        <4>3. Watermark = job[j].seq
          BY <2>1, <4>2, HeldFacts
        <4>4. NoEnd \/ job[j].seq = 0
          BY <2>1, <3>3 DEF KnowsNoEnd, Entering
        <4> QED
          BY <4>3, <4>4, EmptyLog
      <3>4. job[j].pc = "loop" => GoesOn(j) \/ Records(j)
        BY <2>1
        DEF LoopStep, Closes, WritesUnderLease, Publishes, StartsStep, FailsStep,
            CommitsStep, ReservesCall, BeginsCall, StagesResult, CommitsReceipt,
            At, InLoop, Called, PastCommit, InHost, Closing
      <3> QED
        BY <2>1, <3>1, <3>2, <3>3, <3>4 DEF LoopPcs
    <2> QED
      BY <1>1, <2>2, <2>3 DEF Publishes, SettlesUnknown, ReportsFailure, Blocks
  <1>3. ASSUME job'[j].pc \in Entering
        PROVE  \/ NoEnd'
               \/ /\ job'[j].attempt = 1 /\ job'[j].seq = 0
                  /\ job'[j].status = "created"
    <2>1. job'[j].pc \notin {"settle", "settle_failed"} \cup InLoop \cup Quitting
          /\ job'[j] # Idle /\ job'[j].pc # "fail"
      BY <1>3
      DEF Entering, Idle, InLoop, Called, PastCommit, InHost, Closing, Quitting
    <2>2. NoEnd => NoEnd'
      BY <1>1, <2>1 DEF Publishes, SettlesUnknown, ReportsFailure, Blocks
    <2>3. CASE Acquires(j)
      BY <2>3, BeginRows, LogOfStep DEF Acquires, At, Fresh, JobRow
    <2>4. CASE Claims(j)
      <3>1. PreDispatchPrefix(job[j].seq)
        BY <2>4
        DEF Claims, ClaimOrReclaim, ClaimInitialPreDispatch,
            ReclaimInitialPreDispatch
      <3>2. NoEnd
        BY <3>1, KindsDiffer DEF PreDispatchPrefix, NoEnd
      <3> QED
        BY <2>2, <3>2
    <2>5. CASE Accepts(j) \/ Admits(j)
      <3>1. Held(j) /\ job[j].pc \in Entering
        BY <2>5, LogOfStep, NoRevival
        DEF Accepts, Admits, At, Keeps, GoesOnWith, Entering
      <3> QED
        BY <2>2, <2>5, <3>1 DEF Accepts, Admits, Keeps, GoesOnWith, KnowsNoEnd
    <2>6. ~(Submit(j) \/ ReadForDispatch(j) \/ ReadForRecovery(j))
      <3>1. ASSUME Submit(j) \/ ReadForDispatch(j) \/ ReadForRecovery(j)
            PROVE  job'[j].pc \in {"acquire", "claim", "block"}
        <4>1. ASSUME NEW r, Become(j, r)
              PROVE  job'[j] = r
          BY <4>1, Moves DEF WorkersInv
        <4>2. CASE Submit(j)
          BY <4>1, <4>2 DEF Submit, Idle
        <4>3. CASE ReadForDispatch(j)
          BY <4>1, <4>3 DEF ReadForDispatch, Idle
        <4>4. CASE ReadForRecovery(j)
          BY <4>1, <4>4 DEF ReadForRecovery, Idle
        <4> QED
          BY <3>1, <4>2, <4>3, <4>4
      <3> QED
        BY <1>3, <3>1 DEF Entering
    <2>7. ~Waits(j) \/ Admits(j)
      BY <2>1
      DEF Waits, Quits, GivesUp, Closes, GoesOn, Fails, InLoop, Called, Closing,
          PastCommit, InHost
    <2>8. ~WritesUnderLease(j) \/ Accepts(j)
      <3>1. ASSUME StartsStep(j) \/ ReservesCall(j)
            PROVE  job'[j].pc \in InLoop
        BY <3>1, LogOfStep
        DEF StartsStep, ReservesCall, JobRow, InLoop, Called, PastCommit
      <3> QED
        BY <2>1, <3>1
        DEF WritesUnderLease, Records, Publishes, FailsStep, CommitsStep,
            BeginsCall, StagesResult, CommitsReceipt, InLoop, Called, PastCommit,
            InHost, Closing
    <2>9. ~Ends(j)
      BY <2>1 DEF Ends, SettlesCommand, SettlesUnknown, ReportsFailure, Blocks
    <2> QED
      BY <2>3, <2>4, <2>5, <2>6, <2>7, <2>8, <2>9 DEF WorkerStep, Begins
  <1> QED
    BY <1>2, <1>3 DEF KnowsNoEnd

\* What a process has read when it takes the Command up.
LEMMA ReadSteps ==
    ASSUME WorkersInv, NEW j \in Jobs, WorkerStep(j),
           job'[j].pc \in {"acquire", "block"}
    PROVE  /\ job'[j].pc = "acquire" => Fresh(j)'
           /\ job'[j].pc = "block" =>
                 ReadForRecovery(j) /\ job'[j].seq = Watermark
  <1>1. job'[j] # Idle
    BY DEF Idle
  <1>2. ~Waits(j)
    BY <1>1
    DEF Waits, Quits, GivesUp, Closes, GoesOn, Admits, Fails, Quitting
  <1>3. ~WritesUnderLease(j)
    <2>1. ~StartsStep(j) /\ ~ReservesCall(j)
      BY LogOfStep DEF StartsStep, ReservesCall, JobRow
    <2> QED
      BY <2>1
      DEF WritesUnderLease, Accepts, Records, Publishes, FailsStep, CommitsStep,
          BeginsCall, StagesResult, CommitsReceipt
  <1>4. ~Ends(j)
    BY <1>1 DEF Ends, SettlesCommand, SettlesUnknown, ReportsFailure, Blocks
  <1>5. Begins(j)
    BY <1>2, <1>3, <1>4 DEF WorkerStep
  <1> QED
    BY <1>5, BeginRows DEF Fresh

LEMMA SnapshotsStep ==
    ASSUME WorkersInv, NEW j \in Jobs, WorkerStep(j), Held(j) => KnowsNoEnd(j),
           SnapshotsPrecedeTheEnd
    PROVE  SnapshotsPrecedeTheEnd'
  <1>1. /\ Watermark \in Nat /\ Watermark' \in Nat /\ Watermark <= Watermark'
        /\ \A e \in events' \ events : e.seq \in Nat /\ e.seq > Watermark
        /\ \A e \in events : e.seq \in Nat
        /\ latest.through \in Int
    BY LogOfStep DEF TypeOK, Snapshot
  <1>2. CASE UNCHANGED latest
    <2>1. latest.through <= Watermark'
      BY <1>1 DEF SnapshotsPrecedeTheEnd
    <2>2. ASSUME NEW e \in events', e.kind \in TerminalKinds
          PROVE  e.seq > latest.through
      BY <1>1, <2>2 DEF SnapshotsPrecedeTheEnd
    <2> QED
      BY <1>2, <2>1, <2>2 DEF SnapshotsPrecedeTheEnd
  <1>3. CASE CommitsStep(j) /\ UNCHANGED events
    <2>1. Held(j)
      BY <1>3, WriterHolds DEF WritesUnderLease
    <2>2. NoEnd
      BY <1>3, <2>1 DEF CommitsStep, At, KnowsNoEnd, InLoop, Called
    <2>3. /\ latest'.through = job[j].seq /\ lastSeq[job[j].attempt] = job[j].seq
          /\ UNCHANGED <<active, lastSeq>>
      BY <1>3 DEF CommitsStep, CommitTerminalModelStep
    <2>4. Watermark = job[j].seq /\ Watermark' = Watermark
      BY <2>1, <2>3, HeldFacts DEF Watermark
    <2> QED
      BY <1>1, <1>3, <2>2, <2>3, <2>4 DEF SnapshotsPrecedeTheEnd, NoEnd
  <1> QED
    BY <1>2, <1>3, WorkMoves

LEMMA EndInvStep ==
    ASSUME WorkersInv, EndInv, [WorkersNext]_vars
    PROVE  EndInv'
  <1>1. CASE Rests
    <2>1. Watermark' = Watermark /\ NoEnd' = NoEnd
      BY <1>1 DEF Rests, Watermark, NoEnd
    <2>2. ASSUME NEW k \in Jobs
          PROVE  /\ Held(k)' => KnowsNoEnd(k)'
                 /\ Fresh(k)' /\ BlocksByRight(k)'
      <3>1. CASE job'[k] = Idle
        BY <3>1 DEF Idle, Held, Fresh, BlocksByRight
      <3>2. CASE job'[k] = job[k] /\ (Held(k)' => Held(k))
        BY <1>1, <2>1, <3>2 DEF Rests, EndInv, KnowsNoEnd, Fresh, BlocksByRight
      <3> QED
        BY <1>1, <3>1, <3>2 DEF Rests
    <2>3. SnapshotsPrecedeTheEnd'
      BY <1>1, <2>1 DEF Rests, EndInv, SnapshotsPrecedeTheEnd
    <2> QED
      BY <2>2, <2>3 DEF EndInv
  <1>2. ASSUME NEW j \in Jobs, WorkerStep(j)
        PROVE  EndInv'
    <2>1. /\ Held(j) => KnowsNoEnd(j)
          /\ Fresh(j) /\ SnapshotsPrecedeTheEnd
          /\ \A k \in Jobs \ {j} : job'[k] = job[k]
      BY <1>2 DEF EndInv, WorkerStep
    <2>2. ASSUME NEW k \in Jobs, Held(k)'
          PROVE  KnowsNoEnd(k)'
      <3>1. CASE k = j
        BY <1>2, <2>1, <2>2, <3>1, NoEndStep
      <3>2. CASE k # j
        <4>1. Held(k) /\ job'[k] = job[k] /\ UNCHANGED storeVars
          BY <1>2, <2>2, <3>2, OthersRest
        <4>2. NoEnd' = NoEnd
          BY <4>1 DEF storeVars, NoEnd
        <4> QED
          BY <4>1, <4>2 DEF EndInv, KnowsNoEnd
      <3> QED
        BY <3>1, <3>2
    <2>3. \A k \in Jobs : Fresh(k)'
      BY <1>2, <2>1, ReadSteps DEF EndInv, Fresh
    <2>4. ASSUME NEW k \in Jobs, job'[k].pc = "block"
          PROVE  BlocksByRight(k)'
      <3>1. /\ Watermark \in Nat /\ Watermark' \in Nat /\ Watermark <= Watermark'
            /\ \A e \in events' \ events : e.seq \in Nat /\ e.seq > Watermark
        BY <1>2, LogOfStep
      <3>2. /\ job'[k].seq <= Watermark
            /\ \A e \in events : e.kind \in TerminalKinds => e.seq > job'[k].seq
        <4>1. CASE k = j
          <5>1. job'[j].seq = Watermark /\ ReadForRecovery(j)
            BY <1>2, <2>4, <4>1, ReadSteps
          <5>2. NoEnd
            BY <2>1, <5>1
            DEF ReadForRecovery, MustBlock, TerminalEventInTail,
                SnapshotsPrecedeTheEnd, NoEnd
          <5> QED
            BY <3>1, <4>1, <5>1, <5>2 DEF NoEnd
        <4>2. CASE k # j
          BY <2>1, <2>4, <4>2 DEF EndInv, BlocksByRight
        <4> QED
          BY <4>1, <4>2
      <3>3. job'[k].seq \in Nat
        BY <1>2, <2>1, LogOfStep, JobFacts DEF JobRow
      <3> QED
        BY <3>1, <3>2, <3>3 DEF BlocksByRight
    <2>5. SnapshotsPrecedeTheEnd'
      BY <1>2, <2>1, SnapshotsStep
    <2>6. \A k \in Jobs : BlocksByRight(k)'
      BY <2>4 DEF BlocksByRight
    <2> QED
      BY <2>2, <2>3, <2>5, <2>6 DEF EndInv
  <1> QED
    BY <1>1, <1>2, StepShapes

LEMMA EndInvHolds == WorkersSpec => []EndInv
  <1>1. WorkersInit => EndInv
    BY DEF WorkersInit, Init, EndInv, Held, Fresh, BlocksByRight, Idle,
           SnapshotsPrecedeTheEnd, Watermark
  <1> QED
    BY <1>1, EndInvStep, WorkersInvHolds, PTL DEF WorkersSpec

\* The coordinator decides by a bundle that may be old when it writes: it still
\* never writes its run_blocked over an end, because the watermark it compares
\* is the one up to which it has seen none, and no snapshot hides one.
THEOREM RecoveryNeverOverwrites == WorkersSpec => RecoveryKeepsTheEnd
  <1> DEFINE Settling == command.status # "terminal" /\ command'.status = "terminal"
                            /\ active' # active
  <1>1. ASSUME WorkersInv, EndInv, [WorkersNext]_vars, Settling
        PROVE  NoEnd
    <2>1. PICK j \in Jobs : WorkerStep(j)
      BY <1>1, StepShapes DEF Rests
    <2>2. Blocks(j)
      <3>1. CASE Waits(j)
        BY <1>1, <3>1
        DEF Waits, Quits, GivesUp, Closes, GoesOn, Admits, Fails, Keep, storeVars
      <3>2. CASE Begins(j)
        BY <1>1, <3>2
        DEF Begins, Submit, ReadForDispatch, ReadForRecovery, Acquires, Claims,
            Keep, storeVars, ReserveRunCommand, AcquireLease, ClaimOrReclaim,
            ClaimInitialPreDispatch, ReclaimInitialPreDispatch
      <3>3. CASE WritesUnderLease(j)
        BY <1>1, <3>3
        DEF WritesUnderLease, Accepts, Records, Publishes, Writes, StartsStep,
            FailsStep, CommitsStep, ReservesCall, BeginsCall, StagesResult,
            CommitsReceipt, TransitionRunCommand, AppendEvents, StartModelStep,
            FinishModelStep, CommitTerminalModelStep, ReserveInvocation,
            BeginInvocationExecution, StagePublicToolResultDerivative,
            CommitReceiptWithPublicEvents
      <3>4. CASE Ends(j)
        BY <1>1, <3>4
        DEF Ends, SettlesCommand, SettlesUnknown, ReportsFailure, Settle,
            TransitionRunCommand, SettleRunCommandWithTerminalEvent, AppendEvents,
            Keep, storeVars
      <3> QED
        BY <2>1, <3>1, <3>2, <3>3, <3>4 DEF WorkerStep
    <2>3. /\ job[j].pc = "block" /\ active # 0 /\ lastSeq[active] = job[j].seq
      BY <2>2
      DEF Blocks, At, RecoverAndSettleRunCommandWithTerminalEvent
    <2>4. \A e \in events : e.kind \in TerminalKinds => e.seq > Watermark
      BY <1>1, <2>3 DEF EndInv, BlocksByRight, Watermark
    <2>5. \A e \in events : e.seq \in Nat /\ e.seq <= Watermark /\ Watermark \in Nat
      BY <1>1, <2>1, LogOfStep
    <2> QED
      BY <2>4, <2>5 DEF NoEnd
  <1>2. WorkersInv /\ EndInv /\ [WorkersNext]_vars
           => [Settling => \A e \in events : e.kind \notin TerminalKinds]_vars
    BY <1>1 DEF NoEnd
  <1> QED
    BY <1>2, WorkersInvHolds, EndInvHolds, PTL DEF WorkersSpec, RecoveryKeepsTheEnd

-----------------------------------------------------------------------------
(* Completion *)

Verification(seq) ==
    \E e \in events : e.kind = "verification_updated" /\ e.seq <= seq

\* A worker that calls its Run verified, or complete, has the receipt for it.
IsVerified(j) == job[j].verified => Verification(job[j].seq)

CompletesByRight(j) ==
    job[j].end = "completed" =>
        /\ job[j].verified
        /\ job[j].pc \in Closing \cup Quitting \cup {"settle", "fail"}

\* The row of a call that has a receipt.
LEMMA ReceiptOfCall ==
    ASSUME WorkersInv, NEW j \in Jobs, WorkerStep(j), CommitsReceipt(j)
    PROVE  /\ job'[j].verified =>
                 \/ job[j].verified
                 \/ \E e \in events' : e.kind = "verification_updated"
                                          /\ e.seq = job'[j].seq
           /\ job[j].seq <= job'[j].seq
           /\ \A i \in Invocations \ {job[j].inv} : invocations'[i] = invocations[i]
           /\ invocations'[job[j].inv].status # "executing"
  <1>1. PICK result \in Results, verified \in BOOLEAN :
           /\ CommitReceiptWithPublicEvents(job[j].attempt, job[j].token,
                  job[j].inv, result, verified, job[j].seq)
           /\ job'[j].seq = job[j].seq + IF verified THEN 2 ELSE 1
           /\ job'[j].verified => job[j].verified \/ verified
    BY DEF CommitsReceipt
  <1>2. /\ TypeOK /\ job[j].seq \in Nat
        /\ job[j].inv \in Invocations
    BY LogOfStep DEF CommitsReceipt, At, JobIsSound, InHost, JobRow
  <1>3. PICK rows : invocations' = [invocations EXCEPT
                        ![job[j].inv].status = result, ![job[j].inv].bound = rows]
    BY <1>1 DEF CommitReceiptWithPublicEvents
  <1>4. \A i \in Invocations \ {job[j].inv} : invocations'[i] = invocations[i]
    BY <1>2, <1>3 DEF TypeOK
  <1>5. invocations'[job[j].inv].status # "executing"
    BY <1>2, <1>3 DEF TypeOK, InvocationRow, Results
  <1>6. CASE verified = TRUE
    <2>1. \E e \in events' : e.kind = "verification_updated"
                                /\ e.seq = job[j].seq + 2
      <3> DEFINE row == [seq |-> job[j].seq + 2, attempt |-> job[j].attempt,
                         kind |-> "verification_updated"]
      <3>1. events' = events \cup
               {[seq |-> job[j].seq + 1, attempt |-> job[j].attempt,
                 kind |-> "tool_result_presented"], row}
        BY <1>1, <1>6, TwoRows DEF CommitReceiptWithPublicEvents
      <3>2. row \in events' /\ row.seq = job[j].seq + 2
        BY <3>1
      <3> QED
        BY <3>2
    <2> QED
      BY <1>1, <1>2, <1>4, <1>5, <1>6, <2>1
  <1>7. CASE verified = FALSE
    BY <1>1, <1>2, <1>4, <1>5, <1>7
  <1> QED
    BY <1>6, <1>7

LEMMA VerifiedStep ==
    ASSUME WorkersInv, NEW j \in Jobs, WorkerStep(j), IsVerified(j),
           CompletesByRight(j)
    PROVE  IsVerified(j)' /\ CompletesByRight(j)'
  <1>1. /\ job[j] \in JobRow /\ job'[j] \in JobRow
        /\ events \subseteq events' /\ TypeOK /\ TypeOK'
        /\ \A e \in events : e.seq \in Nat
    BY LogOfStep
  <1>2. job'[j] = Idle => IsVerified(j)' /\ CompletesByRight(j)'
    BY DEF Idle, IsVerified, CompletesByRight
  <1>3. ASSUME job'[j].verified = job[j].verified, job[j].seq <= job'[j].seq
        PROVE  IsVerified(j)'
    <2>1. job[j].seq \in Nat /\ job'[j].seq \in Nat
      BY <1>1 DEF JobRow
    <2>2. Verification(job[j].seq) => Verification(job[j].seq)'
      BY <1>1, <1>3, <2>1 DEF Verification
    <2> QED
      BY <1>3, <2>2 DEF IsVerified
  <1>4. Keeps(j) => IsVerified(j)' /\ job'[j].verified = job[j].verified
    <2>1. Keeps(j) => /\ job'[j].verified = job[j].verified
                      /\ job'[j].seq = job[j].seq /\ job[j].seq \in Nat
      BY <1>1 DEF Keeps, GoesOnWith, JobRow
    <2>2. job'[j].seq = job[j].seq /\ job[j].seq \in Nat => job[j].seq <= job'[j].seq
      OBVIOUS
    <2> QED
      BY <1>3, <2>1, <2>2
  <1>5. CASE Waits(j)
    BY <1>2, <1>4, <1>5
    DEF Waits, Quits, GivesUp, Closes, GoesOn, Admits, Fails, At, Keeps,
        CompletesByRight, Quitting, Closing, InLoop, Called, PastCommit, InHost
  <1>6. CASE Begins(j)
    <2>1. job'[j].end = "none" /\ ~job'[j].verified
             => IsVerified(j)' /\ CompletesByRight(j)'
      BY DEF IsVerified, CompletesByRight
    <2>2. Acquires(j) => /\ job'[j].verified = job[j].verified
                         /\ job'[j].seq = job[j].seq /\ job[j].seq \in Nat
                         /\ job'[j].end = job[j].end
      BY <1>1, BeginRows DEF Acquires, JobRow
    <2>3. Acquires(j) => IsVerified(j)'
      BY <1>3, <2>2
    <2>4. Acquires(j) => CompletesByRight(j)'
      BY <2>2 DEF Acquires, At, CompletesByRight, Closing, Quitting
    <2> QED
      BY <1>6, <2>1, <2>3, <2>4, BeginRows
  <1>7. CASE WritesUnderLease(j)
    <2>1. CASE Records(j) \/ Publishes(j)
      <3>1. GoesOnWith(j, job'[j]) /\ job'[j].seq = job[j].seq + 1
        BY <2>1 DEF Records, Publishes, Writes
      <3>2. job'[j].verified = job[j].verified /\ job[j].seq <= job'[j].seq
        BY <1>1, <3>1 DEF GoesOnWith, JobRow
      <3>3. IsVerified(j)'
        BY <1>3, <3>2
      <3>4. CompletesByRight(j)'
        <4>1. CASE Publishes(j)
          BY <3>2, <4>1 DEF Publishes, CompletesByRight
        <4>2. CASE Records(j) /\ At(j, "verify")
          <5>1. /\ job'[j].pc = "close"
                /\ job'[j].end = "completed" => job[j].verified
            BY <4>2 DEF Records, At
          <5> QED
            BY <3>2, <5>1 DEF CompletesByRight, Closing
        <4>3. CASE Records(j) /\ ~At(j, "verify")
          BY <3>2, <4>3 DEF Records, At, CompletesByRight, Closing, Quitting
        <4> QED
          BY <2>1, <4>1, <4>2, <4>3
      <3> QED
        BY <3>3, <3>4
    <2>2. CASE StartsStep(j) \/ ReservesCall(j)
      <3>1. /\ job'[j].verified = job[j].verified /\ job'[j].seq = job[j].seq
            /\ job'[j].end = job[j].end /\ job[j].seq \in Nat
        BY <1>1, <2>2 DEF StartsStep, ReservesCall, JobRow
      <3>2. job[j].seq <= job'[j].seq
        BY <3>1
      <3> QED
        BY <1>3, <2>2, <3>1, <3>2
        DEF StartsStep, ReservesCall, At, CompletesByRight, Closing, Quitting
    <2>3. CASE CommitsReceipt(j)
      <3>1. ~job'[j].verified => IsVerified(j)'
        BY DEF IsVerified
      <3>2. ASSUME job'[j].verified
            PROVE  Verification(job[j].seq)'
        <4>1. job[j].seq \in Nat /\ job'[j].seq \in Nat /\ job[j].seq <= job'[j].seq
          BY <1>1, <2>3, ReceiptOfCall DEF JobRow
        <4>2. CASE \E e \in events' : e.kind = "verification_updated"
                                         /\ e.seq = job'[j].seq
          BY <4>1, <4>2 DEF Verification
        <4>3. CASE Verification(job[j].seq)
          BY <1>1, <4>1, <4>3 DEF Verification
        <4> QED
          BY <2>3, <3>2, <4>2, <4>3, ReceiptOfCall DEF IsVerified
      <3>3. job'[j].end # "completed"
        BY <2>3
        DEF CommitsReceipt, At, CompletesByRight, Closing, Quitting
      <3> QED
        BY <3>1, <3>2, <3>3 DEF IsVerified, CompletesByRight
    <2>4. CASE \/ Accepts(j) \/ FailsStep(j) \/ CommitsStep(j) \/ BeginsCall(j)
               \/ StagesResult(j)
      BY <1>4, <2>4
      DEF Accepts, FailsStep, CommitsStep, BeginsCall, StagesResult, At,
          CompletesByRight, Closing, Quitting
    <2> QED
      BY <1>7, <2>1, <2>2, <2>3, <2>4 DEF WritesUnderLease
  <1>8. CASE Ends(j)
    BY <1>2, <1>4, <1>8
    DEF Ends, SettlesCommand, SettlesUnknown, ReportsFailure, Blocks,
        CompletesByRight
  <1> QED
    BY <1>5, <1>6, <1>7, <1>8 DEF WorkerStep

\* Open work, as the owner of the lease knows it.
NothingExecutes == \A i \in Invocations : invocations[i].status # "executing"

OneOpenStep ==
    \A m, n \in ModelSteps :
        steps[m].status = "started" /\ steps[n].status = "started" => m = n

NoCallYet ==
    ~HasCalledOut => \A i \in Invocations : invocations[i].status = "none"

Completing(j) == job[j].pc \in Closing /\ job[j].end = "completed"

\* Between the end of a step and the next one no Provider call is open; only
\* between the permit and the receipt is a tool call.
KnowsOpenWork(j) ==
    /\ job[j].pc \in PastCommit \/ Completing(j) => ~StepIsOpen
    /\ job[j].pc \in LoopPcs \ (InHost \cup Closing) \/ Completing(j) =>
          NothingExecutes
    /\ job[j].pc \in InHost =>
          \A i \in Invocations : invocations[i].status = "executing" => i = job[j].inv

EarnInv ==
    /\ CompletionIsEarned
    /\ OneOpenStep /\ NoCallYet
    /\ \A j \in Jobs : IsVerified(j) /\ CompletesByRight(j)
    /\ \A j \in Jobs : Held(j) => KnowsOpenWork(j)

\* A step of a Provider call, as the table of the steps sees it.
LEMMA StepRows ==
    ASSUME WorkersInv, NEW j \in Jobs, WorkerStep(j), OneOpenStep
    PROVE  /\ OneOpenStep'
           /\ CommitsStep(j) => ~StepIsOpen'
  <1>1. TypeOK /\ JobIsSound(j)
    BY LogOfStep
  <1>2. UNCHANGED steps => OneOpenStep'
    BY DEF OneOpenStep
  <1>3. ASSUME StartsStep(j)
        PROVE  OneOpenStep'
    <2>1. PICK m \in ModelSteps : StartModelStep(job[j].attempt, job[j].token, m)
      BY <1>3 DEF StartsStep
    <2>2. \A n \in ModelSteps \ {m} :
             steps'[n] = steps[n] /\ steps[n].status # "started"
      BY <1>1, <2>1 DEF StartModelStep, TypeOK
    <2> QED
      BY <2>2 DEF OneOpenStep
  <1>4. ASSUME FailsStep(j) \/ CommitsStep(j)
        PROVE  OneOpenStep' /\ ~StepIsOpen'
    <2> DEFINE m == job[j].step
    <2>1. m \in ModelSteps
      BY <1>1, <1>4 DEF FailsStep, CommitsStep, At, JobIsSound, Called
    <2>2. /\ steps[m].status = "started"
          /\ \E status \in {"failed", "terminal"} :
                steps' = [steps EXCEPT ![m].status = status]
      BY <1>4
      DEF FailsStep, CommitsStep, FinishModelStep, CommitTerminalModelStep
    <2>3. /\ steps'[m].status # "started"
          /\ \A n \in ModelSteps \ {m} : steps'[n] = steps[n]
      BY <1>1, <2>1, <2>2 DEF TypeOK, StepRow
    <2>4. \A n \in ModelSteps : steps'[n].status # "started"
      BY <2>1, <2>2, <2>3 DEF OneOpenStep
    <2> QED
      BY <2>4 DEF OneOpenStep, StepIsOpen
  <1> QED
    BY <1>2, <1>3, <1>4, WorkMoves

\* Only a Run that has called out has tool calls.
LEMMA NoCallYetStep ==
    ASSUME WorkersInv, CallInv, NEW j \in Jobs, WorkerStep(j), NoCallYet
    PROVE  NoCallYet'
  <1>1. HasCalledOut => HasCalledOut'
    BY LogOfStep, CallsAreNotForgotten
  <1>2. CASE UNCHANGED invocations
    BY <1>1, <1>2 DEF NoCallYet
  <1>3. CASE ReservesCall(j) \/ BeginsCall(j) \/ StagesResult(j) \/ CommitsReceipt(j)
    <2>1. HasStarted(j)
      BY <1>3
      DEF ReservesCall, BeginsCall, StagesResult, CommitsReceipt, At, HasStarted,
          PastStart, PastCommit, InHost
    <2> QED
      BY <1>1, <2>1 DEF CallInv, NoCallYet
  <1> QED
    BY <1>2, <1>3, WorkMoves

\* Only an accepted Command is let into the loop.
LEMMA LoopEntry ==
    ASSUME WorkersInv, NEW j \in Jobs, WorkerStep(j), job'[j].pc = "loop"
    PROVE  command'.status = "accepted"
  <1>1. job'[j] # Idle
    BY DEF Idle
  <1>2. CASE Waits(j)
    BY <1>1, <1>2
    DEF Waits, Quits, GivesUp, Closes, GoesOn, Admits, Fails, Quitting, Keep,
        storeVars
  <1>3. ~Begins(j)
    BY BeginRows
  <1>4. CASE WritesUnderLease(j)
    <2>1. ~StartsStep(j) /\ ~ReservesCall(j)
      BY LogOfStep DEF StartsStep, ReservesCall, JobRow
    <2>2. Accepts(j)
      BY <1>4, <2>1
      DEF WritesUnderLease, Records, Publishes, FailsStep, CommitsStep,
          BeginsCall, StagesResult, CommitsReceipt
    <2> QED
      BY <2>2 DEF Accepts, TransitionRunCommand
  <1>5. ~Ends(j)
    BY <1>1 DEF Ends, SettlesCommand, SettlesUnknown, ReportsFailure, Blocks
  <1> QED
    BY <1>2, <1>3, <1>4, <1>5 DEF WorkerStep

\* A call of the Host, as the table of the invocations sees it.
LEMMA CallRows ==
    ASSUME WorkersInv, NEW j \in Jobs, WorkerStep(j), Held(j), KnowsOpenWork(j),
           ReservesCall(j) \/ BeginsCall(j) \/ StagesResult(j) \/ CommitsReceipt(j)
    PROVE  /\ ReservesCall(j) \/ CommitsReceipt(j) => NothingExecutes'
           /\ BeginsCall(j) \/ StagesResult(j) =>
                 \A i \in Invocations :
                    invocations'[i].status = "executing" => i = job[j].inv
  <1>1. TypeOK
    BY LogOfStep
  <1>2. ASSUME ReservesCall(j)
        PROVE  NothingExecutes'
    <2>1. PICK i \in Invocations :
             ReserveInvocation(job[j].attempt, job[j].token, i)
      BY <1>2 DEF ReservesCall
    <2>2. invocations' = [invocations EXCEPT ![i].status = "reserved",
                                             ![i].attempt = job[j].attempt]
      BY <2>1 DEF ReserveInvocation
    <2>3. /\ \A k \in Invocations \ {i} : invocations'[k] = invocations[k]
          /\ invocations'[i].status = "reserved"
      BY <1>1, <2>2 DEF TypeOK, InvocationRow
    <2>4. NothingExecutes
      BY <1>2
      DEF ReservesCall, At, KnowsOpenWork, LoopPcs, InLoop, PastCommit, InHost,
          Closing
    <2> QED
      BY <2>3, <2>4 DEF NothingExecutes
  <1>3. ASSUME BeginsCall(j)
        PROVE  \A i \in Invocations :
                  invocations'[i].status = "executing" => i = job[j].inv
    <2>1. invocations' = [invocations EXCEPT ![job[j].inv].status = "executing"]
      BY <1>3 DEF BeginsCall, BeginInvocationExecution
    <2>2. NothingExecutes
      BY <1>3
      DEF BeginsCall, At, KnowsOpenWork, LoopPcs, InLoop, PastCommit, InHost,
          Closing
    <2> QED
      BY <1>1, <2>1, <2>2 DEF TypeOK, NothingExecutes
  <1>4. ASSUME StagesResult(j)
        PROVE  \A i \in Invocations :
                  invocations'[i].status = "executing" => i = job[j].inv
    <2>1. invocations' = [invocations EXCEPT ![job[j].inv].staged = TRUE]
      BY <1>4 DEF StagesResult, StagePublicToolResultDerivative
    <2>2. \A i \in Invocations :
             invocations[i].status = "executing" => i = job[j].inv
      BY <1>4 DEF StagesResult, At, KnowsOpenWork, InHost
    <2> QED
      BY <1>1, <2>1, <2>2 DEF TypeOK
  <1>5. ASSUME CommitsReceipt(j)
        PROVE  NothingExecutes'
    <2>1. \A i \in Invocations :
             invocations[i].status = "executing" => i = job[j].inv
      BY <1>5 DEF CommitsReceipt, At, KnowsOpenWork, InHost
    <2> QED
      BY <1>5, <2>1, ReceiptOfCall DEF NothingExecutes
  <1> QED
    BY <1>2, <1>3, <1>4, <1>5

LEMMA OpenWorkStep ==
    ASSUME WorkersInv, NEW j \in Jobs, WorkerStep(j), Held(j) => KnowsOpenWork(j),
           CompletesByRight(j), OneOpenStep, NoCallYet', Held(j)'
    PROVE  KnowsOpenWork(j)'
  <1>1. job[j] \in JobRow
    BY LogOfStep
  <1>2. CASE job'[j].pc \notin InLoop
    <2>1. job'[j].pc = "loop" => NothingExecutes'
      BY LoopEntry DEF NoCallYet, HasCalledOut, NothingExecutes
    <2> QED
      BY <1>2, <2>1
      DEF KnowsOpenWork, Completing, LoopPcs, InLoop, PastCommit
  <1>3. CASE job'[j].pc \in InLoop
    <2>1. Held(j) /\ KnowsOpenWork(j) /\ job[j].pc \in LoopPcs /\ LoopStep(j)
      BY <1>3, LoopSteps
    <2>3. UNCHANGED steps => StepIsOpen' = StepIsOpen
      BY DEF StepIsOpen
    <2>4. UNCHANGED invocations => NothingExecutes' = NothingExecutes
      BY DEF NothingExecutes
    <2>5. CASE Closes(j)
      BY <2>5 DEF Closes, KnowsOpenWork, Completing, Closing, PastCommit, InHost,
                  LoopPcs, InLoop
    <2>6. CASE GoesOn(j)
      <3>1. /\ UNCHANGED <<steps, invocations>>
            /\ job'[j].inv = job[j].inv /\ job'[j].end = job[j].end
        BY <2>6 DEF GoesOn, Keep, storeVars, Keeps, GoesOnWith
      <3>2. /\ job'[j].pc \in PastCommit => job[j].pc \in PastCommit
            /\ job'[j].pc \in InHost => job[j].pc \in InHost
            /\ job'[j].pc \notin Closing
            /\ job'[j].pc \in InHost \/ job[j].pc \in LoopPcs \ (InHost \cup Closing)
        BY <2>6
        DEF GoesOn, At, LoopPcs, InLoop, Called, PastCommit, InHost, Closing
      <3> QED
        BY <2>1, <2>3, <2>4, <3>1, <3>2 DEF KnowsOpenWork, Completing
    <2>7. CASE Records(j)
      <3>1. UNCHANGED <<steps, invocations>>
        BY <2>7 DEF Records, Writes, AppendEvents
      <3>2. /\ job'[j].pc \in PastCommit => job[j].pc \in PastCommit
            /\ job'[j].pc \notin InHost
            /\ \/ job[j].pc \in LoopPcs \ (InHost \cup Closing)
               \/ job[j].pc \in Closing /\ job'[j].pc \in Closing
                  /\ job'[j].end = job[j].end
            /\ Completing(j)' => job[j].pc \in PastCommit \/ Completing(j)
        <4>1. job[j].end = "completed" => job[j].pc \in Closing \cup Quitting
                                             \cup {"settle", "fail"}
          BY DEF CompletesByRight
        <4> QED
          BY <2>7, <4>1
          DEF Records, At, Completing, LoopPcs, InLoop, Called, PastCommit,
              InHost, Closing, Quitting
      <3> QED
        BY <2>1, <2>3, <2>4, <3>1, <3>2 DEF KnowsOpenWork, Completing
    <2>8. CASE Publishes(j)
      BY <1>3, <2>8 DEF Publishes, InLoop, Called, PastCommit, InHost, Closing
    <2>9. CASE StartsStep(j) \/ FailsStep(j)
      <3>1. job'[j].pc \in {"ask", "record_failure"}
        BY <1>1, <2>9 DEF StartsStep, FailsStep, JobRow
      <3>2. UNCHANGED invocations
        BY <2>9 DEF StartsStep, FailsStep, StartModelStep, FinishModelStep
      <3>3. NothingExecutes
        BY <2>1, <2>9
        DEF StartsStep, FailsStep, At, KnowsOpenWork, LoopPcs, InLoop, Called,
            PastCommit, InHost, Closing
      <3> QED
        BY <2>4, <3>1, <3>2, <3>3
        DEF KnowsOpenWork, Completing, PastCommit, InHost, Closing
    <2>10. CASE CommitsStep(j)
      <3>1. ~StepIsOpen' /\ UNCHANGED invocations
        BY <2>10, StepRows DEF CommitsStep, CommitTerminalModelStep
      <3>2. NothingExecutes
        BY <2>1, <2>10
        DEF CommitsStep, At, KnowsOpenWork, LoopPcs, InLoop, Called, PastCommit,
            InHost, Closing
      <3>3. job'[j].pc \notin InHost
        BY <2>10 DEF CommitsStep, InHost
      <3> QED
        BY <2>4, <3>1, <3>2, <3>3 DEF KnowsOpenWork
    <2>11. CASE ReservesCall(j) \/ CommitsReceipt(j)
      <3>1. NothingExecutes' /\ UNCHANGED steps
        BY <2>1, <2>11, CallRows
        DEF ReservesCall, CommitsReceipt, ReserveInvocation,
            CommitReceiptWithPublicEvents
      <3>2. ~StepIsOpen
        BY <2>1, <2>11
        DEF ReservesCall, CommitsReceipt, At, KnowsOpenWork, PastCommit, InHost
      <3> QED
        BY <2>3, <3>1, <3>2 DEF KnowsOpenWork, NothingExecutes
    <2>12. CASE BeginsCall(j) \/ StagesResult(j)
      <3>1. /\ UNCHANGED steps /\ job'[j].inv = job[j].inv
            /\ job'[j].pc \in InHost
            /\ \A i \in Invocations :
                  invocations'[i].status = "executing" => i = job[j].inv
        BY <2>1, <2>12, CallRows
        DEF BeginsCall, StagesResult, BeginInvocationExecution,
            StagePublicToolResultDerivative, Keeps, GoesOnWith, InHost
      <3>2. ~StepIsOpen
        BY <2>1, <2>12
        DEF BeginsCall, StagesResult, At, KnowsOpenWork, PastCommit, InHost
      <3>3. ~Completing(j)'
        BY <3>1 DEF Completing, Closing, InHost
      <3> QED
        BY <2>3, <3>1, <3>2, <3>3 DEF KnowsOpenWork
    <2> QED
      BY <2>1, <2>5, <2>6, <2>7, <2>8, <2>9, <2>10, <2>11, <2>12
      DEF LoopStep, WritesUnderLease
  <1> QED
    BY <1>2, <1>3

\* After an end nobody touches the work of the Run.
LEMMA EndedWorkRests ==
    ASSUME WorkersInv, EndInv, NEW j \in Jobs, WorkerStep(j), ~NoEnd
    PROVE  UNCHANGED <<steps, invocations>>
  <1>1. ASSUME \/ StartsStep(j) \/ FailsStep(j) \/ CommitsStep(j)
               \/ ReservesCall(j) \/ BeginsCall(j) \/ StagesResult(j)
               \/ CommitsReceipt(j)
        PROVE  FALSE
    <2>1. Held(j)
      BY <1>1, WriterHolds DEF WritesUnderLease
    <2>2. job[j].pc \in InLoop
      BY <1>1
      DEF StartsStep, FailsStep, CommitsStep, ReservesCall, BeginsCall,
          StagesResult, CommitsReceipt, At, InLoop, Called, PastCommit, InHost
    <2> QED
      BY <2>1, <2>2 DEF EndInv, KnowsNoEnd
  <1> QED
    BY <1>1, WorkMoves

LEMMA CompletionStep ==
    ASSUME WorkersInv, EndInv, EarnInv, NEW j \in Jobs, WorkerStep(j)
    PROVE  CompletionIsEarned'
  <1>1. SUFFICES ASSUME NEW end \in events', end.kind = "run_completed"
                 PROVE  /\ ~StepIsOpen'
                        /\ NothingExecutes'
                        /\ \E e \in events' : e.kind = "verification_updated"
                                                 /\ e.seq < end.seq
    BY DEF CompletionIsEarned, NothingExecutes
  <1>2. events \subseteq events' /\ job[j] \in JobRow /\ \A e \in events : e.seq \in Nat
    BY LogOfStep
  <1>3. UNCHANGED steps => StepIsOpen' = StepIsOpen
    BY DEF StepIsOpen
  <1>4. UNCHANGED invocations => NothingExecutes' = NothingExecutes
    BY DEF NothingExecutes
  <1>5. CASE end \in events
    <2>1. ~NoEnd
      BY <1>1, <1>5, KindsDiffer DEF NoEnd
    <2>2. UNCHANGED <<steps, invocations>>
      BY <2>1, EndedWorkRests
    <2>3. /\ ~StepIsOpen /\ NothingExecutes
          /\ \E e \in events : e.kind = "verification_updated" /\ e.seq < end.seq
      BY <1>1, <1>5 DEF EarnInv, CompletionIsEarned, NothingExecutes
    <2> QED
      BY <1>2, <1>3, <1>4, <2>2, <2>3
  <1>6. CASE end \notin events
    <2>1. NewEvent(j, end)
      BY <1>6, NewEvents
    <2>2. /\ Publishes(j) /\ end.kind = TerminalKind(job[j].end)
          /\ end.seq = job[j].seq + 1
      BY <1>1, <2>1 DEF NewEvent, OrdinaryKinds, ReceiptKinds
    <2>3. job[j].end = "completed"
      BY <1>1, <2>2, KindsDiffer, LogOfStep
      DEF Publishes, At, JobIsSound, Closing
    <2>4. Held(j)
      BY <2>2, WriterHolds DEF WritesUnderLease
    <2>5. Completing(j)
      BY <2>2, <2>3 DEF Publishes, At, Completing, Closing
    <2>6. ~StepIsOpen /\ NothingExecutes
      BY <2>4, <2>5 DEF EarnInv, KnowsOpenWork
    <2>7. UNCHANGED <<steps, invocations>>
      BY <2>2 DEF Publishes, Writes, AppendEvents
    <2>8. PICK e \in events : e.kind = "verification_updated" /\ e.seq <= job[j].seq
      BY <2>3 DEF EarnInv, IsVerified, CompletesByRight, Verification
    <2>9. e.seq < end.seq
      BY <1>2, <2>2, <2>8 DEF JobRow
    <2> QED
      BY <1>2, <1>3, <1>4, <2>6, <2>7, <2>8, <2>9
  <1> QED
    BY <1>5, <1>6

LEMMA EarnInvStep ==
    ASSUME WorkersInv, CallInv, EndInv, EarnInv, [WorkersNext]_vars
    PROVE  EarnInv'
  <1>1. CASE Rests
    <2>1. /\ StepIsOpen' = StepIsOpen /\ NothingExecutes' = NothingExecutes
          /\ OneOpenStep' = OneOpenStep /\ HasCalledOut' = HasCalledOut
      BY <1>1 DEF Rests, StepIsOpen, NothingExecutes, OneOpenStep, HasCalledOut
    <2>2. NoCallYet' /\ OneOpenStep'
      BY <1>1, <2>1 DEF Rests, EarnInv, NoCallYet
    <2>3. CompletionIsEarned'
      BY <1>1, <2>1 DEF Rests, EarnInv, CompletionIsEarned
    <2>4. ASSUME NEW k \in Jobs
          PROVE  /\ IsVerified(k)' /\ CompletesByRight(k)'
                 /\ Held(k)' => KnowsOpenWork(k)'
      <3>1. CASE job'[k] = Idle
        BY <3>1 DEF Idle, Held, IsVerified, CompletesByRight
      <3>2. CASE job'[k] = job[k] /\ (Held(k)' => Held(k))
        <4>1. IsVerified(k)' /\ CompletesByRight(k)'
          BY <1>1, <3>2
          DEF Rests, EarnInv, IsVerified, CompletesByRight, Verification
        <4>2. Held(k)' => KnowsOpenWork(k)'
          BY <1>1, <2>1, <3>2 DEF Rests, EarnInv, KnowsOpenWork, Completing
        <4> QED
          BY <4>1, <4>2
      <3> QED
        BY <1>1, <3>1, <3>2 DEF Rests
    <2> QED
      BY <2>2, <2>3, <2>4 DEF EarnInv
  <1>2. ASSUME NEW j \in Jobs, WorkerStep(j)
        PROVE  EarnInv'
    <2>1. OneOpenStep' /\ NoCallYet' /\ CompletionIsEarned'
      BY <1>2, StepRows, NoCallYetStep, CompletionStep DEF EarnInv
    <2>2. ASSUME NEW k \in Jobs
          PROVE  IsVerified(k)' /\ CompletesByRight(k)'
      <3>1. CASE k = j
        BY <1>2, <3>1, VerifiedStep DEF EarnInv
      <3>2. CASE k # j
        <4>1. job'[k] = job[k] /\ events \subseteq events'
          BY <1>2, <3>2, LogOfStep DEF WorkerStep
        <4> QED
          BY <4>1 DEF EarnInv, IsVerified, CompletesByRight, Verification
      <3> QED
        BY <3>1, <3>2
    <2>3. ASSUME NEW k \in Jobs, Held(k)'
          PROVE  KnowsOpenWork(k)'
      <3>1. CASE k = j
        BY <1>2, <2>1, <2>3, <3>1, OpenWorkStep DEF EarnInv
      <3>2. CASE k # j
        <4>1. Held(k) /\ job'[k] = job[k] /\ UNCHANGED storeVars
          BY <1>2, <2>3, <3>2, OthersRest
        <4>2. /\ StepIsOpen' = StepIsOpen /\ NothingExecutes' = NothingExecutes
              /\ UNCHANGED invocations
          BY <4>1 DEF storeVars, StepIsOpen, NothingExecutes
        <4> QED
          BY <4>1, <4>2 DEF EarnInv, KnowsOpenWork, Completing
      <3> QED
        BY <3>1, <3>2
    <2> QED
      BY <2>1, <2>2, <2>3 DEF EarnInv
  <1> QED
    BY <1>1, <1>2, StepShapes

LEMMA EarnInvInit ==
    ASSUME WorkersInit
    PROVE  EarnInv
  BY DEF WorkersInit, Init, EarnInv, CompletionIsEarned, OneOpenStep, NoCallYet,
         IsVerified, CompletesByRight, Held, Idle

\* A Run that reports its completion has earned it: a verified receipt stands
\* before the report in the same log, and no Provider or tool call of the Run
\* is, or will ever again be, open.
THEOREM CompletionsAreEarned == WorkersSpec => []CompletionIsEarned
  <1>1. EarnInv => CompletionIsEarned
    BY DEF EarnInv
  <1> QED
    BY <1>1, EarnInvInit, EarnInvStep, WorkersInvHolds, CallInvHolds, EndInvHolds,
       PTL DEF WorkersSpec

-----------------------------------------------------------------------------
(* The terminal Command *)

HasEvent(kind) == \E e \in events : e.kind = kind

\* A worker that settles the Command has its event in the log, or the lease is
\* gone and it will settle nothing.
SettlesByRight(j) ==
    /\ job[j].pc = "settle" => HasEvent(TerminalKind(job[j].end))
    /\ job[j].pc = "settle_failed" =>
          job[j].end = "failed" /\ (Held(j) => HasEvent("run_failed"))

SettleInv == TerminalCommandHasItsEvent /\ \A j \in Jobs : SettlesByRight(j)

\* Who may end the Command.
LEMMA CommandEnds ==
    ASSUME WorkersInv, NEW j \in Jobs, WorkerStep(j), command'.status = "terminal"
    PROVE  \/ command' = command
           \/ SettlesCommand(j) \/ SettlesUnknown(j) \/ Blocks(j)
  <1>1. CASE Waits(j)
    BY <1>1
    DEF Waits, Quits, GivesUp, Closes, GoesOn, Admits, Fails, Keep, storeVars
  <1>2. CASE Begins(j)
    BY <1>2
    DEF Begins, Submit, ReadForDispatch, ReadForRecovery, Acquires, Claims, Keep,
        storeVars, ReserveRunCommand, AcquireLease, ClaimOrReclaim,
        ClaimInitialPreDispatch, ReclaimInitialPreDispatch
  <1>3. CASE WritesUnderLease(j)
    <2>1. ~StartsStep(j)
      <3>1. ASSUME StartsStep(j)
            PROVE  command' = [command EXCEPT !.status = "dispatched"]
        BY <3>1 DEF StartsStep, StartModelStep
      <3>2. ASSUME command' = [command EXCEPT !.status = "dispatched"]
            PROVE  command'.status # "terminal"
        BY <3>2, LogOfStep DEF TypeOK, CommandRow
      <3> QED
        BY <3>1, <3>2
    <2>2. ~Accepts(j)
      BY DEF Accepts, TransitionRunCommand
    <2> QED
      BY <1>3, <2>1, <2>2
      DEF WritesUnderLease, Records, Publishes, Writes, FailsStep, CommitsStep,
          ReservesCall, BeginsCall, StagesResult, CommitsReceipt, AppendEvents,
          FinishModelStep, CommitTerminalModelStep, ReserveInvocation,
          BeginInvocationExecution, StagePublicToolResultDerivative,
          CommitReceiptWithPublicEvents
  <1>4. CASE Ends(j)
    BY <1>4 DEF Ends, ReportsFailure, AppendEvents, Keep, storeVars
  <1> QED
    BY <1>1, <1>2, <1>3, <1>4 DEF WorkerStep

LEMMA SettlesStep ==
    ASSUME ~StoreFaults, WorkersInv, NEW j \in Jobs, WorkerStep(j)
    PROVE  SettlesByRight(j)'
  <1>1. job'[j] = Idle => SettlesByRight(j)'
    BY DEF Idle, SettlesByRight
  <1>2. job'[j].pc \notin {"settle", "settle_failed"} => SettlesByRight(j)'
    BY DEF SettlesByRight
  <1>3. CASE Waits(j)
    BY <1>1, <1>2, <1>3
    DEF Waits, Quits, GivesUp, Closes, GoesOn, Admits, Fails, Quitting
  <1>4. CASE Begins(j)
    <2>1. job'[j].pc \in {"acquire", "claim", "block", "admit", "accept"}
      BY <1>4, BeginRows
    <2> QED
      BY <1>2, <2>1
  <1>5. CASE WritesUnderLease(j)
    <2>1. CASE Publishes(j)
      <3> DEFINE row == [seq |-> job[j].seq + 1, attempt |-> job[j].attempt,
                         kind |-> TerminalKind(job[j].end)]
      <3>1. /\ events' = events \cup {row}
            /\ job'[j].pc = "settle" /\ job'[j].end = job[j].end
        BY <2>1, OneRow DEF Publishes, Writes, AppendEvents
      <3>2. row \in events' /\ row.kind = TerminalKind(job'[j].end)
        BY <3>1
      <3> QED
        BY <3>1, <3>2 DEF SettlesByRight, HasEvent
    <2>2. CASE ~Publishes(j)
      <3>1. StartsStep(j) \/ ReservesCall(j) => job'[j].pc \in InLoop
        BY LogOfStep
        DEF StartsStep, ReservesCall, JobRow, InLoop, Called, PastCommit
      <3>2. job'[j].pc \notin {"settle", "settle_failed"}
        BY <1>5, <2>2, <3>1
        DEF WritesUnderLease, Accepts, Records, FailsStep, CommitsStep,
            BeginsCall, StagesResult, CommitsReceipt, InLoop, Called, PastCommit,
            InHost, Closing
      <3> QED
        BY <1>2, <3>2
    <2> QED
      BY <2>1, <2>2
  <1>6. CASE Ends(j)
    <2>1. CASE ReportsFailure(j)
      <3>1. job'[j].pc = "settle_failed" /\ job'[j].end = "failed"
        BY <2>1 DEF ReportsFailure
      <3>2. CASE AppendEvents(job[j].attempt, job[j].token, Watermark,
                              <<"run_failed">>)
        <4> DEFINE row == [seq |-> Watermark + 1, attempt |-> job[j].attempt,
                           kind |-> "run_failed"]
        <4>1. events' = events \cup {row}
          BY <3>2, OneRow DEF AppendEvents
        <4>2. row \in events' /\ row.kind = "run_failed"
          BY <4>1
        <4> QED
          BY <3>1, <4>2 DEF SettlesByRight, HasEvent
      <3>3. CASE ~Held(j) \/ lastSeq[job[j].attempt] # Watermark
        <4>1. ~Held(j)
          BY <3>3, HeldFacts
        <4>2. ~Held(j)'
          BY <2>1, <4>1, LogOfStep, NoRevival
          DEF ReportsFailure, Keeps, GoesOnWith
        <4> QED
          BY <3>1, <4>2 DEF SettlesByRight
      <3> QED
        BY <2>1, <3>2, <3>3 DEF ReportsFailure
    <2> QED
      BY <1>1, <1>6, <2>1 DEF Ends, SettlesCommand, SettlesUnknown, Blocks
  <1> QED
    BY <1>3, <1>4, <1>5, <1>6 DEF WorkerStep

LEMMA TerminalStep ==
    ASSUME WorkersInv, SettleInv, NEW j \in Jobs, WorkerStep(j)
    PROVE  TerminalCommandHasItsEvent'
  <1>1. SUFFICES ASSUME command'.status = "terminal"
                 PROVE  HasEvent(TerminalKind(command.outcome))'
    BY DEF TerminalCommandHasItsEvent, HasEvent
  <1>2. events \subseteq events'
    BY LogOfStep
  <1>3. CASE command' = command
    BY <1>1, <1>2, <1>3 DEF SettleInv, TerminalCommandHasItsEvent, HasEvent
  <1>4. CASE SettlesCommand(j)
    <2>1. command'.outcome = job[j].end
      BY <1>4 DEF SettlesCommand, TransitionRunCommand
    <2>2. Held(j)
      BY <1>4, WriterHolds
    <2>3. HasEvent(TerminalKind(job[j].end))
      BY <1>4, <2>2, KindsDiffer DEF SettlesCommand, At, SettleInv, SettlesByRight
    <2> QED
      BY <1>2, <2>1, <2>3 DEF HasEvent
  <1>5. ASSUME NEW a, NEW n, command'.outcome = "blocked",
               events' = events \cup NewRows(a, n, <<TerminalKind("blocked")>>)
        PROVE  HasEvent(TerminalKind(command.outcome))'
    <2> DEFINE row == [seq |-> n + 1, attempt |-> a,
                       kind |-> TerminalKind("blocked")]
    <2>1. row \in events' /\ row.kind = TerminalKind(command'.outcome)
      BY <1>5, OneRow
    <2> QED
      BY <2>1 DEF HasEvent
  <1>6. CASE SettlesUnknown(j)
    <2>1. /\ command'.outcome = "blocked"
          /\ events' = events \cup NewRows(job[j].attempt, Watermark,
                                           <<TerminalKind("blocked")>>)
      BY <1>6 DEF SettlesUnknown, Settle, SettleRunCommandWithTerminalEvent
    <2> QED
      BY <1>5, <2>1
  <1>7. CASE Blocks(j)
    <2>1. /\ command'.outcome = "blocked"
          /\ events' = events \cup NewRows(job[j].attempt + 1, job[j].seq,
                                           <<TerminalKind("blocked")>>)
      BY <1>7 DEF Blocks, RecoverAndSettleRunCommandWithTerminalEvent
    <2> QED
      BY <1>5, <2>1
  <1> QED
    BY <1>1, <1>3, <1>4, <1>6, <1>7, CommandEnds

LEMMA SettleInvStep ==
    ASSUME ~StoreFaults, WorkersInv, SettleInv, [WorkersNext]_vars
    PROVE  SettleInv'
  <1>1. CASE Rests
    <2>1. TerminalCommandHasItsEvent'
      BY <1>1 DEF Rests, SettleInv, TerminalCommandHasItsEvent
    <2>2. ASSUME NEW k \in Jobs
          PROVE  SettlesByRight(k)'
      <3>1. CASE job'[k] = Idle
        BY <3>1 DEF Idle, SettlesByRight
      <3>2. CASE job'[k] = job[k] /\ (Held(k)' => Held(k))
        BY <1>1, <3>2 DEF Rests, SettleInv, SettlesByRight, HasEvent
      <3> QED
        BY <1>1, <3>1, <3>2 DEF Rests
    <2> QED
      BY <2>1, <2>2 DEF SettleInv
  <1>2. ASSUME NEW j \in Jobs, WorkerStep(j)
        PROVE  SettleInv'
    <2>1. TerminalCommandHasItsEvent'
      BY <1>2, TerminalStep
    <2>2. ASSUME NEW k \in Jobs
          PROVE  SettlesByRight(k)'
      <3>1. CASE k = j
        BY <1>2, <3>1, SettlesStep
      <3>2. CASE k # j
        <4>1. /\ job'[k] = job[k] /\ events \subseteq events'
              /\ Held(k)' => Held(k)
          BY <1>2, <3>2, LogOfStep, OthersRest DEF WorkerStep
        <4> QED
          BY <4>1 DEF SettleInv, SettlesByRight, HasEvent
      <3> QED
        BY <3>1, <3>2
    <2> QED
      BY <2>1, <2>2 DEF SettleInv
  <1> QED
    BY <1>1, <1>2, StepShapes

\* A Command is terminal only with the event of its outcome in the log, although
\* a worker writes the two apart, and ignores the refusal of its last event: who
\* was refused has lost the lease and cannot settle either.  (A store call that
\* throws in between is another matter: then the Command ends without an event.)
THEOREM TerminalCommandsShowTheirEnd ==
    ASSUME ~StoreFaults
    PROVE  WorkersSpec => []TerminalCommandHasItsEvent
  <1>1. WorkersInit => SettleInv
    BY DEF WorkersInit, Init, SettleInv, TerminalCommandHasItsEvent,
           SettlesByRight, Idle
  <1>2. SettleInv => TerminalCommandHasItsEvent
    BY DEF SettleInv
  <1> QED
    BY <1>1, <1>2, SettleInvStep, WorkersInvHolds, PTL DEF WorkersSpec

-----------------------------------------------------------------------------
(* What may follow the end *)

\* Only a POST works on Attempt #1.
PostsFirst(j) ==
    job[j].attempt = 1 /\ job[j].pc \notin {"claim", "block"} => j \in Posts

\* An owner that gives up has seen the Run without an end, or has read nothing
\* of it.
GivesUpEarly(j) ==
    job[j].pc \in Quitting \cup {"fail"} =>
        \/ NoEnd
        \/ /\ job[j].attempt = 1 /\ job[j].seq = 0
           /\ job[j].pc = "catch" => ~HasCalledOut

PostInv ==
    /\ \A j \in Jobs : PostsFirst(j)
    /\ \A j \in Jobs : Held(j) => GivesUpEarly(j)

LEMMA PostsStep ==
    ASSUME WorkersInv, NEW j \in Jobs, WorkerStep(j), PostsFirst(j)
    PROVE  PostsFirst(j)'
  <1>1. job[j] \in JobRow
    BY LogOfStep
  <1>2. job'[j] = Idle => PostsFirst(j)'
    BY DEF Idle, PostsFirst
  <1>3. ASSUME job'[j].attempt = job[j].attempt, job[j].pc \notin {"claim", "block"}
        PROVE  PostsFirst(j)'
    BY <1>3 DEF PostsFirst
  <1>4. CASE Waits(j)
    BY <1>2, <1>3, <1>4
    DEF Waits, Quits, GivesUp, Closes, GoesOn, Admits, Fails, At, Keeps,
        GoesOnWith, Entering, InLoop, Called, PastCommit, InHost, Closing
  <1>5. CASE Begins(j)
    <2>1. \/ job'[j].pc \in {"claim", "block"}
          \/ j \in Posts
          \/ job'[j].attempt = 2
          \/ Acquires(j) /\ job'[j].attempt = job[j].attempt
      BY <1>5, BeginRows
    <2>2. Acquires(j) => job[j].pc \notin {"claim", "block"}
      BY DEF Acquires, At
    <2> QED
      BY <1>3, <2>1, <2>2 DEF PostsFirst
  <1>6. CASE WritesUnderLease(j)
    <2>1. job[j].pc \notin {"claim", "block"}
      BY <1>6
      DEF WritesUnderLease, Accepts, Records, Publishes, StartsStep, FailsStep,
          CommitsStep, ReservesCall, BeginsCall, StagesResult, CommitsReceipt, At
    <2>2. job'[j].attempt = job[j].attempt
      BY <1>1, <1>6
      DEF WritesUnderLease, Accepts, Records, Publishes, Writes, StartsStep,
          FailsStep, CommitsStep, ReservesCall, BeginsCall, StagesResult,
          CommitsReceipt, Keeps, GoesOnWith, JobRow
    <2> QED
      BY <1>3, <2>1, <2>2
  <1>7. CASE Ends(j)
    BY <1>2, <1>3, <1>7
    DEF Ends, SettlesCommand, SettlesUnknown, ReportsFailure, Blocks, At, Keeps,
        GoesOnWith
  <1> QED
    BY <1>4, <1>5, <1>6, <1>7 DEF WorkerStep

LEMMA GivingUpStep ==
    ASSUME ~StoreFaults, WorkersInv, EndInv, NEW j \in Jobs, WorkerStep(j),
           Held(j) => GivesUpEarly(j), Held(j)'
    PROVE  GivesUpEarly(j)'
  <1>1. SUFFICES ASSUME job'[j].pc \in Quitting \cup {"fail"}
                 PROVE  GivesUpEarly(j)'
    BY DEF GivesUpEarly
  <1>2. GivesUp(j) \/ Fails(j)
    <2>1. job'[j] # Idle
      BY <1>1 DEF Idle, Quitting
    <2>2. ~Begins(j)
      BY <1>1, BeginRows DEF Quitting
    <2>3. ~WritesUnderLease(j)
      <3>1. ~StartsStep(j) /\ ~ReservesCall(j)
        BY <1>1, LogOfStep DEF StartsStep, ReservesCall, JobRow, Quitting
      <3> QED
        BY <1>1, <3>1
        DEF WritesUnderLease, Accepts, Records, Publishes, FailsStep, CommitsStep,
            BeginsCall, StagesResult, CommitsReceipt, Quitting
    <2>4. ~Ends(j)
      BY <1>1, <2>1
      DEF Ends, SettlesCommand, SettlesUnknown, ReportsFailure, Blocks, Quitting
    <2> QED
      BY <1>1, <2>1, <2>2, <2>3, <2>4
      DEF WorkerStep, Waits, Quits, Closes, GoesOn, Admits, Quitting
  <1>3. Held(j) /\ job'[j].attempt = job[j].attempt /\ job'[j].seq = job[j].seq
    BY <1>2, LogOfStep, NoRevival DEF GivesUp, Fails, Keeps, GoesOnWith
  <1>4. NoEnd' = NoEnd /\ HasCalledOut' = HasCalledOut
    BY <1>2 DEF GivesUp, Fails, Keep, storeVars, NoEnd, HasCalledOut
  <1>5. KnowsNoEnd(j) /\ OwnerIsSound(j) /\ GivesUpEarly(j)
    BY <1>3 DEF EndInv, WorkersInv
  <1>6. CASE Fails(j)
    BY <1>3, <1>4, <1>5, <1>6 DEF Fails, At, GivesUpEarly, Quitting
  <1>7. CASE GivesUp(j)
    <2>1. CASE job[j].pc \in InLoop
      BY <1>4, <1>5, <2>1 DEF KnowsNoEnd, GivesUpEarly
    <2>2. CASE job[j].pc = "loop"
      BY <1>3, <1>4, <1>5, <2>2
      DEF KnowsNoEnd, OwnerIsSound, HasCalledOut, GivesUpEarly, Entering
    <2>3. CASE job[j].pc = "admit" /\ job'[j].pc # "catch"
      BY <1>3, <1>4, <1>5, <2>3 DEF KnowsNoEnd, GivesUpEarly, Entering
    <2> QED
      BY <1>7, <2>1, <2>2, <2>3 DEF GivesUp
  <1> QED
    BY <1>2, <1>6, <1>7

LEMMA PostInvStep ==
    ASSUME ~StoreFaults, WorkersInv, EndInv, PostInv, [WorkersNext]_vars
    PROVE  PostInv'
  <1>1. CASE Rests
    <2>1. NoEnd' = NoEnd /\ HasCalledOut' = HasCalledOut
      BY <1>1 DEF Rests, NoEnd, HasCalledOut
    <2>2. ASSUME NEW k \in Jobs
          PROVE  PostsFirst(k)' /\ (Held(k)' => GivesUpEarly(k)')
      <3>1. CASE job'[k] = Idle
        BY <3>1 DEF Idle, PostsFirst, Held
      <3>2. CASE job'[k] = job[k] /\ (Held(k)' => Held(k))
        BY <2>1, <3>2 DEF PostInv, PostsFirst, GivesUpEarly
      <3> QED
        BY <1>1, <3>1, <3>2 DEF Rests
    <2> QED
      BY <2>2 DEF PostInv
  <1>2. ASSUME NEW j \in Jobs, WorkerStep(j)
        PROVE  PostInv'
    <2>1. \A k \in Jobs : PostsFirst(k)'
      BY <1>2, PostsStep DEF WorkerStep, PostInv, PostsFirst
    <2>2. ASSUME NEW k \in Jobs, Held(k)'
          PROVE  GivesUpEarly(k)'
      <3>1. CASE k = j
        BY <1>2, <2>2, <3>1, GivingUpStep DEF PostInv
      <3>2. CASE k # j
        <4>1. Held(k) /\ job'[k] = job[k] /\ UNCHANGED storeVars
          BY <1>2, <2>2, <3>2, OthersRest
        <4>2. NoEnd' = NoEnd /\ HasCalledOut' = HasCalledOut
          BY <4>1 DEF storeVars, NoEnd, HasCalledOut
        <4> QED
          BY <4>1, <4>2 DEF PostInv, GivesUpEarly
      <3> QED
        BY <3>1, <3>2
    <2> QED
      BY <2>1, <2>2 DEF PostInv
  <1> QED
    BY <1>1, <1>2, StepShapes

\* One step against the property.
FollowsByPost(e) ==
    \E j \in Posts :
        /\ job'[j] # job[j]
        /\ job[j].attempt = 1 /\ job[j].seq < e.seq
        /\ job[j].pc \in {"fail", "settle_step", "settle_tool"}

LEMMA EventsAfterTheEnd ==
    ASSUME WorkersInv, EndInv, PostInv, NEW j \in Jobs, WorkerStep(j),
           NEW f \in events' \ events, NEW e \in events, e.kind \in TerminalKinds
    PROVE  FollowsByPost(e)
  <1>1. ~NoEnd /\ NewEvent(j, f)
    BY NewEvents DEF NoEnd
  <1>2. /\ e.seq \in Nat /\ e.seq <= Watermark /\ Watermark \in Nat /\ e.seq # 0
        /\ job[j].seq \in Nat
    BY LogOfStep DEF TypeOK, Event, JobRow
  <1>3. ~(Records(j) \/ Publishes(j) \/ CommitsReceipt(j))
    <2>1. ASSUME Records(j) \/ Publishes(j) \/ CommitsReceipt(j)
          PROVE  FALSE
      <3>1. Held(j) /\ KnowsNoEnd(j)
        BY <2>1, WriterHolds DEF WritesUnderLease, EndInv
      <3>2. job[j].pc \notin InLoop
        BY <1>1, <3>1 DEF KnowsNoEnd
      <3>3. Writes(j, "preparing") /\ At(j, "loop")
        BY <2>1, <3>2
        DEF Records, Publishes, CommitsReceipt, At, InLoop, Called, PastCommit,
            InHost, Closing
      <3>4. Watermark = job[j].seq
        BY <3>1, <3>3, HeldFacts DEF Writes, AppendEvents
      <3>5. job[j].seq = 0
        BY <1>1, <3>1, <3>3 DEF KnowsNoEnd, At, Entering
      <3> QED
        BY <1>2, <3>4, <3>5
    <2> QED
      BY <2>1
  <1>4. ~Blocks(j)
    <2>1. ASSUME Blocks(j)
          PROVE  FALSE
      <3>1. Watermark = job[j].seq
        BY <2>1
        DEF Blocks, RecoverAndSettleRunCommandWithTerminalEvent, Watermark
      <3>2. e.seq > job[j].seq
        BY <2>1 DEF Blocks, At, EndInv, BlocksByRight
      <3> QED
        BY <1>2, <3>1, <3>2
    <2> QED
      BY <2>1
  <1>5. SettlesUnknown(j) \/ (ReportsFailure(j) /\ ~Keep)
    BY <1>1, <1>3, <1>4 DEF NewEvent
  <1>6. Held(j)
    BY <1>5, WriterHolds
  <1>7. job[j].pc \in Quitting \cup {"fail"}
    BY <1>5 DEF SettlesUnknown, ReportsFailure, At, Quitting
  <1>8. /\ job[j].attempt = 1 /\ job[j].seq = 0
        /\ job[j].pc = "catch" => ~HasCalledOut
    BY <1>1, <1>6, <1>7 DEF PostInv, GivesUpEarly
  <1>9. j \in Posts
    BY <1>7, <1>8 DEF PostInv, PostsFirst, Quitting
  <1>10. job[j].pc # "catch"
    <2>1. ASSUME job[j].pc = "catch"
          PROVE  FALSE
      <3>1. StepIsOpen
        BY <1>5, <2>1 DEF SettlesUnknown, ReportsFailure, At
      <3>2. command.status \in {"none"} \cup PreDispatch
        BY <1>8, <2>1, LogOfStep
        DEF HasCalledOut, TypeOK, CommandRow, CommandStatus, PreDispatch
      <3> QED
        BY <3>1, <3>2 DEF WorkersInv, BoundaryInv, DispatchBoundary, StepIsOpen
    <2> QED
      BY <2>1
  <1>11. job'[j] # job[j]
    BY <1>5, <1>7 DEF SettlesUnknown, ReportsFailure, Idle, At, Quitting
  <1>12. job[j].seq < e.seq
    BY <1>2, <1>8
  <1> QED
    BY <1>7, <1>8, <1>9, <1>10, <1>11, <1>12 DEF FollowsByPost, Quitting

\* A safe continuation and the coordinator never write after an end, and
\* neither does the worker that wrote it.  What a repeated POST may still write
\* there, on Attempt #1 and without having read the log, is the exception, and
\* the only one.
THEOREM EndsAreFollowedByPostsOnly ==
    ASSUME ~StoreFaults
    PROVE  WorkersSpec => OnlyARepeatedPostFollowsAnEnd
  <1>1. WorkersInit => PostInv
    BY DEF WorkersInit, Init, PostInv, PostsFirst, Held, Idle
  <1>2. WorkersSpec => []PostInv
    BY <1>1, PostInvStep, WorkersInvHolds, EndInvHolds, PTL DEF WorkersSpec
  <1>3. ASSUME WorkersInv, EndInv, PostInv, [WorkersNext]_vars
        PROVE  [\A f \in events' \ events, e \in events :
                   e.kind \in TerminalKinds => FollowsByPost(e)]_vars
    <2>1. CASE Rests
      BY <2>1 DEF Rests
    <2>2. ASSUME NEW j \in Jobs, WorkerStep(j)
          PROVE  \A f \in events' \ events, e \in events :
                    e.kind \in TerminalKinds => FollowsByPost(e)
      BY <1>3, <2>2, EventsAfterTheEnd
    <2> QED
      BY <1>3, <2>1, <2>2, StepShapes
  <1>4. WorkersInv /\ EndInv /\ PostInv /\ [WorkersNext]_vars
           => [\A f \in events' \ events, e \in events :
                  e.kind \in TerminalKinds =>
                     \E j \in Posts :
                        /\ job'[j] # job[j]
                        /\ job[j].attempt = 1 /\ job[j].seq < e.seq
                        /\ job[j].pc \in {"fail", "settle_step", "settle_tool"}]_vars
    BY <1>3 DEF FollowsByPost
  <1> QED
    BY <1>2, <1>4, WorkersInvHolds, EndInvHolds, PTL
    DEF WorkersSpec, OnlyARepeatedPostFollowsAnEnd
=============================================================================
