------------------------- MODULE SessionStoreProofs -------------------------
(***************************************************************************)
(* Proofs about SessionStore: its types; its event log: one writer at a    *)
(* time, no gaps, no rewriting, and the refinement of FencedLog; and the   *)
(* work a Run does on the outside, as the store keeps it.                  *)
(*                                                                         *)
(* The twenty operations of the store do only five things to the log and   *)
(* to the authority over it.  LogStepCases says so once; every theorem     *)
(* about the log is a proof over those five cases.                         *)
(*                                                                         *)
(* Only seven operations write the tables of Provider calls, snapshots,    *)
(* tool calls and receipts.  WorkStepCases says so once; what a proof      *)
(* needs of all the others is that the watermark, the log and the Attempts *)
(* only grow (LogGrows).                                                   *)
(***************************************************************************)
EXTENDS SessionStoreLog, SequenceTheorems, TLAPS

\* A step of the store under callers that may also append batches of their
\* own: what is proved of it holds for every client of the store, those of
\* TurnWorkers included.
StoreStep ==
    \/ CommandOperation
    \/ Tick
    \/ \E a \in Attempts : AcquireLease(a)
    \/ \E a \in Attempts, tok \in Nat :
          \/ AuthorizedOperation(a, tok)
          \/ StepOperation(a, tok)
          \/ InvocationOperation(a, tok)
          \/ \E seq \in 0 .. MaxEvents, kinds \in Seq(Kinds) :
                AppendEvents(a, tok, seq, kinds)
    \/ UNCHANGED storeVars

LEMMA NextIsStoreStep ==
    ASSUME TypeOK, [Next]_storeVars
    PROVE  StoreStep
  <1>1. 1 .. issued \subseteq Nat
    BY DEF TypeOK
  <1> QED
    BY <1>1 DEF Next, StoreStep

-----------------------------------------------------------------------------
(* Rows of one batch *)

\* The rows of a batch are events, one for each sequence after `from`, all by
\* the Attempt that writes them.
LEMMA NewRowsFacts ==
    ASSUME NEW a \in Attempts, NEW from \in Nat, NEW kinds \in Seq(Kinds)
    PROVE  /\ NewRows(a, from, kinds) \subseteq Event
           /\ {e.seq : e \in NewRows(a, from, kinds)} = from + 1 .. from + Len(kinds)
           /\ \A e \in NewRows(a, from, kinds) : e.attempt = a
           /\ \A e, f \in NewRows(a, from, kinds) : e.seq = f.seq => e = f
  <1> DEFINE row(i) == [seq |-> from + i, attempt |-> a, kind |-> kinds[i]]
             rows == {row(i) : i \in 1 .. Len(kinds)}
  <1>1. NewRows(a, from, kinds) = rows
    BY DEF NewRows
  <1>2. \A i \in 1 .. Len(kinds) : row(i) \in Event /\ row(i).seq = from + i
    BY DEF Event
  <1>3. rows \subseteq Event
    BY <1>2
  <1>4. {e.seq : e \in rows} = from + 1 .. from + Len(kinds)
    <2>1. ASSUME NEW n \in from + 1 .. from + Len(kinds)
          PROVE  n \in {e.seq : e \in rows}
      <3>1. n - from \in 1 .. Len(kinds) /\ n = from + (n - from)
        OBVIOUS
      <3>2. row(n - from) \in rows /\ row(n - from).seq = n
        BY <3>1
      <3> QED
        BY <3>2
    <2>2. ASSUME NEW e \in rows
          PROVE  e.seq \in from + 1 .. from + Len(kinds)
      BY <1>2
    <2> QED
      BY <2>1, <2>2
  <1>5. \A e \in rows : e.attempt = a
    OBVIOUS
  <1>6. \A e, f \in rows : e.seq = f.seq => e = f
    <2>1. \A i, j \in 1 .. Len(kinds) : row(i).seq = row(j).seq => i = j
      BY <1>2
    <2> QED
      BY <2>1
  <1> QED
    BY <1>1, <1>3, <1>4, <1>5, <1>6

\* Every event a store operation writes by itself is of a known kind.
LEMMA KnownKinds ==
    /\ \A o \in Outcomes : <<TerminalKind(o)>> \in Seq(Kinds)
    /\ \A o \in Outcomes : Len(<<TerminalKind(o)>>) = 1
    /\ <<"tool_result_presented">> \in Seq(Kinds)
    /\ <<"tool_result_presented", "verification_updated">> \in Seq(Kinds)
  <1>1. \A o \in Outcomes : TerminalKind(o) \in Kinds
    BY DEF Kinds, TerminalKinds
  <1>2. "tool_result_presented" \in Kinds /\ "verification_updated" \in Kinds
    BY DEF Kinds, ReceiptKinds
  <1> QED
    BY <1>1, <1>2

-----------------------------------------------------------------------------
(* Type correctness *)

LEMMA NewLeaseType ==
    ASSUME TypeOK
    PROVE  NewLease \in LeaseRow
  BY BoundsAssumption DEF NewLease, LeaseRow, TypeOK

\* Opening an Attempt keeps the rows it writes in their types.
LEMMA OpenAttemptType ==
    ASSUME TypeOK, NEW n, NEW watermark \in Nat, OpenAttempt(n, watermark)
    PROVE  /\ active' \in 0 .. MaxAttempts
           /\ lastSeq' \in [Attempts -> Nat]
           /\ leases' \in [Attempts -> LeaseRow]
           /\ issued' \in Nat
  BY NewLeaseType DEF OpenAttempt, TypeOK, Attempts

LEMMA CommandOperationType ==
    ASSUME TypeOK, CommandOperation
    PROVE  TypeOK'
  <1>1. CASE ReserveRunCommand
    <2>1. command' \in CommandRow
      BY <1>1 DEF ReserveRunCommand, CommandRow, CommandStatus
    <2>2. active' \in 0 .. MaxAttempts
      BY <1>1, BoundsAssumption DEF ReserveRunCommand
    <2> QED
      BY <1>1, <2>1, <2>2 DEF ReserveRunCommand, TypeOK
  <1>2. ASSUME NEW seq \in 0 .. MaxEvents,
               RecoverAndSettleRunCommandWithTerminalEvent(active, seq)
        PROVE  TypeOK'
    <2>1. active + 1 \in Attempts /\ OpenAttempt(active + 1, seq + 1)
      BY <1>2 DEF RecoverAndSettleRunCommandWithTerminalEvent, OpenAttempt
    <2>2. seq \in Nat /\ seq + 1 \in Nat
      BY BoundsAssumption
    <2>3. <<TerminalKind("blocked")>> \in Seq(Kinds)
      BY KnownKinds DEF Outcomes
    <2>4. NewRows(active + 1, seq, <<TerminalKind("blocked")>>) \subseteq Event
      BY <2>1, <2>2, <2>3, NewRowsFacts
    <2>5. events' \subseteq Event
      BY <1>2, <2>4 DEF RecoverAndSettleRunCommandWithTerminalEvent, TypeOK
    <2>6. command' \in CommandRow
      BY <1>2 DEF RecoverAndSettleRunCommandWithTerminalEvent, CommandRow,
                  CommandStatus, Outcomes
    <2> QED
      BY <1>2, <2>1, <2>2, <2>5, <2>6, OpenAttemptType
      DEF RecoverAndSettleRunCommandWithTerminalEvent, TypeOK
  <1>3. ASSUME NEW seq \in 0 .. MaxEvents, NEW expected \in PreDispatch,
               ClaimInitialPreDispatch(expected, seq)
        PROVE  TypeOK'
    <2>1. OpenAttempt(2, seq) /\ seq \in Nat
      BY <1>3, BoundsAssumption DEF ClaimInitialPreDispatch
    <2> QED
      BY <1>3, <2>1, OpenAttemptType DEF ClaimInitialPreDispatch, TypeOK
  <1>4. ASSUME NEW seq \in 0 .. MaxEvents, NEW expected \in PreDispatch,
               ReclaimInitialPreDispatch(expected, seq)
        PROVE  TypeOK'
    <2>1. /\ leases' = [leases EXCEPT ![2] = NewLease]
          /\ issued' = issued + 1
          /\ 2 \in Attempts
      BY <1>4 DEF ReclaimInitialPreDispatch, TypeOK, Attempts
    <2>2. leases' \in [Attempts -> LeaseRow] /\ issued' \in Nat
      BY <2>1, NewLeaseType DEF TypeOK
    <2> QED
      BY <1>4, <2>2 DEF ReclaimInitialPreDispatch, TypeOK
  <1>5. CASE CreateRunAttempt(active)
    <2>1. OpenAttempt(active + 1, lastSeq[active])
      BY <1>5 DEF CreateRunAttempt
    <2>2. lastSeq[active] \in Nat
      BY <1>5 DEF CreateRunAttempt, TypeOK, Attempts
    <2> QED
      BY <1>5, <2>1, <2>2, OpenAttemptType DEF CreateRunAttempt, TypeOK
  <1> QED
    BY <1>1, <1>2, <1>3, <1>4, <1>5 DEF CommandOperation

LEMMA AppendEventsType ==
    ASSUME TypeOK, NEW a \in Attempts, NEW tok, NEW seq \in 0 .. MaxEvents,
           NEW kinds \in Seq(Kinds), AppendEvents(a, tok, seq, kinds)
    PROVE  TypeOK'
  <1>1. Len(kinds) \in Nat /\ seq \in Nat
    BY BoundsAssumption
  <1>2. NewRows(a, seq, kinds) \subseteq Event
    BY <1>1, NewRowsFacts
  <1>3. events' \subseteq Event
    BY <1>2 DEF AppendEvents, TypeOK
  <1>4. lastSeq' \in [Attempts -> Nat]
    BY <1>1 DEF AppendEvents, TypeOK
  <1> QED
    BY <1>3, <1>4 DEF AppendEvents, TypeOK

LEMMA AuthorizedOperationType ==
    ASSUME TypeOK, NEW a \in Attempts, NEW tok, AuthorizedOperation(a, tok)
    PROVE  TypeOK'
  <1>1. ASSUME NEW expected \in Unsettled, NEW next \in {"accepted", "terminal"},
               NEW o \in IF next = "terminal" THEN Outcomes ELSE {"none"},
               TransitionRunCommand(a, tok, expected, next, o)
        PROVE  TypeOK'
    <2>1. next \in CommandStatus /\ o \in Outcomes \cup {"none"}
      BY DEF CommandStatus
    <2>2. command' \in CommandRow
      BY <1>1, <2>1 DEF TransitionRunCommand, CommandRow
    <2> QED
      BY <1>1, <2>2 DEF TransitionRunCommand, TypeOK
  <1>2. ASSUME NEW expected \in Unsettled, NEW seq \in 0 .. MaxEvents,
               NEW o \in Outcomes,
               SettleRunCommandWithTerminalEvent(a, tok, expected, seq, o)
        PROVE  TypeOK'
    <2>1. seq \in Nat
      BY BoundsAssumption
    <2>2. NewRows(a, seq, <<TerminalKind(o)>>) \subseteq Event
      BY <2>1, NewRowsFacts, KnownKinds
    <2>3. events' \subseteq Event
      BY <1>2, <2>2 DEF SettleRunCommandWithTerminalEvent, TypeOK
    <2>4. command' \in CommandRow
      BY <1>2 DEF SettleRunCommandWithTerminalEvent, CommandRow, CommandStatus
    <2>5. lastSeq' \in [Attempts -> Nat]
      BY <1>2, <2>1 DEF SettleRunCommandWithTerminalEvent, TypeOK
    <2> QED
      BY <1>2, <2>3, <2>4, <2>5 DEF SettleRunCommandWithTerminalEvent, TypeOK
  <1>3. CASE RenewLease(a, tok)
    <2>1. [leases[a] EXCEPT !.left = LeaseTtl] \in LeaseRow
      BY BoundsAssumption DEF TypeOK, LeaseRow
    <2>2. leases' = [leases EXCEPT ![a] = [leases[a] EXCEPT !.left = LeaseTtl]]
      BY <1>3 DEF RenewLease
    <2>3. leases' \in [Attempts -> LeaseRow]
      BY <2>1, <2>2 DEF TypeOK
    <2> QED
      BY <1>3, <2>3 DEF RenewLease, TypeOK
  <1>4. ASSUME NEW seq \in 0 .. MaxEvents, NEW kinds \in Batches,
               AppendEvents(a, tok, seq, kinds)
        PROVE  TypeOK'
    BY <1>4, BoundsAssumption, AppendEventsType
  <1> QED
    BY <1>1, <1>2, <1>3, <1>4 DEF AuthorizedOperation

LEMMA StepOperationType ==
    ASSUME TypeOK, NEW a \in Attempts, NEW tok, StepOperation(a, tok)
    PROVE  TypeOK'
  <1>1. ASSUME NEW m \in ModelSteps, StartModelStep(a, tok, m)
        PROVE  TypeOK'
    <2>1. command' \in CommandRow
      BY <1>1 DEF StartModelStep, TypeOK, CommandRow, CommandStatus
    <2>2. [status |-> "started", attempt |-> a] \in StepRow
      BY BoundsAssumption DEF StepRow, Attempts
    <2>3. steps' \in [ModelSteps -> StepRow]
      BY <1>1, <2>2 DEF StartModelStep, TypeOK
    <2> QED
      BY <1>1, <2>1, <2>3 DEF StartModelStep, TypeOK
  <1>2. ASSUME NEW m \in ModelSteps, FinishModelStep(a, tok, m)
        PROVE  TypeOK'
    <2>1. steps' \in [ModelSteps -> StepRow]
      BY <1>2 DEF FinishModelStep, TypeOK, StepRow
    <2> QED
      BY <1>2, <2>1 DEF FinishModelStep, TypeOK
  <1>3. ASSUME NEW m \in ModelSteps, NEW seq \in 0 .. MaxEvents,
               NEW through \in 0 .. MaxEvents,
               CommitTerminalModelStep(a, tok, m, seq, through)
        PROVE  TypeOK'
    <2>1. [step |-> m, attempt |-> a, through |-> through] \in Snapshot
      BY BoundsAssumption DEF Snapshot, Attempts
    <2>2. history' \in Seq(Snapshot) /\ latest' \in Snapshot
      BY <1>3, <2>1 DEF CommitTerminalModelStep, TypeOK
    <2>3. steps' \in [ModelSteps -> StepRow]
      BY <1>3 DEF CommitTerminalModelStep, TypeOK, StepRow
    <2> QED
      BY <1>3, <2>2, <2>3 DEF CommitTerminalModelStep, TypeOK
  <1>4. ASSUME NEW seq \in 0 .. MaxEvents, NEW through \in 0 .. MaxEvents,
               WriteSnapshot(a, tok, seq, through)
        PROVE  TypeOK'
    <2>1. [step |-> NoStep, attempt |-> a, through |-> through] \in Snapshot
      BY BoundsAssumption DEF Snapshot, Attempts
    <2> QED
      BY <1>4, <2>1 DEF WriteSnapshot, TypeOK
  <1> QED
    BY <1>1, <1>2, <1>3, <1>4 DEF StepOperation

LEMMA InvocationOperationType ==
    ASSUME TypeOK, NEW a \in Attempts, NEW tok, InvocationOperation(a, tok)
    PROVE  TypeOK'
  <1> PICK i \in Invocations :
        \/ ReserveInvocation(a, tok, i)
        \/ BeginInvocationExecution(a, tok, i)
        \/ StagePublicToolResultDerivative(a, tok, i)
        \/ \E result \in Results :
              \/ CommitReceipt(a, tok, i, result)
              \/ \E verified \in BOOLEAN, seq \in 0 .. MaxEvents :
                    CommitReceiptWithPublicEvents(a, tok, i, result, verified, seq)
    BY DEF InvocationOperation
  <1>1. CASE ReserveInvocation(a, tok, i)
    <2> DEFINE row == [invocations[i] EXCEPT !.status = "reserved",
                                             !.attempt = a]
    <2>1. row \in InvocationRow
      <3>1. invocations[i] \in InvocationRow /\ a \in 0 .. MaxAttempts
        BY BoundsAssumption DEF TypeOK, Attempts
      <3> QED
        BY <3>1 DEF InvocationRow
    <2>2. invocations' = [invocations EXCEPT ![i] = row]
      BY <1>1 DEF ReserveInvocation
    <2>3. invocations' \in [Invocations -> InvocationRow]
      BY <2>1, <2>2 DEF TypeOK
    <2> QED
      BY <1>1, <2>3 DEF ReserveInvocation, TypeOK
  <1>2. CASE BeginInvocationExecution(a, tok, i)
    <2>1. invocations' \in [Invocations -> InvocationRow]
      BY <1>2 DEF BeginInvocationExecution, TypeOK, InvocationRow
    <2> QED
      BY <1>2, <2>1 DEF BeginInvocationExecution, TypeOK
  <1>3. CASE StagePublicToolResultDerivative(a, tok, i)
    <2>1. invocations' \in [Invocations -> InvocationRow]
      BY <1>3 DEF StagePublicToolResultDerivative, TypeOK, InvocationRow
    <2> QED
      BY <1>3, <2>1 DEF StagePublicToolResultDerivative, TypeOK
  <1>4. ASSUME NEW result \in Results, CommitReceipt(a, tok, i, result)
        PROVE  TypeOK'
    <2>1. invocations' \in [Invocations -> InvocationRow]
      BY <1>4 DEF CommitReceipt, TypeOK, InvocationRow
    <2> QED
      BY <1>4, <2>1 DEF CommitReceipt, TypeOK
  <1>5. ASSUME NEW result \in Results, NEW verified \in BOOLEAN,
               NEW seq \in 0 .. MaxEvents,
               CommitReceiptWithPublicEvents(a, tok, i, result, verified, seq)
        PROVE  TypeOK'
    <2>1. PICK kinds \in Seq(Kinds) :
             /\ events' = events \cup NewRows(a, seq, kinds)
             /\ lastSeq' = [lastSeq EXCEPT ![a] = seq + Len(kinds)]
             /\ invocations' = [invocations EXCEPT ![i].status = result,
                                                   ![i].bound = NewRows(a, seq, kinds)]
      BY <1>5, KnownKinds DEF CommitReceiptWithPublicEvents
    <2>2. seq \in Nat /\ Len(kinds) \in Nat
      BY BoundsAssumption
    <2>3. NewRows(a, seq, kinds) \subseteq Event
      BY <2>2, NewRowsFacts
    <2>4. events' \subseteq Event
      BY <2>1, <2>3 DEF TypeOK
    <2>5. lastSeq' \in [Attempts -> Nat]
      BY <2>1, <2>2 DEF TypeOK
    <2>6. invocations' \in [Invocations -> InvocationRow]
      BY <2>1, <2>3 DEF TypeOK, InvocationRow
    <2> QED
      BY <1>5, <2>4, <2>5, <2>6 DEF CommitReceiptWithPublicEvents, TypeOK
  <1> QED
    BY <1>1, <1>2, <1>3, <1>4, <1>5

LEMMA StoreStepType ==
    ASSUME TypeOK, StoreStep
    PROVE  TypeOK'
  <1>1. CASE CommandOperation
    BY <1>1, CommandOperationType
  <1>2. CASE Tick
    <2> DEFINE row(a) == [leases[a] EXCEPT !.left =
                            IF Live(a) THEN leases[a].left - 1 ELSE 0]
    <2>1. \A a \in Attempts : row(a) \in LeaseRow
      <3> SUFFICES ASSUME NEW a \in Attempts
                   PROVE  row(a) \in LeaseRow
        OBVIOUS
      <3>1. leases[a] \in LeaseRow
        BY DEF TypeOK
      <3> QED
        BY <3>1, BoundsAssumption DEF Live, LeaseRow
    <2>2. leases' = [a \in Attempts |-> row(a)]
      BY <1>2 DEF Tick
    <2> HIDE DEF row
    <2>3. leases' \in [Attempts -> LeaseRow]
      BY <2>1, <2>2
    <2> QED
      BY <1>2, <2>3 DEF Tick, TypeOK
  <1>3. ASSUME NEW a \in Attempts, AcquireLease(a)
        PROVE  TypeOK'
    <2>1. leases' \in [Attempts -> LeaseRow] /\ issued' \in Nat
      BY <1>3, NewLeaseType DEF AcquireLease, TypeOK
    <2> QED
      BY <1>3, <2>1 DEF AcquireLease, TypeOK
  <1>4. ASSUME NEW a \in Attempts, NEW tok, AuthorizedOperation(a, tok)
        PROVE  TypeOK'
    BY <1>4, AuthorizedOperationType
  <1>5. ASSUME NEW a \in Attempts, NEW tok, StepOperation(a, tok)
        PROVE  TypeOK'
    BY <1>5, StepOperationType
  <1>6. ASSUME NEW a \in Attempts, NEW tok, InvocationOperation(a, tok)
        PROVE  TypeOK'
    BY <1>6, InvocationOperationType
  <1>7. ASSUME NEW a \in Attempts, NEW tok, NEW seq \in 0 .. MaxEvents,
               NEW kinds \in Seq(Kinds), AppendEvents(a, tok, seq, kinds)
        PROVE  TypeOK'
    BY <1>7, AppendEventsType
  <1>8. CASE UNCHANGED storeVars
    BY <1>8 DEF storeVars, TypeOK
  <1> QED
    BY <1>1, <1>2, <1>3, <1>4, <1>5, <1>6, <1>7, <1>8 DEF StoreStep

LEMMA TypeOKInit ==
    ASSUME Init
    PROVE  TypeOK
  <1>1. command \in CommandRow /\ latest \in Snapshot
    BY BoundsAssumption DEF Init, CommandRow, CommandStatus, Snapshot
  <1>2. leases \in [Attempts -> LeaseRow]
    BY BoundsAssumption DEF Init, LeaseRow
  <1>3. steps \in [ModelSteps -> StepRow]
    BY BoundsAssumption DEF Init, StepRow
  <1>4. invocations \in [Invocations -> InvocationRow]
    BY BoundsAssumption DEF Init, InvocationRow
  <1> QED
    BY <1>1, <1>2, <1>3, <1>4, BoundsAssumption DEF Init, TypeOK

\* Every variable of the store keeps its type.
THEOREM TypeCorrect == Spec => []TypeOK
  <1>1. Init => TypeOK
    BY TypeOKInit
  <1>2. TypeOK /\ [Next]_storeVars => TypeOK'
    BY NextIsStoreStep, StoreStepType
  <1> QED
    BY <1>1, <1>2, PTL DEF Spec

-----------------------------------------------------------------------------
(* What a step does to the log and to the authority over it *)

\* The Run appears with Attempt #1.
Reserves ==
    /\ command.status = "none"
    /\ command'.status = "reserved"
    /\ active' = 1
    /\ UNCHANGED <<lastSeq, leases, events>>

\* An Attempt that holds its lease adds a batch after its watermark.
Appends(a, kinds) ==
    /\ Live(a)
    /\ events' = events \cup NewRows(a, lastSeq[a], kinds)
    /\ lastSeq' = [lastSeq EXCEPT ![a] = lastSeq[a] + Len(kinds)]
    /\ UNCHANGED <<active, leases>>

\* The next Attempt takes over from one whose lease is gone; at most one event
\* comes with it.
Opens(kinds) ==
    /\ active # 0
    /\ active + 1 \in Attempts
    /\ NoLiveLease
    /\ Len(kinds) \in 0 .. 1
    /\ active' = active + 1
    /\ leases' = [leases EXCEPT ![active + 1] = NewLease]
    /\ events' = events \cup NewRows(active + 1, lastSeq[active], kinds)
    /\ lastSeq' = [lastSeq EXCEPT ![active + 1] = lastSeq[active] + Len(kinds)]

\* The active Attempt gets a fresh lease.
Grants ==
    /\ active # 0
    /\ ~Live(active)
    /\ leases' = [leases EXCEPT ![active] = NewLease]
    /\ UNCHANGED <<active, lastSeq, events>>

\* No Attempt gains the right to write: a renewal, the passing of time, or an
\* operation on other tables.
Leaves ==
    /\ \A a \in Attempts : Live(a)' => Live(a)
    /\ UNCHANGED <<active, lastSeq, events>>

LogStep ==
    \/ Reserves
    \/ \E a \in Attempts, kinds \in Seq(Kinds) : Appends(a, kinds)
    \/ \E kinds \in Seq(Kinds) : Opens(kinds)
    \/ Grants
    \/ Leaves

\* A Command never returns to "none", and a terminal one never changes.
CommandMovesOn ==
    /\ command'.status = "none" => command.status = "none"
    /\ command.status = "terminal" => command' = command

LEMMA CommandOperationLogStep ==
    ASSUME TypeOK, CommandOperation
    PROVE  LogStep /\ CommandMovesOn
  <1>1. CASE ReserveRunCommand
    BY <1>1 DEF ReserveRunCommand, LogStep, Reserves, CommandMovesOn
  <1>2. ASSUME NEW seq \in 0 .. MaxEvents,
               RecoverAndSettleRunCommandWithTerminalEvent(active, seq)
        PROVE  LogStep /\ CommandMovesOn
    <2>1. Opens(<<TerminalKind("blocked")>>)
      <3>1. Len(<<TerminalKind("blocked")>>) = 1
        OBVIOUS
      <3> QED
        BY <1>2, <3>1
        DEF RecoverAndSettleRunCommandWithTerminalEvent, OpenAttempt, Opens
    <2>2. <<TerminalKind("blocked")>> \in Seq(Kinds)
      BY KnownKinds DEF Outcomes
    <2>3. CommandMovesOn
      BY <1>2 DEF RecoverAndSettleRunCommandWithTerminalEvent, CommandMovesOn
    <2> QED
      BY <2>1, <2>2, <2>3 DEF LogStep
  <1>3. ASSUME NEW seq \in 0 .. MaxEvents, NEW expected \in PreDispatch,
               ClaimInitialPreDispatch(expected, seq)
        PROVE  LogStep /\ CommandMovesOn
    <2>1. /\ active = 1 /\ 2 \in Attempts /\ NoLiveLease
          /\ lastSeq[1] = seq /\ active' = 2
          /\ leases' = [leases EXCEPT ![2] = NewLease]
          /\ lastSeq' = [lastSeq EXCEPT ![2] = seq]
          /\ UNCHANGED <<command, events>>
      BY <1>3 DEF ClaimInitialPreDispatch, OpenAttempt
    <2>2. << >> \in Seq(Kinds) /\ Len(<< >>) = 0
      OBVIOUS
    <2>3. NewRows(2, seq, << >>) = {}
      BY DEF NewRows
    <2>4. Opens(<< >>)
      BY <2>1, <2>2, <2>3, BoundsAssumption DEF Opens
    <2> QED
      BY <2>1, <2>2, <2>4 DEF LogStep, CommandMovesOn
  <1>4. ASSUME NEW seq \in 0 .. MaxEvents, NEW expected \in PreDispatch,
               ReclaimInitialPreDispatch(expected, seq)
        PROVE  LogStep /\ CommandMovesOn
    <2>1. /\ active = 2 /\ NoLiveLease
          /\ leases' = [leases EXCEPT ![2] = NewLease]
          /\ UNCHANGED <<command, active, lastSeq, events>>
      BY <1>4 DEF ReclaimInitialPreDispatch
    <2>2. Grants
      BY <2>1 DEF Grants, NoLiveLease, TypeOK, Attempts
    <2> QED
      BY <2>1, <2>2 DEF LogStep, CommandMovesOn
  <1>5. CASE CreateRunAttempt(active)
    <2>1. /\ active # 0 /\ active + 1 \in Attempts /\ NoLiveLease
          /\ active' = active + 1
          /\ leases' = [leases EXCEPT ![active + 1] = NewLease]
          /\ lastSeq' = [lastSeq EXCEPT ![active + 1] = lastSeq[active]]
          /\ UNCHANGED <<command, events>>
      BY <1>5 DEF CreateRunAttempt, OpenAttempt
    <2>2. << >> \in Seq(Kinds) /\ Len(<< >>) = 0
      OBVIOUS
    <2>3. NewRows(active + 1, lastSeq[active], << >>) = {}
      BY DEF NewRows
    <2>4. lastSeq[active] + Len(<< >>) = lastSeq[active]
      <3>1. lastSeq[active] \in Nat
        BY <2>1 DEF TypeOK, Attempts
      <3> QED
        BY <2>2, <3>1
    <2>5. Opens(<< >>)
      <3>1. events' = events \cup NewRows(active + 1, lastSeq[active], << >>)
        BY <2>1, <2>3
      <3>2. lastSeq' = [lastSeq EXCEPT ![active + 1] =
                           lastSeq[active] + Len(<< >>)]
        BY <2>1, <2>4
      <3>3. Len(<< >>) \in 0 .. 1
        BY <2>2
      <3> QED
        BY <2>1, <3>1, <3>2, <3>3, Zenon DEF Opens
    <2> QED
      BY <2>1, <2>2, <2>5 DEF LogStep, CommandMovesOn
  <1> QED
    BY <1>1, <1>2, <1>3, <1>4, <1>5 DEF CommandOperation

LEMMA AppendEventsLogStep ==
    ASSUME NEW a \in Attempts, NEW tok, NEW seq, NEW kinds \in Seq(Kinds),
           AppendEvents(a, tok, seq, kinds)
    PROVE  LogStep /\ CommandMovesOn
  <1>1. Appends(a, kinds)
    BY DEF AppendEvents, HoldsLease, Appends
  <1> QED
    BY <1>1 DEF AppendEvents, LogStep, CommandMovesOn

LEMMA AuthorizedOperationLogStep ==
    ASSUME TypeOK, NEW a \in Attempts, NEW tok, AuthorizedOperation(a, tok)
    PROVE  LogStep /\ CommandMovesOn
  <1>1. ASSUME NEW expected \in Unsettled, NEW next \in {"accepted", "terminal"},
               NEW o, TransitionRunCommand(a, tok, expected, next, o)
        PROVE  LogStep /\ CommandMovesOn
    <2>1. Leaves
      BY <1>1 DEF TransitionRunCommand, Leaves, Live
    <2>2. CommandMovesOn
      BY <1>1 DEF TransitionRunCommand, CommandMovesOn, Unsettled, PreDispatch
    <2> QED
      BY <2>1, <2>2 DEF LogStep
  <1>2. ASSUME NEW expected \in Unsettled, NEW seq \in 0 .. MaxEvents,
               NEW o \in Outcomes,
               SettleRunCommandWithTerminalEvent(a, tok, expected, seq, o)
        PROVE  LogStep /\ CommandMovesOn
    <2>1. Len(<<TerminalKind(o)>>) = 1 /\ <<TerminalKind(o)>> \in Seq(Kinds)
      BY KnownKinds
    <2>2. Appends(a, <<TerminalKind(o)>>)
      BY <1>2, <2>1 DEF SettleRunCommandWithTerminalEvent, HoldsLease, Appends
    <2>3. CommandMovesOn
      BY <1>2 DEF SettleRunCommandWithTerminalEvent, CommandMovesOn, Unsettled,
                  PreDispatch
    <2> QED
      BY <2>1, <2>2, <2>3 DEF LogStep
  <1>3. CASE RenewLease(a, tok)
    <2>1. Leaves
      BY <1>3 DEF RenewLease, HoldsLease, Leaves, Live, TypeOK
    <2> QED
      BY <1>3, <2>1 DEF RenewLease, LogStep, CommandMovesOn
  <1>4. ASSUME NEW seq \in 0 .. MaxEvents, NEW kinds \in Batches,
               AppendEvents(a, tok, seq, kinds)
        PROVE  LogStep /\ CommandMovesOn
    BY <1>4, BoundsAssumption, AppendEventsLogStep
  <1> QED
    BY <1>1, <1>2, <1>3, <1>4 DEF AuthorizedOperation

LEMMA StepOperationLogStep ==
    ASSUME TypeOK, NEW a \in Attempts, NEW tok, StepOperation(a, tok)
    PROVE  LogStep /\ CommandMovesOn
  <1>1. UNCHANGED <<active, lastSeq, leases, events>>
    BY DEF StepOperation, StartModelStep, FinishModelStep,
           CommitTerminalModelStep, WriteSnapshot
  <1>2. CommandMovesOn
    <2>1. ASSUME NEW m \in ModelSteps, StartModelStep(a, tok, m)
          PROVE  CommandMovesOn
      <3>1. command'.status = "dispatched" /\ command.status # "terminal"
        BY <2>1 DEF StartModelStep, TypeOK, CommandRow
      <3> QED
        BY <3>1 DEF CommandMovesOn
    <2>2. ASSUME UNCHANGED command
          PROVE  CommandMovesOn
      BY <2>2 DEF CommandMovesOn
    <2> QED
      BY <2>1, <2>2 DEF StepOperation, FinishModelStep,
                        CommitTerminalModelStep, WriteSnapshot
  <1>3. Leaves
    BY <1>1 DEF Leaves, Live
  <1> QED
    BY <1>2, <1>3 DEF LogStep

LEMMA InvocationOperationLogStep ==
    ASSUME TypeOK, NEW a \in Attempts, NEW tok, InvocationOperation(a, tok)
    PROVE  LogStep /\ CommandMovesOn
  <1>1. CommandMovesOn
    <2>1. ASSUME NEW i \in Invocations
          PROVE  /\ ReserveInvocation(a, tok, i) => UNCHANGED command
                 /\ BeginInvocationExecution(a, tok, i) => UNCHANGED command
                 /\ StagePublicToolResultDerivative(a, tok, i) => UNCHANGED command
      BY DEF ReserveInvocation, BeginInvocationExecution,
             StagePublicToolResultDerivative
    <2>2. ASSUME NEW i \in Invocations, NEW result, NEW verified, NEW seq
          PROVE  /\ CommitReceipt(a, tok, i, result) => UNCHANGED command
                 /\ CommitReceiptWithPublicEvents(a, tok, i, result, verified, seq)
                       => UNCHANGED command
      BY DEF CommitReceipt, CommitReceiptWithPublicEvents
    <2>3. UNCHANGED command
      BY <2>1, <2>2 DEF InvocationOperation
    <2> QED
      BY <2>3 DEF CommandMovesOn
  <1>2. ASSUME NEW i \in Invocations, NEW result, NEW verified, NEW seq,
               CommitReceiptWithPublicEvents(a, tok, i, result, verified, seq)
        PROVE  \E kinds \in Seq(Kinds) : Appends(a, kinds)
    BY <1>2, KnownKinds DEF CommitReceiptWithPublicEvents, HoldsLease, Appends
  <1>3. ASSUME UNCHANGED <<active, lastSeq, leases, events>>
        PROVE  Leaves
    BY <1>3 DEF Leaves, Live
  <1> QED
    BY <1>1, <1>2, <1>3
    DEF InvocationOperation, ReserveInvocation, BeginInvocationExecution,
        StagePublicToolResultDerivative, CommitReceipt, LogStep

LEMMA LogStepCases ==
    ASSUME TypeOK, StoreStep
    PROVE  LogStep /\ CommandMovesOn
  <1>1. CASE CommandOperation
    BY <1>1, CommandOperationLogStep
  <1>2. CASE Tick
    <2>1. Leaves
      BY <1>2 DEF Tick, Leaves, Live, TypeOK, LeaseRow
    <2> QED
      BY <1>2, <2>1 DEF Tick, LogStep, CommandMovesOn
  <1>3. ASSUME NEW a \in Attempts, AcquireLease(a)
        PROVE  LogStep /\ CommandMovesOn
    <2>1. Grants
      BY <1>3 DEF AcquireLease, IsActiveAttempt, Grants
    <2> QED
      BY <1>3, <2>1 DEF AcquireLease, LogStep, CommandMovesOn
  <1>4. ASSUME NEW a \in Attempts, NEW tok,
               \/ AuthorizedOperation(a, tok)
               \/ StepOperation(a, tok)
               \/ InvocationOperation(a, tok)
        PROVE  LogStep /\ CommandMovesOn
    BY <1>4, AuthorizedOperationLogStep, StepOperationLogStep,
       InvocationOperationLogStep
  <1>5. ASSUME NEW a \in Attempts, NEW tok, NEW seq, NEW kinds \in Seq(Kinds),
               AppendEvents(a, tok, seq, kinds)
        PROVE  LogStep /\ CommandMovesOn
    BY <1>5, AppendEventsLogStep
  <1>6. CASE UNCHANGED storeVars
    BY <1>6 DEF storeVars, LogStep, Leaves, Live, CommandMovesOn
  <1> QED
    BY <1>1, <1>2, <1>3, <1>4, <1>5, <1>6 DEF StoreStep

-----------------------------------------------------------------------------
(* The inductive invariant *)

\* A log whose sequences are 1 .. w, each used once, written by Attempts in
\* turn, none of them after e.
Tidy(log, w, e) ==
    /\ {x.seq : x \in log} = 1 .. w
    /\ \A x, y \in log : x.seq = y.seq => x = y
    /\ \A x, y \in log : x.seq < y.seq => x.attempt <= y.attempt
    /\ \A x \in log : x.attempt <= e

\* Before the reservation there is no Attempt and nothing was counted.
FreshRun ==
    /\ command.status = "none" => active = 0
    /\ active = 0 => \A a \in Attempts : lastSeq[a] = 0

LogInv ==
    /\ TypeOK
    /\ FreshRun
    /\ LeaseFencing
    /\ Tidy(events, Watermark, active)

\* A batch by the newest Attempt, right after the watermark, leaves a tidy log.
LEMMA TidyGrows ==
    ASSUME NEW log \in SUBSET Event, NEW w \in Nat, NEW e \in Nat,
           NEW a \in Attempts, e <= a, NEW kinds \in Seq(Kinds),
           Tidy(log, w, e)
    PROVE  Tidy(log \cup NewRows(a, w, kinds), w + Len(kinds), a)
  <1> DEFINE new == NewRows(a, w, kinds)
  <1>1. /\ new \subseteq Event
        /\ {x.seq : x \in new} = w + 1 .. w + Len(kinds)
        /\ \A x \in new : x.attempt = a
        /\ \A x, y \in new : x.seq = y.seq => x = y
    BY NewRowsFacts
  <1>2. /\ {x.seq : x \in log} = 1 .. w
        /\ \A x, y \in log : x.seq = y.seq => x = y
        /\ \A x, y \in log : x.seq < y.seq => x.attempt <= y.attempt
        /\ \A x \in log : x.attempt <= e
    BY DEF Tidy
  <1> HIDE DEF new
  <1>3. \A x \in log : x.seq \in 1 .. w /\ x.attempt \in Nat
    BY <1>2 DEF Event, Attempts
  <1>4. \A x \in new : x.seq \in w + 1 .. w + Len(kinds)
    BY <1>1
  <1>5. a \in Nat /\ Len(kinds) \in Nat
    BY DEF Attempts
  <1>6. {x.seq : x \in log \cup new} = 1 .. w + Len(kinds)
    <2>1. 1 .. w + Len(kinds) = (1 .. w) \cup (w + 1 .. w + Len(kinds))
      BY <1>5
    <2>2. {x.seq : x \in log \cup new}
            = {x.seq : x \in log} \cup {x.seq : x \in new}
      OBVIOUS
    <2> QED
      BY <1>1, <1>2, <2>1, <2>2
  <1>7. \A x \in log, y \in new : x.seq < y.seq /\ x.attempt <= y.attempt
    BY <1>1, <1>2, <1>3, <1>4, <1>5
  <1>8. \A x, y \in log \cup new : x.seq = y.seq => x = y
    BY <1>1, <1>2, <1>3, <1>4, <1>5, <1>7
  <1>9. \A x, y \in log \cup new : x.seq < y.seq => x.attempt <= y.attempt
    BY <1>1, <1>2, <1>3, <1>4, <1>5, <1>7
  <1>10. \A x \in log \cup new : x.attempt <= a
    BY <1>1, <1>2, <1>3, <1>5
  <1> QED
    BY <1>6, <1>8, <1>9, <1>10 DEF Tidy, new

LEMMA LogInvInit ==
    ASSUME Init
    PROVE  FreshRun /\ LeaseFencing /\ Tidy(events, Watermark, active)
  BY DEF Init, FreshRun, LeaseFencing, Live, Tidy, Watermark

LEMMA LogInvStep ==
    ASSUME LogInv, TypeOK', LogStep, CommandMovesOn
    PROVE  LogInv'
  <1>1. /\ active \in 0 .. MaxAttempts /\ lastSeq \in [Attempts -> Nat]
        /\ leases \in [Attempts -> LeaseRow] /\ events \in SUBSET Event
    BY DEF LogInv, TypeOK
  <1>2. CASE Reserves
    <2>1. active = 0 /\ \A a \in Attempts : lastSeq[a] = 0 /\ ~Live(a)
      BY <1>2 DEF LogInv, Reserves, FreshRun, LeaseFencing, IsActiveAttempt,
                  Attempts
    <2>2. 1 \in Attempts
      BY BoundsAssumption DEF Attempts
    <2>3. LeaseFencing'
      BY <1>2, <2>1 DEF Reserves, LeaseFencing, Live
    <2>4. Watermark = 0 /\ Watermark' = 0
      BY <1>2, <2>1, <2>2 DEF Reserves, Watermark
    <2>5. Tidy(events', Watermark', active')
      <3>1. {e.seq : e \in events} = {}
        BY <2>4 DEF LogInv, Tidy
      <3>2. events = {} /\ events' = {}
        BY <1>2, <3>1 DEF Reserves
      <3>3. \A e : Tidy({}, 0, e)
        <4>1. {x.seq : x \in {}} = 1 .. 0
          OBVIOUS
        <4> QED
          BY <4>1 DEF Tidy
      <3> QED
        BY <2>4, <3>2, <3>3
    <2>6. FreshRun'
      BY <1>2, <2>1 DEF Reserves, FreshRun
    <2> QED
      BY <2>3, <2>5, <2>6 DEF LogInv
  <1>3. ASSUME NEW a \in Attempts, NEW kinds \in Seq(Kinds), Appends(a, kinds)
        PROVE  LogInv'
    <2>1. a = active /\ active # 0
      BY <1>3 DEF LogInv, Appends, LeaseFencing, IsActiveAttempt, Attempts
    <2>2. Watermark = lastSeq[a] /\ lastSeq[a] \in Nat
      BY <1>1, <2>1 DEF Watermark
    <2>3. Watermark' = lastSeq[a] + Len(kinds)
      BY <1>1, <1>3, <2>1 DEF Appends, Watermark
    <2>4. Tidy(events', Watermark', active')
      BY <1>1, <1>3, <2>1, <2>2, <2>3, TidyGrows DEF LogInv, Appends
    <2>5. LeaseFencing'
      BY <1>3 DEF LogInv, Appends, LeaseFencing, Live, IsActiveAttempt
    <2>6. FreshRun'
      BY <1>3, <2>1 DEF LogInv, Appends, FreshRun, CommandMovesOn
    <2> QED
      BY <2>4, <2>5, <2>6 DEF LogInv
  <1>4. ASSUME NEW kinds \in Seq(Kinds), Opens(kinds)
        PROVE  LogInv'
    <2> DEFINE next == active + 1
    <2>1. next \in Attempts /\ next # active /\ active <= next /\ next # 0
      BY <1>1, <1>4 DEF Opens
    <2>2. Watermark = lastSeq[active] /\ lastSeq[active] \in Nat
      BY <1>1, <1>4 DEF Opens, Watermark, Attempts
    <2>3. Watermark' = lastSeq[active] + Len(kinds)
      BY <1>1, <1>4, <2>1 DEF Opens, Watermark
    <2>4. Tidy(events', Watermark', active')
      <3>1. Tidy(events, lastSeq[active], active) /\ active \in Nat
        BY <1>1, <2>2 DEF LogInv
      <3>2. Tidy(events \cup NewRows(next, lastSeq[active], kinds),
                 lastSeq[active] + Len(kinds), next)
        BY <1>1, <2>1, <2>2, <3>1, TidyGrows
      <3> QED
        BY <1>4, <2>3, <3>2 DEF Opens
    <2>5. LeaseFencing'
      BY <1>1, <1>4, <2>1 DEF Opens, NoLiveLease, LeaseFencing, Live,
                              IsActiveAttempt
    <2>6. FreshRun'
      BY <1>4, <2>1 DEF LogInv, Opens, FreshRun, CommandMovesOn
    <2> QED
      BY <2>4, <2>5, <2>6 DEF LogInv
  <1>5. CASE Grants
    <2>1. LeaseFencing'
      BY <1>1, <1>5 DEF LogInv, Grants, LeaseFencing, Live, IsActiveAttempt
    <2>2. Tidy(events, Watermark, active)' /\ FreshRun'
      BY <1>5 DEF LogInv, Grants, Watermark, FreshRun, CommandMovesOn
    <2> QED
      BY <2>1, <2>2 DEF LogInv
  <1>6. CASE Leaves
    <2>1. LeaseFencing'
      BY <1>6 DEF LogInv, Leaves, LeaseFencing, IsActiveAttempt
    <2>2. Tidy(events, Watermark, active)' /\ FreshRun'
      BY <1>6 DEF LogInv, Leaves, Watermark, FreshRun, CommandMovesOn
    <2> QED
      BY <2>1, <2>2 DEF LogInv
  <1> QED
    BY <1>2, <1>3, <1>4, <1>5, <1>6 DEF LogStep

LEMMA LogInvHolds == Spec => []LogInv
  <1>1. Init /\ TypeOK => LogInv
    BY LogInvInit DEF LogInv
  <1>2. LogInv /\ TypeOK' /\ [Next]_storeVars => LogInv'
    BY NextIsStoreStep, LogStepCases, LogInvStep DEF LogInv
  <1> QED
    BY <1>1, <1>2, TypeCorrect, PTL DEF Spec

-----------------------------------------------------------------------------
(* Theorems about the log *)

\* At most one Attempt, the active one, holds an unexpired lease, whatever the
\* callers do.  appendEvents and renewLease rest on this fact alone.
THEOREM OneLeaseOwner == Spec => []LeaseFencing
  BY LogInvHolds, PTL DEF LogInv

\* The log is the sequence 1 .. watermark of the active Attempt, without gaps
\* and duplicates, through appends, receipts, recovery and new Attempts.
THEOREM GaplessLog == Spec => []LogMatchesWatermark
  <1>1. LogInv => LogMatchesWatermark
    BY DEF LogInv, Tidy, LogMatchesWatermark
  <1> QED
    BY <1>1, LogInvHolds, PTL

\* A superseded Attempt never writes behind its successor.
THEOREM AttemptsInTurn == Spec => []AttemptsWriteInTurn
  <1>1. LogInv => AttemptsWriteInTurn
    BY DEF LogInv, Tidy, AttemptsWriteInTurn
  <1> QED
    BY <1>1, LogInvHolds, PTL

\* Rows are only added, only by the authority in force, and a terminal Command
\* is final.
THEOREM FactsAreFinal == Spec => DurableFactsAreFinal
  <1>1. LogInv /\ [Next]_storeVars => [KeepsDurableFacts]_storeVars
    <2> SUFFICES ASSUME LogInv, [Next]_storeVars
                 PROVE  KeepsDurableFacts
      OBVIOUS
    <2>1. LogStep /\ CommandMovesOn
      BY NextIsStoreStep, LogStepCases DEF LogInv
    <2>2. /\ active \in 0 .. MaxAttempts /\ lastSeq \in [Attempts -> Nat]
      BY DEF LogInv, TypeOK
    <2>3. ASSUME NEW a \in Attempts, NEW kinds \in Seq(Kinds), Appends(a, kinds)
          PROVE  KeepsDurableFacts
      <3>1. a = active
        BY <2>3 DEF LogInv, Appends, LeaseFencing, IsActiveAttempt
      <3>2. \A e \in NewRows(a, lastSeq[a], kinds) : e.attempt = a
        BY <2>2, NewRowsFacts
      <3> QED
        BY <2>1, <2>3, <3>1, <3>2
        DEF Appends, KeepsDurableFacts, CommandMovesOn
    <2>4. ASSUME NEW kinds \in Seq(Kinds), Opens(kinds)
          PROVE  KeepsDurableFacts
      <3>1. lastSeq[active] \in Nat /\ active + 1 # active
        BY <2>2, <2>4 DEF Opens, Attempts
      <3>2. \A e \in NewRows(active + 1, lastSeq[active], kinds) :
               e.attempt = active + 1
        BY <2>4, <3>1, NewRowsFacts DEF Opens
      <3> QED
        BY <2>1, <2>4, <3>1, <3>2 DEF Opens, KeepsDurableFacts, CommandMovesOn
    <2>5. ASSUME UNCHANGED events
          PROVE  KeepsDurableFacts
      BY <2>1, <2>5 DEF KeepsDurableFacts, CommandMovesOn
    <2> QED
      BY <2>1, <2>3, <2>4, <2>5 DEF LogStep, Reserves, Grants, Leaves
  <1> QED
    BY <1>1, LogInvHolds, PTL DEF Spec, DurableFactsAreFinal

-----------------------------------------------------------------------------
(* The refinement of FencedLog *)

\* The Attempts that wrote the first w rows of a log: what the refinement
\* mapping shows of it.
Authors(rows, w) == [seq \in 1 .. w |-> (CHOOSE e \in rows : e.seq = seq).attempt]

\* n entries by one Attempt.
Entries(a, n) == [k \in 1 .. n |-> a]

\* In a tidy log CHOOSE has no choice.
LEMMA ChosenRow ==
    ASSUME NEW rows \in SUBSET Event, NEW w, NEW e, Tidy(rows, w, e),
           NEW x \in rows
    PROVE  (CHOOSE y \in rows : y.seq = x.seq) = x
  BY DEF Tidy

LEMMA AuthorsType ==
    ASSUME NEW rows \in SUBSET Event, NEW w \in Nat, NEW e, Tidy(rows, w, e)
    PROVE  /\ Authors(rows, w) \in Seq(Attempts)
           /\ Len(Authors(rows, w)) = w
           /\ \A x \in rows : Authors(rows, w)[x.seq] = x.attempt
  <1>1. ASSUME NEW seq \in 1 .. w
        PROVE  \E x \in rows : x.seq = seq
    <2>1. seq \in {x.seq : x \in rows}
      BY DEF Tidy
    <2> QED
      BY <2>1
  <1>2. ASSUME NEW x \in rows
        PROVE  x.seq \in 1 .. w /\ x.attempt \in Attempts
    <2>1. x.seq \in {y.seq : y \in rows}
      OBVIOUS
    <2> QED
      BY <2>1 DEF Tidy, Event
  <1>3. ASSUME NEW seq \in 1 .. w
        PROVE  (CHOOSE x \in rows : x.seq = seq) \in rows
    BY <1>1
  <1>4. Authors(rows, w) \in [1 .. w -> Attempts]
    BY <1>2, <1>3 DEF Authors
  <1>5. \A x \in rows : Authors(rows, w)[x.seq] = x.attempt
    BY <1>2, ChosenRow DEF Authors
  <1> QED
    BY <1>4, <1>5

\* A batch appears at the end of what the mapping shows, and nothing before it
\* changes.
LEMMA AuthorsGrow ==
    ASSUME NEW rows \in SUBSET Event, NEW w \in Nat, NEW e \in Nat,
           NEW a \in Attempts, e <= a, NEW kinds \in Seq(Kinds),
           Tidy(rows, w, e)
    PROVE  Authors(rows \cup NewRows(a, w, kinds), w + Len(kinds))
             = Authors(rows, w) \o Entries(a, Len(kinds))
  <1> DEFINE new == NewRows(a, w, kinds)
             n == Len(kinds)
             after == Authors(rows \cup new, w + n)
             before == Authors(rows, w)
  <1>1. n \in Nat /\ new \subseteq Event
    <2>1. NewRows(a, w, kinds) \subseteq Event
      BY NewRowsFacts
    <2> QED
      BY <2>1
  <1>2. Tidy(rows \cup new, w + n, a)
    BY TidyGrows
  <1>3. /\ after \in Seq(Attempts) /\ Len(after) = w + n
        /\ \A x \in rows \cup new : after[x.seq] = x.attempt
    <2>1. rows \cup new \in SUBSET Event /\ w + n \in Nat
      BY <1>1
    <2> HIDE DEF new, n
    <2> QED
      BY <1>2, <2>1, AuthorsType
  <1>4. /\ before \in Seq(Attempts) /\ Len(before) = w
        /\ \A x \in rows : before[x.seq] = x.attempt
    BY AuthorsType
  <1>5. /\ Entries(a, n) \in Seq(Attempts) /\ Len(Entries(a, n)) = n
        /\ \A k \in 1 .. n : Entries(a, n)[k] = a
    BY <1>1 DEF Entries
  <1>6. /\ \A seq \in 1 .. w : \E x \in rows : x.seq = seq
        /\ \A seq \in w + 1 .. w + n : \E x \in new : x.seq = seq /\ x.attempt = a
    <2>1. {x.seq : x \in rows} = 1 .. w
      BY DEF Tidy
    <2>2. {x.seq : x \in new} = w + 1 .. w + n /\ \A x \in new : x.attempt = a
      BY NewRowsFacts
    <2>3. \A seq \in 1 .. w : seq \in {x.seq : x \in rows}
      BY <2>1
    <2>4. \A seq \in w + 1 .. w + n : seq \in {x.seq : x \in new}
      BY <2>2
    <2> QED
      BY <2>2, <2>3, <2>4
  <1> HIDE DEF new, n, after, before
  <1>7. /\ before \o Entries(a, n) \in Seq(Attempts)
        /\ Len(before \o Entries(a, n)) = w + n
        /\ \A i \in 1 .. w + n : (before \o Entries(a, n))[i] =
              IF i <= w THEN before[i] ELSE Entries(a, n)[i - w]
    <2>1. /\ before \o Entries(a, n) \in Seq(Attempts)
          /\ Len(before \o Entries(a, n)) = Len(before) + Len(Entries(a, n))
          /\ \A i \in 1 .. Len(before) + Len(Entries(a, n)) :
                (before \o Entries(a, n))[i] =
                   IF i <= Len(before) THEN before[i]
                   ELSE Entries(a, n)[i - Len(before)]
      BY <1>4, <1>5, ConcatProperties, Zenon
    <2> QED
      BY <1>4, <1>5, <2>1
  <1>8. ASSUME NEW i \in 1 .. w + n
        PROVE  after[i] = (before \o Entries(a, n))[i]
    <2>1. CASE i <= w
      <3>1. PICK x \in rows : x.seq = i
        BY <1>6, <2>1
      <3>2. x \in rows \cup new
        OBVIOUS
      <3>3. after[i] = x.attempt
        BY <1>3, <3>1, <3>2
      <3>4. before[i] = x.attempt
        BY <1>4, <3>1
      <3>5. (before \o Entries(a, n))[i] = before[i]
        BY <1>7, <2>1
      <3> QED
        BY <3>3, <3>4, <3>5
    <2>2. CASE i > w
      <3>1. PICK x \in new : x.seq = i /\ x.attempt = a
        BY <1>1, <1>6, <2>2
      <3>2. i - w \in 1 .. n
        BY <1>1, <2>2
      <3>3. after[i] = a
        BY <1>3, <3>1
      <3>4. Entries(a, n)[i - w] = a
        BY <1>5, <3>2
      <3> QED
        BY <1>7, <2>2, <3>3, <3>4
    <2>3. i <= w \/ i > w
      BY <1>1
    <2> QED
      BY <2>1, <2>2, <2>3
  <1>9. after = before \o Entries(a, n)
    BY <1>3, <1>7, <1>8, SeqEqual
  <1> QED
    BY <1>9 DEF new, n, after, before
\* The mapped log is what Authors shows of the rows.
LEMMA MappedLog ==
    /\ [seq \in 1 .. Watermark |-> Writer(seq)] = Authors(events, Watermark)
    /\ [seq \in 1 .. Watermark |-> Writer(seq)]' = Authors(events', Watermark')
  BY DEF Writer, Authors

\* Entries added by the Attempt in force, as the mapping shows them.
LEMMA MappedGrowth ==
    ASSUME LogInv, NEW a \in Attempts, active <= a, NEW kinds \in Seq(Kinds),
           events' = events \cup NewRows(a, Watermark, kinds),
           Watermark' = Watermark + Len(kinds)
    PROVE  /\ Authors(events', Watermark')
                = Authors(events, Watermark) \o Entries(a, Len(kinds))
           /\ Len(Authors(events', Watermark'))
                = Len(Authors(events, Watermark)) + Len(kinds)
  <1>1. /\ events \in SUBSET Event /\ active \in Nat /\ Watermark \in Nat
        /\ Tidy(events, Watermark, active)
    BY DEF LogInv, TypeOK, Watermark, Attempts
  <1>2. Authors(events', Watermark')
          = Authors(events, Watermark) \o Entries(a, Len(kinds))
    BY <1>1, AuthorsGrow
  <1>3. Authors(events, Watermark) \in Seq(Attempts)
    BY <1>1, AuthorsType
  <1>4. /\ Entries(a, Len(kinds)) \in Seq(Attempts)
        /\ Len(Entries(a, Len(kinds))) = Len(kinds)
    <2>1. Len(kinds) \in Nat
      OBVIOUS
    <2> QED
      BY <2>1 DEF Entries
  <1>5. Len(Authors(events, Watermark) \o Entries(a, Len(kinds)))
          = Len(Authors(events, Watermark)) + Len(Entries(a, Len(kinds)))
    BY <1>3, <1>4, ConcatProperties, Zenon
  <1> QED
    BY <1>2, <1>4, <1>5

LEMMA RefinesInit ==
    ASSUME Init
    PROVE  Promise!AbstractInit
  <1>1. active = 0 /\ NoLiveLease /\ Watermark = 0
    BY DEF Init, NoLiveLease, Live, Watermark
  <1>2. [seq \in 1 .. Watermark |-> Writer(seq)] = << >>
    BY <1>1
  <1> QED
    BY <1>1, <1>2 DEF Promise!AbstractInit

LEMMA RefinesStep ==
    ASSUME LogInv, TypeOK', LogStep
    PROVE  [Promise!AbstractNext]_Promise!logVars
  <1> DEFINE log == Authors(events, Watermark)
             logNext == Authors(events', Watermark')
  <1>1. /\ active \in 0 .. MaxAttempts /\ lastSeq \in [Attempts -> Nat]
        /\ leases \in [Attempts -> LeaseRow]
    BY DEF LogInv, TypeOK
  <1>2. CASE Reserves
    <2>1. active = 0
      BY <1>2 DEF LogInv, FreshRun, Reserves
    <2>2. Watermark = 0 /\ Watermark' = 0
      <3>1. lastSeq[1] = 0
        BY <2>1, BoundsAssumption DEF LogInv, FreshRun, Attempts
      <3> QED
        BY <1>2, <2>1, <3>1 DEF Reserves, Watermark
    <2>3. logNext = log /\ (NoLiveLease' <=> NoLiveLease)
      BY <1>2, <2>2 DEF Reserves, NoLiveLease, Live
    <2> QED
      BY <1>2, <2>1, <2>3, MappedLog DEF Reserves, Promise!AbstractNext, Promise!Open
  <1>3. ASSUME NEW a \in Attempts, NEW kinds \in Seq(Kinds), Appends(a, kinds)
        PROVE  [Promise!AbstractNext]_Promise!logVars
    <2>1. a = active /\ active # 0
      BY <1>3 DEF LogInv, Appends, LeaseFencing, IsActiveAttempt, Attempts
    <2>2. Watermark = lastSeq[a] /\ Watermark' = Watermark + Len(kinds)
      BY <1>1, <1>3, <2>1 DEF Appends, Watermark
    <2>3. ~NoLiveLease /\ (NoLiveLease' <=> NoLiveLease)
      BY <1>3 DEF Appends, NoLiveLease, Live
    <2>4. /\ logNext = log \o Entries(a, Len(kinds))
          /\ Len(logNext) = Len(log) + Len(kinds)
      <3>1. active <= a
        BY <1>1, <2>1
      <3>2. events' = events \cup NewRows(a, Watermark, kinds)
        BY <1>3, <2>2 DEF Appends
      <3> QED
        BY <2>2, <3>1, <3>2, MappedGrowth
    <2>5. log \in Seq(Attempts) /\ Len(log) \in Nat /\ Len(kinds) \in Nat
      <3>1. events \in SUBSET Event /\ Watermark \in Nat
        BY <1>1, <2>2 DEF LogInv, TypeOK
      <3>2. Tidy(events, Watermark, active)
        BY DEF LogInv
      <3> HIDE DEF logNext
      <3>3. log \in Seq(Attempts) /\ Len(log) = Watermark
        BY <3>1, <3>2, AuthorsType
      <3> HIDE DEF log
      <3> QED
        BY <3>1, <3>3
    <2> HIDE DEF log, logNext
    <2>6. CASE Len(kinds) = 0
      <3>1. Entries(a, Len(kinds)) = << >>
        BY <2>6 DEF Entries
      <3>2. logNext = log
        BY <2>4, <2>5, <3>1, ConcatEmptySeq
      <3> QED
        BY <1>3, <2>3, <3>2, MappedLog DEF Appends, Promise!logVars, log, logNext
    <2>7. CASE Len(kinds) # 0
      <3>1. Len(logNext) > Len(log) /\ Len(logNext) - Len(log) = Len(kinds)
        BY <2>4, <2>5, <2>7
      <3>2. logNext = log \o [k \in 1 .. Len(logNext) - Len(log) |-> active]
        BY <2>1, <2>4, <3>1 DEF Entries
      <3> QED
        BY <1>3, <2>3, <3>1, <3>2, MappedLog
        DEF Appends, Promise!AbstractNext, Promise!Write, Promise!Extended,
            log, logNext
    <2> QED
      BY <2>6, <2>7
  <1>4. ASSUME NEW kinds \in Seq(Kinds), Opens(kinds)
        PROVE  [Promise!AbstractNext]_Promise!logVars
    <2>1. active + 1 \in Attempts /\ active <= active + 1 /\ active + 1 # active
      BY <1>1, <1>4 DEF Opens
    <2>2. Watermark = lastSeq[active] /\ Watermark' = Watermark + Len(kinds)
      BY <1>1, <1>4, <2>1 DEF Opens, Watermark
    <2>3. NoLiveLease /\ ~NoLiveLease'
      <3>1. leases'[active + 1].left = LeaseTtl
        BY <1>1, <1>4, <2>1 DEF Opens, NewLease
      <3> QED
        BY <1>4, <2>1, <3>1, BoundsAssumption DEF Opens, NoLiveLease, Live
    <2>4. logNext = log \o Entries(active + 1, Len(kinds))
      BY <1>4, <2>1, <2>2, MappedGrowth DEF Opens
    <2>5. \E n \in 0 .. 1 : logNext = log \o [k \in 1 .. n |-> active + 1]
      BY <1>4, <2>4 DEF Opens, Entries
    <2> QED
      BY <1>4, <2>3, <2>5, MappedLog
      DEF Opens, Promise!AbstractNext, Promise!TakeOver, Promise!Extended
  <1>5. CASE Grants
    <2>1. NoLiveLease /\ ~NoLiveLease'
      <3>1. NoLiveLease
        BY <1>5 DEF Grants, LogInv, LeaseFencing, NoLiveLease, IsActiveAttempt
      <3>2. active \in Attempts /\ leases'[active].left = LeaseTtl
        BY <1>1, <1>5 DEF Grants, NewLease, Attempts
      <3> QED
        BY <3>1, <3>2, BoundsAssumption DEF NoLiveLease, Live
    <2>2. logNext = log
      BY <1>5 DEF Grants, Watermark
    <2> QED
      BY <1>5, <2>1, <2>2, MappedLog DEF Grants, Promise!AbstractNext, Promise!Grant
  <1>6. CASE Leaves
    <2>1. logNext = log
      BY <1>6 DEF Leaves, Watermark
    <2>2. NoLiveLease => NoLiveLease'
      BY <1>6 DEF Leaves, NoLiveLease
    <2> QED
      BY <1>6, <2>1, <2>2, MappedLog
      DEF Leaves, Promise!AbstractNext, Promise!Lapse, Promise!logVars
  <1> QED
    BY <1>2, <1>3, <1>4, <1>5, <1>6 DEF LogStep

\* Every behaviour of the store is a behaviour of a log with one writer at a
\* time.
THEOREM StoreIsFencedLog == Spec => ImplementsFencedLog
  <1>1. Init => Promise!AbstractInit
    BY RefinesInit
  <1>2. LogInv /\ TypeOK' /\ [Next]_storeVars
          => [Promise!AbstractNext]_Promise!logVars
    BY NextIsStoreStep, LogStepCases, RefinesStep DEF LogInv
  <1> QED
    BY <1>1, <1>2, TypeCorrect, LogInvHolds, PTL
    DEF Spec, ImplementsFencedLog, Promise!AbstractSpec

-----------------------------------------------------------------------------
(* What a step does to the work of a Run *)

LeavesWork == UNCHANGED <<steps, history, latest, invocations>>

\* A tool call never touches the Command, its authority or its model steps.
LEMMA InvocationFrame ==
    ASSUME NEW a \in Attempts, NEW tok, InvocationOperation(a, tok)
    PROVE  UNCHANGED <<command, active, leases, issued, steps, history, latest>>
  <1> DEFINE frame == UNCHANGED <<command, active, leases, issued, steps,
                                  history, latest>>
  <1>1. ASSUME NEW i \in Invocations
        PROVE  /\ ReserveInvocation(a, tok, i) => frame
               /\ BeginInvocationExecution(a, tok, i) => frame
               /\ StagePublicToolResultDerivative(a, tok, i) => frame
    BY DEF ReserveInvocation, BeginInvocationExecution,
           StagePublicToolResultDerivative
  <1>2. ASSUME NEW i \in Invocations, NEW result, NEW verified, NEW seq
        PROVE  /\ CommitReceipt(a, tok, i, result) => frame
               /\ CommitReceiptWithPublicEvents(a, tok, i, result, verified, seq)
                     => frame
    BY DEF CommitReceipt, CommitReceiptWithPublicEvents
  <1> HIDE DEF frame
  <1>3. frame
    BY <1>1, <1>2 DEF InvocationOperation
  <1> QED
    BY <1>3 DEF frame

LEMMA WorkStepCases ==
    ASSUME StoreStep
    PROVE  \/ LeavesWork
           \/ \E a \in Attempts, tok \in Nat :
                 StepOperation(a, tok) /\ UNCHANGED invocations
           \/ \E a \in Attempts, tok \in Nat :
                 InvocationOperation(a, tok) /\ UNCHANGED <<steps, history, latest>>
  <1>1. CASE CommandOperation
    BY <1>1
    DEF CommandOperation, ReserveRunCommand,
        RecoverAndSettleRunCommandWithTerminalEvent, ClaimInitialPreDispatch,
        ReclaimInitialPreDispatch, CreateRunAttempt, LeavesWork
  <1>2. CASE Tick
    BY <1>2 DEF Tick, LeavesWork
  <1>3. ASSUME NEW a \in Attempts, AcquireLease(a)
        PROVE  LeavesWork
    BY <1>3 DEF AcquireLease, LeavesWork
  <1>4. ASSUME NEW a \in Attempts, NEW tok, AuthorizedOperation(a, tok)
        PROVE  LeavesWork
    BY <1>4
    DEF AuthorizedOperation, TransitionRunCommand,
        SettleRunCommandWithTerminalEvent, RenewLease, AppendEvents, LeavesWork
  <1>5. ASSUME NEW a, NEW tok, NEW seq, NEW kinds, AppendEvents(a, tok, seq, kinds)
        PROVE  LeavesWork
    BY <1>5 DEF AppendEvents, LeavesWork
  <1>6. ASSUME NEW a \in Attempts, NEW tok, StepOperation(a, tok)
        PROVE  UNCHANGED invocations
    BY <1>6
    DEF StepOperation, StartModelStep, FinishModelStep, CommitTerminalModelStep,
        WriteSnapshot
  <1>7. ASSUME NEW a \in Attempts, NEW tok, InvocationOperation(a, tok)
        PROVE  UNCHANGED <<steps, history, latest>>
    BY <1>7, InvocationFrame
  <1>8. CASE UNCHANGED storeVars
    BY <1>8 DEF storeVars, LeavesWork
  <1> QED
    BY <1>1, <1>2, <1>3, <1>4, <1>5, <1>6, <1>7, <1>8 DEF StoreStep

\* Attempts, watermark and log only grow, and a step that is not a takeover
\* leaves the active Attempt alone.
LEMMA LogGrows ==
    ASSUME LogInv, TypeOK', StoreStep
    PROVE  /\ active <= active'
           /\ Watermark <= Watermark'
           /\ events \subseteq events'
           /\ \A e \in events' \ events : e.seq > Watermark
  <1>1. /\ active \in 0 .. MaxAttempts /\ lastSeq \in [Attempts -> Nat]
        /\ active' \in 0 .. MaxAttempts
    BY DEF LogInv, TypeOK
  <1>2. LogStep /\ CommandMovesOn
    BY LogStepCases DEF LogInv
  <1>3. Watermark \in Nat
    BY <1>1 DEF Watermark, Attempts
  <1>4. CASE Reserves
    <2>1. active = 0 /\ Watermark = 0 /\ Watermark' = 0
      BY <1>1, <1>4, BoundsAssumption
      DEF Reserves, LogInv, FreshRun, Watermark, Attempts
    <2> QED
      BY <1>4, <2>1 DEF Reserves
  <1>5. ASSUME NEW a \in Attempts, NEW kinds \in Seq(Kinds), Appends(a, kinds)
        PROVE  /\ active <= active' /\ Watermark <= Watermark'
               /\ events \subseteq events'
               /\ \A e \in events' \ events : e.seq > Watermark
    <2>1. a = active /\ active # 0
      BY <1>5 DEF LogInv, Appends, LeaseFencing, IsActiveAttempt, Attempts
    <2>2. Watermark = lastSeq[a] /\ Watermark' = lastSeq[a] + Len(kinds)
      BY <1>1, <1>5, <2>1 DEF Appends, Watermark
    <2>3. \A e \in NewRows(a, lastSeq[a], kinds) : e.seq > lastSeq[a]
      BY <1>1 DEF NewRows
    <2>4. Len(kinds) \in Nat
      OBVIOUS
    <2> QED
      BY <1>1, <1>3, <1>5, <2>2, <2>3, <2>4 DEF Appends
  <1>6. ASSUME NEW kinds \in Seq(Kinds), Opens(kinds)
        PROVE  /\ active <= active' /\ Watermark <= Watermark'
               /\ events \subseteq events'
               /\ \A e \in events' \ events : e.seq > Watermark
    <2>1. active + 1 \in Attempts /\ active + 1 # 0 /\ active \in Attempts
      BY <1>1, <1>6 DEF Opens, Attempts
    <2>2. /\ Watermark = lastSeq[active]
          /\ Watermark' = lastSeq[active] + Len(kinds)
      BY <1>1, <1>6, <2>1 DEF Opens, Watermark
    <2>3. \A e \in NewRows(active + 1, lastSeq[active], kinds) :
             e.seq > lastSeq[active]
      BY <1>1, <2>1 DEF NewRows
    <2>4. Len(kinds) \in Nat
      OBVIOUS
    <2> QED
      BY <1>1, <1>3, <1>6, <2>2, <2>3, <2>4 DEF Opens
  <1>7. CASE Grants \/ Leaves
    BY <1>1, <1>3, <1>7 DEF Grants, Leaves, Watermark
  <1> QED
    BY <1>2, <1>4, <1>5, <1>6, <1>7 DEF LogStep

-----------------------------------------------------------------------------
(* The dispatch boundary *)

BoundaryInv == DispatchBoundary /\ NoThirdPreDispatchAttempt

LEMMA BoundaryCommandOperation ==
    ASSUME TypeOK, BoundaryInv, CommandOperation
    PROVE  BoundaryInv'
  <1> USE DEF BoundaryInv, DispatchBoundary, NoThirdPreDispatchAttempt
  <1>1. CASE ReserveRunCommand
    BY <1>1 DEF ReserveRunCommand, PreDispatch
  <1>2. ASSUME NEW seq, RecoverAndSettleRunCommandWithTerminalEvent(active, seq)
        PROVE  BoundaryInv'
    BY <1>2 DEF RecoverAndSettleRunCommandWithTerminalEvent, PreDispatch
  <1>3. ASSUME NEW seq, NEW expected, ClaimInitialPreDispatch(expected, seq)
        PROVE  BoundaryInv'
    BY <1>3 DEF ClaimInitialPreDispatch, OpenAttempt
  <1>4. ASSUME NEW seq, NEW expected, ReclaimInitialPreDispatch(expected, seq)
        PROVE  BoundaryInv'
    BY <1>4 DEF ReclaimInitialPreDispatch
  <1>5. CASE CreateRunAttempt(active)
    <2>1. UNCHANGED <<command, steps>> /\ active' = active + 1
      BY <1>5 DEF CreateRunAttempt, OpenAttempt
    <2>2. command.status \in PreDispatch => active \in Nat /\ active <= 2 /\ active # 2
      BY <1>5 DEF CreateRunAttempt, IsC2bPristineAttempt, IsActiveAttempt, TypeOK
    <2> QED
      BY <2>1, <2>2
  <1> QED
    BY <1>1, <1>2, <1>3, <1>4, <1>5 DEF CommandOperation

LEMMA BoundaryAuthorizedOperation ==
    ASSUME TypeOK, BoundaryInv, NEW a \in Attempts, NEW tok,
           AuthorizedOperation(a, tok)
    PROVE  BoundaryInv'
  <1> USE DEF BoundaryInv, DispatchBoundary, NoThirdPreDispatchAttempt
  <1>1. ASSUME NEW expected, NEW next, NEW o,
               TransitionRunCommand(a, tok, expected, next, o)
        PROVE  BoundaryInv'
    <2>1. UNCHANGED <<active, steps>>
      BY <1>1 DEF TransitionRunCommand
    <2>2. \/ command.status = "reserved" /\ command'.status = "accepted"
          \/ command'.status = "terminal"
      BY <1>1 DEF TransitionRunCommand, CanTransitionRunCommand, CommandEdges
    <2> QED
      BY <2>1, <2>2 DEF PreDispatch
  <1>2. ASSUME NEW expected, NEW seq, NEW o,
               SettleRunCommandWithTerminalEvent(a, tok, expected, seq, o)
        PROVE  BoundaryInv'
    BY <1>2 DEF SettleRunCommandWithTerminalEvent, PreDispatch
  <1>3. CASE RenewLease(a, tok)
    BY <1>3 DEF RenewLease
  <1>4. ASSUME NEW seq, NEW kinds, AppendEvents(a, tok, seq, kinds)
        PROVE  BoundaryInv'
    BY <1>4 DEF AppendEvents
  <1> QED
    BY <1>1, <1>2, <1>3, <1>4 DEF AuthorizedOperation

LEMMA BoundaryStepOperation ==
    ASSUME TypeOK, BoundaryInv, NEW a \in Attempts, NEW tok,
           StepOperation(a, tok)
    PROVE  BoundaryInv'
  <1> USE DEF BoundaryInv, DispatchBoundary, NoThirdPreDispatchAttempt
  <1>1. ASSUME NEW m \in ModelSteps, StartModelStep(a, tok, m)
        PROVE  BoundaryInv'
    <2>1. command'.status = "dispatched"
      BY <1>1 DEF StartModelStep, TypeOK, CommandRow
    <2>2. steps'[m].status = "started"
      BY <1>1 DEF StartModelStep, TypeOK
    <2> QED
      BY <2>1, <2>2 DEF PreDispatch
  <1>2. ASSUME NEW m \in ModelSteps, steps[m].status = "started",
               UNCHANGED <<command, active>>,
               \/ steps' = [steps EXCEPT ![m].status = "failed"]
               \/ steps' = [steps EXCEPT ![m].status = "terminal"]
        PROVE  BoundaryInv'
    <2>1. /\ \A n \in ModelSteps : steps[n].status # "none" => steps'[n].status # "none"
          /\ command.status \notin {"none"} \cup PreDispatch
      BY <1>2 DEF TypeOK, StepRow
    <2> QED
      BY <1>2, <2>1
  <1>3. ASSUME NEW m \in ModelSteps, FinishModelStep(a, tok, m)
        PROVE  BoundaryInv'
    BY <1>2, <1>3 DEF FinishModelStep
  <1>4. ASSUME NEW m \in ModelSteps, NEW seq, NEW through,
               CommitTerminalModelStep(a, tok, m, seq, through)
        PROVE  BoundaryInv'
    BY <1>2, <1>4 DEF CommitTerminalModelStep
  <1>5. ASSUME NEW seq, NEW through, WriteSnapshot(a, tok, seq, through)
        PROVE  BoundaryInv'
    BY <1>5 DEF WriteSnapshot
  <1> QED
    BY <1>1, <1>3, <1>4, <1>5 DEF StepOperation

LEMMA BoundaryStep ==
    ASSUME TypeOK, BoundaryInv, StoreStep
    PROVE  BoundaryInv'
  <1> USE DEF BoundaryInv, DispatchBoundary, NoThirdPreDispatchAttempt
  <1>1. CASE UNCHANGED <<command, active, steps>>
    BY <1>1
  <1>2. ASSUME NEW a \in Attempts, NEW tok, InvocationOperation(a, tok)
        PROVE  UNCHANGED <<command, active, steps>>
    BY <1>2, InvocationFrame
  <1>3. ASSUME NEW a, NEW tok, NEW seq, NEW kinds, AppendEvents(a, tok, seq, kinds)
        PROVE  UNCHANGED <<command, active, steps>>
    BY <1>3 DEF AppendEvents
  <1>4. Tick \/ (\E a \in Attempts : AcquireLease(a)) \/ UNCHANGED storeVars
           => UNCHANGED <<command, active, steps>>
    BY DEF Tick, AcquireLease, storeVars
  <1> HIDE DEF BoundaryInv
  <1> QED
    BY <1>1, <1>2, <1>3, <1>4, BoundaryCommandOperation,
       BoundaryAuthorizedOperation, BoundaryStepOperation DEF StoreStep

LEMMA BoundaryInit ==
    ASSUME Init
    PROVE  BoundaryInv
  BY DEF Init, BoundaryInv, DispatchBoundary, NoThirdPreDispatchAttempt,
         PreDispatch

\* A Command that still looks safe to dispatch has asked no Provider, and one
\* that says dispatched has, for all callers and legacy writes.
THEOREM DispatchIsHonest == Spec => []DispatchBoundary
  <1>1. TypeOK /\ BoundaryInv /\ [Next]_storeVars => BoundaryInv'
    BY NextIsStoreStep, BoundaryStep
  <1>2. BoundaryInv => DispatchBoundary
    BY DEF BoundaryInv
  <1> QED
    BY <1>1, <1>2, BoundaryInit, TypeCorrect, PTL DEF Spec

\* Before dispatch there are at most two Attempts, however often the safe
\* continuation loses its lease.
THEOREM TwoPreDispatchAttempts == Spec => []NoThirdPreDispatchAttempt
  <1>1. TypeOK /\ BoundaryInv /\ [Next]_storeVars => BoundaryInv'
    BY NextIsStoreStep, BoundaryStep
  <1>2. BoundaryInv => NoThirdPreDispatchAttempt
    BY DEF BoundaryInv
  <1> QED
    BY <1>1, <1>2, BoundaryInit, TypeCorrect, PTL DEF Spec

-----------------------------------------------------------------------------
(* Superseded work *)

\* What has not begun belongs to no Attempt.
Unbegun ==
    /\ \A m \in ModelSteps : steps[m].status = "none" => steps[m].attempt = 0
    /\ \A i \in Invocations :
          invocations[i].status = "none" => invocations[i].attempt = 0

\* An operation on work begins what nobody began, or goes on with what the
\* active Attempt began itself.
LEMMA OnlyOwnWorkMoves ==
    ASSUME TypeOK, Unbegun, StoreStep
    PROVE  /\ \A m \in ModelSteps :
                 \/ steps'[m] = steps[m]
                 \/ /\ steps[m].attempt \in {0, active}
                    /\ steps'[m].status # "none"
                    /\ UNCHANGED active
           /\ \A i \in Invocations :
                 \/ invocations'[i] = invocations[i]
                 \/ /\ invocations[i].attempt \in {0, active}
                    /\ invocations'[i].status # "none"
                    /\ UNCHANGED active
  <1>1. CASE LeavesWork
    BY <1>1 DEF LeavesWork
  <1>2. ASSUME NEW a \in Attempts, NEW tok \in Nat, StepOperation(a, tok),
               UNCHANGED invocations
        PROVE  \A m \in ModelSteps :
                 \/ steps'[m] = steps[m]
                 \/ /\ steps[m].attempt \in {0, active}
                    /\ steps'[m].status # "none"
                    /\ UNCHANGED active
    <2> DEFINE moves == \A m \in ModelSteps :
                 \/ steps'[m] = steps[m]
                 \/ /\ steps[m].attempt \in {0, active}
                    /\ steps'[m].status # "none"
                    /\ UNCHANGED active
    <2>1. ASSUME NEW m \in ModelSteps, NEW status \in {"failed", "terminal"},
                 steps' = [steps EXCEPT ![m].status = status],
                 IsActiveAttempt(a), UNCHANGED active,
                 steps[m] = [status |-> "started", attempt |-> a]
          PROVE  moves
      <3>1. steps'[m].status = status /\ steps[m].attempt = active
        BY <2>1 DEF TypeOK, StepRow, IsActiveAttempt
      <3>2. \A n \in ModelSteps \ {m} : steps'[n] = steps[n]
        BY <2>1 DEF TypeOK
      <3> QED
        BY <2>1, <3>1, <3>2
    <2>2. ASSUME NEW m \in ModelSteps, StartModelStep(a, tok, m)
          PROVE  moves
      <3>1. steps'[m].status = "started" /\ steps[m].attempt = 0
        BY <2>2 DEF StartModelStep, TypeOK, Unbegun
      <3>2. UNCHANGED active /\ \A n \in ModelSteps \ {m} : steps'[n] = steps[n]
        BY <2>2 DEF StartModelStep, TypeOK
      <3> QED
        BY <3>1, <3>2
    <2>3. ASSUME NEW m \in ModelSteps, FinishModelStep(a, tok, m)
          PROVE  moves
      BY <2>1, <2>3 DEF FinishModelStep
    <2>4. ASSUME NEW m \in ModelSteps, NEW seq, NEW through,
                 CommitTerminalModelStep(a, tok, m, seq, through)
          PROVE  moves
      BY <2>1, <2>4 DEF CommitTerminalModelStep
    <2>5. ASSUME NEW seq, NEW through, WriteSnapshot(a, tok, seq, through)
          PROVE  moves
      BY <2>5 DEF WriteSnapshot
    <2> HIDE DEF moves
    <2>6. moves
      BY <1>2, <2>2, <2>3, <2>4, <2>5 DEF StepOperation
    <2> QED
      BY <2>6 DEF moves
  <1>3. ASSUME NEW a \in Attempts, NEW tok \in Nat, InvocationOperation(a, tok)
        PROVE  \A i \in Invocations :
                 \/ invocations'[i] = invocations[i]
                 \/ /\ invocations[i].attempt \in {0, active}
                    /\ invocations'[i].status # "none"
                    /\ UNCHANGED active
    <2> PICK i \in Invocations :
          \/ ReserveInvocation(a, tok, i)
          \/ BeginInvocationExecution(a, tok, i)
          \/ StagePublicToolResultDerivative(a, tok, i)
          \/ \E result \in Results :
                \/ CommitReceipt(a, tok, i, result)
                \/ \E verified \in BOOLEAN, seq \in 0 .. MaxEvents :
                      CommitReceiptWithPublicEvents(a, tok, i, result, verified, seq)
      BY <1>3 DEF InvocationOperation
    <2>1. UNCHANGED active
      BY <1>3, InvocationFrame
    <2>2. \A k \in Invocations \ {i} : invocations'[k] = invocations[k]
      BY DEF TypeOK, ReserveInvocation, BeginInvocationExecution,
             StagePublicToolResultDerivative, CommitReceipt,
             CommitReceiptWithPublicEvents
    <2>3. invocations[i].attempt \in {0, active}
      BY DEF Unbegun, ReserveInvocation, BeginInvocationExecution,
             StagePublicToolResultDerivative, CommitReceipt,
             CommitReceiptWithPublicEvents, IsActiveAttempt
    <2>4. invocations'[i].status # "none"
      BY DEF TypeOK, InvocationRow, Results, ReserveInvocation,
             BeginInvocationExecution, StagePublicToolResultDerivative,
             CommitReceipt, CommitReceiptWithPublicEvents
    <2> QED
      BY <2>1, <2>2, <2>3, <2>4
  <1> QED
    BY <1>1, <1>2, <1>3, WorkStepCases

LEMMA UnbegunStep ==
    ASSUME TypeOK, Unbegun, StoreStep
    PROVE  Unbegun'
  BY OnlyOwnWorkMoves DEF Unbegun

LEMMA UnbegunHolds == Spec => []Unbegun
  <1>1. Init => Unbegun
    BY DEF Init, Unbegun
  <1>2. TypeOK /\ Unbegun /\ [Next]_storeVars => Unbegun'
    BY NextIsStoreStep, UnbegunStep
  <1> QED
    BY <1>1, <1>2, TypeCorrect, PTL DEF Spec

\* What a superseded Attempt left open stays as it was for good.
THEOREM SupersededStaysFrozen == Spec => SupersededWorkIsFrozen
  <1>1. LogInv /\ Unbegun /\ TypeOK' /\ [Next]_storeVars
          => [FreezesSupersededWork]_storeVars
    <2> SUFFICES ASSUME LogInv, Unbegun, TypeOK', [Next]_storeVars
                 PROVE  FreezesSupersededWork
      OBVIOUS
    <2>1. StoreStep /\ TypeOK
      BY NextIsStoreStep DEF LogInv
    <2>2. active \in Nat
      BY <2>1 DEF TypeOK
    <2>3. UNCHANGED active => {0, active} \cap (1 .. active' - 1) = {}
      BY <2>2
    <2> QED
      BY <2>1, <2>3, OnlyOwnWorkMoves DEF FreezesSupersededWork
  <1> QED
    BY <1>1, LogInvHolds, UnbegunHolds, TypeCorrect, PTL
    DEF Spec, SupersededWorkIsFrozen

-----------------------------------------------------------------------------
(* Terminal steps and the history of snapshots *)

\* HistoryMatchesSteps, with a head of the log that exists before any Attempt.
HistoryInv ==
    /\ \A m \in ModelSteps :
          steps[m].status = "terminal" <=>
              \E k \in DOMAIN history : history[k].step = m
    /\ \A j, k \in DOMAIN history :
          /\ history[j].step = history[k].step => j = k
          /\ j < k => history[j].through <= history[k].through
    /\ \A k \in DOMAIN history :
          history[k].step \in ModelSteps /\ history[k].through <= Watermark
    /\ history # <<>> => active # 0

LEMMA HistoryRows ==
    ASSUME TypeOK
    PROVE  /\ DOMAIN history = 1 .. Len(history) /\ Len(history) \in Nat
           /\ \A k \in DOMAIN history : history[k] \in Snapshot
  BY DEF TypeOK

\* One more record, for a step that has none, not behind the last one.
LEMMA HistoryGrows ==
    ASSUME TypeOK, HistoryInv, SnapshotIntegrity, UNCHANGED <<active, lastSeq>>,
           NEW a \in Attempts, NEW m \in ModelSteps, NEW through \in Int,
           active # 0, steps[m].status # "terminal",
           latest.through <= through, through <= Watermark,
           steps' = [steps EXCEPT ![m].status = "terminal"],
           history' = Append(history, [step |-> m, attempt |-> a,
                                       through |-> through])
    PROVE  HistoryInv'
  <1> DEFINE record == [step |-> m, attempt |-> a, through |-> through]
             n == Len(history)
  <1>1. /\ history \in Seq(Snapshot) /\ record \in Snapshot /\ n \in Nat
        /\ DOMAIN history = 1 .. n
    BY BoundsAssumption DEF TypeOK, Snapshot, Attempts
  <1>2. /\ Len(history') = n + 1 /\ history' # <<>>
        /\ DOMAIN history' = 1 .. n + 1
        /\ \A k \in 1 .. n : history'[k] = history[k]
        /\ history'[n + 1] = record
    BY <1>1, AppendProperties
  <1>3. \A k \in 1 .. n : history[k] \in Snapshot
    BY <1>1
  <1>4. \A k \in 1 .. n : history[k].step # m
    BY <1>1 DEF HistoryInv
  <1>5. \A k \in 1 .. n : history[k].through <= through
    <2> SUFFICES ASSUME NEW k \in 1 .. n
                 PROVE  history[k].through <= through
      OBVIOUS
    <2>1. n \in 1 .. n /\ history # <<>>
      BY <1>1
    <2>2. latest = history[n]
      BY <2>1 DEF SnapshotIntegrity
    <2>3. k = n \/ k < n
      BY <1>1
    <2>4. history[k].through <= history[n].through
      BY <1>1, <1>3, <2>1, <2>3 DEF HistoryInv, Snapshot
    <2> QED
      BY <1>3, <2>1, <2>2, <2>4 DEF Snapshot
  <1>6. \A x \in ModelSteps :
           steps'[x].status = IF x = m THEN "terminal" ELSE steps[x].status
    BY DEF TypeOK, StepRow
  <1> HIDE DEF n
  <1>7. \A x \in ModelSteps :
           steps'[x].status = "terminal" <=>
              \E k \in 1 .. n + 1 : history'[k].step = x
    <2> SUFFICES ASSUME NEW x \in ModelSteps
                 PROVE  steps'[x].status = "terminal" <=>
                           \E k \in 1 .. n + 1 : history'[k].step = x
      OBVIOUS
    <2>1. CASE x = m
      <3>1. n + 1 \in 1 .. n + 1 /\ history'[n + 1].step = m
        BY <1>1, <1>2
      <3> QED
        BY <1>6, <2>1, <3>1
    <2>2. CASE x # m
      <3>1. steps'[x].status = "terminal" <=> \E k \in 1 .. n : history[k].step = x
        BY <1>1, <1>6, <2>2 DEF HistoryInv
      <3>2. \A k \in 1 .. n + 1 : k \in 1 .. n \/ k = n + 1
        BY <1>1
      <3>3. \A k \in 1 .. n : k \in 1 .. n + 1
        BY <1>1
      <3>4. history'[n + 1].step # x
        BY <1>2, <2>2
      <3> QED
        BY <1>2, <3>1, <3>2, <3>3, <3>4
    <2> QED
      BY <2>1, <2>2
  <1>8. \A j, k \in 1 .. n + 1 :
           /\ history'[j].step = history'[k].step => j = k
           /\ j < k => history'[j].through <= history'[k].through
    <2> SUFFICES ASSUME NEW j \in 1 .. n + 1, NEW k \in 1 .. n + 1
                 PROVE  /\ history'[j].step = history'[k].step => j = k
                        /\ j < k => history'[j].through <= history'[k].through
      OBVIOUS
    <2>1. (j \in 1 .. n \/ j = n + 1) /\ (k \in 1 .. n \/ k = n + 1)
      BY <1>1
    <2>2. CASE j \in 1 .. n /\ k \in 1 .. n
      BY <1>1, <1>2, <2>2 DEF HistoryInv
    <2>3. CASE j \in 1 .. n /\ k = n + 1
      BY <1>2, <1>4, <1>5, <2>3
    <2>4. CASE j = n + 1 /\ k \in 1 .. n
      BY <1>1, <1>2, <1>4, <2>4
    <2>5. CASE j = n + 1 /\ k = n + 1
      BY <1>1, <2>5
    <2> QED
      BY <2>1, <2>2, <2>3, <2>4, <2>5
  <1>9. Watermark' = Watermark
    BY DEF Watermark
  <1>10. \A k \in 1 .. n + 1 :
            history'[k].step \in ModelSteps /\ history'[k].through <= Watermark'
    <2>1. \A k \in 1 .. n + 1 : k \in 1 .. n \/ k = n + 1
      BY <1>1
    <2> QED
      BY <1>1, <1>2, <1>9, <2>1 DEF HistoryInv
  <1> QED
    BY <1>2, <1>7, <1>8, <1>10 DEF HistoryInv

LEMMA HistoryInvStep ==
    ASSUME LogInv, TypeOK', HistoryInv, StoreStep
    PROVE  HistoryInv'
  <1>1. /\ TypeOK /\ active \in Nat /\ active' \in Nat
        /\ Watermark \in Nat /\ Watermark' \in Nat
    BY DEF LogInv, TypeOK, Watermark, Attempts
  <1>2. active <= active' /\ Watermark <= Watermark'
    BY LogGrows
  <1>3. ASSUME UNCHANGED history,
               \A m \in ModelSteps :
                  steps'[m].status = "terminal" <=> steps[m].status = "terminal"
        PROVE  HistoryInv'
    <2>1. \A k \in DOMAIN history : history[k].through \in Int
      BY <1>1, HistoryRows DEF Snapshot
    <2> QED
      BY <1>1, <1>2, <1>3, <2>1 DEF HistoryInv
  <1>4. CASE LeavesWork
    BY <1>3, <1>4 DEF LeavesWork
  <1>5. ASSUME NEW a \in Attempts, NEW tok \in Nat, StepOperation(a, tok)
        PROVE  HistoryInv'
    <2>1. ASSUME NEW m \in ModelSteps, StartModelStep(a, tok, m)
          PROVE  HistoryInv'
      BY <1>1, <1>3, <2>1 DEF StartModelStep, TypeOK
    <2>2. ASSUME NEW m \in ModelSteps, FinishModelStep(a, tok, m)
          PROVE  HistoryInv'
      <3>1. \A x \in ModelSteps :
               steps'[x].status = "terminal" <=> steps[x].status = "terminal"
        BY <1>1, <2>2 DEF FinishModelStep, TypeOK
      <3> QED
        BY <1>3, <2>2, <3>1 DEF FinishModelStep
    <2>3. ASSUME NEW m \in ModelSteps, NEW seq \in 0 .. MaxEvents,
                 NEW through \in 0 .. MaxEvents,
                 CommitTerminalModelStep(a, tok, m, seq, through)
          PROVE  HistoryInv'
      <3>1. a # 0 /\ active = a
        BY <2>3, BoundsAssumption
        DEF CommitTerminalModelStep, IsActiveAttempt, Attempts
      <3>2. seq \in Int /\ through \in Int /\ through <= Watermark
        BY <2>3, <3>1, BoundsAssumption DEF CommitTerminalModelStep, Watermark
      <3>3. steps[m].status # "terminal"
        BY <2>3 DEF CommitTerminalModelStep
      <3> QED
        BY <1>1, <2>3, <3>1, <3>2, <3>3, HistoryGrows DEF CommitTerminalModelStep
    <2>4. ASSUME NEW seq, NEW through, WriteSnapshot(a, tok, seq, through)
          PROVE  HistoryInv'
      BY <1>3, <2>4 DEF WriteSnapshot
    <2> QED
      BY <1>5, <2>1, <2>2, <2>3, <2>4 DEF StepOperation
  <1>6. ASSUME UNCHANGED <<steps, history>>
        PROVE  HistoryInv'
    BY <1>3, <1>6
  <1> QED
    BY <1>4, <1>5, <1>6, WorkStepCases

LEMMA HistoryInvInit ==
    ASSUME Init
    PROVE  HistoryInv
  BY DEF Init, HistoryInv

LEMMA HistoryInvHolds == Spec => []HistoryInv
  <1>1. LogInv /\ TypeOK' /\ HistoryInv /\ [Next]_storeVars => HistoryInv'
    BY NextIsStoreStep, HistoryInvStep DEF LogInv
  <1> QED
    BY <1>1, HistoryInvInit, LogInvHolds, TypeCorrect, PTL DEF Spec

\* Each terminal step has one history record, and the history follows the log.
THEOREM HistoryIsExact == Spec => []HistoryMatchesSteps
  <1>1. TypeOK /\ HistoryInv => HistoryMatchesSteps
    BY DEF HistoryInv, HistoryMatchesSteps, Watermark
  <1> QED
    BY <1>1, HistoryInvHolds, TypeCorrect, PTL

LEMMA SnapshotStep ==
    ASSUME ~LegacyPort, TypeOK, HistoryInv, SnapshotIntegrity, StoreStep
    PROVE  SnapshotIntegrity'
  <1>1. ASSUME UNCHANGED <<history, latest>>,
               \A m \in ModelSteps :
                  steps[m].status = "terminal" => steps'[m].status = "terminal"
        PROVE  SnapshotIntegrity'
    BY <1>1 DEF SnapshotIntegrity, HistoryInv
  <1>2. ASSUME NEW a \in Attempts, NEW tok \in Nat, StepOperation(a, tok)
        PROVE  SnapshotIntegrity'
    <2>1. ASSUME NEW m \in ModelSteps, StartModelStep(a, tok, m)
          PROVE  SnapshotIntegrity'
      BY <1>1, <2>1 DEF StartModelStep, TypeOK
    <2>2. ASSUME NEW m \in ModelSteps, FinishModelStep(a, tok, m)
          PROVE  SnapshotIntegrity'
      <3>1. \A x \in ModelSteps :
               steps[x].status = "terminal" => steps'[x].status = "terminal"
        BY <2>2 DEF FinishModelStep, TypeOK
      <3> QED
        BY <1>1, <2>2, <3>1 DEF FinishModelStep
    <2>3. ASSUME NEW m \in ModelSteps, NEW seq \in 0 .. MaxEvents,
                 NEW through \in 0 .. MaxEvents,
                 CommitTerminalModelStep(a, tok, m, seq, through)
          PROVE  SnapshotIntegrity'
      <3> DEFINE record == [step |-> m, attempt |-> a, through |-> through]
      <3>1. /\ history' = Append(history, record) /\ latest' = record
            /\ steps' = [steps EXCEPT ![m].status = "terminal"]
        BY <2>3 DEF CommitTerminalModelStep
      <3>2. history \in Seq(Snapshot) /\ record \in Snapshot
        BY BoundsAssumption DEF TypeOK, Snapshot, Attempts
      <3>3. /\ history' # <<>> /\ history'[Len(history')] = record
            /\ DOMAIN history' = 1 .. Len(history) + 1
            /\ \A k \in 1 .. Len(history) : history'[k] = history[k]
            /\ history'[Len(history) + 1] = record
        BY <3>1, <3>2, AppendProperties
      <3>4. \A k \in DOMAIN history' : steps'[history'[k].step].status = "terminal"
        <4>1. steps'[m].status = "terminal"
          BY <3>1 DEF TypeOK, StepRow
        <4>2. \A k \in 1 .. Len(history) :
                 /\ history[k].step \in ModelSteps
                 /\ steps[history[k].step].status = "terminal"
          <5>1. \A k \in 1 .. Len(history) : k \in DOMAIN history
            BY HistoryRows
          <5> QED
            BY <5>1 DEF HistoryInv
        <4> QED
          BY <3>1, <3>3, <4>1, <4>2 DEF TypeOK
      <3> QED
        BY <3>1, <3>3, <3>4 DEF SnapshotIntegrity
    <2> QED
      BY <1>2, <2>1, <2>2, <2>3 DEF StepOperation, WriteSnapshot
  <1>3. ASSUME UNCHANGED <<steps, history, latest>>
        PROVE  SnapshotIntegrity'
    BY <1>1, <1>3
  <1> QED
    BY <1>2, <1>3, WorkStepCases DEF LeavesWork

\* Without the legacy writes the newest history record is the latest snapshot
\* and binds a terminal step: no reader meets snapshot_integrity_conflict.
THEOREM SnapshotIsHistory ==
    ASSUME ~LegacyPort
    PROVE  Spec => []SnapshotIntegrity
  <1>1. Init => SnapshotIntegrity
    BY DEF Init, SnapshotIntegrity
  <1>2. TypeOK /\ HistoryInv /\ SnapshotIntegrity /\ [Next]_storeVars
          => SnapshotIntegrity'
    BY NextIsStoreStep, SnapshotStep
  <1> QED
    BY <1>1, <1>2, TypeCorrect, HistoryInvHolds, PTL DEF Spec

-----------------------------------------------------------------------------
(* Receipts *)

\* What a step does to the reservations: nothing, one step on the way to a
\* receipt, or the receipt itself with the rows it binds.
Advances(i) ==
    /\ invocations[i].status \notin Results
    /\ \A k \in Invocations \ {i} : invocations'[k] = invocations[k]
    /\ invocations'[i].status \notin Results
    /\ invocations'[i].bound = invocations[i].bound

Binds(i) ==
    /\ invocations[i].status \notin Results
    /\ \A k \in Invocations \ {i} : invocations'[k] = invocations[k]
    /\ invocations'[i].status \in Results
    /\ invocations'[i].bound # {}
    /\ \A e \in invocations'[i].bound :
          /\ e \in events' /\ e \notin events
          /\ e.attempt = invocations'[i].attempt

LEMMA ReceiptCases ==
    ASSUME ~LegacyPort, TypeOK, StoreStep
    PROVE  \/ UNCHANGED invocations
           \/ \E i \in Invocations : Advances(i) \/ Binds(i)
  <1>1. ASSUME NEW a \in Attempts, NEW tok \in Nat, NEW i \in Invocations,
               \/ ReserveInvocation(a, tok, i)
               \/ BeginInvocationExecution(a, tok, i)
               \/ StagePublicToolResultDerivative(a, tok, i)
        PROVE  Advances(i)
    BY <1>1
    DEF ReserveInvocation, BeginInvocationExecution,
        StagePublicToolResultDerivative, Advances, TypeOK, InvocationRow, Results
  <1>2. ASSUME NEW a \in Attempts, NEW tok \in Nat, NEW i \in Invocations,
               NEW result \in Results, NEW verified \in BOOLEAN,
               NEW seq \in 0 .. MaxEvents,
               CommitReceiptWithPublicEvents(a, tok, i, result, verified, seq)
        PROVE  Binds(i)
    <2>1. PICK kinds \in Seq(Kinds) :
             /\ Len(kinds) # 0
             /\ NoClash(NewRows(a, seq, kinds))
             /\ events' = events \cup NewRows(a, seq, kinds)
             /\ invocations' = [invocations EXCEPT
                   ![i].status = result, ![i].bound = NewRows(a, seq, kinds)]
      <3>1. CASE verified
        <4>1. Len(<<"tool_result_presented", "verification_updated">>) # 0
          OBVIOUS
        <4> QED
          BY <1>2, <3>1, <4>1, KnownKinds DEF CommitReceiptWithPublicEvents
      <3>2. CASE ~verified
        <4>1. Len(<<"tool_result_presented">>) # 0
          OBVIOUS
        <4> QED
          BY <1>2, <3>2, <4>1, KnownKinds DEF CommitReceiptWithPublicEvents
      <3> QED
        BY <3>1, <3>2
    <2> DEFINE rows == NewRows(a, seq, kinds)
    <2>2. seq \in Nat /\ invocations[i].attempt = a
          /\ invocations[i].status \notin Results
      BY <1>2, BoundsAssumption DEF CommitReceiptWithPublicEvents, Results
    <2>3. rows # {} /\ \A e \in rows : e.attempt = a
      <3>1. /\ {e.seq : e \in rows} = seq + 1 .. seq + Len(kinds)
            /\ \A e \in rows : e.attempt = a
        BY <2>2, NewRowsFacts
      <3>2. seq + 1 \in seq + 1 .. seq + Len(kinds)
        BY <2>1, <2>2
      <3> HIDE DEF rows
      <3> QED
        BY <3>1, <3>2
    <2>4. \A e \in rows : e \notin events
      BY <2>1 DEF NoClash
    <2> HIDE DEF rows
    <2>5. /\ invocations'[i].status = result /\ invocations'[i].bound = rows
          /\ invocations'[i].attempt = a
          /\ \A k \in Invocations \ {i} : invocations'[k] = invocations[k]
          /\ events' = events \cup rows
      BY <2>1, <2>2 DEF TypeOK, InvocationRow, rows
    <2> QED
      BY <2>2, <2>3, <2>4, <2>5 DEF Binds
  <1>3. ASSUME NEW a \in Attempts, NEW tok \in Nat, InvocationOperation(a, tok)
        PROVE  \E i \in Invocations : Advances(i) \/ Binds(i)
    BY <1>1, <1>2, <1>3 DEF InvocationOperation, CommitReceipt
  <1> QED
    BY <1>3, WorkStepCases DEF LeavesWork

LEMMA ReceiptsStep ==
    ASSUME ~LegacyPort, LogInv, TypeOK', ReceiptsOwnTheirEvents, StoreStep
    PROVE  ReceiptsOwnTheirEvents'
  <1>1. TypeOK /\ events \subseteq events'
    BY LogGrows DEF LogInv
  <1>2. CASE UNCHANGED invocations
    BY <1>1, <1>2 DEF ReceiptsOwnTheirEvents
  <1>3. ASSUME NEW i \in Invocations, Advances(i) \/ Binds(i)
        PROVE  ReceiptsOwnTheirEvents'
    <2>1. \A k \in Invocations \ {i} : invocations'[k] = invocations[k]
      BY <1>3 DEF Advances, Binds
    <2>2. invocations[i].bound = {}
      BY <1>3 DEF Advances, Binds, ReceiptsOwnTheirEvents
    <2>3. /\ invocations'[i].status \in Results <=> invocations'[i].bound # {}
          /\ \A e \in invocations'[i].bound :
                /\ e \in events' /\ e \notin events
                /\ e.attempt = invocations'[i].attempt
      BY <1>3, <2>2 DEF Advances, Binds
    <2> QED
      BY <1>1, <2>1, <2>3 DEF ReceiptsOwnTheirEvents
  <1> QED
    BY <1>1, <1>2, <1>3, ReceiptCases

\* Without the legacy receipts a settled tool call, its receipt and its public
\* events are one fact: the rows are in the log, by the Attempt that made the
\* call, and belong to no other receipt.
THEOREM ReceiptsAreWhole ==
    ASSUME ~LegacyPort
    PROVE  Spec => []ReceiptsOwnTheirEvents
  <1>1. Init => ReceiptsOwnTheirEvents
    BY DEF Init, ReceiptsOwnTheirEvents, Results
  <1>2. LogInv /\ TypeOK' /\ ReceiptsOwnTheirEvents /\ [Next]_storeVars
          => ReceiptsOwnTheirEvents'
    BY NextIsStoreStep, ReceiptsStep DEF LogInv
  <1> QED
    BY <1>1, <1>2, TypeCorrect, LogInvHolds, PTL DEF Spec
=============================================================================
