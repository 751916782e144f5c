-------------------------- MODULE MemoryStoreProofs --------------------------
(***************************************************************************)
(* Proofs about MemoryStore: the Maps that keep one fact twice agree, in   *)
(* every state between two calls, whichever hook throws; and every call of *)
(* the adapter is a call of the SQLite store or writes nothing.            *)
(*                                                                         *)
(* MemInv has one part for each group of Maps that a method writes         *)
(* together; Only says which Maps a method leaves alone, so that a proof   *)
(* about a method looks at the part it writes.                             *)
(***************************************************************************)
EXTENDS MemoryStore, SequenceTheorems, WellFoundedInduction, TLAPS

-----------------------------------------------------------------------------
(* Numbers *)

\* A set of numbers below a bound has a greatest.
LEMMA BoundedHasMax ==
    ASSUME NEW S \in SUBSET Nat, S # {}, NEW b \in Nat, \A x \in S : x <= b
    PROVE  Max(S) \in S /\ \A x \in S : Max(S) >= x
  <1> DEFINE Above == {n \in Nat : \A x \in S : x <= n}
  <1>1. Above \subseteq Nat /\ Above # {}
    OBVIOUS
  <1>2. PICK n \in Above : \A m \in Above : ~(<<m, n>> \in OpToRel(<, Nat))
    <2> HIDE DEF Above
    <2> QED
      BY <1>1, NatLessThanWellFounded, WFMin
  <1>3. \A m \in Above : ~(m < n)
    BY <1>1, <1>2 DEF OpToRel
  <1>4. n \in S
    <2> SUFFICES ASSUME n \notin S PROVE FALSE
      OBVIOUS
    <2>1. PICK x \in S : TRUE
      OBVIOUS
    <2>2. \A y \in S : y < n
      <3>1. n \in Nat /\ \A y \in S : y \in Nat /\ y <= n /\ y # n
        OBVIOUS
      <3> HIDE DEF Above
      <3> QED
        BY <3>1
    <2>3. n - 1 \in Above
      BY <2>1, <2>2
    <2> QED
      BY <1>3, <2>3
  <1>5. \E m \in S : \A x \in S : m >= x
    BY <1>2, <1>4
  <1> QED
    BY <1>5 DEF Max

LEMMA MaxOfTwo ==
    ASSUME NEW a \in Int, NEW b \in Int
    PROVE  Max({a, b}) = IF a >= b THEN a ELSE b
  <1> DEFINE most == IF a >= b THEN a ELSE b
  <1>1. most \in {a, b} /\ \A y \in {a, b} : most >= y
    OBVIOUS
  <1>2. \A x \in {a, b} : (\A y \in {a, b} : x >= y) => x = most
    OBVIOUS
  <1> QED
    BY <1>1, <1>2 DEF Max

-----------------------------------------------------------------------------
(* The invariant *)

LogMaps == {"commands", "active", "attempts", "leases", "events"}
StepMaps == {"modelSteps", "snapshots", "terminalSnapshotHistory",
             "terminalModelStepResults"}
CallMaps == {"reservations", "invocations", "receipts", "receiptByReservation",
             "receiptPublicEventBindings", "staged"}
MapNames == LogMaps \cup StepMaps \cup CallMaps \cup {"artifacts"}

Row == [seq : Nat, attempt : Attempts, kind : Store!Kinds]
CallStatus == {"none", "reserved", "executing"} \cup ReceiptStatuses

\* The log is the array, in the order of its sequences, and as long as the
\* watermark of the active Attempt, which is the only one that may have a lease.
LogOK ==
    /\ DOMAIN db.commands = {"status", "outcome"}
    /\ db.commands.status = "none" => db.active = 0 /\ db.commands.outcome = "none"
    /\ db.active \in 0 .. MaxAttempts
    /\ db.attempts \in [Attempts -> Nat]
    /\ db.leases \in [Attempts -> [token : Nat, left : Nat]]
    /\ db.events \in Seq(Row)
    /\ \A k \in DOMAIN db.events : db.events[k].seq = k
    /\ db.active = 0 => db.events = <<>> /\ \A a \in Attempts : db.attempts[a] = 0
    /\ db.active # 0 => db.attempts[db.active] = Len(db.events)
    /\ \A a \in Attempts : db.leases[a].left # 0 => a = db.active

\* The ordinals of a history are 1 .. last.
NumberedTo(records, last) ==
    /\ \A s \in SnapshotIds : records[s].ordinal <= last
    /\ \A k \in 1 .. last : \E s \in SnapshotIds : records[s].ordinal = k

\* A terminal checkpoint has its result row and its artifact, and the history
\* numbers its records without a gap.
StepsOK ==
    /\ db.modelSteps \in [ModelSteps ->
                             [status : {"none", "started", "terminal", "failed"},
                              attempt : 0 .. MaxAttempts]]
    /\ DOMAIN db.terminalSnapshotHistory = SnapshotIds
    /\ DOMAIN db.terminalModelStepResults = ModelSteps
    /\ \A s \in SnapshotIds : db.terminalSnapshotHistory[s].ordinal \in Nat
    /\ \A s, t \in Histories :
          db.terminalSnapshotHistory[s].ordinal
              = db.terminalSnapshotHistory[t].ordinal => s = t
    /\ \E last \in Nat : NumberedTo(db.terminalSnapshotHistory, last)
    /\ \A s \in Histories :
          LET m == db.terminalSnapshotHistory[s].snapshot.step IN
          m \in ModelSteps /\ db.modelSteps[m].status = "terminal"
    /\ \A m \in Rows : db.terminalModelStepResults[m].snapshotId \in SnapshotIds
    /\ \A m \in ModelSteps :
          /\ db.modelSteps[m].status = "terminal" <=> m \in Rows
          /\ m \in Rows <=> m \in db.artifacts

\* Reservation, invocation, receipt, its index and its binding are one fact.
CallsOK ==
    /\ db.reservations \in [Invocations -> [status : CallStatus,
                                            attempt : 0 .. MaxAttempts]]
    /\ db.invocations = db.reservations
    /\ DOMAIN db.receipts = ReceiptIds
    /\ db.receiptByReservation \in [Invocations -> ReceiptIds \cup {NoReceipt}]
    /\ DOMAIN db.receiptPublicEventBindings = Invocations
    /\ \A i \in Invocations :
          LET r == db.receiptByReservation[i] IN
          /\ db.reservations[i].status \in ReceiptStatuses <=> r # NoReceipt
          /\ r # NoReceipt =>
                db.receipts[r] = Receipt(db.reservations[i].attempt, i,
                                         db.reservations[i].status)
          /\ r = NoReceipt => db.receiptPublicEventBindings[i] = NoBinding
    /\ \A r \in ReceiptIds : db.receipts[r] # Absent =>
          /\ db.receipts[r].of \in Invocations
          /\ db.receiptByReservation[db.receipts[r].of] = r

LEMMA OpenStatuses == ReceiptStatuses \cap {"none", "reserved", "executing"} = {}
  BY MemoryAssumption DEF Store!Results

\* A binding keeps rows that are in the log, where it says.
BindingOK(i) ==
    LET binding == db.receiptPublicEventBindings[i] IN
    /\ binding # NoBinding => binding.receipt = db.receiptByReservation[i]
    /\ binding.expected \in Nat
    /\ binding.events \in Seq(Row)
    /\ binding.expected + Len(binding.events) <= Len(db.events)
    /\ \A k \in DOMAIN binding.events :
          db.events[binding.expected + k] = binding.events[k]

ArtifactsOK == db.staged = db.artifacts \cap Invocations

MemInv ==
    /\ DOMAIN db = MapNames
    /\ leaseSequence \in Nat
    /\ LogOK
    /\ StepsOK
    /\ CallsOK
    /\ \A i \in Invocations : BindingOK(i)
    /\ ArtifactsOK

LEMMA MemInvInit == Init => MemInv
  <1> SUFFICES ASSUME Init PROVE MemInv
    OBVIOUS
  <1>1. DOMAIN db = MapNames /\ leaseSequence \in Nat
    BY DEF Init, MapNames, LogMaps, StepMaps, CallMaps
  <1>2. LogOK
    BY MemoryAssumption DEF Init, LogOK, Attempts
  <1>3. StepsOK
    <2>1. Rows = {} /\ Histories = {} /\ db.artifacts = {}
      BY DEF Init, Rows, Histories
    <2>2. \A m \in ModelSteps : db.modelSteps[m].status = "none"
      BY DEF Init, Absent
    <2>3. NumberedTo(db.terminalSnapshotHistory, 0)
      BY DEF Init, NumberedTo
    <2> QED
      BY <2>1, <2>2, <2>3, MemoryAssumption DEF Init, StepsOK, Absent
  <1>4. CallsOK
    BY MemoryAssumption, OpenStatuses DEF Init, CallsOK, CallStatus, Absent
  <1>5. \A i \in Invocations : BindingOK(i)
    <2>1. /\ \A i \in Invocations : db.receiptPublicEventBindings[i] = NoBinding
          /\ db.events = <<>>
      BY DEF Init
    <2>2. /\ NoBinding.expected = 0 /\ NoBinding.events = <<>>
          /\ <<>> \in Seq(Row) /\ Len(<<>>) = 0 /\ DOMAIN <<>> = {}
      BY DEF NoBinding
    <2> TAKE i \in Invocations
    <2> DEFINE binding == db.receiptPublicEventBindings[i]
    <2>3. binding = NoBinding
      BY <2>1
    <2> HIDE DEF binding
    <2>4. binding.expected = 0 /\ binding.events = <<>>
      BY <2>2, <2>3
    <2>5. /\ binding.expected \in Nat /\ binding.events \in Seq(Row)
          /\ binding.expected + Len(binding.events) <= Len(db.events)
      BY <2>1, <2>2, <2>4
    <2>6. \A k \in DOMAIN binding.events :
             db.events[binding.expected + k] = binding.events[k]
      BY <2>2, <2>4
    <2> QED
      BY <2>3, <2>5, <2>6 DEF BindingOK, binding
  <1>6. ArtifactsOK
    BY DEF Init, ArtifactsOK
  <1> QED
    BY <1>1, <1>2, <1>3, <1>4, <1>5, <1>6 DEF MemInv

LEMMA MemInvAgrees == MemInv => MapsAgree
  <1> SUFFICES ASSUME MemInv PROVE MapsAgree
    OBVIOUS
  <1>1. db.reservations = db.invocations
    BY DEF MemInv, CallsOK
  <1>2. ASSUME NEW i \in Invocations
        PROVE  LET r == db.receiptByReservation[i]
                   binding == db.receiptPublicEventBindings[i] IN
               /\ db.reservations[i].status \in ReceiptStatuses <=> r # NoReceipt
               /\ r # NoReceipt =>
                     db.receipts[r] = Receipt(db.reservations[i].attempt, i,
                                              db.reservations[i].status)
               /\ binding # NoBinding =>
                     /\ binding.receipt = r
                     /\ \A k \in DOMAIN binding.events :
                           db.events[binding.expected + k] = binding.events[k]
    BY DEF MemInv, CallsOK, BindingOK
  <1>3. \A r \in ReceiptIds : db.receipts[r] # Absent =>
           db.receiptByReservation[db.receipts[r].of] = r
    BY DEF MemInv, CallsOK
  <1>4. \A m \in ModelSteps :
           /\ db.modelSteps[m].status = "terminal" <=> m \in Rows
           /\ m \in Rows <=> m \in db.artifacts
    BY DEF MemInv, StepsOK
  <1>5. db.staged = db.artifacts \cap Invocations
    BY DEF MemInv, ArtifactsOK
  <1>6. \A k \in DOMAIN db.events : db.events[k].seq = k
    BY DEF MemInv, LogOK
  <1> QED
    BY <1>1, <1>2, <1>3, <1>4, <1>5, <1>6 DEF MapsAgree

-----------------------------------------------------------------------------
(* What a method leaves alone *)

\* Only these Maps may change.
Only(maps) ==
    /\ DOMAIN db' = MapNames
    /\ \A map \in MapNames \ maps : db'[map] = db[map]

\* The log keeps its rows.
LogGrows ==
    /\ Len(db.events) <= Len(db'.events)
    /\ \A k \in 1 .. Len(db.events) : db'.events[k] = db.events[k]

LEMMA StepsStay ==
    ASSUME StepsOK, NEW maps, Only(maps), maps \cap StepMaps = {},
           \A m \in ModelSteps : m \in db'.artifacts <=> m \in db.artifacts
    PROVE  StepsOK'
  <1>1. /\ db'.modelSteps = db.modelSteps
        /\ db'.terminalSnapshotHistory = db.terminalSnapshotHistory
        /\ db'.terminalModelStepResults = db.terminalModelStepResults
    BY DEF Only, StepMaps, MapNames
  <1> QED
    BY <1>1 DEF StepsOK, Rows, Histories

LEMMA CallsStay ==
    ASSUME CallsOK, NEW maps, Only(maps), maps \cap CallMaps = {}
    PROVE  CallsOK'
  <1>1. /\ db'.reservations = db.reservations
        /\ db'.invocations = db.invocations
        /\ db'.receipts = db.receipts
        /\ db'.receiptByReservation = db.receiptByReservation
        /\ db'.receiptPublicEventBindings = db.receiptPublicEventBindings
    BY DEF Only, CallMaps, MapNames
  <1> QED
    BY <1>1 DEF CallsOK

LEMMA BindingStays ==
    ASSUME NEW i \in Invocations, BindingOK(i), LogGrows,
           db.events \in Seq(Row), db'.events \in Seq(Row),
           db'.receiptByReservation[i] = db.receiptByReservation[i],
           db'.receiptPublicEventBindings[i] = db.receiptPublicEventBindings[i]
    PROVE  BindingOK(i)'
  <1> DEFINE binding == db.receiptPublicEventBindings[i]
             expected == binding.expected
             rows == binding.events
  <1>1. /\ binding # NoBinding => binding.receipt = db.receiptByReservation[i]
        /\ expected \in Nat /\ rows \in Seq(Row)
        /\ expected + Len(rows) <= Len(db.events)
        /\ \A k \in DOMAIN rows : db.events[expected + k] = rows[k]
    BY DEF BindingOK
  <1> HIDE DEF expected, rows
  <1>2. expected + Len(rows) <= Len(db'.events)
    BY <1>1 DEF LogGrows
  <1>3. \A k \in DOMAIN rows : db'.events[expected + k] = rows[k]
    <2> TAKE k \in DOMAIN rows
    <2>1. expected + k \in 1 .. Len(db.events)
      BY <1>1
    <2> QED
      BY <1>1, <2>1 DEF LogGrows
  <1> QED
    BY <1>1, <1>2, <1>3 DEF BindingOK, expected, rows

\* A method of the Command, the lease or the log.
LEMMA LogMethodKeeps ==
    ASSUME MemInv, NEW maps, maps \subseteq LogMaps, Only(maps), LogGrows, LogOK',
           leaseSequence' \in Nat
    PROVE  MemInv'
  <1>1. /\ maps \cap StepMaps = {} /\ maps \cap CallMaps = {}
        /\ db'.artifacts = db.artifacts /\ db'.staged = db.staged
        /\ db'.receiptByReservation = db.receiptByReservation
        /\ db'.receiptPublicEventBindings = db.receiptPublicEventBindings
    BY DEF Only, LogMaps, StepMaps, CallMaps, MapNames
  <1>2. StepsOK' /\ CallsOK'
    BY <1>1, StepsStay, CallsStay DEF MemInv
  <1>3. \A i \in Invocations : BindingOK(i)'
    BY <1>1, BindingStays DEF MemInv, LogOK
  <1>4. ArtifactsOK'
    BY <1>1 DEF MemInv, ArtifactsOK
  <1>5. DOMAIN db' = MapNames
    BY DEF Only
  <1> QED
    BY <1>2, <1>3, <1>4, <1>5 DEF MemInv

\* A failed hook whose writes are all put back.
LEMMA NothingWritten ==
    ASSUME MemInv, Only({}), leaseSequence' = leaseSequence
    PROVE  MemInv'
  <1>1. \A map \in MapNames : db'[map] = db[map]
    BY DEF Only
  <1>2. /\ db'.commands = db.commands /\ db'.active = db.active
        /\ db'.attempts = db.attempts /\ db'.leases = db.leases
        /\ db'.events = db.events
    BY <1>1 DEF MapNames, LogMaps
  <1>3. LogOK'
    BY <1>2 DEF MemInv, LogOK
  <1>4. LogGrows
    BY <1>2 DEF MemInv, LogOK, LogGrows
  <1> QED
    BY <1>3, <1>4, LogMethodKeeps DEF MemInv

-----------------------------------------------------------------------------
(* Command, leases and log *)

LEMMA StoredRows ==
    ASSUME NEW a \in Attempts, NEW from \in Nat, NEW kinds \in Seq(Store!Kinds)
    PROVE  /\ Stored(a, from, kinds) \in Seq(Row)
           /\ Len(Stored(a, from, kinds)) = Len(kinds)
           /\ \A k \in 1 .. Len(kinds) : Stored(a, from, kinds)[k].seq = from + k
  <1> DEFINE rows == Stored(a, from, kinds)
             n == Len(kinds)
  <1>1. DOMAIN kinds = 1 .. n /\ n \in Nat
    OBVIOUS
  <1>2. \A k \in 1 .. n : /\ kinds[k] \in Store!Kinds
                          /\ from + k \in Nat
    OBVIOUS
  <1>3. rows = [k \in 1 .. n |-> [seq |-> from + k, attempt |-> a,
                                 kind |-> kinds[k]]]
    BY <1>1 DEF Stored
  <1> HIDE DEF rows, n
  <1>4. \A k \in 1 .. n : rows[k] \in Row /\ rows[k].seq = from + k
    BY <1>2, <1>3 DEF Row
  <1>5. rows \in [1 .. n -> Row]
    BY <1>3, <1>4
  <1>6. rows \in Seq(Row) /\ Len(rows) = n
    BY <1>1, <1>5
  <1> QED
    BY <1>4, <1>6 DEF rows, n

\* The array with a batch after it.
LEMMA Extended ==
    ASSUME NEW log \in Seq(Row), NEW rows \in Seq(Row),
           \A k \in DOMAIN log : log[k].seq = k,
           \A k \in 1 .. Len(rows) : rows[k].seq = Len(log) + k
    PROVE  /\ log \o rows \in Seq(Row)
           /\ Len(log \o rows) = Len(log) + Len(rows)
           /\ \A k \in 1 .. Len(log) : (log \o rows)[k] = log[k]
           /\ \A k \in 1 .. Len(rows) : (log \o rows)[Len(log) + k] = rows[k]
           /\ \A k \in DOMAIN (log \o rows) : (log \o rows)[k].seq = k
  <1>1. /\ log \o rows \in Seq(Row)
        /\ Len(log \o rows) = Len(log) + Len(rows)
        /\ \A k \in 1 .. Len(log) : (log \o rows)[k] = log[k]
        /\ \A k \in 1 .. Len(rows) : (log \o rows)[Len(log) + k] = rows[k]
    OBVIOUS
  <1>2. ASSUME NEW k \in DOMAIN (log \o rows)
        PROVE  (log \o rows)[k].seq = k
    <2>1. CASE k <= Len(log)
      BY <1>1, <2>1
    <2>2. CASE k > Len(log)
      <3>1. k - Len(log) \in 1 .. Len(rows) /\ k = Len(log) + (k - Len(log))
        BY <1>1, <2>2
      <3> QED
        BY <1>1, <3>1
    <2> QED
      BY <1>1, <2>1, <2>2
  <1> QED
    BY <1>1, <1>2

\* Rows after the watermark of Attempt a, which is active then.
LEMMA Appending ==
    ASSUME LogOK, NEW a \in Attempts, NEW kinds \in Seq(Store!Kinds),
           db.active # 0,
           NEW from, from = Len(db.events),
           db'.events = db.events \o Stored(a, from, kinds)
    PROVE  /\ LogGrows
           /\ db'.events \in Seq(Row)
           /\ Len(db'.events) = from + Len(kinds)
           /\ \A k \in DOMAIN db'.events : db'.events[k].seq = k
  <1> DEFINE rows == Stored(a, from, kinds)
             log == db.events
  <1>1. log \in Seq(Row) /\ from \in Nat /\ \A k \in DOMAIN log : log[k].seq = k
    BY DEF LogOK
  <1>2. /\ rows \in Seq(Row) /\ Len(rows) = Len(kinds)
        /\ \A k \in 1 .. Len(rows) : rows[k].seq = Len(log) + k
    <2>1. /\ rows \in Seq(Row) /\ Len(rows) = Len(kinds)
          /\ \A k \in 1 .. Len(kinds) : rows[k].seq = from + k
      BY <1>1, StoredRows
    <2> HIDE DEF rows
    <2> QED
      BY <2>1
  <1> HIDE DEF rows
  <1>3. /\ log \o rows \in Seq(Row)
        /\ Len(log \o rows) = Len(log) + Len(rows)
        /\ \A k \in 1 .. Len(log) : (log \o rows)[k] = log[k]
        /\ \A k \in DOMAIN (log \o rows) : (log \o rows)[k].seq = k
    BY <1>1, <1>2, Extended
  <1>4. db'.events = log \o rows
    BY DEF rows
  <1> QED
    BY <1>1, <1>2, <1>3, <1>4 DEF LogGrows

\* Only the active Attempt can hold a lease, and there is one then.
LEMMA HolderIsActive ==
    ASSUME MemInv, NEW a \in Attempts, NEW tok, HoldsLease(a, tok)
    PROVE  /\ a = db.active /\ db.active # 0
           /\ db.attempts[a] = Len(db.events) /\ Len(db.events) \in Nat
  <1>1. db.leases[a].left # 0
    BY DEF HoldsLease, IsExpired
  <1>2. a = db.active /\ db.active # 0
    BY <1>1, MemoryAssumption DEF MemInv, LogOK, Attempts
  <1> QED
    BY <1>2 DEF MemInv, LogOK

LEMMA NoLease ==
    ASSUME ~ActiveLeaseForRun
    PROVE  \A a \in Attempts : db.leases[a].left = 0
  BY DEF ActiveLeaseForRun, IsExpired

LEMMA NewLeaseType ==
    ASSUME leaseSequence \in Nat
    PROVE  NewLease \in [token : Nat, left : Nat]
  BY MemoryAssumption DEF NewLease

LEMMA KindsOfMethods ==
    /\ \A o \in Store!Outcomes : /\ <<TerminalKind(o)>> \in Seq(Store!Kinds)
                                 /\ Len(<<TerminalKind(o)>>) = 1
    /\ <<"tool_result_presented">> \in Seq(Store!Kinds)
    /\ <<"tool_result_presented", "verification_updated">> \in Seq(Store!Kinds)
  <1>1. \A o \in Store!Outcomes : TerminalKind(o) = Store!TerminalKind(o)
    BY DEF TerminalKind, Store!TerminalKind
  <1>2. \A o \in Store!Outcomes : Store!TerminalKind(o) \in Store!Kinds
    BY DEF Store!Kinds, Store!TerminalKinds
  <1>3. \A o \in Store!Outcomes : <<TerminalKind(o)>> \in Seq(Store!Kinds)
    BY <1>1, <1>2
  <1>4. /\ "tool_result_presented" \in Store!Kinds
        /\ "verification_updated" \in Store!Kinds
    BY DEF Store!Kinds, Store!ReceiptKinds
  <1> QED
    BY <1>3, <1>4

\* The five Maps of the log, after a method that writes only them.
LEMMA ReserveKeeps ==
    ASSUME MemInv, ReserveRunCommand
    PROVE  MemInv'
  <1>1. /\ db.active = 0 /\ leaseSequence' = leaseSequence
        /\ db.events = <<>> /\ \A a \in Attempts : db.attempts[a] = 0
        /\ DOMAIN db = MapNames /\ DOMAIN db.commands = {"status", "outcome"}
    BY DEF ReserveRunCommand, MemInv, LogOK
  <1>2. /\ db'.commands.status = "reserved" /\ db'.active = 1
        /\ db'.attempts = db.attempts /\ db'.leases = db.leases
        /\ db'.events = db.events
        /\ DOMAIN db'.commands = {"status", "outcome"}
        /\ Only(LogMaps)
    BY <1>1 DEF ReserveRunCommand, Only, MapNames, LogMaps, StepMaps, CallMaps
  <1>3. LogGrows
    BY <1>1, <1>2 DEF LogGrows
  <1>4. \A a \in Attempts : db.leases[a].left = 0
    BY <1>1, MemoryAssumption DEF MemInv, LogOK, Attempts
  <1>5. LogOK'
    BY <1>1, <1>2, <1>4, MemoryAssumption DEF MemInv, LogOK, Attempts
  <1> QED
    BY <1>1, <1>2, <1>3, <1>5, LogMethodKeeps DEF MemInv

LEMMA TransitionKeeps ==
    ASSUME MemInv, NEW a \in Attempts, NEW tok, NEW expected,
           NEW next \in {"accepted", "terminal"}, NEW outcome,
           TransitionRunCommand(a, tok, expected, next, outcome)
    PROVE  MemInv'
  <1>1. /\ leaseSequence' = leaseSequence /\ DOMAIN db = MapNames
        /\ db' = [db EXCEPT !.commands = [status |-> next, outcome |-> outcome]]
    BY DEF TransitionRunCommand, MemInv
  <1>2. /\ db'.commands.status # "none" /\ db'.active = db.active
        /\ DOMAIN db'.commands = {"status", "outcome"}
        /\ db'.attempts = db.attempts /\ db'.leases = db.leases
        /\ db'.events = db.events
        /\ Only(LogMaps)
    BY <1>1 DEF Only, MapNames, LogMaps, StepMaps, CallMaps
  <1>3. LogGrows /\ LogOK'
    BY <1>2 DEF MemInv, LogOK, LogGrows
  <1> QED
    BY <1>1, <1>2, <1>3, LogMethodKeeps DEF MemInv

\* A batch of Attempt a at the end of the log, and its watermark.
Appends(a, kinds) ==
    /\ db'.events = db.events \o Stored(a, Len(db.events), kinds)
    /\ db'.attempts \in [Attempts -> Nat]
    /\ db'.attempts[a] = Len(db.events) + Len(kinds)

\* Attempt a is the active one, and no other has a lease that is alive.
Commands(a) ==
    /\ db.active = a
    /\ db.leases \in [Attempts -> [token : Nat, left : Nat]]
    /\ \A b \in Attempts : db.leases[b].left # 0 => b = a

CommandOK ==
    /\ DOMAIN db.commands = {"status", "outcome"}
    /\ db.commands.status = "none" => db.active = 0 /\ db.commands.outcome = "none"

LEMMA BatchLog ==
    ASSUME LogOK, db.active # 0,
           NEW a \in Attempts, NEW kinds \in Seq(Store!Kinds),
           Appends(a, kinds), Commands(a)', CommandOK'
    PROVE  LogOK' /\ LogGrows
  <1>1. LogOK
    OBVIOUS
  <1>2. Len(db.events) \in Nat
    BY <1>1 DEF LogOK
  <1>3. db'.events = db.events \o Stored(a, Len(db.events), kinds)
    BY DEF Appends
  <1> DEFINE from == Len(db.events)
  <1>4. from = Len(db.events) /\ db'.events = db.events \o Stored(a, from, kinds)
    BY <1>3
  <1> HIDE DEF from
  <1>5. /\ LogGrows
        /\ db'.events \in Seq(Row)
        /\ Len(db'.events) = from + Len(kinds)
        /\ \A k \in DOMAIN db'.events : db'.events[k].seq = k
    BY <1>1, <1>4, Appending
  <1>6. db'.attempts \in [Attempts -> Nat] /\ db'.attempts[a] = from + Len(kinds)
    BY <1>4 DEF Appends
  <1>7. db'.active = a /\ a \in 1 .. MaxAttempts
    BY DEF Commands, Attempts
  <1>8. db'.active # 0 /\ db'.active \in 0 .. MaxAttempts
    BY <1>7, MemoryAssumption
  <1>9. /\ db'.active # 0 => db'.attempts[db'.active] = Len(db'.events)
        /\ \A b \in Attempts : db'.leases[b].left # 0 => b = db'.active
    BY <1>5, <1>6, <1>7 DEF Commands
  <1>10. LogOK'
    BY <1>5, <1>6, <1>8, <1>9 DEF LogOK, Commands, CommandOK
  <1> QED
    BY <1>5, <1>10

LEMMA BatchKeeps ==
    ASSUME MemInv, db.active # 0,
           NEW a \in Attempts, NEW kinds \in Seq(Store!Kinds),
           Only(LogMaps), Appends(a, kinds), Commands(a)', CommandOK',
           leaseSequence' \in Nat
    PROVE  MemInv'
  <1>1. LogOK' /\ LogGrows
    BY BatchLog DEF MemInv
  <1> QED
    BY <1>1, LogMethodKeeps

LEMMA AppendKeeps ==
    ASSUME MemInv, NEW a \in Attempts, NEW tok, NEW seq, NEW kinds \in Batches,
           AppendEvents(a, tok, seq, kinds)
    PROVE  MemInv'
  <1>1. /\ leaseSequence' = leaseSequence /\ DOMAIN db = MapNames
        /\ HoldsLease(a, tok) /\ db.attempts[a] = seq
        /\ db' = [db EXCEPT !.events = db.events \o Stored(a, seq, kinds),
                            !.attempts = [db.attempts EXCEPT
                                             ![a] = seq + Len(kinds)]]
    BY DEF AppendEvents, MemInv, MapNames, LogMaps
  <1>2. kinds \in Seq(Store!Kinds)
    BY MemoryAssumption
  <1>3. /\ db'.commands = db.commands /\ db'.active = db.active
        /\ db'.attempts = [db.attempts EXCEPT ![a] = seq + Len(kinds)]
        /\ db'.leases = db.leases
        /\ db'.events = db.events \o Stored(a, seq, kinds)
        /\ Only(LogMaps)
    BY <1>1 DEF Only, MapNames, LogMaps, StepMaps, CallMaps
  <1>4. a = db.active /\ db.active # 0 /\ seq = Len(db.events) /\ seq \in Nat
    BY <1>1, HolderIsActive
  <1>5. Appends(a, kinds)
    BY <1>2, <1>3, <1>4 DEF Appends, MemInv, LogOK
  <1>6. Commands(a)' /\ CommandOK' /\ leaseSequence' \in Nat
    BY <1>1, <1>3, <1>4 DEF Commands, CommandOK, MemInv, LogOK
  <1> QED
    BY <1>2, <1>3, <1>4, <1>5, <1>6, BatchKeeps

LEMMA SettleKeeps ==
    ASSUME MemInv, NEW a \in Attempts, NEW tok, NEW expected, NEW seq,
           NEW o \in TerminalStatuses,
           SettleRunCommandWithTerminalEvent(a, tok, expected, seq, o)
    PROVE  MemInv'
  <1> DEFINE kinds == <<TerminalKind(o)>>
  <1>1. kinds \in Seq(Store!Kinds) /\ Len(kinds) = 1
    BY KindsOfMethods, MemoryAssumption
  <1>2. /\ leaseSequence' = leaseSequence /\ DOMAIN db = MapNames
        /\ HoldsLease(a, tok) /\ db.attempts[a] = seq
        /\ db' = [db EXCEPT !.events = db.events \o Stored(a, seq, kinds),
                            !.attempts = [db.attempts EXCEPT ![a] = seq + 1],
                            !.commands = [status |-> "terminal", outcome |-> o]]
    BY DEF SettleRunCommandWithTerminalEvent, MemInv, MapNames, LogMaps
  <1> HIDE DEF kinds
  <1>3. /\ db'.commands.status # "none" /\ db'.active = db.active
        /\ db'.attempts = [db.attempts EXCEPT ![a] = seq + 1]
        /\ db'.leases = db.leases
        /\ db'.events = db.events \o Stored(a, seq, kinds)
        /\ DOMAIN db'.commands = {"status", "outcome"}
        /\ Only(LogMaps)
    BY <1>2 DEF Only, MapNames, LogMaps, StepMaps, CallMaps
  <1>4. a = db.active /\ db.active # 0 /\ seq = Len(db.events) /\ seq \in Nat
    BY <1>2, HolderIsActive
  <1>5. Appends(a, kinds)
    BY <1>1, <1>3, <1>4 DEF Appends, MemInv, LogOK
  <1>6. Commands(a)' /\ CommandOK' /\ leaseSequence' \in Nat
    BY <1>2, <1>3, <1>4 DEF Commands, CommandOK, MemInv, LogOK
  <1> QED
    BY <1>1, <1>3, <1>4, <1>5, <1>6, BatchKeeps

\* The log stays and Attempt a is active at its end, whoever was before.
LEMMA HandOverKeeps ==
    ASSUME MemInv, db.active # 0, NEW a \in Attempts,
           Only(LogMaps), db'.events = db.events, db'.commands = db.commands,
           db'.attempts \in [Attempts -> Nat], db'.attempts[a] = Len(db.events),
           Commands(a)', leaseSequence' \in Nat
    PROVE  MemInv'
  <1>1. LogOK /\ Len(db.events) \in Nat
    BY DEF MemInv, LogOK
  <1>2. db'.active = a /\ a \in 1 .. MaxAttempts
    BY DEF Commands, Attempts
  <1>3. db'.active # 0 /\ db'.active \in 0 .. MaxAttempts
    BY <1>2, MemoryAssumption
  <1>4. LogOK'
    BY <1>1, <1>2, <1>3 DEF LogOK, Commands
  <1>5. LogGrows
    BY <1>1 DEF LogGrows
  <1> QED
    BY <1>4, <1>5, LogMethodKeeps

LEMMA ActiveIsAnAttempt ==
    ASSUME MemInv, db.active # 0
    PROVE  db.active \in Attempts /\ db.attempts[db.active] = Len(db.events)
  BY MemoryAssumption DEF MemInv, LogOK, Attempts

\* Without a lease alive, the one that is given is the only one.
LEMMA GivenLease ==
    ASSUME MemInv, ~ActiveLeaseForRun, NEW a \in Attempts,
           db'.active = a, db'.leases = [db.leases EXCEPT ![a] = NewLease]
    PROVE  Commands(a)'
  <1>1. \A b \in Attempts : db.leases[b].left = 0
    BY NoLease
  <1>2. NewLease \in [token : Nat, left : Nat]
    BY NewLeaseType DEF MemInv
  <1>3. db.leases \in [Attempts -> [token : Nat, left : Nat]]
    BY DEF MemInv, LogOK
  <1> DEFINE lease == NewLease
  <1>4. db'.leases = [db.leases EXCEPT ![a] = lease] /\ lease \in [token : Nat, left : Nat]
    BY <1>2
  <1> HIDE DEF lease
  <1>5. db'.leases \in [Attempts -> [token : Nat, left : Nat]]
    BY <1>3, <1>4
  <1>6. \A b \in Attempts : db'.leases[b].left # 0 => b = a
    BY <1>1, <1>3, <1>4
  <1> QED
    BY <1>5, <1>6 DEF Commands

LEMMA TokenHanded == leaseSequence \in Nat /\ HandToken => leaseSequence' \in Nat
  BY DEF HandToken

LEMMA FailedHookKeeps ==
    ASSUME MemInv, NEW next, db' = AfterFailedHook(next), UNCHANGED leaseSequence
    PROVE  MemInv'
  BY NothingWritten DEF AfterFailedHook, Only, MemInv

LEMMA RecoverKeeps ==
    ASSUME MemInv, NEW seq,
           RecoverAndSettleRunCommandWithTerminalEvent(db.active, seq)
    PROVE  MemInv'
  <1> DEFINE kinds == <<TerminalKind("blocked")>>
  <1> PICK next \in Attempts : next = db.active + 1
    BY DEF RecoverAndSettleRunCommandWithTerminalEvent
  <1>1. /\ db.active # 0 /\ next \in Attempts /\ ~ActiveLeaseForRun
        /\ db.attempts[db.active] = seq
    BY DEF RecoverAndSettleRunCommandWithTerminalEvent
  <1>2. kinds \in Seq(Store!Kinds) /\ Len(kinds) = 1
    BY KindsOfMethods DEF Store!Outcomes
  <1>3. seq = Len(db.events) /\ seq \in Nat
    BY <1>1, ActiveIsAnAttempt DEF MemInv, LogOK
  <1>4. CASE db' = AfterFailedHook(next) /\ UNCHANGED leaseSequence
    BY <1>4, FailedHookKeeps
  <1>5. CASE /\ db' = [db EXCEPT
                    !.attempts = [db.attempts EXCEPT ![next] = seq + 1],
                    !.active = next,
                    !.leases = [db.leases EXCEPT ![next] = NewLease],
                    !.events = db.events \o Stored(next, seq, kinds),
                    !.commands = [status |-> "terminal", outcome |-> "blocked"]]
             /\ HandToken
    <2> HIDE DEF kinds
    <2>1. DOMAIN db = MapNames
      BY DEF MemInv
    <2>2. /\ db'.attempts = [db.attempts EXCEPT ![next] = seq + 1]
          /\ db'.active = next
          /\ db'.leases = [db.leases EXCEPT ![next] = NewLease]
          /\ db'.events = db.events \o Stored(next, seq, kinds)
          /\ DOMAIN db'.commands = {"status", "outcome"}
          /\ db'.commands.status # "none"
          /\ Only(LogMaps)
      BY <1>5, <2>1 DEF Only, MapNames, LogMaps, StepMaps, CallMaps
    <2>3. Appends(next, kinds)
      BY <1>1, <1>2, <1>3, <2>2 DEF Appends, MemInv, LogOK
    <2>4. Commands(next)'
      BY <1>1, <2>2, GivenLease
    <2>5. CommandOK' /\ leaseSequence' \in Nat
      BY <1>5, <2>2, TokenHanded DEF CommandOK, MemInv
    <2> QED
      BY <1>1, <1>2, <2>2, <2>3, <2>4, <2>5, BatchKeeps
  <1>6. \/ db' = AfterFailedHook(next) /\ UNCHANGED leaseSequence
        \/ /\ db' = [db EXCEPT
                 !.attempts[next] = seq + 1,
                 !.active = next,
                 !.leases[next] = NewLease,
                 !.events = @ \o Stored(next, seq, kinds),
                 !.commands = [status |-> "terminal", outcome |-> "blocked"]]
           /\ HandToken
    BY DEF RecoverAndSettleRunCommandWithTerminalEvent
  <1>7. DOMAIN db = MapNames
    BY DEF MemInv
  <1> HIDE DEF kinds
  <1> QED
    BY <1>4, <1>5, <1>6, <1>7 DEF MapNames, LogMaps

LEMMA ClaimKeeps ==
    ASSUME MemInv, NEW expected, NEW seq, ClaimInitialPreDispatch(expected, seq)
    PROVE  MemInv'
  <1>1. /\ db.active = 1 /\ 2 \in Attempts /\ ~ActiveLeaseForRun
        /\ db.attempts[1] = seq
    BY DEF ClaimInitialPreDispatch
  <1>2. seq = Len(db.events) /\ seq \in Nat
    BY <1>1, ActiveIsAnAttempt DEF MemInv, LogOK
  <1>3. CASE db' = AfterFailedHook(2) /\ UNCHANGED leaseSequence
    BY <1>3, FailedHookKeeps
  <1>4. CASE /\ db' = [db EXCEPT
                    !.attempts = [db.attempts EXCEPT ![2] = seq],
                    !.active = 2,
                    !.leases = [db.leases EXCEPT ![2] = NewLease]]
             /\ HandToken
    <2>1. DOMAIN db = MapNames
      BY DEF MemInv
    <2>2. /\ db'.attempts = [db.attempts EXCEPT ![2] = seq]
          /\ db'.active = 2
          /\ db'.leases = [db.leases EXCEPT ![2] = NewLease]
          /\ db'.events = db.events /\ db'.commands = db.commands
          /\ Only(LogMaps)
      BY <1>4, <2>1 DEF Only, MapNames, LogMaps, StepMaps, CallMaps
    <2>3. /\ db'.attempts \in [Attempts -> Nat]
          /\ db'.attempts[2] = Len(db.events)
      BY <1>1, <1>2, <2>2 DEF MemInv, LogOK
    <2>4. Commands(2)'
      BY <1>1, <2>2, GivenLease
    <2>5. leaseSequence' \in Nat
      BY <1>4, TokenHanded DEF MemInv
    <2> QED
      BY <1>1, <2>2, <2>3, <2>4, <2>5, HandOverKeeps
  <1>5. \/ db' = AfterFailedHook(2) /\ UNCHANGED leaseSequence
        \/ /\ db' = [db EXCEPT !.attempts[2] = seq, !.active = 2,
                               !.leases[2] = NewLease]
           /\ HandToken
    BY DEF ClaimInitialPreDispatch
  <1>6. DOMAIN db = MapNames
    BY DEF MemInv
  <1> QED
    BY <1>3, <1>4, <1>5, <1>6 DEF MapNames, LogMaps

\* Another lease of the active Attempt, when none is alive.
LEMMA LeaseKeeps ==
    ASSUME MemInv, NEW a \in Attempts, db.active = a, ~ActiveLeaseForRun,
           HandToken, db' = [db EXCEPT !.leases[a] = NewLease]
    PROVE  MemInv'
  <1>1. DOMAIN db = MapNames
    BY DEF MemInv
  <1>2. db' = [db EXCEPT !.leases = [db.leases EXCEPT ![a] = NewLease]]
    BY <1>1 DEF MapNames, LogMaps
  <1>3. /\ db'.commands = db.commands /\ db'.active = a
        /\ db'.attempts = db.attempts
        /\ db'.leases = [db.leases EXCEPT ![a] = NewLease]
        /\ db'.events = db.events
        /\ Only(LogMaps)
    BY <1>1, <1>2 DEF Only, MapNames, LogMaps, StepMaps, CallMaps
  <1>4. a # 0
    BY MemoryAssumption DEF Attempts
  <1>5. db'.attempts \in [Attempts -> Nat] /\ db'.attempts[a] = Len(db.events)
    BY <1>3, <1>4, ActiveIsAnAttempt DEF MemInv, LogOK
  <1>6. Commands(a)'
    BY <1>3, GivenLease
  <1>7. leaseSequence' \in Nat
    BY TokenHanded DEF MemInv
  <1> QED
    BY <1>3, <1>4, <1>5, <1>6, <1>7, HandOverKeeps

LEMMA ReclaimKeeps ==
    ASSUME MemInv, NEW expected, NEW seq, ReclaimInitialPreDispatch(expected, seq)
    PROVE  MemInv'
  <1>1. /\ db.active = 2 /\ ~ActiveLeaseForRun /\ HandToken
        /\ db' = [db EXCEPT !.leases[2] = NewLease]
    BY DEF ReclaimInitialPreDispatch
  <1>2. 2 \in Attempts
    BY <1>1, ActiveIsAnAttempt
  <1> QED
    BY <1>1, <1>2, LeaseKeeps

LEMMA AcquireKeeps ==
    ASSUME MemInv, NEW a \in Attempts, AcquireLease(a)
    PROVE  MemInv'
  BY LeaseKeeps DEF AcquireLease, IsActive

\* The last element of the array carries the watermark of the active Attempt.
LEMMA LastIsLength ==
    ASSUME LogOK
    PROVE  LastSequence = Len(db.events)
  <1>1. CASE db.events = <<>>
    BY <1>1 DEF LastSequence
  <1>2. CASE db.events # <<>>
    <2>1. Len(db.events) \in DOMAIN db.events
      BY <1>2 DEF LogOK
    <2> QED
      BY <1>2, <2>1 DEF LogOK, LastSequence
  <1> QED
    BY <1>1, <1>2

LEMMA CreateKeeps ==
    ASSUME MemInv, CreateRunAttempt(db.active)
    PROVE  MemInv'
  <1> DEFINE seq == InheritedWatermark
  <1> PICK next \in Attempts : next = db.active + 1
    BY DEF CreateRunAttempt
  <1>1. /\ db.active # 0 /\ next \in Attempts /\ ~ActiveLeaseForRun /\ HandToken
        /\ db' = [db EXCEPT !.attempts[next] = seq, !.active = next,
                            !.leases[next] = NewLease]
    BY DEF CreateRunAttempt
  <1>2. seq = Len(db.events) /\ seq \in Nat
    BY LastIsLength DEF InheritedWatermark, MemInv, LogOK
  <1> HIDE DEF seq
  <1>3. DOMAIN db = MapNames
    BY DEF MemInv
  <1>4. db' = [db EXCEPT
                  !.attempts = [db.attempts EXCEPT ![next] = seq],
                  !.active = next,
                  !.leases = [db.leases EXCEPT ![next] = NewLease]]
    BY <1>1, <1>3 DEF MapNames, LogMaps
  <1>5. /\ db'.attempts = [db.attempts EXCEPT ![next] = seq]
        /\ db'.active = next
        /\ db'.leases = [db.leases EXCEPT ![next] = NewLease]
        /\ db'.events = db.events /\ db'.commands = db.commands
        /\ Only(LogMaps)
    BY <1>3, <1>4 DEF Only, MapNames, LogMaps, StepMaps, CallMaps
  <1>6. /\ db'.attempts \in [Attempts -> Nat]
        /\ db'.attempts[next] = Len(db.events)
    BY <1>1, <1>2, <1>5 DEF MemInv, LogOK
  <1>7. Commands(next)'
    BY <1>1, <1>5, GivenLease
  <1>8. leaseSequence' \in Nat
    BY <1>1, TokenHanded DEF MemInv
  <1> QED
    BY <1>1, <1>5, <1>6, <1>7, <1>8, HandOverKeeps

\* Time left or a longer life, of leases that are alive already.
LEMMA SameHolderKeeps ==
    ASSUME MemInv, db.active # 0, UNCHANGED leaseSequence,
           NEW leases \in [Attempts -> [token : Nat, left : Nat]],
           \A a \in Attempts : leases[a].left # 0 => db.leases[a].left # 0,
           db' = [db EXCEPT !.leases = leases]
    PROVE  MemInv'
  <1>1. DOMAIN db = MapNames
    BY DEF MemInv
  <1>2. /\ db'.commands = db.commands /\ db'.active = db.active
        /\ db'.attempts = db.attempts /\ db'.leases = leases
        /\ db'.events = db.events
        /\ Only(LogMaps)
    BY <1>1 DEF Only, MapNames, LogMaps, StepMaps, CallMaps
  <1>3. PICK a \in Attempts : a = db.active /\ db.attempts[a] = Len(db.events)
    BY ActiveIsAnAttempt
  <1>4. /\ db'.attempts[a] = Len(db.events)
        /\ db'.attempts \in [Attempts -> Nat] /\ leaseSequence' \in Nat
    BY <1>2, <1>3 DEF MemInv, LogOK
  <1>5. Commands(a)'
    BY <1>2, <1>3 DEF Commands, MemInv, LogOK
  <1> QED
    BY <1>2, <1>4, <1>5, HandOverKeeps

LEMMA RenewKeeps ==
    ASSUME MemInv, NEW a \in Attempts, NEW tok, RenewLease(a, tok)
    PROVE  MemInv'
  <1> DEFINE leases == [db.leases EXCEPT ![a] = [db.leases[a] EXCEPT !.left = LeaseTtl]]
  <1>1. /\ HoldsLease(a, tok) /\ UNCHANGED leaseSequence
        /\ DOMAIN db = MapNames
        /\ db.leases \in [Attempts -> [token : Nat, left : Nat]]
    BY DEF RenewLease, MemInv, LogOK
  <1>2. db' = [db EXCEPT !.leases = leases]
    BY <1>1 DEF RenewLease, MapNames, LogMaps
  <1>3. leases \in [Attempts -> [token : Nat, left : Nat]]
    BY <1>1, MemoryAssumption
  <1>4. \A b \in Attempts : leases[b].left # 0 => db.leases[b].left # 0
    BY <1>1 DEF HoldsLease, IsExpired
  <1>5. db.active # 0
    BY <1>1, HolderIsActive
  <1> HIDE DEF leases
  <1> QED
    BY <1>1, <1>2, <1>3, <1>4, <1>5, SameHolderKeeps

LEMMA TickKeeps ==
    ASSUME MemInv, Tick
    PROVE  MemInv'
  <1> DEFINE leases == [a \in Attempts |->
                           [db.leases[a] EXCEPT !.left = Max({0, @ - 1})]]
  <1>1. /\ ActiveLeaseForRun /\ UNCHANGED leaseSequence
        /\ DOMAIN db = MapNames
        /\ db.leases \in [Attempts -> [token : Nat, left : Nat]]
    BY DEF Tick, MemInv, LogOK
  <1>2. db' = [db EXCEPT !.leases = leases]
    BY <1>1 DEF Tick, MapNames, LogMaps
  <1>3. ASSUME NEW a \in Attempts
        PROVE  /\ leases[a] \in [token : Nat, left : Nat]
               /\ leases[a].left # 0 => db.leases[a].left # 0
    <2> DEFINE n == db.leases[a].left
               b == n - 1
    <2>1. n \in Nat /\ b \in Int /\ b = n - 1 /\ db.leases[a].token \in Nat
      BY <1>1
    <2>2. leases[a] = [token |-> db.leases[a].token, left |-> Max({0, b})]
      BY <1>1
    <2> HIDE DEF leases, b
    <2>3. Max({0, b}) = IF 0 >= b THEN 0 ELSE b
      BY <2>1, MaxOfTwo
    <2>4. Max({0, b}) \in Nat /\ (Max({0, b}) # 0 => n # 0)
      BY <2>1, <2>3
    <2> QED
      BY <2>1, <2>2, <2>4
  <1>4. \E a \in Attempts : db.leases[a].left # 0
    BY <1>1 DEF ActiveLeaseForRun, IsExpired
  <1>5. db.active # 0
    BY <1>4, MemoryAssumption DEF MemInv, LogOK, Attempts
  <1>6. leases \in [Attempts -> [token : Nat, left : Nat]]
    <2>1. leases = [a \in Attempts |-> leases[a]]
      OBVIOUS
    <2> HIDE DEF leases
    <2> QED
      BY <1>3, <2>1
  <1> HIDE DEF leases
  <1> QED
    BY <1>1, <1>2, <1>3, <1>5, <1>6, SameHolderKeeps

-----------------------------------------------------------------------------

(* Failed hooks and model steps *)

\* What a catch block puts back is as it was; if it puts back all that was
\* written, nothing has changed.
LEMMA RolledBackIsNothing ==
    ASSUME MemInv, NEW partial, NEW restored,
           \A map \in MapNames \ restored : partial[map] = db[map],
           db' = RolledBack(partial, restored)
    PROVE  Only({})
  BY DEF MemInv, RolledBack, Only

\* A method of the model steps: the log, the calls and the bindings stay.
LEMMA StepMethodKeeps ==
    ASSUME MemInv, UNCHANGED leaseSequence,
           Only(StepMaps \cup {"commands", "artifacts"}),
           CommandOK', StepsOK', ArtifactsOK'
    PROVE  MemInv'
  <1> DEFINE maps == StepMaps \cup {"commands", "artifacts"}
  <1>1. /\ Only(maps) /\ maps \cap CallMaps = {}
        /\ db'.active = db.active /\ db'.attempts = db.attempts
        /\ db'.leases = db.leases /\ db'.events = db.events
        /\ db'.receiptByReservation = db.receiptByReservation
        /\ db'.receiptPublicEventBindings = db.receiptPublicEventBindings
        /\ DOMAIN db' = MapNames
    BY DEF Only, LogMaps, StepMaps, CallMaps, MapNames
  <1> HIDE DEF maps
  <1>2. LogOK'
    BY <1>1 DEF CommandOK, LogOK, MemInv
  <1>3. CallsOK'
    BY <1>1, CallsStay DEF MemInv
  <1>4. LogGrows
    BY <1>1 DEF LogGrows, MemInv, LogOK
  <1>5. \A i \in Invocations : BindingOK(i)'
    BY <1>1, <1>4, BindingStays DEF MemInv, LogOK
  <1> QED
    BY <1>1, <1>2, <1>3, <1>5 DEF MemInv

\* The checkpoint of a call moves between two statuses that are not terminal.
LEMMA CheckpointKeeps ==
    ASSUME MemInv, UNCHANGED leaseSequence,
           NEW m \in ModelSteps, NEW a \in Attempts,
           NEW status \in {"started", "failed"},
           Only({"commands", "modelSteps"}), CommandOK',
           db.modelSteps[m].status # "terminal",
           db'.modelSteps = [db.modelSteps EXCEPT
                                ![m] = [status |-> status, attempt |-> a]]
    PROVE  MemInv'
  <1>1. /\ Only(StepMaps \cup {"commands", "artifacts"})
        /\ db'.terminalSnapshotHistory = db.terminalSnapshotHistory
        /\ db'.terminalModelStepResults = db.terminalModelStepResults
        /\ db'.artifacts = db.artifacts /\ db'.staged = db.staged
    BY DEF Only, LogMaps, StepMaps, CallMaps, MapNames
  <1>2. StepsOK /\ ArtifactsOK
    BY DEF MemInv
  <1> DEFINE step == [status |-> status, attempt |-> a]
  <1>3. /\ step \in [status : {"none", "started", "terminal", "failed"},
                     attempt : 0 .. MaxAttempts]
        /\ step.status # "terminal"
    BY MemoryAssumption DEF Attempts
  <1>4. db'.modelSteps = [db.modelSteps EXCEPT ![m] = step]
    OBVIOUS
  <1> HIDE DEF step
  <1>5. /\ db'.modelSteps \in [ModelSteps ->
                [status : {"none", "started", "terminal", "failed"},
                 attempt : 0 .. MaxAttempts]]
        /\ \A n \in ModelSteps : db'.modelSteps[n].status = "terminal"
                                   <=> db.modelSteps[n].status = "terminal"
    BY <1>2, <1>3, <1>4 DEF StepsOK
  <1>6. Rows' = Rows /\ Histories' = Histories
    BY <1>1 DEF Rows, Histories
  <1>7. StepsOK'
    BY <1>1, <1>2, <1>5, <1>6 DEF StepsOK
  <1>8. ArtifactsOK'
    BY <1>1, <1>2 DEF ArtifactsOK
  <1> QED
    BY <1>1, <1>7, <1>8, StepMethodKeeps

LEMMA StartKeeps ==
    ASSUME MemInv, NEW a \in Attempts, NEW tok, NEW m \in ModelSteps,
           StartModelStep(a, tok, m)
    PROVE  MemInv'
  <1>1. /\ UNCHANGED leaseSequence /\ DOMAIN db = MapNames
        /\ DOMAIN db.commands = {"status", "outcome"}
        /\ db.modelSteps[m].status # "terminal"
    BY DEF StartModelStep, Absent, MemInv, LogOK
  <1>2. db' = [db EXCEPT
                  !.commands = [db.commands EXCEPT !.status = "dispatched"],
                  !.modelSteps = [db.modelSteps EXCEPT
                      ![m] = [status |-> "started", attempt |-> a]]]
    BY <1>1 DEF StartModelStep, MapNames, LogMaps, StepMaps
  <1>3. /\ db'.commands = [db.commands EXCEPT !.status = "dispatched"]
        /\ db'.modelSteps = [db.modelSteps EXCEPT
                                ![m] = [status |-> "started", attempt |-> a]]
        /\ Only({"commands", "modelSteps"})
    BY <1>1, <1>2 DEF Only, MapNames, LogMaps, StepMaps, CallMaps
  <1>4. CommandOK'
    BY <1>1, <1>3 DEF CommandOK
  <1> QED
    BY <1>1, <1>3, <1>4, CheckpointKeeps

LEMMA FinishKeeps ==
    ASSUME MemInv, NEW a \in Attempts, NEW tok, NEW m \in ModelSteps,
           FinishModelStep(a, tok, m)
    PROVE  MemInv'
  <1>1. /\ UNCHANGED leaseSequence /\ DOMAIN db = MapNames
        /\ db.modelSteps[m].status # "terminal"
    BY DEF FinishModelStep, MemInv
  <1>2. db' = [db EXCEPT
                  !.modelSteps = [db.modelSteps EXCEPT
                      ![m] = [status |-> "failed", attempt |-> a]]]
    BY <1>1 DEF FinishModelStep, MapNames, StepMaps
  <1>3. /\ db'.commands = db.commands /\ db'.active = db.active
        /\ db'.modelSteps = [db.modelSteps EXCEPT
                                ![m] = [status |-> "failed", attempt |-> a]]
        /\ Only({"commands", "modelSteps"})
    BY <1>1, <1>2 DEF Only, MapNames, LogMaps, StepMaps, CallMaps
  <1>4. CommandOK'
    BY <1>3 DEF CommandOK, MemInv, LogOK
  <1> QED
    BY <1>1, <1>3, <1>4, CheckpointKeeps

LEMMA WriteSnapshotKeeps ==
    ASSUME MemInv, NEW a, NEW tok, NEW seq, NEW through,
           WriteSnapshot(a, tok, seq, through)
    PROVE  MemInv'
  <1>1. /\ UNCHANGED leaseSequence /\ DOMAIN db = MapNames
        /\ db' = [db EXCEPT !.snapshots = [id |-> NoStep, step |-> NoStep,
                                           attempt |-> a, through |-> through]]
    BY DEF WriteSnapshot, MemInv
  <1>2. /\ db'.commands = db.commands /\ db'.active = db.active
        /\ db'.modelSteps = db.modelSteps
        /\ db'.terminalSnapshotHistory = db.terminalSnapshotHistory
        /\ db'.terminalModelStepResults = db.terminalModelStepResults
        /\ db'.artifacts = db.artifacts /\ db'.staged = db.staged
        /\ Only(StepMaps \cup {"commands", "artifacts"})
    BY <1>1 DEF Only, MapNames, LogMaps, StepMaps, CallMaps
  <1>3. CommandOK'
    BY <1>2 DEF CommandOK, MemInv, LogOK
  <1>4. StepsOK'
    BY <1>2 DEF StepsOK, Rows, Histories, MemInv
  <1>5. ArtifactsOK'
    BY <1>2 DEF ArtifactsOK, MemInv
  <1> QED
    BY <1>1, <1>2, <1>3, <1>4, <1>5, StepMethodKeeps

LEMMA LastOrdinalIs ==
    ASSUME NEW records, \A s \in SnapshotIds : records[s].ordinal \in Nat,
           NEW last \in Nat, NumberedTo(records, last)
    PROVE  LastOrdinal(records) = last
  <1> DEFINE S == {0} \cup {records[s].ordinal : s \in SnapshotIds}
  <1>1. S \in SUBSET Nat /\ S # {}
    OBVIOUS
  <1>2. \A x \in S : x <= last
    BY DEF NumberedTo
  <1>3. last \in S
    <2>1. CASE last = 0
      BY <2>1
    <2>2. CASE last # 0
      <3>1. last \in 1 .. last
        BY <2>2
      <3> QED
        BY <3>1 DEF NumberedTo
    <2> QED
      BY <2>1, <2>2
  <1>4. LastOrdinal(records) = Max(S)
    BY DEF LastOrdinal
  <1> HIDE DEF S
  <1>5. Max(S) \in S /\ \A x \in S : Max(S) >= x
    BY <1>1, <1>2, BoundedHasMax
  <1> DEFINE greatest == Max(S)
  <1>6. greatest \in Nat /\ greatest <= last /\ greatest >= last
    BY <1>1, <1>2, <1>3, <1>5
  <1>7. LastOrdinal(records) = greatest
    BY <1>4
  <1> HIDE DEF greatest
  <1> QED
    BY <1>6, <1>7

\* The terminal commit, when every hook returns.
LEMMA TerminalCommitKeeps ==
    ASSUME MemInv, UNCHANGED leaseSequence,
           NEW m \in ModelSteps, NEW s \in SnapshotIds, s \notin Histories,
           NEW last \in Nat, NumberedTo(db.terminalSnapshotHistory, last),
           Only(StepMaps \cup {"commands", "artifacts"}),
           db'.commands = db.commands,
           db'.artifacts = db.artifacts \cup {m},
           db'.modelSteps \in [ModelSteps ->
               [status : {"none", "started", "terminal", "failed"},
                attempt : 0 .. MaxAttempts]],
           db'.modelSteps[m].status = "terminal",
           \A n \in ModelSteps \ {m} : db'.modelSteps[n] = db.modelSteps[n],
           DOMAIN db'.terminalModelStepResults = ModelSteps,
           db'.terminalModelStepResults[m].ordinal = last + 1,
           db'.terminalModelStepResults[m].snapshotId = s,
           \A n \in ModelSteps \ {m} :
               db'.terminalModelStepResults[n] = db.terminalModelStepResults[n],
           DOMAIN db'.terminalSnapshotHistory = SnapshotIds,
           db'.terminalSnapshotHistory[s].ordinal = last + 1,
           db'.terminalSnapshotHistory[s].snapshot.step = m,
           \A t \in SnapshotIds \ {s} :
               db'.terminalSnapshotHistory[t] = db.terminalSnapshotHistory[t]
    PROVE  MemInv'
  <1>1. StepsOK /\ ArtifactsOK
    BY DEF MemInv
  <1>2. db'.staged = db.staged /\ db'.active = db.active
    BY DEF Only, MapNames, LogMaps, StepMaps, CallMaps
  <1>3. CommandOK'
    BY <1>2 DEF CommandOK, MemInv, LogOK
  <1>4. ArtifactsOK'
    BY <1>1, <1>2, MemoryAssumption DEF ArtifactsOK
  <1>5. Rows' = Rows \cup {m} /\ Histories' = Histories \cup {s}
    BY DEF Rows, Histories
  <1>6. /\ \A t \in SnapshotIds : db.terminalSnapshotHistory[t].ordinal \in 0 .. last
        /\ db.terminalSnapshotHistory[s].ordinal = 0
    BY <1>1 DEF StepsOK, NumberedTo, Histories
  <1>7. \A t \in SnapshotIds : db'.terminalSnapshotHistory[t].ordinal \in 0 .. last + 1
    <2> TAKE t \in SnapshotIds
    <2>1. CASE t = s
      BY <2>1
    <2>2. CASE t # s
      BY <1>6, <2>2
    <2> QED
      BY <2>1, <2>2
  <1>8. NumberedTo(db'.terminalSnapshotHistory, last + 1)
    <2>1. \A k \in 1 .. last + 1 : \E t \in SnapshotIds :
             db'.terminalSnapshotHistory[t].ordinal = k
      <3> TAKE k \in 1 .. last + 1
      <3>1. CASE k = last + 1
        BY <3>1
      <3>2. CASE k # last + 1
        <4>1. k \in 1 .. last
          BY <3>2
        <4>2. PICK t \in SnapshotIds : db.terminalSnapshotHistory[t].ordinal = k
          BY <4>1 DEF NumberedTo
        <4>3. t # s
          BY <1>6, <4>1, <4>2
        <4> QED
          BY <4>2, <4>3
      <3> QED
        BY <3>1, <3>2
    <2>2. \A t \in SnapshotIds : db'.terminalSnapshotHistory[t].ordinal <= last + 1
      BY <1>7
    <2> QED
      BY <2>1, <2>2 DEF NumberedTo
  <1>9. \A t, u \in Histories' :
           db'.terminalSnapshotHistory[t].ordinal
               = db'.terminalSnapshotHistory[u].ordinal => t = u
    <2> SUFFICES ASSUME NEW t \in Histories \cup {s}, NEW u \in Histories \cup {s},
                        db'.terminalSnapshotHistory[t].ordinal
                            = db'.terminalSnapshotHistory[u].ordinal
                 PROVE  t = u
      BY <1>5
    <2>1. \A v \in Histories :
             /\ db'.terminalSnapshotHistory[v] = db.terminalSnapshotHistory[v]
             /\ db.terminalSnapshotHistory[v].ordinal \in 0 .. last
      BY <1>6 DEF Histories
    <2>2. CASE t = s \/ u = s
      BY <2>1, <2>2
    <2>3. CASE t # s /\ u # s
      BY <1>1, <2>1, <2>3 DEF StepsOK
    <2> QED
      BY <2>2, <2>3
  <1>10. \A t \in Histories' :
            LET n == db'.terminalSnapshotHistory[t].snapshot.step IN
            n \in ModelSteps /\ db'.modelSteps[n].status = "terminal"
    <2> SUFFICES ASSUME NEW t \in Histories \cup {s}
                 PROVE  LET n == db'.terminalSnapshotHistory[t].snapshot.step IN
                        n \in ModelSteps /\ db'.modelSteps[n].status = "terminal"
      BY <1>5
    <2>1. CASE t = s
      BY <2>1
    <2>2. CASE t # s
      <3> DEFINE n == db.terminalSnapshotHistory[t].snapshot.step
      <3>1. n \in ModelSteps /\ db.modelSteps[n].status = "terminal"
        BY <1>1, <2>2 DEF StepsOK
      <3>2. db'.terminalSnapshotHistory[t].snapshot.step = n
        BY <2>2 DEF Histories
      <3> HIDE DEF n
      <3> QED
        BY <3>1, <3>2
    <2> QED
      BY <2>1, <2>2
  <1>11. \A n \in Rows' : db'.terminalModelStepResults[n].snapshotId \in SnapshotIds
    BY <1>1, <1>5 DEF StepsOK, Rows
  <1>12. \A n \in ModelSteps :
            /\ db'.modelSteps[n].status = "terminal" <=> n \in Rows'
            /\ n \in Rows' <=> n \in db'.artifacts
    BY <1>1, <1>5 DEF StepsOK
  <1>13. \A t \in SnapshotIds : db'.terminalSnapshotHistory[t].ordinal \in Nat
    BY <1>7
  <1>14. StepsOK'
    BY <1>8, <1>9, <1>10, <1>11, <1>12, <1>13 DEF StepsOK
  <1> QED
    BY <1>3, <1>4, <1>14, StepMethodKeeps

\* The Maps of the steps as the commit leaves them when every hook returns; the
\* history had `last` records before.
StepCommitted(a, m, s, through, last) ==
    LET snapshot == [id |-> s, step |-> m, attempt |-> a, through |-> through] IN
    /\ db'.artifacts = db.artifacts \cup {m}
    /\ db'.modelSteps = [db.modelSteps EXCEPT
                            ![m] = [status |-> "terminal", attempt |-> a]]
    /\ db'.terminalSnapshotHistory =
           [db.terminalSnapshotHistory EXCEPT
               ![s] = [snapshot |-> snapshot, ordinal |-> last + 1]]
    /\ db'.terminalModelStepResults =
           [db.terminalModelStepResults EXCEPT
               ![m] = [snapshotId |-> s, ordinal |-> last + 1,
                       through |-> through]]
    /\ db'.snapshots = snapshot
    /\ db'.commands = db.commands
    /\ Only(StepMaps \cup {"commands", "artifacts"})

\* The Maps as the commit leaves them: before a hook, what is written is among
\* what the catch block puts back.
LEMMA CommitTerminalCases ==
    ASSUME MemInv, NEW a \in Attempts, NEW tok, NEW m \in ModelSteps,
           NEW s \in SnapshotIds, NEW seq, NEW through,
           CommitTerminalModelStep(a, tok, m, s, seq, through)
    PROVE  \E last \in Nat : /\ NumberedTo(db.terminalSnapshotHistory, last)
                             /\ Only({}) \/ StepCommitted(a, m, s, through, last)
  <1> PICK last \in Nat : NumberedTo(db.terminalSnapshotHistory, last)
    BY DEF MemInv, StepsOK
  <1> DEFINE ordinal == last + 1
  <1>0. NextOrdinal = ordinal
    BY LastOrdinalIs DEF NextOrdinal, MemInv, StepsOK
  <1> DEFINE snapshot == [id |-> s, step |-> m, attempt |-> a, through |-> through]
             record == [snapshot |-> snapshot, ordinal |-> ordinal]
             row == [snapshotId |-> s, ordinal |-> ordinal, through |-> through]
             w1 == [db EXCEPT !.artifacts = @ \cup {m}]
             w2 == [w1 EXCEPT !.modelSteps[m].status = "terminal"]
             w3 == [w2 EXCEPT !.terminalSnapshotHistory[s] = record,
                              !.terminalModelStepResults[m] = row]
             w4 == [w3 EXCEPT !.snapshots = snapshot]
             writes == TerminalWrites(a, m, s, through)
  <1>1. /\ UNCHANGED leaseSequence /\ DOMAIN db = MapNames
        /\ db.modelSteps[m] = [status |-> "started", attempt |-> a]
        /\ s \notin Histories
        /\ \/ db' = writes[Len(writes)]
           \/ \E k \in 1 .. Len(writes) - 1 :
                 db' = RolledBack(writes[k], RestoredByTerminalCommit)
    BY DEF CommitTerminalModelStep, MemInv
  <1>2. writes = <<db, w1, w2, w3, w4>>
    BY <1>0 DEF TerminalWrites
  <1> HIDE DEF writes
  <1>3. Len(writes) = 5
    BY <1>2
  <1>4. \/ db' = w4
        \/ \E partial \in {db, w1, w2, w3} :
              db' = RolledBack(partial, RestoredByTerminalCommit)
    <2> HIDE DEF w1, w2, w3, w4
    <2> QED
      BY <1>1, <1>2, <1>3
  <1> DEFINE terminal == [status |-> "terminal", attempt |-> a]
  <1>5. /\ w1 = [db EXCEPT !.artifacts = db.artifacts \cup {m}]
        /\ w2 = [w1 EXCEPT !.modelSteps = [db.modelSteps EXCEPT ![m] = terminal]]
        /\ w3 = [w2 EXCEPT
                     !.terminalSnapshotHistory =
                         [db.terminalSnapshotHistory EXCEPT ![s] = record],
                     !.terminalModelStepResults =
                         [db.terminalModelStepResults EXCEPT ![m] = row]]
        /\ w4 = [w3 EXCEPT !.snapshots = snapshot]
    <2>1. [db.modelSteps[m] EXCEPT !.status = "terminal"] = terminal
      BY <1>1
    <2> HIDE DEF terminal, record, row, snapshot
    <2>2. /\ w1 = [db EXCEPT !.artifacts = db.artifacts \cup {m}]
          /\ DOMAIN w1 = MapNames /\ w1.modelSteps = db.modelSteps
          /\ w1.terminalSnapshotHistory = db.terminalSnapshotHistory
          /\ w1.terminalModelStepResults = db.terminalModelStepResults
      BY <1>1 DEF MapNames, StepMaps
    <2> HIDE DEF w1
    <2>3. w2 = [w1 EXCEPT !.modelSteps = [db.modelSteps EXCEPT ![m] = terminal]]
      <3>1. w2 = [w1 EXCEPT !.modelSteps = [w1.modelSteps EXCEPT
                     ![m] = [w1.modelSteps[m] EXCEPT !.status = "terminal"]]]
        BY <2>2 DEF MapNames, StepMaps
      <3> HIDE DEF w2
      <3> QED
        BY <2>1, <2>2, <3>1
    <2> HIDE DEF w2
    <2>4. /\ DOMAIN w2 = MapNames
          /\ w2.terminalSnapshotHistory = db.terminalSnapshotHistory
          /\ w2.terminalModelStepResults = db.terminalModelStepResults
      BY <2>2, <2>3 DEF MapNames, StepMaps
    <2> QED
      BY <2>2, <2>3, <2>4 DEF MapNames, StepMaps
  <1> HIDE DEF terminal
  <1>6. \A partial \in {db, w1, w2, w3} :
           \A map \in MapNames \ RestoredByTerminalCommit : partial[map] = db[map]
    <2> DEFINE written == {"artifacts", "modelSteps", "terminalModelStepResults",
                           "terminalSnapshotHistory"}
    <2>1. written \subseteq RestoredByTerminalCommit
      BY DEF RestoredByTerminalCommit
    <2>2. DOMAIN w1 = MapNames /\ \A map \in MapNames \ written : w1[map] = db[map]
      BY <1>1, <1>5
    <2>3. DOMAIN w2 = MapNames /\ \A map \in MapNames \ written : w2[map] = db[map]
      BY <1>5, <2>2
    <2>4. DOMAIN w3 = MapNames /\ \A map \in MapNames \ written : w3[map] = db[map]
      BY <1>5, <2>3
    <2> HIDE DEF written
    <2> QED
      BY <2>1, <2>2, <2>3, <2>4
  <1>7. ASSUME NEW partial \in {db, w1, w2, w3},
               db' = RolledBack(partial, RestoredByTerminalCommit)
        PROVE  Only({})
    BY <1>1, <1>6, <1>7, RolledBackIsNothing
  <1>8. CASE db' = w4
    <2>1. /\ db'.artifacts = db.artifacts \cup {m}
          /\ db'.modelSteps = [db.modelSteps EXCEPT ![m] = terminal]
          /\ db'.terminalSnapshotHistory =
                 [db.terminalSnapshotHistory EXCEPT ![s] = record]
          /\ db'.terminalModelStepResults =
                 [db.terminalModelStepResults EXCEPT ![m] = row]
          /\ db'.snapshots = snapshot /\ db'.commands = db.commands
          /\ Only(StepMaps \cup {"commands", "artifacts"})
      BY <1>1, <1>5, <1>8 DEF Only, MapNames, LogMaps, StepMaps, CallMaps
    <2> QED
      BY <2>1 DEF StepCommitted, terminal, record, row, snapshot
  <1> QED
    BY <1>4, <1>7, <1>8

LEMMA CommitTerminalKeeps ==
    ASSUME MemInv, NEW a \in Attempts, NEW tok, NEW m \in ModelSteps,
           NEW s \in SnapshotIds, NEW seq, NEW through,
           CommitTerminalModelStep(a, tok, m, s, seq, through)
    PROVE  MemInv'
  <1>1. PICK last \in Nat : /\ NumberedTo(db.terminalSnapshotHistory, last)
                            /\ Only({}) \/ StepCommitted(a, m, s, through, last)
    BY CommitTerminalCases
  <1>2. /\ UNCHANGED leaseSequence /\ s \notin Histories /\ StepsOK
        /\ a \in 0 .. MaxAttempts
    BY MemoryAssumption DEF CommitTerminalModelStep, MemInv, Attempts
  <1>3. CASE Only({})
    BY <1>2, <1>3, NothingWritten
  <1>4. CASE StepCommitted(a, m, s, through, last)
    <2> PICK snapshot : snapshot = [id |-> s, step |-> m, attempt |-> a,
                                    through |-> through]
      OBVIOUS
    <2> PICK terminal : terminal = [status |-> "terminal", attempt |-> a]
      OBVIOUS
    <2> PICK record : record = [snapshot |-> snapshot, ordinal |-> last + 1]
      OBVIOUS
    <2> PICK row : row = [snapshotId |-> s, ordinal |-> last + 1,
                          through |-> through]
      OBVIOUS
    <2>1. /\ db'.artifacts = db.artifacts \cup {m}
          /\ db'.modelSteps = [db.modelSteps EXCEPT ![m] = terminal]
          /\ db'.terminalSnapshotHistory =
                 [db.terminalSnapshotHistory EXCEPT ![s] = record]
          /\ db'.terminalModelStepResults =
                 [db.terminalModelStepResults EXCEPT ![m] = row]
          /\ db'.commands = db.commands
          /\ Only(StepMaps \cup {"commands", "artifacts"})
      BY <1>4 DEF StepCommitted
    <2>2. StepsOK
      BY <1>2
    <2>3. /\ terminal \in [status : {"none", "started", "terminal", "failed"},
                           attempt : 0 .. MaxAttempts]
          /\ terminal.status = "terminal"
          /\ record.ordinal = last + 1 /\ row.ordinal = last + 1
          /\ record.snapshot.step = m /\ row.snapshotId = s
      BY <1>2
    <2>4. /\ db'.modelSteps \in [ModelSteps ->
                 [status : {"none", "started", "terminal", "failed"},
                  attempt : 0 .. MaxAttempts]]
          /\ db'.modelSteps[m].status = "terminal"
          /\ \A n \in ModelSteps \ {m} : db'.modelSteps[n] = db.modelSteps[n]
      BY <2>1, <2>2, <2>3 DEF StepsOK
    <2>5. /\ DOMAIN db'.terminalModelStepResults = ModelSteps
          /\ db'.terminalModelStepResults[m].ordinal = last + 1
          /\ db'.terminalModelStepResults[m].snapshotId = s
          /\ \A n \in ModelSteps \ {m} :
                db'.terminalModelStepResults[n] = db.terminalModelStepResults[n]
      BY <2>1, <2>2, <2>3 DEF StepsOK
    <2>6. /\ DOMAIN db'.terminalSnapshotHistory = SnapshotIds
          /\ db'.terminalSnapshotHistory[s].ordinal = last + 1
          /\ db'.terminalSnapshotHistory[s].snapshot.step = m
          /\ \A t \in SnapshotIds \ {s} :
                db'.terminalSnapshotHistory[t] = db.terminalSnapshotHistory[t]
      BY <2>1, <2>2, <2>3 DEF StepsOK
    <2>7. /\ Only(StepMaps \cup {"commands", "artifacts"})
          /\ db'.commands = db.commands /\ UNCHANGED leaseSequence
          /\ db'.artifacts = db.artifacts \cup {m}
          /\ s \notin Histories /\ NumberedTo(db.terminalSnapshotHistory, last)
      BY <1>1, <1>2, <2>1
    <2> QED
      BY <2>4, <2>5, <2>6, <2>7, TerminalCommitKeeps
  <1> QED
    BY <1>1, <1>3, <1>4

-----------------------------------------------------------------------------
(* Tool calls and receipts *)

LEMMA ReceiptTyped ==
    ASSUME NEW a, NEW i, NEW result
    PROVE  Receipt(a, i, result) # Absent /\ Receipt(a, i, result).of = i
  <1>1. "of" \in DOMAIN Receipt(a, i, result) /\ ~("of" \in DOMAIN Absent)
    BY DEF Receipt, Absent
  <1> QED
    BY <1>1 DEF Receipt

\* A call without a receipt, whose reservation and invocation change together.
LEMMA StatusKeeps ==
    ASSUME MemInv, UNCHANGED leaseSequence,
           NEW i \in Invocations, NEW a \in Attempts,
           NEW status \in {"reserved", "executing"},
           db.receiptByReservation[i] = NoReceipt,
           Only({"reservations", "invocations"}),
           db'.reservations = [db.reservations EXCEPT
                                  ![i] = [status |-> status, attempt |-> a]],
           db'.invocations = db'.reservations
    PROVE  MemInv'
  <1> DEFINE maps == {"reservations", "invocations"}
  <1>1. /\ Only(maps) /\ maps \cap StepMaps = {}
        /\ db'.commands = db.commands /\ db'.active = db.active
        /\ db'.attempts = db.attempts
        /\ db'.leases = db.leases /\ db'.events = db.events
        /\ db'.artifacts = db.artifacts /\ db'.staged = db.staged
        /\ db'.receipts = db.receipts
        /\ db'.receiptByReservation = db.receiptByReservation
        /\ db'.receiptPublicEventBindings = db.receiptPublicEventBindings
        /\ DOMAIN db' = MapNames
    BY DEF Only, LogMaps, StepMaps, CallMaps, MapNames
  <1> HIDE DEF maps
  <1>2. LogOK' /\ LogGrows /\ ArtifactsOK'
    BY <1>1 DEF LogOK, LogGrows, ArtifactsOK, MemInv
  <1>3. StepsOK'
    BY <1>1, StepsStay DEF MemInv
  <1>4. \A j \in Invocations : BindingOK(j)'
    BY <1>1, <1>2, BindingStays DEF MemInv, LogOK
  <1> DEFINE x == [status |-> status, attempt |-> a]
  <1>5. /\ x \in [status : CallStatus, attempt : 0 .. MaxAttempts]
        /\ x.status \notin ReceiptStatuses
        /\ db'.reservations = [db.reservations EXCEPT ![i] = x]
    BY MemoryAssumption, OpenStatuses DEF CallStatus, Attempts
  <1> HIDE DEF x
  <1>6. /\ db'.reservations \in [Invocations -> [status : CallStatus,
                                                 attempt : 0 .. MaxAttempts]]
        /\ db'.reservations[i] = x
        /\ \A j \in Invocations \ {i} : db'.reservations[j] = db.reservations[j]
    BY <1>5 DEF MemInv, CallsOK
  <1>7. ASSUME NEW j \in Invocations
        PROVE  LET r == db'.receiptByReservation[j] IN
               /\ db'.reservations[j].status \in ReceiptStatuses <=> r # NoReceipt
               /\ r # NoReceipt =>
                     db'.receipts[r] = Receipt(db'.reservations[j].attempt, j,
                                               db'.reservations[j].status)
               /\ r = NoReceipt => db'.receiptPublicEventBindings[j] = NoBinding
    <2>1. CASE j = i
      BY <1>1, <1>5, <1>6, <2>1 DEF MemInv, CallsOK
    <2>2. CASE j # i
      BY <1>1, <1>6, <2>2 DEF MemInv, CallsOK
    <2> QED
      BY <2>1, <2>2
  <1>8. CallsOK'
    BY <1>1, <1>6, <1>7 DEF MemInv, CallsOK
  <1> QED
    BY <1>1, <1>2, <1>3, <1>4, <1>8 DEF MemInv

LEMMA ReserveInvocationKeeps ==
    ASSUME MemInv, NEW a \in Attempts, NEW tok, NEW i \in Invocations,
           ReserveInvocation(a, tok, i)
    PROVE  MemInv'
  <1> DEFINE reserved == [status |-> "reserved", attempt |-> a]
  <1>1. /\ UNCHANGED leaseSequence /\ DOMAIN db = MapNames
        /\ db.reservations[i].status = "none"
        /\ db.invocations = db.reservations
    BY DEF ReserveInvocation, Absent, MemInv, CallsOK
  <1>2. db.receiptByReservation[i] = NoReceipt
    BY <1>1, OpenStatuses DEF MemInv, CallsOK
  <1>3. db' = [db EXCEPT
                  !.invocations = [db.invocations EXCEPT ![i] = reserved],
                  !.reservations = [db.reservations EXCEPT ![i] = reserved]]
    BY <1>1 DEF ReserveInvocation, MapNames, CallMaps
  <1> HIDE DEF reserved
  <1>4. /\ db'.reservations = [db.reservations EXCEPT ![i] = reserved]
        /\ db'.invocations = db'.reservations
        /\ Only({"reservations", "invocations"})
    BY <1>1, <1>3 DEF Only, MapNames, LogMaps, StepMaps, CallMaps
  <1> QED
    BY <1>1, <1>2, <1>4, StatusKeeps DEF reserved

LEMMA BeginKeeps ==
    ASSUME MemInv, NEW a \in Attempts, NEW tok, NEW i \in Invocations,
           BeginInvocationExecution(a, tok, i)
    PROVE  MemInv'
  <1> DEFINE executing == [status |-> "executing", attempt |-> a]
  <1>1. /\ UNCHANGED leaseSequence /\ DOMAIN db = MapNames
        /\ db.reservations[i] = [status |-> "reserved", attempt |-> a]
        /\ db.receiptByReservation[i] = NoReceipt
        /\ db.invocations = db.reservations
    BY DEF BeginInvocationExecution, MemInv, CallsOK
  <1>2. [db.reservations[i] EXCEPT !.status = "executing"] = executing
    BY <1>1
  <1>3. db' = [db EXCEPT
                  !.invocations = [db.invocations EXCEPT
                      ![i] = [db.invocations[i] EXCEPT !.status = "executing"]],
                  !.reservations = [db.reservations EXCEPT
                      ![i] = [db.reservations[i] EXCEPT !.status = "executing"]]]
    BY <1>1 DEF BeginInvocationExecution, MapNames, CallMaps
  <1> HIDE DEF executing
  <1>4. db' = [db EXCEPT
                  !.invocations = [db.reservations EXCEPT ![i] = executing],
                  !.reservations = [db.reservations EXCEPT ![i] = executing]]
    BY <1>1, <1>2, <1>3
  <1>5. /\ db'.reservations = [db.reservations EXCEPT ![i] = executing]
        /\ db'.invocations = db'.reservations
        /\ Only({"reservations", "invocations"})
    BY <1>1, <1>4 DEF Only, MapNames, LogMaps, StepMaps, CallMaps
  <1> QED
    BY <1>1, <1>5, StatusKeeps DEF executing

LEMMA StageKeeps ==
    ASSUME MemInv, NEW a, NEW tok, NEW i \in Invocations,
           StagePublicToolResultDerivative(a, tok, i)
    PROVE  MemInv'
  <1>1. /\ UNCHANGED leaseSequence /\ DOMAIN db = MapNames
        /\ db' = [db EXCEPT !.artifacts = db.artifacts \cup {i},
                            !.staged = db.staged \cup {i}]
    BY DEF StagePublicToolResultDerivative, MemInv, MapNames, CallMaps
  <1> DEFINE maps == {"artifacts", "staged"}
  <1>2. /\ db'.artifacts = db.artifacts \cup {i}
        /\ db'.staged = db.staged \cup {i}
        /\ Only(maps) /\ maps \cap StepMaps = {}
        /\ db'.commands = db.commands /\ db'.active = db.active
        /\ db'.attempts = db.attempts
        /\ db'.leases = db.leases /\ db'.events = db.events
        /\ db'.reservations = db.reservations
        /\ db'.invocations = db.invocations
        /\ db'.receipts = db.receipts
        /\ db'.receiptByReservation = db.receiptByReservation
        /\ db'.receiptPublicEventBindings = db.receiptPublicEventBindings
        /\ DOMAIN db' = MapNames
    BY <1>1 DEF Only, LogMaps, StepMaps, CallMaps, MapNames
  <1> HIDE DEF maps
  <1>3. LogOK' /\ LogGrows /\ ArtifactsOK'
    BY <1>2 DEF LogOK, LogGrows, ArtifactsOK, MemInv
  <1>4. \A m \in ModelSteps : m \in db'.artifacts <=> m \in db.artifacts
    BY <1>2, MemoryAssumption
  <1>5. StepsOK'
    BY <1>2, <1>4, StepsStay DEF MemInv
  <1>6. CallsOK'
    BY <1>2 DEF CallsOK, MemInv
  <1>7. \A j \in Invocations : BindingOK(j)'
    BY <1>2, <1>3, BindingStays DEF MemInv, LogOK
  <1> QED
    BY <1>1, <1>2, <1>3, <1>5, <1>6, <1>7 DEF MemInv

\* The Maps of a call as a receipt leaves them.
WritesReceipt(a, i, r, result) ==
    /\ db'.receipts = [db.receipts EXCEPT ![r] = Receipt(a, i, result)]
    /\ db'.receiptByReservation = [db.receiptByReservation EXCEPT ![i] = r]
    /\ db'.reservations = [db.reservations EXCEPT
                              ![i] = [status |-> result, attempt |-> a]]
    /\ db'.invocations = db'.reservations

LEMMA ReceiptKeepsCalls ==
    ASSUME CallsOK, NEW a \in Attempts, NEW i \in Invocations,
           NEW r \in ReceiptIds, NEW result \in ReceiptStatuses,
           db.receiptByReservation[i] = NoReceipt, db.receipts[r] = Absent,
           WritesReceipt(a, i, r, result),
           DOMAIN db'.receiptPublicEventBindings = Invocations,
           \A j \in Invocations \ {i} :
              db'.receiptPublicEventBindings[j] = db.receiptPublicEventBindings[j]
    PROVE  CallsOK'
  <1> DEFINE receipt == Receipt(a, i, result)
             x == [status |-> result, attempt |-> a]
  <1>1. receipt # Absent /\ receipt.of = i
    BY ReceiptTyped
  <1>2. /\ x \in [status : CallStatus, attempt : 0 .. MaxAttempts]
        /\ x.status = result /\ x.attempt = a
    BY MemoryAssumption DEF CallStatus, Attempts
  <1> HIDE DEF x
  <1>3. /\ db'.receipts = [db.receipts EXCEPT ![r] = receipt]
        /\ db'.receiptByReservation = [db.receiptByReservation EXCEPT ![i] = r]
        /\ db'.reservations = [db.reservations EXCEPT ![i] = x]
        /\ db'.invocations = db'.reservations
    BY DEF WritesReceipt, x
  <1>4. receipt = Receipt(a, i, result)
    OBVIOUS
  <1> HIDE DEF receipt
  <1>5. /\ DOMAIN db'.receipts = ReceiptIds
        /\ db'.receipts[r] = receipt
        /\ \A q \in ReceiptIds \ {r} : db'.receipts[q] = db.receipts[q]
    BY <1>3 DEF CallsOK
  <1>6. /\ db'.receiptByReservation \in [Invocations -> ReceiptIds \cup {NoReceipt}]
        /\ db'.receiptByReservation[i] = r
        /\ \A j \in Invocations \ {i} :
              db'.receiptByReservation[j] = db.receiptByReservation[j]
    BY <1>3 DEF CallsOK
  <1>7. /\ db'.reservations \in [Invocations -> [status : CallStatus,
                                                 attempt : 0 .. MaxAttempts]]
        /\ db'.reservations[i] = x
        /\ \A j \in Invocations \ {i} : db'.reservations[j] = db.reservations[j]
    BY <1>2, <1>3 DEF CallsOK
  <1>8. r # NoReceipt
    BY MemoryAssumption
  <1>9. ASSUME NEW j \in Invocations
        PROVE  LET q == db'.receiptByReservation[j] IN
               /\ db'.reservations[j].status \in ReceiptStatuses <=> q # NoReceipt
               /\ q # NoReceipt =>
                     db'.receipts[q] = Receipt(db'.reservations[j].attempt, j,
                                               db'.reservations[j].status)
               /\ q = NoReceipt => db'.receiptPublicEventBindings[j] = NoBinding
    <2>1. CASE j = i
      BY <1>2, <1>4, <1>5, <1>6, <1>7, <1>8, <2>1
    <2>2. CASE j # i
      <3> DEFINE q == db.receiptByReservation[j]
      <3>1. /\ db'.receiptByReservation[j] = q
            /\ db'.reservations[j] = db.reservations[j]
            /\ db'.receiptPublicEventBindings[j] = db.receiptPublicEventBindings[j]
        BY <1>6, <1>7, <2>2
      <3>2. /\ db.reservations[j].status \in ReceiptStatuses <=> q # NoReceipt
            /\ q # NoReceipt =>
                  db.receipts[q] = Receipt(db.reservations[j].attempt, j,
                                           db.reservations[j].status)
            /\ q = NoReceipt => db.receiptPublicEventBindings[j] = NoBinding
            /\ q \in ReceiptIds \cup {NoReceipt}
        BY DEF CallsOK
      <3> HIDE DEF q
      <3>3. q # NoReceipt => db.receipts[q] # Absent
        BY <3>2, ReceiptTyped
      <3>4. q # NoReceipt => db'.receipts[q] = db.receipts[q]
        BY <1>5, <3>2, <3>3
      <3> QED
        BY <3>1, <3>2, <3>4
    <2> QED
      BY <2>1, <2>2
  <1>10. ASSUME NEW q \in ReceiptIds, db'.receipts[q] # Absent
         PROVE  /\ db'.receipts[q].of \in Invocations
                /\ db'.receiptByReservation[db'.receipts[q].of] = q
    <2>1. CASE q = r
      BY <1>1, <1>5, <1>6, <2>1
    <2>2. CASE q # r
      <3>1. db'.receipts[q] = db.receipts[q]
        BY <1>5, <2>2
      <3> DEFINE j == db.receipts[q].of
      <3>2. j \in Invocations /\ db.receiptByReservation[j] = q
        BY <1>10, <3>1 DEF CallsOK
      <3> HIDE DEF j
      <3>3. j # i
        BY <3>2, MemoryAssumption
      <3>4. db'.receiptByReservation[j] = q
        BY <1>6, <3>2, <3>3
      <3> QED
        BY <3>1, <3>2, <3>4 DEF j
    <2> QED
      BY <2>1, <2>2
  <1> QED
    BY <1>3, <1>5, <1>6, <1>7, <1>9, <1>10 DEF CallsOK

\* The call that a receipt may be written for has none and no binding.
LEMMA ExecutingCall ==
    ASSUME CallsOK, NEW a, NEW i \in Invocations, Executing(a, i),
           NEW result
    PROVE  /\ db.receiptByReservation[i] = NoReceipt
           /\ db.receiptPublicEventBindings[i] = NoBinding
           /\ [db.reservations[i] EXCEPT !.status = result]
                  = [status |-> result, attempt |-> a]
           /\ db.invocations = db.reservations
  <1>1. db.reservations[i] = [status |-> "executing", attempt |-> a]
    BY DEF Executing
  <1>2. db.reservations[i].status \notin ReceiptStatuses
    BY <1>1, OpenStatuses
  <1>3. db.receiptByReservation[i] = NoReceipt
    BY <1>2 DEF CallsOK
  <1>4. db.receiptPublicEventBindings[i] = NoBinding
    BY <1>3 DEF CallsOK
  <1> QED
    BY <1>1, <1>3, <1>4 DEF CallsOK

LEMMA CommitReceiptWrites ==
    ASSUME MemInv, NEW a \in Attempts, NEW tok, NEW i \in Invocations,
           NEW r \in FreshReceiptIds, NEW result \in ReceiptStatuses,
           CommitReceipt(a, tok, i, r, result)
    PROVE  /\ WritesReceipt(a, i, r, result)
           /\ Only({"receipts", "receiptByReservation", "invocations",
                    "reservations"})
  <1> DEFINE receipt == Receipt(a, i, result)
             settled == [status |-> result, attempt |-> a]
  <1>1. DOMAIN db = MapNames /\ Executing(a, i) /\ CallsOK
    BY DEF CommitReceipt, MemInv
  <1>2. /\ [db.reservations[i] EXCEPT !.status = result] = settled
        /\ db.invocations = db.reservations
    BY <1>1, ExecutingCall
  <1> HIDE DEF settled, receipt
  <1>3. db' = [db EXCEPT
                  !.receipts = [db.receipts EXCEPT ![r] = receipt],
                  !.receiptByReservation =
                      [db.receiptByReservation EXCEPT ![i] = r],
                  !.invocations = [db.invocations EXCEPT
                      ![i] = [db.invocations[i] EXCEPT !.status = result]],
                  !.reservations = [db.reservations EXCEPT
                      ![i] = [db.reservations[i] EXCEPT !.status = result]]]
    BY <1>1 DEF CommitReceipt, MapNames, CallMaps, receipt
  <1>4. /\ db'.receipts = [db.receipts EXCEPT ![r] = receipt]
        /\ db'.receiptByReservation = [db.receiptByReservation EXCEPT ![i] = r]
        /\ db'.reservations = [db.reservations EXCEPT ![i] = settled]
        /\ db'.invocations = db'.reservations
        /\ Only({"receipts", "receiptByReservation", "invocations",
                 "reservations"})
    BY <1>1, <1>2, <1>3 DEF Only, MapNames, LogMaps, StepMaps, CallMaps
  <1> QED
    BY <1>4 DEF WritesReceipt, receipt, settled

LEMMA CommitReceiptKeeps ==
    ASSUME MemInv, NEW a \in Attempts, NEW tok, NEW i \in Invocations,
           NEW r \in FreshReceiptIds, NEW result \in ReceiptStatuses,
           CommitReceipt(a, tok, i, r, result)
    PROVE  MemInv'
  <1> DEFINE maps == {"receipts", "receiptByReservation", "invocations",
                      "reservations"}
  <1>1. /\ UNCHANGED leaseSequence /\ Executing(a, i) /\ CallsOK
        /\ r \in ReceiptIds /\ db.receipts[r] = Absent
    BY DEF CommitReceipt, FreshReceiptIds, MemInv
  <1>2. /\ db.receiptByReservation[i] = NoReceipt
        /\ db.receiptPublicEventBindings[i] = NoBinding
    BY <1>1, ExecutingCall
  <1>3. Only(maps)
    BY CommitReceiptWrites
  <1>4. /\ maps \cap StepMaps = {}
        /\ db'.commands = db.commands /\ db'.active = db.active
        /\ db'.attempts = db.attempts
        /\ db'.leases = db.leases /\ db'.events = db.events
        /\ db'.artifacts = db.artifacts /\ db'.staged = db.staged
        /\ db'.receiptPublicEventBindings = db.receiptPublicEventBindings
        /\ DOMAIN db' = MapNames
    BY <1>3 DEF Only, LogMaps, StepMaps, CallMaps, MapNames
  <1>5. /\ WritesReceipt(a, i, r, result)
        /\ db'.receiptByReservation = [db.receiptByReservation EXCEPT ![i] = r]
    BY CommitReceiptWrites DEF WritesReceipt
  <1> HIDE DEF maps
  <1>6. LogOK' /\ LogGrows /\ ArtifactsOK'
    BY <1>4 DEF LogOK, LogGrows, ArtifactsOK, MemInv
  <1>7. StepsOK'
    BY <1>3, <1>4, StepsStay DEF MemInv
  <1>8. CallsOK'
    <2>1. DOMAIN db'.receiptPublicEventBindings = Invocations
      BY <1>1, <1>4 DEF CallsOK
    <2> QED
      BY <1>1, <1>2, <1>4, <1>5, <2>1, ReceiptKeepsCalls
  <1>9. ASSUME NEW j \in Invocations
         PROVE  BindingOK(j)'
    <2>1. CASE j # i
      <3>1. db'.receiptByReservation[j] = db.receiptByReservation[j]
        BY <1>1, <1>5, <2>1 DEF CallsOK
      <3> QED
        BY <1>4, <1>6, <3>1, BindingStays DEF MemInv, LogOK
    <2>2. CASE j = i
      BY <1>2, <1>4, <2>2 DEF MemInv, BindingOK
    <2> QED
      BY <2>1, <2>2
  <1> QED
    BY <1>1, <1>4, <1>6, <1>7, <1>8, <1>9 DEF MemInv

\* The rows of a batch are in the log after it, where its watermark says.
LEMMA RowsAtTheEnd ==
    ASSUME NEW log \in Seq(Row), NEW rows \in Seq(Row), NEW seq, seq = Len(log)
    PROVE  /\ seq \in Nat /\ seq + Len(rows) <= Len(log \o rows)
           /\ \A k \in DOMAIN rows : (log \o rows)[seq + k] = rows[k]
  OBVIOUS

\* The binding of a call keeps the rows of its batch.
Binds(a, i, r, kinds) ==
    LET binding == db'.receiptPublicEventBindings[i] IN
    /\ DOMAIN db'.receiptPublicEventBindings = Invocations
    /\ binding.receipt = r
    /\ binding.expected = Len(db.events)
    /\ binding.events = Stored(a, Len(db.events), kinds)
    /\ \A j \in Invocations \ {i} :
          db'.receiptPublicEventBindings[j] = db.receiptPublicEventBindings[j]

\* The receipt commit, when every hook returns.
LEMMA PublicReceiptKeeps ==
    ASSUME MemInv, UNCHANGED leaseSequence, db.active # 0,
           NEW a \in Attempts, NEW i \in Invocations,
           NEW r \in ReceiptIds, NEW result \in ReceiptStatuses,
           NEW kinds \in Seq(Store!Kinds),
           db.receiptByReservation[i] = NoReceipt, db.receipts[r] = Absent,
           Only(CallMaps \cup LogMaps), WritesReceipt(a, i, r, result),
           Appends(a, kinds), Binds(a, i, r, kinds), Commands(a)', CommandOK',
           db'.staged = db.staged
    PROVE  MemInv'
  <1>1. /\ LogOK /\ StepsOK /\ CallsOK /\ ArtifactsOK
        /\ \A j \in Invocations : BindingOK(j)
        /\ leaseSequence \in Nat
    BY DEF MemInv
  <1>2. LogOK' /\ LogGrows
    BY <1>1, BatchLog
  <1>3. /\ db.events \in Seq(Row) /\ db'.events \in Seq(Row)
        /\ Len(db.events) \in Nat
    BY <1>1, <1>2 DEF LogOK
  <1> DEFINE maps == CallMaps \cup LogMaps
  <1>4. /\ Only(maps) /\ maps \cap StepMaps = {} /\ db'.artifacts = db.artifacts
        /\ DOMAIN db' = MapNames
    BY DEF Only, MapNames, LogMaps, StepMaps, CallMaps
  <1> HIDE DEF maps
  <1>5. StepsOK' /\ ArtifactsOK'
    BY <1>1, <1>4, StepsStay DEF ArtifactsOK
  <1>6. CallsOK'
    BY <1>1, ReceiptKeepsCalls DEF Binds
  <1>7. /\ db'.receiptByReservation[i] = r
        /\ \A j \in Invocations \ {i} :
              db'.receiptByReservation[j] = db.receiptByReservation[j]
    BY <1>1 DEF WritesReceipt, CallsOK
  <1>8. ASSUME NEW j \in Invocations
        PROVE  BindingOK(j)'
    <2>1. CASE j # i
      BY <1>1, <1>2, <1>3, <1>7, <2>1, BindingStays DEF Binds
    <2>2. CASE j = i
      <3> DEFINE seq == Len(db.events)
                 rows == Stored(a, seq, kinds)
                 binding == db'.receiptPublicEventBindings[i]
      <3>1. rows \in Seq(Row)
        BY <1>3, StoredRows
      <3>2. db'.events = db.events \o rows /\ seq = Len(db.events)
        BY DEF Appends
      <3>3. /\ binding.receipt = r /\ binding.expected = seq
            /\ binding.events = rows
        BY DEF Binds
      <3> HIDE DEF seq, rows, binding
      <3>4. /\ seq \in Nat /\ seq + Len(rows) <= Len(db'.events)
            /\ \A k \in DOMAIN rows : db'.events[seq + k] = rows[k]
        <4> DEFINE log == db.events
        <4>1. log \in Seq(Row) /\ seq = Len(log) /\ db'.events = log \o rows
          BY <1>3, <3>2
        <4> HIDE DEF log
        <4>2. /\ seq \in Nat /\ seq + Len(rows) <= Len(log \o rows)
              /\ \A k \in DOMAIN rows : (log \o rows)[seq + k] = rows[k]
          BY <3>1, <4>1, RowsAtTheEnd
        <4> QED
          BY <4>1, <4>2
      <3>5. /\ binding.receipt = db'.receiptByReservation[i]
            /\ binding.expected \in Nat /\ binding.events \in Seq(Row)
            /\ binding.expected + Len(binding.events) <= Len(db'.events)
            /\ \A k \in DOMAIN binding.events :
                  db'.events[binding.expected + k] = binding.events[k]
        BY <1>7, <3>1, <3>4, <3>3
      <3> QED
        BY <2>2, <3>5 DEF BindingOK, binding
    <2> QED
      BY <2>1, <2>2
  <1> QED
    BY <1>1, <1>2, <1>4, <1>5, <1>6, <1>8 DEF MemInv

\* The kinds of the events that a receipt shows.
ReceiptKindsOf(verified) ==
    IF verified THEN <<"tool_result_presented", "verification_updated">>
    ELSE <<"tool_result_presented">>

\* The Maps as the receipt commit leaves them when every hook returns.
ReceiptCommitted(a, i, r, result, kinds) ==
    /\ WritesReceipt(a, i, r, result)
    /\ db'.events = db.events \o Stored(a, Len(db.events), kinds)
    /\ db'.attempts = [db.attempts EXCEPT ![a] = Len(db.events) + Len(kinds)]
    /\ db'.receiptPublicEventBindings =
           [db.receiptPublicEventBindings EXCEPT
               ![i] = [receipt |-> r, expected |-> Len(db.events),
                       events |-> Stored(a, Len(db.events), kinds)]]
    /\ db'.commands = db.commands /\ db'.active = db.active
    /\ db'.leases = db.leases /\ db'.staged = db.staged
    /\ Only(CallMaps \cup LogMaps)

LEMMA CommitReceiptCases ==
    ASSUME MemInv, NEW a \in Attempts, NEW tok, NEW i \in Invocations,
           NEW r \in FreshReceiptIds, NEW result \in ReceiptStatuses,
           NEW verified \in BOOLEAN, NEW seq,
           CommitReceiptWithPublicEvents(a, tok, i, r, result, verified, seq)
    PROVE  \/ Only({})
           \/ ReceiptCommitted(a, i, r, result, ReceiptKindsOf(verified))
  <1> DEFINE kinds == IF verified
                      THEN <<"tool_result_presented", "verification_updated">>
                      ELSE <<"tool_result_presented">>
             rows == Stored(a, seq, kinds)
             receipt == Receipt(a, i, result)
             settled == [status |-> result, attempt |-> a]
             binding == [receipt |-> r, expected |-> seq, events |-> rows]
             w1 == [db EXCEPT !.receipts[r] = receipt]
             w2 == [w1 EXCEPT !.receiptByReservation[i] = r, !.events = @ \o rows]
             w3 == [w2 EXCEPT !.receiptPublicEventBindings[i] = binding]
             w4 == [w3 EXCEPT !.invocations[i].status = result]
             w5 == [w4 EXCEPT !.reservations[i].status = result,
                              !.attempts[a] = seq + Len(rows)]
             writes == ReceiptWrites(a, i, r, result, seq, rows)
  <1>1. /\ UNCHANGED leaseSequence /\ DOMAIN db = MapNames
        /\ HoldsLease(a, tok) /\ Executing(a, i) /\ CallsOK /\ LogOK
        /\ db.attempts[a] = seq
        /\ r \in ReceiptIds /\ db.receipts[r] = Absent
    BY DEF CommitReceiptWithPublicEvents, FreshReceiptIds, MemInv
  <1>2. \/ db' = writes[Len(writes)]
        \/ \E k \in DOMAIN writes :
              db' = RolledBack(writes[k], RestoredByReceiptCommit)
    BY DEF CommitReceiptWithPublicEvents
  <1>3. writes = <<w1, w2, w3, w4, w5>>
    BY DEF ReceiptWrites
  <1>4. kinds \in Seq(Store!Kinds)
    BY KindsOfMethods
  <1>5. /\ db.receiptByReservation[i] = NoReceipt
        /\ db.receiptPublicEventBindings[i] = NoBinding
        /\ [db.reservations[i] EXCEPT !.status = result] = settled
        /\ db.invocations = db.reservations
    BY <1>1, ExecutingCall
  <1>6. a = db.active /\ db.active # 0 /\ seq = Len(db.events) /\ seq \in Nat
    BY <1>1, HolderIsActive
  <1>7. Len(rows) = Len(kinds)
    BY <1>4, <1>6, StoredRows
  <1> HIDE DEF writes
  <1>8. \/ db' = w5
        \/ \E partial \in {w1, w2, w3, w4, w5} :
              db' = RolledBack(partial, RestoredByReceiptCommit)
    <2> HIDE DEF w1, w2, w3, w4, w5
    <2>1. Len(writes) = 5 /\ DOMAIN writes = 1 .. 5
      BY <1>3
    <2> QED
      BY <1>2, <1>3, <2>1
  <1> HIDE DEF kinds, rows, receipt, settled, binding
  <1> DEFINE written == {"receipts", "receiptByReservation", "events",
                         "receiptPublicEventBindings", "invocations",
                         "reservations", "attempts"}
             Untouched(w) == /\ DOMAIN w = MapNames
                             /\ \A map \in MapNames \ written : w[map] = db[map]
  <1>9. /\ Untouched(w1)
        /\ w1.receipts = [db.receipts EXCEPT ![r] = receipt]
        /\ \A map \in written \ {"receipts"} : w1[map] = db[map]
    <2>1. w1 = [db EXCEPT !.receipts = [db.receipts EXCEPT ![r] = receipt]]
      BY <1>1 DEF MapNames, CallMaps
    <2> HIDE DEF w1
    <2>2. /\ DOMAIN w1 = MapNames
          /\ \A map \in MapNames \ {"receipts"} : w1[map] = db[map]
      BY <1>1, <2>1
    <2>3. w1.receipts = [db.receipts EXCEPT ![r] = receipt]
      BY <1>1, <2>1 DEF MapNames, CallMaps
    <2>4. written \subseteq MapNames /\ "receipts" \in written
      BY DEF MapNames, CallMaps, LogMaps
    <2> HIDE DEF written
    <2> QED
      BY <2>2, <2>3, <2>4
  <1> HIDE DEF w1
  <1>10. /\ Untouched(w2)
         /\ w2.receipts = [db.receipts EXCEPT ![r] = receipt]
         /\ w2.receiptByReservation = [db.receiptByReservation EXCEPT ![i] = r]
         /\ w2.events = db.events \o rows
         /\ w2.receiptPublicEventBindings = db.receiptPublicEventBindings
         /\ w2.invocations = db.invocations
         /\ w2.reservations = db.reservations /\ w2.attempts = db.attempts
    BY <1>9 DEF MapNames, LogMaps, CallMaps
  <1> HIDE DEF w2
  <1>11. /\ Untouched(w3)
         /\ w3.receipts = w2.receipts
         /\ w3.receiptByReservation = w2.receiptByReservation
         /\ w3.events = w2.events
         /\ w3.receiptPublicEventBindings =
                [db.receiptPublicEventBindings EXCEPT ![i] = binding]
         /\ w3.invocations = db.invocations
         /\ w3.reservations = db.reservations /\ w3.attempts = db.attempts
    BY <1>10 DEF MapNames, LogMaps, CallMaps
  <1> HIDE DEF w3
  <1>12. /\ Untouched(w4)
         /\ w4.receipts = w3.receipts
         /\ w4.receiptByReservation = w3.receiptByReservation
         /\ w4.events = w3.events
         /\ w4.receiptPublicEventBindings = w3.receiptPublicEventBindings
         /\ w4.invocations = [db.reservations EXCEPT ![i] = settled]
         /\ w4.reservations = db.reservations /\ w4.attempts = db.attempts
    BY <1>5, <1>11 DEF MapNames, LogMaps, CallMaps
  <1> HIDE DEF w4
  <1>13. /\ Untouched(w5)
         /\ w5.receipts = w4.receipts
         /\ w5.receiptByReservation = w4.receiptByReservation
         /\ w5.events = w4.events
         /\ w5.receiptPublicEventBindings = w4.receiptPublicEventBindings
         /\ w5.invocations = w4.invocations
         /\ w5.reservations = [db.reservations EXCEPT ![i] = settled]
         /\ w5.attempts = [db.attempts EXCEPT ![a] = seq + Len(rows)]
    BY <1>5, <1>12 DEF MapNames, LogMaps, CallMaps
  <1> HIDE DEF w5
  <1>14. \A partial \in {w1, w2, w3, w4, w5} :
            \A map \in MapNames \ RestoredByReceiptCommit : partial[map] = db[map]
    <2>1. written \subseteq RestoredByReceiptCommit
      BY DEF RestoredByReceiptCommit
    <2>2. \A w \in {w1, w2, w3, w4, w5} :
             \A map \in MapNames \ written : w[map] = db[map]
      BY <1>9, <1>10, <1>11, <1>12, <1>13
    <2> HIDE DEF written
    <2> QED
      BY <2>1, <2>2
  <1>15. ASSUME NEW partial \in {w1, w2, w3, w4, w5},
                db' = RolledBack(partial, RestoredByReceiptCommit)
         PROVE  Only({})
    BY <1>14, <1>15, RolledBackIsNothing
  <1>16. CASE db' = w5
    <2>1. /\ db'.receipts = [db.receipts EXCEPT ![r] = receipt]
          /\ db'.receiptByReservation = [db.receiptByReservation EXCEPT ![i] = r]
          /\ db'.events = db.events \o rows
          /\ db'.receiptPublicEventBindings =
                 [db.receiptPublicEventBindings EXCEPT ![i] = binding]
          /\ db'.invocations = db'.reservations
          /\ db'.reservations = [db.reservations EXCEPT ![i] = settled]
          /\ db'.attempts = [db.attempts EXCEPT ![a] = seq + Len(rows)]
      BY <1>10, <1>11, <1>12, <1>13, <1>16
    <2>2. /\ Only(CallMaps \cup LogMaps)
          /\ db'.commands = db.commands /\ db'.active = db.active
          /\ db'.leases = db.leases /\ db'.staged = db.staged
      BY <1>13, <1>16 DEF Only, MapNames, LogMaps, StepMaps, CallMaps
    <2>3. WritesReceipt(a, i, r, result)
      BY <2>1 DEF WritesReceipt, receipt, settled
    <2>4. kinds = ReceiptKindsOf(verified)
      BY DEF kinds, ReceiptKindsOf
    <2>5. /\ db'.events = db.events \o Stored(a, Len(db.events), kinds)
          /\ db'.attempts = [db.attempts EXCEPT ![a] = Len(db.events) + Len(kinds)]
          /\ binding = [receipt |-> r, expected |-> Len(db.events),
                        events |-> Stored(a, Len(db.events), kinds)]
      BY <1>6, <1>7, <2>1 DEF rows, binding
    <2>6. ReceiptCommitted(a, i, r, result, kinds)
      BY <2>1, <2>2, <2>3, <2>5 DEF ReceiptCommitted
    <2> QED
      BY <2>4, <2>6
  <1> QED
    BY <1>8, <1>15, <1>16

LEMMA CommitReceiptWithPublicEventsKeeps ==
    ASSUME MemInv, NEW a \in Attempts, NEW tok, NEW i \in Invocations,
           NEW r \in FreshReceiptIds, NEW result \in ReceiptStatuses,
           NEW verified \in BOOLEAN, NEW seq,
           CommitReceiptWithPublicEvents(a, tok, i, r, result, verified, seq)
    PROVE  MemInv'
  <1> PICK kinds : kinds = ReceiptKindsOf(verified)
    OBVIOUS
  <1>1. /\ UNCHANGED leaseSequence /\ HoldsLease(a, tok) /\ Executing(a, i)
        /\ CallsOK /\ LogOK /\ r \in ReceiptIds /\ db.receipts[r] = Absent
    BY DEF CommitReceiptWithPublicEvents, FreshReceiptIds, MemInv
  <1>2. Only({}) \/ ReceiptCommitted(a, i, r, result, kinds)
    BY CommitReceiptCases
  <1>3. CASE Only({})
    BY <1>1, <1>3, NothingWritten
  <1>4. CASE ReceiptCommitted(a, i, r, result, kinds)
    <2>1. kinds \in Seq(Store!Kinds) /\ Len(kinds) \in Nat
      BY KindsOfMethods DEF ReceiptKindsOf
    <2>2. /\ a = db.active /\ db.active # 0 /\ Len(db.events) \in Nat
          /\ db.receiptByReservation[i] = NoReceipt
      BY <1>1, HolderIsActive, ExecutingCall
    <2>3. Appends(a, kinds)
      BY <1>1, <1>4, <2>1, <2>2 DEF ReceiptCommitted, Appends, LogOK
    <2>4. Commands(a)' /\ CommandOK'
      BY <1>1, <1>4, <2>2 DEF ReceiptCommitted, Commands, CommandOK, LogOK
    <2>5. Binds(a, i, r, kinds)
      BY <1>1, <1>4 DEF ReceiptCommitted, Binds, CallsOK
    <2>6. /\ Only(CallMaps \cup LogMaps) /\ WritesReceipt(a, i, r, result)
          /\ db'.staged = db.staged
      BY <1>4 DEF ReceiptCommitted
    <2> QED
      BY <1>1, <2>1, <2>2, <2>3, <2>4, <2>5, <2>6, PublicReceiptKeeps
  <1> QED
    BY <1>2, <1>3, <1>4

-----------------------------------------------------------------------------
(* Every step *)

LEMMA MemInvNext == MemInv /\ [Next]_memVars => MemInv'
  <1> SUFFICES ASSUME MemInv, [Next]_memVars PROVE MemInv'
    OBVIOUS
  <1>1. CASE CommandOperation
    <2>1. CASE ReserveRunCommand
      BY <2>1, ReserveKeeps
    <2>2. ASSUME NEW seq \in Positions,
                 RecoverAndSettleRunCommandWithTerminalEvent(db.active, seq)
          PROVE  MemInv'
      BY <2>2, RecoverKeeps
    <2>3. ASSUME NEW seq \in Positions, NEW expected \in PreDispatch,
                 \/ ClaimInitialPreDispatch(expected, seq)
                 \/ ReclaimInitialPreDispatch(expected, seq)
          PROVE  MemInv'
      BY <2>3, ClaimKeeps, ReclaimKeeps
    <2>4. CASE CreateRunAttempt(db.active)
      BY <2>4, CreateKeeps
    <2> QED
      BY <1>1, <2>1, <2>2, <2>3, <2>4 DEF CommandOperation
  <1>2. CASE Tick
    BY <1>2, TickKeeps
  <1>3. ASSUME NEW a \in Attempts, AcquireLease(a) PROVE MemInv'
    BY <1>3, AcquireKeeps
  <1>4. ASSUME NEW a \in Attempts, NEW tok, AuthorizedOperation(a, tok)
        PROVE  MemInv'
    <2>1. ASSUME NEW expected, NEW next \in {"accepted", "terminal"}, NEW o,
                 TransitionRunCommand(a, tok, expected, next, o)
          PROVE  MemInv'
      BY <2>1, TransitionKeeps
    <2>2. ASSUME NEW expected, NEW seq, NEW o \in TerminalStatuses,
                 SettleRunCommandWithTerminalEvent(a, tok, expected, seq, o)
          PROVE  MemInv'
      BY <2>2, SettleKeeps
    <2>3. CASE RenewLease(a, tok)
      BY <2>3, RenewKeeps
    <2>4. ASSUME NEW seq, NEW kinds \in Batches, AppendEvents(a, tok, seq, kinds)
          PROVE  MemInv'
      BY <2>4, AppendKeeps
    <2> QED
      BY <1>4, <2>1, <2>2, <2>3, <2>4 DEF AuthorizedOperation
  <1>5. ASSUME NEW a \in Attempts, NEW tok, StepOperation(a, tok)
        PROVE  MemInv'
    BY <1>5, StartKeeps, FinishKeeps, CommitTerminalKeeps, WriteSnapshotKeeps
       DEF StepOperation
  <1>6. ASSUME NEW a \in Attempts, NEW tok, InvocationOperation(a, tok)
        PROVE  MemInv'
    BY <1>6, ReserveInvocationKeeps, BeginKeeps, StageKeeps, CommitReceiptKeeps,
       CommitReceiptWithPublicEventsKeeps DEF InvocationOperation
  <1>7. CASE UNCHANGED memVars
    <2>1. Only({}) /\ leaseSequence' = leaseSequence
      BY <1>7 DEF memVars, Only, MemInv
    <2> QED
      BY <2>1, NothingWritten
  <1> QED
    BY <1>1, <1>2, <1>3, <1>4, <1>5, <1>6, <1>7 DEF Next

\* The invariant holds in every state between two calls.
LEMMA MemInvHolds == Spec => []MemInv
  BY MemInvInit, MemInvNext, PTL DEF Spec

\* Whatever the callers do and whichever hook throws, the Maps of the in-memory
\* adapter that keep one fact twice tell the same story between two calls: no
\* catch block forgets a Map that its method had written.
THEOREM MapsNeverDisagree == Spec => []MapsAgree
  BY MemInvHolds, MemInvAgrees, PTL

-----------------------------------------------------------------------------
(* Each call is a call of the SQLite store, or nothing *)

LEMMA SameNames ==
    /\ Store!Attempts = Attempts /\ Store!PreDispatch = PreDispatch
    /\ NewLease = Store!NewLease
    /\ \A a : Store!IsActiveAttempt(a) <=> IsActive(a)
    /\ \A a : Store!Exists(a) <=> Exists(a)
    /\ \A a : Store!IsC2bPristineAttempt(a) <=> IsC2bPristineAttempt(a)
  BY DEF Store!Attempts, Attempts, Store!PreDispatch, PreDispatch, NewLease,
         Store!NewLease, Store!IsActiveAttempt, IsActive, Store!Exists, Exists,
         Store!IsC2bPristineAttempt, IsC2bPristineAttempt

LEMMA SameTerminalKind == \A o \in Store!Outcomes : TerminalKind(o) = Store!TerminalKind(o)
  BY DEF TerminalKind, Store!TerminalKind

LEMMA SameLeases ==
    ASSUME MemInv
    PROVE  /\ \A a \in Attempts : \A tok : HoldsLease(a, tok) => Store!HoldsLease(a, tok)
           /\ ~ActiveLeaseForRun =>
                 Store!NoLiveLease /\ \A a \in Attempts : ~Store!Live(a)
           /\ ActiveLeaseForRun => \E a \in Attempts : Store!Live(a)
  <1>1. \A a \in Attempts : db.leases[a].left \in Nat
    BY DEF MemInv, LogOK
  <1>2. \A a \in Attempts : IsExpired(a) <=> ~Store!Live(a)
    BY <1>1 DEF IsExpired, Store!Live
  <1> QED
    BY <1>2, SameNames DEF HoldsLease, Store!HoldsLease, ActiveLeaseForRun, Store!NoLiveLease

\* The rows of a batch, in the array and in the table.
LEMMA SameBatch ==
    ASSUME NEW a \in Attempts, NEW from \in Nat, NEW kinds \in Seq(Store!Kinds)
    PROVE  ToSet(Stored(a, from, kinds)) = Store!NewRows(a, from, kinds)
  <1>1. DOMAIN kinds = 1 .. Len(kinds)
    OBVIOUS
  <1> QED
    BY <1>1 DEF ToSet, Store!NewRows, Stored

LEMMA SameRows ==
    ASSUME NEW log \in Seq(Row), NEW a \in Attempts, NEW from, from = Len(log),
           NEW kinds \in Seq(Store!Kinds)
    PROVE  ToSet(log \o Stored(a, from, kinds))
               = ToSet(log) \cup Store!NewRows(a, from, kinds)
  <1> DEFINE rows == Stored(a, from, kinds)
             all == log \o rows
  <1>1. /\ rows \in Seq(Row) /\ Len(rows) = Len(kinds) /\ from \in Nat
        /\ DOMAIN kinds = 1 .. Len(kinds)
    BY StoredRows
  <1>2. ToSet(rows) = Store!NewRows(a, from, kinds)
    BY <1>1, SameBatch
  <1> HIDE DEF rows
  <1>3. ToSet(log \o rows) = ToSet(log) \cup ToSet(rows)
    <2>1. /\ all \in Seq(Row) /\ Len(all) = Len(log) + Len(rows)
          /\ \A k \in 1 .. Len(log) : all[k] = log[k]
          /\ \A k \in 1 .. Len(rows) : all[Len(log) + k] = rows[k]
      BY <1>1
    <2> HIDE DEF all
    <2>2. /\ DOMAIN all = 1 .. Len(all) /\ DOMAIN log = 1 .. Len(log)
          /\ DOMAIN rows = 1 .. Len(rows) /\ Len(log) \in Nat /\ Len(rows) \in Nat
      BY <1>1, <2>1
    <2>3. ToSet(log) \cup ToSet(rows) \subseteq ToSet(all)
      <3>1. \A k \in DOMAIN log : k \in DOMAIN all /\ all[k] = log[k]
        BY <2>1, <2>2
      <3>2. \A k \in DOMAIN rows : Len(log) + k \in DOMAIN all
                                   /\ all[Len(log) + k] = rows[k]
        BY <2>1, <2>2
      <3> QED
        BY <3>1, <3>2 DEF ToSet
    <2>4. ASSUME NEW k \in DOMAIN all
          PROVE  all[k] \in ToSet(log) \cup ToSet(rows)
      <3>1. CASE k <= Len(log)
        <4>1. k \in DOMAIN log /\ all[k] = log[k]
          BY <2>1, <2>2, <3>1
        <4> QED
          BY <4>1 DEF ToSet
      <3>2. CASE k > Len(log)
        <4> DEFINE j == k - Len(log)
        <4>1. j \in DOMAIN rows /\ k = Len(log) + j
          BY <2>1, <2>2, <3>2
        <4> HIDE DEF j
        <4>2. all[k] = rows[j]
          BY <2>1, <2>2, <4>1
        <4> QED
          BY <4>1, <4>2 DEF ToSet
      <3> QED
        BY <2>1, <2>2, <3>1, <3>2
    <2>5. ToSet(all) \subseteq ToSet(log) \cup ToSet(rows)
      BY <2>4 DEF ToSet
    <2> QED
      BY <2>3, <2>5 DEF all
  <1> QED
    BY <1>2, <1>3 DEF rows

\* New rows lie above the head of the log.
LEMMA RowsDoNotClash ==
    ASSUME LogOK, NEW a, NEW from, from = Len(db.events),
           NEW kinds \in Seq(Store!Kinds)
    PROVE  Store!NoClash(Store!NewRows(a, from, kinds))
  <1>1. from \in Nat /\ \A e \in ToSet(db.events) : e.seq \in 1 .. from
    BY DEF LogOK, ToSet
  <1>2. ASSUME NEW e \in Store!NewRows(a, from, kinds)
        PROVE  \E k \in 1 .. Len(kinds) : e.seq = from + k
    <2>1. PICK k \in DOMAIN kinds : e = [seq |-> from + k, attempt |-> a, kind |-> kinds[k]]
      BY DEF Store!NewRows
    <2>2. DOMAIN kinds = 1 .. Len(kinds)
      OBVIOUS
    <2> QED
      BY <2>1, <2>2
  <1>3. Len(kinds) \in Nat
    OBVIOUS
  <1> QED
    BY <1>1, <1>2, <1>3 DEF Store!NoClash

LEMMA NoWriteStutters ==
    ASSUME Only({}), UNCHANGED leaseSequence
    PROVE  UNCHANGED Store!storeVars
  <1>1. /\ db'.commands = db.commands /\ db'.active = db.active
        /\ db'.attempts = db.attempts /\ db'.leases = db.leases
        /\ db'.events = db.events /\ db'.modelSteps = db.modelSteps
        /\ db'.terminalSnapshotHistory = db.terminalSnapshotHistory
        /\ db'.snapshots = db.snapshots /\ db'.reservations = db.reservations
        /\ db'.receiptPublicEventBindings = db.receiptPublicEventBindings
        /\ db'.staged = db.staged
    BY DEF Only, MapNames, LogMaps, StepMaps, CallMaps
  <1> QED
    BY <1>1 DEF Store!storeVars

LEMMA FailedHookStutters ==
    ASSUME MemInv, NEW next, db' = AfterFailedHook(next), UNCHANGED leaseSequence
    PROVE  UNCHANGED Store!storeVars
  BY NoWriteStutters DEF AfterFailedHook, Only, MemInv

\* A method of the Command, the lease or the log leaves the work of a Run alone.
LEMMA WorkStays ==
    ASSUME Only(LogMaps)
    PROVE  /\ UNCHANGED db.modelSteps
           /\ UNCHANGED InOrder(db.terminalSnapshotHistory)
           /\ UNCHANGED Bare(db.snapshots)
           /\ UNCHANGED CallRows(db.reservations, db.receiptPublicEventBindings,
                                 db.staged)
  <1>1. /\ db'.modelSteps = db.modelSteps
        /\ db'.terminalSnapshotHistory = db.terminalSnapshotHistory
        /\ db'.snapshots = db.snapshots /\ db'.reservations = db.reservations
        /\ db'.receiptPublicEventBindings = db.receiptPublicEventBindings
        /\ db'.staged = db.staged
    BY DEF Only, MapNames, LogMaps, StepMaps, CallMaps
  <1> QED
    BY <1>1

LEMMA ReserveRefines ==
    ASSUME MemInv, ReserveRunCommand
    PROVE  Store!ReserveRunCommand
  <1>1. /\ DOMAIN db = MapNames /\ UNCHANGED leaseSequence
        /\ DOMAIN db.commands = {"status", "outcome"}
        /\ db.commands.outcome = "none" /\ db.commands.status = "none"
        /\ db' = [db EXCEPT !.commands = [db.commands EXCEPT !.status = "reserved"],
                            !.active = 1]
    BY DEF ReserveRunCommand, MemInv, LogOK, MapNames, LogMaps
  <1>2. /\ db'.commands = [db.commands EXCEPT !.status = "reserved"]
        /\ db'.active = 1
        /\ db'.attempts = db.attempts /\ db'.leases = db.leases
        /\ db'.events = db.events
        /\ Only(LogMaps)
    BY <1>1 DEF Only, MapNames, LogMaps, StepMaps, CallMaps
  <1>3. db'.commands = [status |-> "reserved", outcome |-> "none"]
    BY <1>1, <1>2
  <1> QED
    BY <1>1, <1>2, <1>3, WorkStays DEF Store!ReserveRunCommand

LEMMA TransitionRefines ==
    ASSUME MemInv, NEW a \in Attempts, NEW tok, NEW expected,
           NEW next \in {"accepted", "terminal"}, NEW outcome,
           TransitionRunCommand(a, tok, expected, next, outcome)
    PROVE  Store!TransitionRunCommand(a, tok, expected, next, outcome)
  <1>1. /\ DOMAIN db = MapNames /\ UNCHANGED leaseSequence
        /\ IsActive(a) /\ HoldsLease(a, tok) /\ db.commands.status = expected
        /\ db' = [db EXCEPT !.commands = [status |-> next, outcome |-> outcome]]
    BY DEF TransitionRunCommand, MemInv
  <1>2. Store!CanTransitionRunCommand(expected, next)
    BY DEF TransitionRunCommand, CanSettle, Store!CanTransitionRunCommand,
           Store!CommandEdges
  <1>3. /\ db'.commands = [status |-> next, outcome |-> outcome]
        /\ db'.active = db.active
        /\ db'.attempts = db.attempts /\ db'.leases = db.leases
        /\ db'.events = db.events
        /\ Only(LogMaps)
    BY <1>1 DEF Only, MapNames, LogMaps, StepMaps, CallMaps
  <1> QED
    BY <1>1, <1>2, <1>3, WorkStays, SameNames, SameLeases
       DEF Store!TransitionRunCommand

\* What a method that appends to the array does to the table.
LEMMA BatchInTheTable ==
    ASSUME MemInv, NEW a \in Attempts, NEW kinds \in Seq(Store!Kinds),
           NEW from, from = Len(db.events),
           db'.events = db.events \o Stored(a, from, kinds)
    PROVE  /\ ToSet(db'.events) = ToSet(db.events) \cup Store!NewRows(a, from, kinds)
           /\ Store!NoClash(Store!NewRows(a, from, kinds))
  <1>1. db.events \in Seq(Row)
    BY DEF MemInv, LogOK
  <1> QED
    BY <1>1, SameRows, RowsDoNotClash DEF MemInv

LEMMA AppendRefines ==
    ASSUME MemInv, NEW a \in Attempts, NEW tok, NEW seq, NEW kinds \in Batches,
           AppendEvents(a, tok, seq, kinds)
    PROVE  Store!AppendEvents(a, tok, seq, kinds)
  <1>1. /\ leaseSequence' = leaseSequence /\ DOMAIN db = MapNames
        /\ Exists(a) /\ HoldsLease(a, tok) /\ db.attempts[a] = seq
        /\ seq + Len(kinds) <= MaxEvents
        /\ db' = [db EXCEPT !.events = db.events \o Stored(a, seq, kinds),
                            !.attempts = [db.attempts EXCEPT
                                             ![a] = seq + Len(kinds)]]
    BY DEF AppendEvents, MemInv, MapNames, LogMaps
  <1>2. kinds \in Seq(Store!Kinds)
    BY MemoryAssumption
  <1>3. /\ db'.commands = db.commands /\ db'.active = db.active
        /\ db'.attempts = [db.attempts EXCEPT ![a] = seq + Len(kinds)]
        /\ db'.leases = db.leases
        /\ db'.events = db.events \o Stored(a, seq, kinds)
        /\ Only(LogMaps)
    BY <1>1 DEF Only, MapNames, LogMaps, StepMaps, CallMaps
  <1>4. seq = Len(db.events)
    BY <1>1, HolderIsActive
  <1>5. /\ ToSet(db'.events) = ToSet(db.events) \cup Store!NewRows(a, seq, kinds)
        /\ Store!NoClash(Store!NewRows(a, seq, kinds))
    BY <1>2, <1>3, <1>4, BatchInTheTable
  <1> QED
    BY <1>1, <1>3, <1>5, WorkStays, SameNames, SameLeases DEF Store!AppendEvents

LEMMA SettleRefines ==
    ASSUME MemInv, NEW a \in Attempts, NEW tok, NEW expected, NEW seq,
           NEW o \in TerminalStatuses,
           SettleRunCommandWithTerminalEvent(a, tok, expected, seq, o)
    PROVE  Store!SettleRunCommandWithTerminalEvent(a, tok, expected, seq, o)
  <1> PICK kinds : kinds = <<TerminalKind(o)>>
    OBVIOUS
  <1>1. kinds \in Seq(Store!Kinds) /\ kinds = <<Store!TerminalKind(o)>>
    BY KindsOfMethods, SameTerminalKind, MemoryAssumption
  <1>2. /\ leaseSequence' = leaseSequence /\ DOMAIN db = MapNames
        /\ IsActive(a) /\ HoldsLease(a, tok) /\ db.attempts[a] = seq
        /\ db.commands.status = expected /\ CanSettle(expected) /\ seq < MaxEvents
        /\ db' = [db EXCEPT !.events = db.events \o Stored(a, seq, kinds),
                            !.attempts = [db.attempts EXCEPT ![a] = seq + 1],
                            !.commands = [status |-> "terminal", outcome |-> o]]
    BY DEF SettleRunCommandWithTerminalEvent, MemInv, MapNames, LogMaps
  <1>3. /\ db'.commands = [status |-> "terminal", outcome |-> o]
        /\ db'.active = db.active
        /\ db'.attempts = [db.attempts EXCEPT ![a] = seq + 1]
        /\ db'.leases = db.leases
        /\ db'.events = db.events \o Stored(a, seq, kinds)
        /\ Only(LogMaps)
    BY <1>2 DEF Only, MapNames, LogMaps, StepMaps, CallMaps
  <1>4. seq = Len(db.events)
    BY <1>2, HolderIsActive
  <1>5. /\ ToSet(db'.events) = ToSet(db.events) \cup Store!NewRows(a, seq, kinds)
        /\ Store!NoClash(Store!NewRows(a, seq, kinds))
    BY <1>1, <1>3, <1>4, BatchInTheTable
  <1>6. Store!CanTransitionRunCommand(expected, "terminal")
    BY <1>2 DEF CanSettle, Store!CanTransitionRunCommand, Store!CommandEdges
  <1> QED
    BY <1>1, <1>2, <1>3, <1>5, <1>6, WorkStays, SameNames, SameLeases
       DEF Store!SettleRunCommandWithTerminalEvent

\* A new Attempt with its lease.
LEMMA OpensAttempt ==
    ASSUME HandToken, NEW next \in Attempts, NEW watermark,
           db'.attempts = [db.attempts EXCEPT ![next] = watermark],
           db'.active = next,
           db'.leases = [db.leases EXCEPT ![next] = NewLease]
    PROVE  Store!OpenAttempt(next, watermark)
  BY SameNames DEF HandToken, Store!OpenAttempt

LEMMA RecoverRefines ==
    ASSUME MemInv, NEW seq,
           RecoverAndSettleRunCommandWithTerminalEvent(db.active, seq)
    PROVE  \/ Store!RecoverAndSettleRunCommandWithTerminalEvent(db.active, seq)
           \/ UNCHANGED Store!storeVars
  <1> PICK kinds : kinds = <<TerminalKind("blocked")>>
    OBVIOUS
  <1> PICK next \in Attempts : next = db.active + 1
    BY DEF RecoverAndSettleRunCommandWithTerminalEvent
  <1>1. /\ db.active # 0 /\ ~ActiveLeaseForRun
        /\ db.commands.status = "dispatched"
        /\ db.attempts[db.active] = seq /\ seq < MaxEvents
        /\ DOMAIN db = MapNames
    BY DEF RecoverAndSettleRunCommandWithTerminalEvent, MemInv
  <1>2. kinds \in Seq(Store!Kinds) /\ kinds = <<Store!TerminalKind("blocked")>>
    BY KindsOfMethods, SameTerminalKind DEF Store!Outcomes
  <1>3. seq = Len(db.events)
    BY <1>1, ActiveIsAnAttempt DEF MemInv, LogOK
  <1>4. CASE db' = AfterFailedHook(next) /\ UNCHANGED leaseSequence
    BY <1>4, FailedHookStutters
  <1>5. CASE /\ db' = [db EXCEPT
                    !.attempts = [db.attempts EXCEPT ![next] = seq + 1],
                    !.active = next,
                    !.leases = [db.leases EXCEPT ![next] = NewLease],
                    !.events = db.events \o Stored(next, seq, kinds),
                    !.commands = [status |-> "terminal", outcome |-> "blocked"]]
             /\ HandToken
    <2>1. /\ db'.attempts = [db.attempts EXCEPT ![next] = seq + 1]
          /\ db'.active = next
          /\ db'.leases = [db.leases EXCEPT ![next] = NewLease]
          /\ db'.events = db.events \o Stored(next, seq, kinds)
          /\ db'.commands = [status |-> "terminal", outcome |-> "blocked"]
          /\ Only(LogMaps)
      BY <1>1, <1>5 DEF Only, MapNames, LogMaps, StepMaps, CallMaps
    <2>2. Store!OpenAttempt(next, seq + 1)
      BY <1>5, <2>1, OpensAttempt
    <2>3. /\ ToSet(db'.events)
                 = ToSet(db.events) \cup Store!NewRows(next, seq, kinds)
          /\ Store!NoClash(Store!NewRows(next, seq, kinds))
      BY <1>2, <1>3, <2>1, BatchInTheTable
    <2>4. Store!NoLiveLease
      BY <1>1, SameLeases
    <2> QED
      BY <1>1, <1>2, <2>1, <2>2, <2>3, <2>4, WorkStays
         DEF Store!RecoverAndSettleRunCommandWithTerminalEvent
  <1>6. \/ db' = AfterFailedHook(next) /\ UNCHANGED leaseSequence
        \/ /\ db' = [db EXCEPT
                 !.attempts[next] = seq + 1,
                 !.active = next,
                 !.leases[next] = NewLease,
                 !.events = @ \o Stored(next, seq, kinds),
                 !.commands = [status |-> "terminal", outcome |-> "blocked"]]
           /\ HandToken
    BY DEF RecoverAndSettleRunCommandWithTerminalEvent
  <1> QED
    BY <1>1, <1>4, <1>5, <1>6 DEF MapNames, LogMaps

\* The proof that nothing went out, in the Maps and in the tables.
LEMMA PrefixInTheTable ==
    ASSUME MemInv, NEW writers, NEW seq,
           HasOnlyPreDispatchPrefix(writers, db.commands.status, seq)
    PROVE  /\ Store!PreDispatchPrefix(seq)
           /\ \A e \in ToSet(db.events) : e.attempt \in writers
  <1> DEFINE prefix == <<"preparing", "model_streaming">>
             log == db.events
  <1>1. /\ Len(log) = seq /\ seq \in 0 .. 2
        /\ db.commands.status = "reserved" => log = <<>>
        /\ DOMAIN log = 1 .. seq
        /\ \A k \in 1 .. seq : /\ log[k].seq = k /\ log[k].kind = prefix[k]
                               /\ log[k].attempt \in writers
                               /\ k > 1 => log[k - 1].attempt <= log[k].attempt
    BY DEF HasOnlyPreDispatchPrefix, MemInv, LogOK
  <1>2. ToSet(log) = {log[k] : k \in 1 .. seq}
    BY <1>1 DEF ToSet
  <1> HIDE DEF log
  <1>3. {e.seq : e \in ToSet(log)} = 1 .. seq
    <2>1. \A e \in ToSet(log) : e.seq \in 1 .. seq
      BY <1>1, <1>2
    <2>2. \A k \in 1 .. seq : \E e \in ToSet(log) : e.seq = k
      BY <1>1, <1>2
    <2> QED
      BY <2>1, <2>2
  <1>4. db.commands.status = "reserved" => seq = 0
    BY <1>1
  <1>5. \A e \in ToSet(log) :
           /\ e.kind = IF e.seq = 1 THEN "preparing" ELSE "model_streaming"
           /\ e.attempt \in writers
    BY <1>1, <1>2
  <1>6. \A e, f \in ToSet(log) : e.seq < f.seq => e.attempt <= f.attempt
    <2> SUFFICES ASSUME NEW j \in 1 .. seq, NEW k \in 1 .. seq, j < k
                 PROVE  log[j].attempt <= log[k].attempt
      BY <1>1, <1>2
    <2>1. j = 1 /\ k = 2 /\ k - 1 = j
      BY <1>1
    <2> QED
      BY <1>1, <2>1
  <1> QED
    BY <1>1, <1>3, <1>4, <1>5, <1>6 DEF Store!PreDispatchPrefix, log

LEMMA NothingOutInTheTable ==
    ASSUME MemInv, NoOutboundHistory
    PROVE  Store!NoOutboundHistory
  <1>1. \A m \in ModelSteps : db.modelSteps[m].status = "none"
    BY DEF NoOutboundHistory, Absent
  <1>2. InOrder(db.terminalSnapshotHistory) = <<>>
    <2> PICK records : records = db.terminalSnapshotHistory
      OBVIOUS
    <2>1. \A s \in SnapshotIds : records[s].ordinal = 0
      BY DEF NoOutboundHistory
    <2>2. LastOrdinal(records) = 0
      BY <2>1, LastOrdinalIs DEF NumberedTo
    <2>3. InOrder(records) = <<>>
      BY <2>2 DEF InOrder
    <2> QED
      BY <2>3
  <1>3. Bare(db.snapshots).through = -1
    BY DEF NoOutboundHistory, NoSnapshot, Bare
  <1>4. \A i \in Invocations :
           CallRows(db.reservations, db.receiptPublicEventBindings, db.staged)[i].status
               = "none"
    BY DEF NoOutboundHistory, Absent, CallRows, MemInv, CallsOK
  <1> QED
    BY <1>1, <1>2, <1>3, <1>4 DEF Store!NoOutboundHistory

LEMMA ClaimRefines ==
    ASSUME MemInv, NEW expected, NEW seq, ClaimInitialPreDispatch(expected, seq)
    PROVE  Store!ClaimInitialPreDispatch(expected, seq) \/ UNCHANGED Store!storeVars
  <1>1. /\ expected \in PreDispatch /\ db.commands.status = expected
        /\ db.active = 1 /\ 2 \in Attempts /\ ~ActiveLeaseForRun
        /\ db.attempts[1] = seq /\ DOMAIN db = MapNames
        /\ HasOnlyPreDispatchPrefix({1}, expected, seq) /\ NoOutboundHistory
    BY DEF ClaimInitialPreDispatch, MemInv
  <1>2. /\ Store!PreDispatchPrefix(seq)
        /\ \A e \in ToSet(db.events) : e.attempt = 1
    BY <1>1, PrefixInTheTable
  <1>3. Store!NoOutboundHistory /\ Store!NoLiveLease
    BY <1>1, NothingOutInTheTable, SameLeases
  <1>4. CASE db' = AfterFailedHook(2) /\ UNCHANGED leaseSequence
    BY <1>4, FailedHookStutters
  <1>5. CASE /\ db' = [db EXCEPT
                    !.attempts = [db.attempts EXCEPT ![2] = seq],
                    !.active = 2,
                    !.leases = [db.leases EXCEPT ![2] = NewLease]]
             /\ HandToken
    <2>1. /\ db'.attempts = [db.attempts EXCEPT ![2] = seq]
          /\ db'.active = 2
          /\ db'.leases = [db.leases EXCEPT ![2] = NewLease]
          /\ db'.events = db.events /\ db'.commands = db.commands
          /\ Only(LogMaps)
      BY <1>1, <1>5 DEF Only, MapNames, LogMaps, StepMaps, CallMaps
    <2>2. Store!OpenAttempt(2, seq)
      BY <1>1, <1>5, <2>1, OpensAttempt
    <2> QED
      BY <1>1, <1>2, <1>3, <2>1, <2>2, WorkStays, SameNames
         DEF Store!ClaimInitialPreDispatch
  <1>6. \/ db' = AfterFailedHook(2) /\ UNCHANGED leaseSequence
        \/ /\ db' = [db EXCEPT !.attempts[2] = seq, !.active = 2,
                               !.leases[2] = NewLease]
           /\ HandToken
    BY DEF ClaimInitialPreDispatch
  <1> QED
    BY <1>1, <1>4, <1>5, <1>6 DEF MapNames, LogMaps

\* A lease of Attempt a and nothing else.
LEMMA LeaseInTheTable ==
    ASSUME MemInv, NEW a \in Attempts, db' = [db EXCEPT !.leases[a] = NewLease]
    PROVE  /\ db'.leases = [db.leases EXCEPT ![a] = NewLease]
           /\ db'.commands = db.commands /\ db'.active = db.active
           /\ db'.attempts = db.attempts /\ db'.events = db.events
           /\ Only(LogMaps)
  <1>1. DOMAIN db = MapNames
    BY DEF MemInv
  <1>2. db' = [db EXCEPT !.leases = [db.leases EXCEPT ![a] = NewLease]]
    BY <1>1 DEF MapNames, LogMaps
  <1> QED
    BY <1>1, <1>2 DEF Only, MapNames, LogMaps, StepMaps, CallMaps

LEMMA ReclaimRefines ==
    ASSUME MemInv, NEW expected, NEW seq, ReclaimInitialPreDispatch(expected, seq)
    PROVE  Store!ReclaimInitialPreDispatch(expected, seq)
  <1> DEFINE ofInitial == {k \in DOMAIN db.events : db.events[k].attempt = 1}
  <1>1. /\ expected \in PreDispatch /\ db.active = 2
        /\ db.attempts[2] = seq /\ db.commands.status = expected
        /\ db.attempts[1] = IF ofInitial = {} THEN 0
                            ELSE db.events[Max(ofInitial)].seq
        /\ HasOnlyPreDispatchPrefix({1, 2}, expected, seq)
        /\ NoOutboundHistory /\ db.leases[2].token # 0 /\ ~ActiveLeaseForRun
        /\ HandToken /\ db' = [db EXCEPT !.leases[2] = NewLease]
    BY DEF ReclaimInitialPreDispatch
  <1>2. 2 \in Attempts
    BY <1>1, ActiveIsAnAttempt
  <1>3. Store!PreDispatchPrefix(seq) /\ Store!NoOutboundHistory /\ Store!NoLiveLease
    BY <1>1, PrefixInTheTable, NothingOutInTheTable, SameLeases
  <1>4. /\ \A k \in DOMAIN db.events : db.events[k].seq = k
        /\ Len(db.events) \in Nat /\ DOMAIN db.events = 1 .. Len(db.events)
    BY DEF MemInv, LogOK
  <1>5. /\ ofInitial \subseteq Nat
        /\ \A k \in ofInitial : k <= Len(db.events)
    BY <1>4
  <1>6. ofInitial # {} => /\ Max(ofInitial) \in ofInitial
                          /\ \A k \in ofInitial : Max(ofInitial) >= k
                          /\ db.attempts[1] = Max(ofInitial)
    <2>1. SUFFICES ASSUME ofInitial # {}
                   PROVE  /\ Max(ofInitial) \in ofInitial
                          /\ \A k \in ofInitial : Max(ofInitial) >= k
                          /\ db.attempts[1] = Max(ofInitial)
      OBVIOUS
    <2>2. /\ Max(ofInitial) \in ofInitial
          /\ \A k \in ofInitial : Max(ofInitial) >= k
      <3> HIDE DEF ofInitial
      <3> QED
        BY <1>4, <1>5, <2>1, BoundedHasMax
    <2> QED
      BY <1>1, <1>4, <2>1, <2>2
  <1>7. ofInitial = {} => db.attempts[1] = 0
    BY <1>1
  <1>8. \A e \in ToSet(db.events) : e.attempt = 1 => e.seq <= db.attempts[1]
    <2> SUFFICES ASSUME NEW k \in DOMAIN db.events, db.events[k].attempt = 1
                 PROVE  db.events[k].seq <= db.attempts[1]
      BY DEF ToSet
    <2>1. k \in ofInitial
      OBVIOUS
    <2> HIDE DEF ofInitial
    <2> QED
      BY <1>4, <1>5, <1>6, <2>1
  <1>9. db.attempts[1] # 0 =>
           \E e \in ToSet(db.events) : e.attempt = 1 /\ e.seq = db.attempts[1]
    <2> SUFFICES ASSUME db.attempts[1] # 0
                 PROVE  \E k \in DOMAIN db.events : /\ db.events[k].attempt = 1
                                                    /\ db.events[k].seq = db.attempts[1]
      BY DEF ToSet
    <2> QED
      BY <1>4, <1>6, <1>7
  <1> HIDE DEF ofInitial
  <1> QED
    BY <1>1, <1>2, <1>3, <1>8, <1>9, LeaseInTheTable, WorkStays, SameNames
       DEF HandToken, Store!ReclaimInitialPreDispatch

LEMMA CreateRefines ==
    ASSUME MemInv, CreateRunAttempt(db.active)
    PROVE  Store!CreateRunAttempt(db.active)
  <1> PICK next \in Attempts : next = db.active + 1
    BY DEF CreateRunAttempt
  <1> PICK seq : seq = InheritedWatermark
    OBVIOUS
  <1>1. /\ db.active # 0 /\ ~IsC2bPristineAttempt(db.active) /\ ~ActiveLeaseForRun
        /\ HandToken /\ DOMAIN db = MapNames
        /\ db' = [db EXCEPT !.attempts[next] = seq, !.active = next,
                            !.leases[next] = NewLease]
    BY DEF CreateRunAttempt, MemInv
  <1>2. db' = [db EXCEPT !.attempts = [db.attempts EXCEPT ![next] = seq],
                         !.active = next,
                         !.leases = [db.leases EXCEPT ![next] = NewLease]]
    BY <1>1 DEF MapNames, LogMaps
  <1>3. /\ db'.attempts = [db.attempts EXCEPT ![next] = seq]
        /\ db'.active = next
        /\ db'.leases = [db.leases EXCEPT ![next] = NewLease]
        /\ db'.events = db.events /\ db'.commands = db.commands
        /\ Only(LogMaps)
    BY <1>1, <1>2 DEF Only, MapNames, LogMaps, StepMaps, CallMaps
  <1>4. seq = db.attempts[db.active]
    BY <1>1, ActiveIsAnAttempt, LastIsLength DEF InheritedWatermark, MemInv
  <1>5. Store!OpenAttempt(next, seq)
    BY <1>1, <1>3, OpensAttempt
  <1>6. Store!NoLiveLease
    BY <1>1, SameLeases
  <1> QED
    BY <1>1, <1>3, <1>4, <1>5, <1>6, WorkStays, SameNames DEF Store!CreateRunAttempt

LEMMA AcquireRefines ==
    ASSUME MemInv, NEW a \in Attempts, AcquireLease(a)
    PROVE  Store!AcquireLease(a)
  <1>1. /\ a # 0 /\ IsActive(a) /\ ~IsC2bPristineAttempt(a) /\ ~ActiveLeaseForRun
        /\ HandToken /\ db' = [db EXCEPT !.leases[a] = NewLease]
    BY DEF AcquireLease
  <1> QED
    BY <1>1, LeaseInTheTable, WorkStays, SameNames, SameLeases
       DEF HandToken, Store!AcquireLease

LEMMA RenewRefines ==
    ASSUME MemInv, NEW a \in Attempts, NEW tok, RenewLease(a, tok)
    PROVE  Store!RenewLease(a, tok)
  <1> PICK leases : leases = [db.leases EXCEPT ![a].left = LeaseTtl]
    OBVIOUS
  <1>1. /\ HoldsLease(a, tok) /\ UNCHANGED leaseSequence /\ DOMAIN db = MapNames
        /\ db' = [db EXCEPT !.leases = leases]
    BY DEF RenewLease, MemInv, MapNames, LogMaps
  <1>2. /\ db'.leases = leases
        /\ db'.commands = db.commands /\ db'.active = db.active
        /\ db'.attempts = db.attempts /\ db'.events = db.events
        /\ Only(LogMaps)
    BY <1>1 DEF Only, MapNames, LogMaps, StepMaps, CallMaps
  <1> QED
    BY <1>1, <1>2, WorkStays, SameLeases DEF Store!RenewLease

LEMMA TickRefines ==
    ASSUME MemInv, Tick
    PROVE  Store!Tick
  <1> PICK leases : leases = [a \in Attempts |->
                                 [db.leases[a] EXCEPT !.left = Max({0, @ - 1})]]
    OBVIOUS
  <1>1. /\ ActiveLeaseForRun /\ UNCHANGED leaseSequence /\ DOMAIN db = MapNames
        /\ db' = [db EXCEPT !.leases = leases]
    BY DEF Tick, MemInv
  <1>2. /\ db'.leases = leases
        /\ db'.commands = db.commands /\ db'.active = db.active
        /\ db'.attempts = db.attempts /\ db'.events = db.events
        /\ Only(LogMaps)
    BY <1>1 DEF Only, MapNames, LogMaps, StepMaps, CallMaps
  <1>3. ASSUME NEW a \in Attempts
        PROVE  leases[a] = [db.leases[a] EXCEPT !.left =
                               IF Store!Live(a) THEN db.leases[a].left - 1 ELSE 0]
    <2> PICK left \in Nat : left = db.leases[a].left
      BY DEF MemInv, LogOK
    <2>1. Max({0, left - 1}) = IF left > 0 THEN left - 1 ELSE 0
      <3> PICK less \in Int : less = left - 1
        OBVIOUS
      <3>1. Max({0, less}) = IF 0 >= less THEN 0 ELSE less
        BY MaxOfTwo
      <3> QED
        BY <3>1
    <2>2. leases[a] = [db.leases[a] EXCEPT !.left = Max({0, left - 1})]
      OBVIOUS
    <2> QED
      BY <2>1, <2>2 DEF Store!Live
  <1>4. leases = [a \in Attempts |-> [db.leases[a] EXCEPT !.left =
                     IF Store!Live(a) THEN db.leases[a].left - 1 ELSE 0]]
    BY <1>3
  <1>5. \E a \in Attempts : Store!Live(a)
    BY <1>1, SameLeases
  <1> QED
    BY <1>1, <1>2, <1>4, <1>5, WorkStays, SameNames DEF Store!Tick

-----------------------------------------------------------------------------
(* Model steps and snapshots *)

\* A method of the steps leaves the log, the leases and the calls alone.
LEMMA LogAndCallsStay ==
    ASSUME Only(StepMaps \cup {"commands", "artifacts"})
    PROVE  /\ db'.active = db.active /\ db'.attempts = db.attempts
           /\ db'.leases = db.leases /\ UNCHANGED ToSet(db.events)
           /\ UNCHANGED CallRows(db.reservations, db.receiptPublicEventBindings,
                                 db.staged)
  <1>1. /\ db'.active = db.active /\ db'.attempts = db.attempts
        /\ db'.leases = db.leases /\ db'.events = db.events
        /\ db'.reservations = db.reservations
        /\ db'.receiptPublicEventBindings = db.receiptPublicEventBindings
        /\ db'.staged = db.staged
    BY DEF Only, MapNames, LogMaps, StepMaps, CallMaps
  <1> QED
    BY <1>1

LEMMA StartRefines ==
    ASSUME MemInv, NEW a \in Attempts, NEW tok, NEW m \in ModelSteps,
           StartModelStep(a, tok, m)
    PROVE  Store!StartModelStep(a, tok, m)
  <1>1. /\ UNCHANGED leaseSequence /\ DOMAIN db = MapNames
        /\ IsActive(a) /\ db.modelSteps[m].status = "none" /\ HoldsLease(a, tok)
        /\ db.commands.status \in {"accepted", "dispatched"}
        /\ \A n \in ModelSteps : db.modelSteps[n].status # "started"
    BY DEF StartModelStep, Absent, MemInv
  <1>2. db' = [db EXCEPT
                  !.commands = [db.commands EXCEPT !.status = "dispatched"],
                  !.modelSteps = [db.modelSteps EXCEPT
                      ![m] = [status |-> "started", attempt |-> a]]]
    BY <1>1 DEF StartModelStep, MapNames, LogMaps, StepMaps
  <1>3. /\ db'.commands = [db.commands EXCEPT !.status = "dispatched"]
        /\ db'.modelSteps = [db.modelSteps EXCEPT
                                ![m] = [status |-> "started", attempt |-> a]]
        /\ db'.terminalSnapshotHistory = db.terminalSnapshotHistory
        /\ db'.snapshots = db.snapshots
        /\ Only(StepMaps \cup {"commands", "artifacts"})
    BY <1>1, <1>2 DEF Only, MapNames, LogMaps, StepMaps, CallMaps
  <1> QED
    BY <1>1, <1>3, LogAndCallsStay, SameNames, SameLeases
       DEF Store!StartModelStep

LEMMA FinishRefines ==
    ASSUME MemInv, NEW a \in Attempts, NEW tok, NEW m \in ModelSteps,
           FinishModelStep(a, tok, m)
    PROVE  Store!FinishModelStep(a, tok, m)
  <1> PICK steps : steps = [db.modelSteps EXCEPT ![m].status = "failed"]
    OBVIOUS
  <1>1. /\ UNCHANGED leaseSequence /\ DOMAIN db = MapNames
        /\ IsActive(a) /\ HoldsLease(a, tok)
        /\ db.modelSteps[m] = [status |-> "started", attempt |-> a]
        /\ db' = [db EXCEPT !.modelSteps = steps]
    BY DEF FinishModelStep, MemInv, MapNames, StepMaps
  <1>2. /\ db'.commands = db.commands
        /\ db'.modelSteps = steps
        /\ db'.terminalSnapshotHistory = db.terminalSnapshotHistory
        /\ db'.snapshots = db.snapshots
        /\ Only(StepMaps \cup {"commands", "artifacts"})
    BY <1>1 DEF Only, MapNames, LogMaps, StepMaps, CallMaps
  <1> QED
    BY <1>1, <1>2, LogAndCallsStay, SameNames, SameLeases
       DEF Store!FinishModelStep

LEMMA WriteSnapshotRefines ==
    ASSUME MemInv, NEW a \in Attempts, NEW tok, NEW seq, NEW through,
           WriteSnapshot(a, tok, seq, through)
    PROVE  Store!WriteSnapshot(a, tok, seq, through)
  <1>1. /\ UNCHANGED leaseSequence /\ DOMAIN db = MapNames
        /\ Exists(a) /\ db.attempts[a] = seq /\ through \in 0 .. seq
        /\ HoldsLease(a, tok) /\ db.snapshots.through < through
        /\ db' = [db EXCEPT !.snapshots = [id |-> NoStep, step |-> NoStep,
                                           attempt |-> a, through |-> through]]
    BY DEF WriteSnapshot, MemInv
  <1>2. /\ db'.commands = db.commands
        /\ db'.modelSteps = db.modelSteps
        /\ db'.terminalSnapshotHistory = db.terminalSnapshotHistory
        /\ db'.snapshots = [id |-> NoStep, step |-> NoStep,
                            attempt |-> a, through |-> through]
        /\ Only(StepMaps \cup {"commands", "artifacts"})
    BY <1>1 DEF Only, MapNames, LogMaps, StepMaps, CallMaps
  <1>3. /\ Bare(db'.snapshots) = [step |-> NoStep, attempt |-> a,
                                  through |-> through]
        /\ Bare(db.snapshots).through < through
    BY <1>1, <1>2 DEF Bare
  <1> QED
    BY <1>1, <1>2, <1>3, LogAndCallsStay, SameNames, SameLeases
       DEF Store!WriteSnapshot

\* No two records have the same ordinal.
Distinct(records) ==
    /\ \A s \in SnapshotIds : records[s].ordinal \in Nat
    /\ \A s, t \in SnapshotIds :
          records[s].ordinal > 0 /\ records[s].ordinal = records[t].ordinal
              => s = t

Ranges(f, n) == f = [k \in 1 .. n |-> f[k]]

\* The k-th element is the record with ordinal k.
Lists(list, records, n) ==
    /\ Ranges(list, n)
    /\ \A k \in 1 .. n : \A s \in SnapshotIds :
          records[s].ordinal = k => list[k] = Bare(records[s].snapshot)

LEMMA InOrderAt ==
    ASSUME NEW records, Distinct(records),
           NEW last \in Nat, NumberedTo(records, last)
    PROVE  Lists(InOrder(records), records, last)
  <1> DEFINE At(k) == CHOOSE s \in SnapshotIds : records[s].ordinal = k
  <1>1. LastOrdinal(records) = last
    BY LastOrdinalIs DEF Distinct
  <1>2. InOrder(records) = [k \in 1 .. last |-> Bare(records[At(k)].snapshot)]
    BY <1>1 DEF InOrder
  <1>3. ASSUME NEW k \in 1 .. last, NEW s \in SnapshotIds, records[s].ordinal = k
        PROVE  At(k) = s
    <2>1. At(k) \in SnapshotIds /\ records[At(k)].ordinal = k
      BY <1>3
    <2> HIDE DEF At
    <2> QED
      BY <1>3, <2>1 DEF Distinct
  <1> HIDE DEF At
  <1> QED
    BY <1>2, <1>3 DEF Lists, Ranges

LEMMA HistoryIsDistinct ==
    ASSUME StepsOK
    PROVE  Distinct(db.terminalSnapshotHistory)
  BY DEF StepsOK, Histories, Distinct

LEMMA IntegrityInTheTable ==
    ASSUME MemInv, TerminalResultSnapshotInvariant
    PROVE  Store!SnapshotIntegrity
  <1> PICK records : records = db.terminalSnapshotHistory
    OBVIOUS
  <1>1. /\ StepsOK
        /\ Histories = {s \in SnapshotIds : records[s].ordinal > 0}
    BY DEF MemInv, Histories
  <1> PICK last \in Nat : NumberedTo(records, last)
    BY <1>1 DEF StepsOK
  <1> PICK h : h = InOrder(records)
    OBVIOUS
  <1>2. /\ h = [k \in 1 .. last |-> h[k]]
        /\ \A k \in 1 .. last : \A s \in SnapshotIds :
              records[s].ordinal = k => h[k] = Bare(records[s].snapshot)
    <2>1. Lists(h, records, last)
      BY <1>1, HistoryIsDistinct, InOrderAt
    <2> QED
      BY <2>1 DEF Lists, Ranges
  <1>3. \A s \in SnapshotIds : records[s].ordinal \in 0 .. last
    BY <1>1, HistoryIsDistinct DEF NumberedTo, Distinct
  <1>4. CASE last = 0
    <2>1. h = <<>>
      BY <1>2, <1>4
    <2>2. Histories = {}
      BY <1>1, <1>3, <1>4
    <2>3. Rows = {}
      <3> SUFFICES ASSUME NEW m \in Rows PROVE FALSE
        OBVIOUS
      <3> PICK s \in SnapshotIds : s = db.terminalModelStepResults[m].snapshotId
        BY <1>1 DEF StepsOK
      <3>1. records[s].ordinal = db.terminalModelStepResults[m].ordinal
        BY DEF TerminalResultSnapshotInvariant
      <3>2. db.terminalModelStepResults[m].ordinal > 0
        BY DEF Rows
      <3> QED
        BY <1>1, <2>2, <3>1, <3>2
    <2>4. Bare(db.snapshots).step = NoStep
      BY <2>3 DEF TerminalResultSnapshotInvariant, Bare
    <2> QED
      BY <2>1, <2>4 DEF Store!SnapshotIntegrity
  <1>5. CASE last # 0
    <2>1. last \in 1 .. last
      BY <1>5
    <2>2. h # <<>> /\ Len(h) = last /\ DOMAIN h = 1 .. last
      BY <1>2, <2>1
    <2> PICK s \in SnapshotIds : records[s].ordinal = last
      BY <2>1 DEF NumberedTo
    <2>3. s \in Histories /\ \A t \in Histories : records[t].ordinal <= records[s].ordinal
      BY <1>1, <1>3, <2>1
    <2>4. db.snapshots = records[s].snapshot
      BY <2>3 DEF TerminalResultSnapshotInvariant
    <2>5. Bare(db.snapshots) = h[Len(h)]
      BY <1>2, <2>1, <2>2, <2>4
    <2>6. ASSUME NEW k \in DOMAIN h
          PROVE  db.modelSteps[h[k].step].status = "terminal"
      <3> PICK t \in SnapshotIds : records[t].ordinal = k
        BY <2>2 DEF NumberedTo
      <3>1. t \in Histories /\ k \in 1 .. last
        BY <1>1, <2>2
      <3>2. db.modelSteps[records[t].snapshot.step].status = "terminal"
        BY <1>1, <3>1 DEF StepsOK
      <3>3. h[k] = Bare(records[t].snapshot)
        BY <1>2, <3>1
      <3>4. h[k].step = records[t].snapshot.step
        BY <3>3 DEF Bare
      <3> QED
        BY <3>2, <3>4
    <2> QED
      BY <2>2, <2>5, <2>6 DEF Store!SnapshotIntegrity
  <1> QED
    BY <1>4, <1>5

\* One more record is one more element at the end.
LEMMA OneMoreRecord ==
    ASSUME NEW old, NEW last \in Nat, Ranges(old, last),
           NEW next, next = last + 1,
           NEW new, Ranges(new, next),
           \A k \in 1 .. last : new[k] = old[k]
    PROVE  new = Append(old, new[next])
  <1> DEFINE S == {new[k] : k \in 1 .. next}
  <1>1. /\ \A k \in 1 .. last : old[k] \in S
        /\ \A k \in 1 .. next : new[k] \in S
        /\ new[next] \in S /\ next \in Nat
    OBVIOUS
  <1> HIDE DEF S
  <1>2. old \in [1 .. last -> S] /\ new \in [1 .. next -> S]
    BY <1>1 DEF Ranges
  <1>3. /\ old \in Seq(S) /\ Len(old) = last
        /\ new \in Seq(S) /\ Len(new) = next
    BY <1>1, <1>2
  <1> PICK x \in S : x = new[next]
    BY <1>1
  <1> DEFINE all == Append(old, x)
  <1>4. /\ all \in Seq(S) /\ Len(all) = next
        /\ \A k \in 1 .. last : all[k] = old[k]
        /\ all[next] = x
    BY <1>3
  <1>5. \A k \in 1 .. Len(new) : new[k] = all[k]
    <2> HIDE DEF all
    <2> TAKE k \in 1 .. Len(new)
    <2>1. k \in 1 .. last \/ k = next
      BY <1>1, <1>3
    <2> QED
      BY <1>4, <2>1
  <1>6. all = Append(old, new[next])
    OBVIOUS
  <1> HIDE DEF all
  <1> QED
    BY <1>3, <1>4, <1>5, <1>6, SeqEqual

AddsRecord(s, snapshot, ordinal) ==
    db'.terminalSnapshotHistory =
        [db.terminalSnapshotHistory EXCEPT
            ![s] = [snapshot |-> snapshot, ordinal |-> ordinal]]

LEMMA HistoryGrows ==
    ASSUME MemInv, MemInv', NEW s \in SnapshotIds, s \notin Histories,
           NEW last \in Nat, NumberedTo(db.terminalSnapshotHistory, last),
           NEW snapshot, AddsRecord(s, snapshot, last + 1)
    PROVE  InOrder(db'.terminalSnapshotHistory)
               = Append(InOrder(db.terminalSnapshotHistory), Bare(snapshot))
  <1> PICK records : records = db.terminalSnapshotHistory
    OBVIOUS
  <1> PICK longer : longer = db'.terminalSnapshotHistory
    OBVIOUS
  <1>1. StepsOK /\ StepsOK' /\ DOMAIN records = SnapshotIds
    BY DEF MemInv, StepsOK
  <1>2. /\ \A t \in SnapshotIds : records[t].ordinal \in 0 .. last
        /\ records[s].ordinal = 0
    BY <1>1 DEF StepsOK, NumberedTo, Histories
  <1>3. /\ longer[s].ordinal = last + 1 /\ longer[s].snapshot = snapshot
        /\ \A t \in SnapshotIds \ {s} : longer[t] = records[t]
    BY <1>1 DEF AddsRecord
  <1> PICK next \in Nat : next = last + 1
    OBVIOUS
  <1>4. PICK n \in Nat : NumberedTo(longer, n)
    BY <1>1 DEF StepsOK
  <1>5. n = next
    <2>1. n >= last + 1
      BY <1>3, <1>4 DEF NumberedTo
    <2>2. CASE n > last + 1
      <3>1. PICK t \in SnapshotIds : longer[t].ordinal = last + 2
        BY <1>4, <2>2 DEF NumberedTo
      <3>2. t # s
        BY <1>3, <3>1
      <3> QED
        BY <1>2, <1>3, <3>1, <3>2
    <2> QED
      BY <2>1, <2>2
  <1> PICK old : old = InOrder(records)
    OBVIOUS
  <1> PICK new : new = InOrder(longer)
    OBVIOUS
  <1>6. Lists(old, records, last)
    BY <1>1, HistoryIsDistinct, InOrderAt
  <1>7. Distinct(longer) /\ NumberedTo(longer, next)
    <2>1. Distinct(longer)
      BY <1>1 DEF StepsOK, Histories, Distinct
    <2> QED
      BY <1>4, <1>5, <2>1
  <1>8. Lists(new, longer, next)
    BY <1>7, InOrderAt
  <1>9. \A k \in 1 .. last : new[k] = old[k]
    <2> TAKE k \in 1 .. last
    <2> PICK t \in SnapshotIds : records[t].ordinal = k
      BY DEF NumberedTo
    <2>1. t # s /\ k \in 1 .. next
      BY <1>2
    <2>2. longer[t] = records[t]
      BY <1>3, <2>1
    <2>3. old[k] = Bare(records[t].snapshot) /\ new[k] = Bare(longer[t].snapshot)
      BY <1>6, <1>8, <2>1, <2>2 DEF Lists
    <2> QED
      BY <2>2, <2>3
  <1>10. new[next] = Bare(snapshot)
    <2>1. next \in 1 .. next /\ longer[s].ordinal = next
      BY <1>3
    <2> QED
      BY <1>3, <1>8, <2>1 DEF Lists
  <1>11. new = Append(old, new[next])
    <2>1. Ranges(old, last) /\ Ranges(new, next) /\ next = last + 1
      BY <1>6, <1>8 DEF Lists
    <2> QED
      BY <1>9, <2>1, OneMoreRecord
  <1> QED
    BY <1>10, <1>11

LEMMA CommitTerminalRefines ==
    ASSUME MemInv, NEW a \in Attempts, NEW tok, NEW m \in ModelSteps,
           NEW s \in SnapshotIds, NEW seq, NEW through,
           CommitTerminalModelStep(a, tok, m, s, seq, through)
    PROVE  \/ Store!CommitTerminalModelStep(a, tok, m, seq, through)
           \/ UNCHANGED Store!storeVars
  <1>1. PICK last \in Nat : /\ NumberedTo(db.terminalSnapshotHistory, last)
                            /\ Only({}) \/ StepCommitted(a, m, s, through, last)
    BY CommitTerminalCases
  <1>2. /\ UNCHANGED leaseSequence /\ through \in 0 .. seq
        /\ IsActive(a) /\ HoldsLease(a, tok) /\ db.attempts[a] = seq
        /\ db.modelSteps[m] = [status |-> "started", attempt |-> a]
        /\ s \notin Histories /\ TerminalResultSnapshotInvariant
        /\ db.snapshots.through <= through
    BY DEF CommitTerminalModelStep
  <1>3. CASE Only({})
    BY <1>2, <1>3, NoWriteStutters
  <1>4. CASE StepCommitted(a, m, s, through, last)
    <2> PICK snapshot : snapshot = [id |-> s, step |-> m, attempt |-> a,
                                    through |-> through]
      OBVIOUS
    <2>1. /\ db'.modelSteps = [db.modelSteps EXCEPT
                                  ![m] = [status |-> "terminal", attempt |-> a]]
          /\ db'.terminalSnapshotHistory =
                 [db.terminalSnapshotHistory EXCEPT
                     ![s] = [snapshot |-> snapshot, ordinal |-> last + 1]]
          /\ db'.snapshots = snapshot /\ db'.commands = db.commands
          /\ Only(StepMaps \cup {"commands", "artifacts"})
      BY <1>4 DEF StepCommitted
    <2>2. InOrder(db'.terminalSnapshotHistory)
              = Append(InOrder(db.terminalSnapshotHistory), Bare(snapshot))
      <3>1. MemInv' /\ AddsRecord(s, snapshot, last + 1)
        BY <2>1, CommitTerminalKeeps DEF AddsRecord
      <3> QED
        BY <1>1, <1>2, <3>1, HistoryGrows
    <2>3. /\ Bare(snapshot) = [step |-> m, attempt |-> a, through |-> through]
          /\ Bare(db.snapshots).through <= through
      BY <1>2 DEF Bare
    <2>4. [db.modelSteps EXCEPT ![m] = [status |-> "terminal", attempt |-> a]]
              = [db.modelSteps EXCEPT ![m].status = "terminal"]
      BY <1>2
    <2>5. Store!SnapshotIntegrity
      BY <1>2, IntegrityInTheTable
    <2> QED
      BY <1>2, <2>1, <2>2, <2>3, <2>4, <2>5, LogAndCallsStay, SameNames,
         SameLeases DEF Store!CommitTerminalModelStep
  <1> QED
    BY <1>1, <1>3, <1>4

-----------------------------------------------------------------------------
(* Tool calls and receipts *)

\* A method of the calls leaves the Command, the leases and the steps alone.
LEMMA StepsAndLeasesStay ==
    ASSUME Only(CallMaps \cup {"events", "attempts", "artifacts"})
    PROVE  /\ db'.commands = db.commands /\ db'.active = db.active
           /\ db'.leases = db.leases /\ db'.modelSteps = db.modelSteps
           /\ UNCHANGED InOrder(db.terminalSnapshotHistory)
           /\ UNCHANGED Bare(db.snapshots)
  <1>1. /\ db'.commands = db.commands /\ db'.active = db.active
        /\ db'.leases = db.leases /\ db'.modelSteps = db.modelSteps
        /\ db'.terminalSnapshotHistory = db.terminalSnapshotHistory
        /\ db'.snapshots = db.snapshots
    BY DEF Only, MapNames, LogMaps, StepMaps, CallMaps
  <1> QED
    BY <1>1

\* The row of a call.
CallRow(reservation, binding, isStaged) ==
    [status |-> reservation.status, attempt |-> reservation.attempt,
     staged |-> isStaged, bound |-> ToSet(binding.events)]

LEMMA CallRowIs ==
    ASSUME NEW reservations, NEW bindings, NEW staged, NEW i \in Invocations
    PROVE  CallRows(reservations, bindings, staged)[i]
               = CallRow(reservations[i], bindings[i], i \in staged)
  BY DEF CallRows, CallRow

\* The row of another call stays.
LEMMA OtherRow ==
    ASSUME NEW reservations, NEW bindings, NEW staged,
           NEW reservations2, NEW bindings2, NEW staged2,
           NEW j \in Invocations,
           reservations2[j] = reservations[j], bindings2[j] = bindings[j],
           j \in staged2 <=> j \in staged
    PROVE  CallRows(reservations2, bindings2, staged2)[j]
               = CallRows(reservations, bindings, staged)[j]
  <1>1. (j \in staged2) = (j \in staged)
    OBVIOUS
  <1>2. CallRow(reservations2[j], bindings2[j], j \in staged2)
            = CallRow(reservations[j], bindings[j], j \in staged)
    BY <1>1 DEF CallRow
  <1> QED
    BY <1>2, CallRowIs

\* The row of call i changes, the others stay.
LEMMA OneRow ==
    ASSUME NEW old, NEW new, NEW i \in Invocations,
           old = [j \in Invocations |-> old[j]],
           new = [j \in Invocations |-> new[j]],
           \A j \in Invocations \ {i} : new[j] = old[j]
    PROVE  new = [old EXCEPT ![i] = new[i]]
  OBVIOUS

\* A method that writes only the rows of call i.
OthersStay(i) ==
    \A j \in Invocations \ {i} :
       /\ db'.reservations[j] = db.reservations[j]
       /\ db'.receiptPublicEventBindings[j] = db.receiptPublicEventBindings[j]
       /\ j \in db'.staged <=> j \in db.staged

LEMMA RowChanges ==
    ASSUME NEW i \in Invocations, OthersStay(i), NEW rows, NEW flag, NEW flag2,
           rows = CallRows(db.reservations, db.receiptPublicEventBindings, db.staged),
           flag = (i \in db.staged), flag2 = (i \in db'.staged)
    PROVE  /\ CallRows(db'.reservations, db'.receiptPublicEventBindings, db'.staged)
                  = [rows EXCEPT
                        ![i] = CallRow(db'.reservations[i],
                                       db'.receiptPublicEventBindings[i], flag2)]
           /\ rows[i] = CallRow(db.reservations[i],
                                db.receiptPublicEventBindings[i], flag)
           /\ DOMAIN rows = Invocations
  <1> PICK new : new = CallRows(db'.reservations, db'.receiptPublicEventBindings,
                                db'.staged)
    OBVIOUS
  <1>1. ASSUME NEW j \in Invocations \ {i} PROVE new[j] = rows[j]
    <2> PICK kept : kept = (j \in db.staged)
      OBVIOUS
    <2>1. /\ db'.reservations[j] = db.reservations[j]
          /\ db'.receiptPublicEventBindings[j] = db.receiptPublicEventBindings[j]
          /\ kept = (j \in db'.staged)
      BY DEF OthersStay
    <2>2. rows[j] = CallRow(db.reservations[j], db.receiptPublicEventBindings[j],
                            kept)
      BY CallRowIs
    <2>3. new[j] = CallRow(db'.reservations[j],
                           db'.receiptPublicEventBindings[j], kept)
      BY <2>1, CallRowIs
    <2> QED
      BY <2>1, <2>2, <2>3
  <1>2. rows = [j \in Invocations |-> rows[j]] /\ DOMAIN rows = Invocations
    BY DEF CallRows
  <1>3. new = [j \in Invocations |-> new[j]]
    BY DEF CallRows
  <1>4. new = [rows EXCEPT ![i] = new[i]]
    BY <1>1, <1>2, <1>3, OneRow
  <1>5. rows[i] = CallRow(db.reservations[i], db.receiptPublicEventBindings[i],
                          flag)
    BY CallRowIs
  <1>6. new[i] = CallRow(db'.reservations[i], db'.receiptPublicEventBindings[i],
                         flag2)
    BY CallRowIs
  <1> QED
    BY <1>2, <1>4, <1>5, <1>6

\* How a row changes with its reservation, its derivative and its binding.
LEMMA CallRowFields ==
    ASSUME NEW from, NEW binding, NEW flag
    PROVE  /\ CallRow(from, binding, flag).status = from.status
           /\ CallRow(from, binding, flag).attempt = from.attempt
           /\ CallRow(from, binding, flag).staged = flag
           /\ CallRow(from, binding, flag).bound = ToSet(binding.events)
           /\ CallRow(from, binding, flag)
                  = [status |-> from.status, attempt |-> from.attempt,
                     staged |-> flag, bound |-> ToSet(binding.events)]
  BY DEF CallRow

ReservedRow(row, old, status, attempt) ==
    row = [old EXCEPT !.status = status, !.attempt = attempt]
BoundRow(row, old, status, events) ==
    row = [old EXCEPT !.status = status, !.bound = events]
StatusRow(row, old, status) == row = [old EXCEPT !.status = status]
StagedRow(row, old, flag) == row = [old EXCEPT !.staged = flag]

LEMMA CallRowChanges ==
    ASSUME NEW from, NEW to, NEW binding, NEW binding2, NEW flag, NEW flag2
    PROVE  /\ ReservedRow(CallRow(to, binding, flag), CallRow(from, binding, flag),
                          to.status, to.attempt)
           /\ to.attempt = from.attempt =>
                 /\ BoundRow(CallRow(to, binding2, flag),
                             CallRow(from, binding, flag),
                             to.status, ToSet(binding2.events))
                 /\ StatusRow(CallRow(to, binding, flag),
                              CallRow(from, binding, flag), to.status)
           /\ StagedRow(CallRow(from, binding, flag2),
                        CallRow(from, binding, flag), flag2)
  <1> PICK events : events = ToSet(binding.events)
    OBVIOUS
  <1> PICK events2 : events2 = ToSet(binding2.events)
    OBVIOUS
  <1>0. PICK row : row = CallRow(from, binding, flag)
    OBVIOUS
  <1>s. PICK settled : settled = [row EXCEPT !.status = to.status]
    OBVIOUS
  <1>1. row = [status |-> from.status, attempt |-> from.attempt,
               staged |-> flag, bound |-> events]
    BY <1>0, CallRowFields
  <1>2. settled = [status |-> to.status, attempt |-> from.attempt,
                   staged |-> flag, bound |-> events]
    BY <1>s, <1>1
  <1>3. CallRow(to, binding, flag) = [settled EXCEPT !.attempt = to.attempt]
    <2>1. CallRow(to, binding, flag)
              = [status |-> to.status, attempt |-> to.attempt,
                 staged |-> flag, bound |-> events]
      BY CallRowFields
    <2> QED
      BY <1>2, <2>1
  <1>4. ASSUME to.attempt = from.attempt
        PROVE  /\ CallRow(to, binding2, flag) = [settled EXCEPT !.bound = events2]
               /\ CallRow(to, binding, flag) = settled
    <2>1. CallRow(to, binding2, flag)
              = [status |-> to.status, attempt |-> from.attempt,
                 staged |-> flag, bound |-> events2]
      BY <1>4, CallRowFields
    <2>2. CallRow(to, binding, flag)
              = [status |-> to.status, attempt |-> from.attempt,
                 staged |-> flag, bound |-> events]
      BY <1>4, CallRowFields
    <2> QED
      BY <1>2, <2>1, <2>2
  <1>5. CallRow(from, binding, flag2) = [row EXCEPT !.staged = flag2]
    <2>1. CallRow(from, binding, flag2)
              = [status |-> from.status, attempt |-> from.attempt,
                 staged |-> flag2, bound |-> events]
      BY CallRowFields
    <2> QED
      BY <1>1, <2>1
  <1>6. /\ [settled EXCEPT !.attempt = to.attempt]
               = [row EXCEPT !.status = to.status, !.attempt = to.attempt]
        /\ [settled EXCEPT !.bound = events2]
               = [row EXCEPT !.status = to.status, !.bound = events2]
    BY <1>s
  <1> QED
    BY <1>0, <1>s, <1>3, <1>4, <1>5, <1>6
       DEF ReservedRow, BoundRow, StatusRow, StagedRow

LEMMA ReserveInvocationRefines ==
    ASSUME MemInv, NEW a \in Attempts, NEW tok, NEW i \in Invocations,
           ReserveInvocation(a, tok, i)
    PROVE  Store!ReserveInvocation(a, tok, i)
  <1> PICK reserved : reserved = [status |-> "reserved", attempt |-> a]
    OBVIOUS
  <1> PICK rows : rows = CallRows(db.reservations, db.receiptPublicEventBindings,
                                  db.staged)
    OBVIOUS
  <1> PICK binding : binding = db.receiptPublicEventBindings[i]
    OBVIOUS
  <1> PICK flag : flag = (i \in db.staged)
    OBVIOUS
  <1>1. /\ UNCHANGED leaseSequence /\ DOMAIN db = MapNames /\ CallsOK
        /\ Exists(a) /\ HoldsLease(a, tok) /\ db.reservations[i] = Absent
    BY DEF ReserveInvocation, MemInv
  <1>2. db' = [db EXCEPT
                  !.invocations = [db.invocations EXCEPT ![i] = reserved],
                  !.reservations = [db.reservations EXCEPT ![i] = reserved]]
    BY <1>1 DEF ReserveInvocation, MapNames, CallMaps
  <1>3. /\ db'.reservations = [db.reservations EXCEPT ![i] = reserved]
        /\ db'.receiptPublicEventBindings = db.receiptPublicEventBindings
        /\ db'.staged = db.staged
        /\ db'.attempts = db.attempts /\ db'.events = db.events
        /\ Only(CallMaps \cup {"events", "attempts", "artifacts"})
    BY <1>1, <1>2 DEF Only, MapNames, LogMaps, StepMaps, CallMaps
  <1>4. OthersStay(i) /\ db'.reservations[i] = reserved
    BY <1>1, <1>3 DEF OthersStay, CallsOK
  <1>5. /\ CallRows(db'.reservations, db'.receiptPublicEventBindings, db'.staged)
               = [rows EXCEPT ![i] = CallRow(reserved, binding, flag)]
        /\ rows[i] = CallRow(Absent, binding, flag) /\ DOMAIN rows = Invocations
    BY <1>1, <1>3, <1>4, RowChanges
  <1>6. rows[i].status = "none"
    BY <1>5, CallRowFields DEF Absent
  <1>7. [rows EXCEPT ![i] = CallRow(reserved, binding, flag)]
            = [rows EXCEPT ![i].status = "reserved", ![i].attempt = a]
    <2>1. PICK row : row = CallRow(reserved, binding, flag)
      OBVIOUS
    <2>2. ReservedRow(row, rows[i], reserved.status, reserved.attempt)
      BY <1>5, <2>1, CallRowChanges
    <2>3. row = [rows[i] EXCEPT !.status = "reserved", !.attempt = a]
      BY <2>2 DEF ReservedRow
    <2> QED
      BY <1>5, <2>1, <2>3
  <1> QED
    BY <1>1, <1>3, <1>5, <1>6, <1>7, StepsAndLeasesStay, SameNames, SameLeases
       DEF Store!ReserveInvocation

\* What the other methods of a call do to its row.
LEMMA RowSettles ==
    ASSUME CallsOK, NEW a, NEW i \in Invocations, NEW old, NEW status,
           db.reservations[i] = [status |-> old, attempt |-> a],
           db'.reservations = [db.reservations EXCEPT
                                  ![i] = [status |-> status, attempt |-> a]],
           db'.receiptPublicEventBindings = db.receiptPublicEventBindings,
           db'.staged = db.staged,
           NEW rows, rows = CallRows(db.reservations,
                                     db.receiptPublicEventBindings, db.staged)
    PROVE  /\ CallRows(db'.reservations, db'.receiptPublicEventBindings, db'.staged)
                  = [rows EXCEPT ![i].status = status]
           /\ rows[i].status = old /\ rows[i].attempt = a
  <1> PICK binding : binding = db.receiptPublicEventBindings[i]
    OBVIOUS
  <1> PICK flag : flag = (i \in db.staged)
    OBVIOUS
  <1> PICK from : from = [status |-> old, attempt |-> a]
    OBVIOUS
  <1> PICK to : to = [status |-> status, attempt |-> a]
    OBVIOUS
  <1>1. /\ OthersStay(i) /\ db'.reservations[i] = to /\ db.reservations[i] = from
        /\ from.status = old /\ from.attempt = a
        /\ to.status = status /\ to.attempt = a
    BY DEF OthersStay, CallsOK
  <1>2. PICK row : row = CallRow(to, binding, flag)
    OBVIOUS
  <1>3. /\ CallRows(db'.reservations, db'.receiptPublicEventBindings, db'.staged)
               = [rows EXCEPT ![i] = row]
        /\ rows[i] = CallRow(from, binding, flag)
    BY <1>1, <1>2, RowChanges
  <1>4. rows[i].status = old /\ rows[i].attempt = a
    BY <1>1, <1>3, CallRowFields
  <1>5. StatusRow(row, rows[i], status)
    BY <1>1, <1>2, <1>3, CallRowChanges
  <1>6. [rows EXCEPT ![i] = row] = [rows EXCEPT ![i].status = status]
    BY <1>5 DEF StatusRow
  <1> QED
    BY <1>3, <1>4, <1>6

LEMMA BeginRefines ==
    ASSUME MemInv, NEW a \in Attempts, NEW tok, NEW i \in Invocations,
           BeginInvocationExecution(a, tok, i)
    PROVE  Store!BeginInvocationExecution(a, tok, i)
  <1> PICK executing : executing = [status |-> "executing", attempt |-> a]
    OBVIOUS
  <1> PICK rows : rows = CallRows(db.reservations, db.receiptPublicEventBindings,
                                  db.staged)
    OBVIOUS
  <1>1. /\ UNCHANGED leaseSequence /\ DOMAIN db = MapNames /\ CallsOK
        /\ IsActive(a) /\ HoldsLease(a, tok)
        /\ db.reservations[i] = [status |-> "reserved", attempt |-> a]
    BY DEF BeginInvocationExecution, MemInv
  <1>2. db' = [db EXCEPT
                  !.invocations = [db.invocations EXCEPT ![i].status = "executing"],
                  !.reservations = [db.reservations EXCEPT
                                       ![i].status = "executing"]]
    BY <1>1 DEF BeginInvocationExecution, MapNames, CallMaps
  <1>3. /\ db'.reservations = [db.reservations EXCEPT ![i].status = "executing"]
        /\ db'.receiptPublicEventBindings = db.receiptPublicEventBindings
        /\ db'.staged = db.staged
        /\ db'.attempts = db.attempts /\ db'.events = db.events
        /\ Only(CallMaps \cup {"events", "attempts", "artifacts"})
    BY <1>1, <1>2 DEF Only, MapNames, LogMaps, StepMaps, CallMaps
  <1>4. [db.reservations EXCEPT ![i].status = "executing"]
            = [db.reservations EXCEPT ![i] = executing]
    BY <1>1
  <1>5. /\ CallRows(db'.reservations, db'.receiptPublicEventBindings, db'.staged)
               = [rows EXCEPT ![i].status = "executing"]
        /\ rows[i].status = "reserved" /\ rows[i].attempt = a
    BY <1>1, <1>3, <1>4, RowSettles
  <1> QED
    BY <1>1, <1>3, <1>5, StepsAndLeasesStay, SameNames, SameLeases
       DEF Store!BeginInvocationExecution

LEMMA StageRefines ==
    ASSUME MemInv, NEW a \in Attempts, NEW tok, NEW i \in Invocations,
           StagePublicToolResultDerivative(a, tok, i)
    PROVE  Store!StagePublicToolResultDerivative(a, tok, i)
  <1>e. PICK executing : executing = [status |-> "executing", attempt |-> a]
    OBVIOUS
  <1> PICK rows : rows = CallRows(db.reservations, db.receiptPublicEventBindings,
                                  db.staged)
    OBVIOUS
  <1> PICK binding : binding = db.receiptPublicEventBindings[i]
    OBVIOUS
  <1> PICK flag : flag = (i \in db.staged)
    OBVIOUS
  <1>y. PICK yes : yes = TRUE
    OBVIOUS
  <1>1. /\ UNCHANGED leaseSequence /\ DOMAIN db = MapNames
        /\ IsActive(a) /\ HoldsLease(a, tok) /\ i \notin db.staged
        /\ db.reservations[i] = executing
        /\ db' = [db EXCEPT !.artifacts = db.artifacts \cup {i},
                            !.staged = db.staged \cup {i}]
    BY <1>e DEF StagePublicToolResultDerivative, Executing, MemInv, MapNames, CallMaps
  <1>2. /\ db'.reservations = db.reservations
        /\ db'.receiptPublicEventBindings = db.receiptPublicEventBindings
        /\ db'.staged = db.staged \cup {i}
        /\ db'.attempts = db.attempts /\ db'.events = db.events
        /\ Only(CallMaps \cup {"events", "attempts", "artifacts"})
    BY <1>1 DEF Only, MapNames, LogMaps, StepMaps, CallMaps
  <1>3. OthersStay(i) /\ yes = (i \in db'.staged)
    BY <1>y, <1>2 DEF OthersStay
  <1>4. PICK row : row = CallRow(executing, binding, yes)
    OBVIOUS
  <1>5. /\ CallRows(db'.reservations, db'.receiptPublicEventBindings, db'.staged)
               = [rows EXCEPT ![i] = row]
        /\ rows[i] = CallRow(executing, binding, flag)
    BY <1>1, <1>2, <1>3, <1>4, RowChanges
  <1>6. rows[i].status = "executing" /\ rows[i].attempt = a /\ ~rows[i].staged
    <2>1. executing.status = "executing" /\ executing.attempt = a
      BY <1>e
    <2>2. i \notin db.staged
      BY <1>1
    <2>3. ~flag
      BY <2>2
    <2> QED
      BY <1>5, <2>1, <2>3, CallRowFields
  <1>7. StagedRow(row, rows[i], yes)
    BY <1>4, <1>5, CallRowChanges
  <1>8. [rows EXCEPT ![i] = row] = [rows EXCEPT ![i].staged = yes]
    BY <1>7 DEF StagedRow
  <1>9. [rows EXCEPT ![i] = row] = [rows EXCEPT ![i].staged = TRUE]
    BY <1>y, <1>8
  <1> QED
    BY <1>1, <1>2, <1>5, <1>6, <1>9, StepsAndLeasesStay, SameNames, SameLeases
       DEF Store!StagePublicToolResultDerivative

LEMMA CommitReceiptRefines ==
    ASSUME MemInv, NEW a \in Attempts, NEW tok, NEW i \in Invocations,
           NEW r \in FreshReceiptIds, NEW result \in ReceiptStatuses,
           CommitReceipt(a, tok, i, r, result)
    PROVE  Store!CommitReceipt(a, tok, i, result)
  <1> PICK rows : rows = CallRows(db.reservations, db.receiptPublicEventBindings,
                                  db.staged)
    OBVIOUS
  <1>1. /\ UNCHANGED leaseSequence /\ CallsOK
        /\ IsActive(a) /\ HoldsLease(a, tok)
        /\ db.reservations[i] = [status |-> "executing", attempt |-> a]
    BY DEF CommitReceipt, Executing, MemInv
  <1>2. /\ WritesReceipt(a, i, r, result)
        /\ Only({"receipts", "receiptByReservation", "invocations",
                 "reservations"})
    BY CommitReceiptWrites
  <1>3. /\ db'.reservations = [db.reservations EXCEPT
                                  ![i] = [status |-> result, attempt |-> a]]
        /\ db'.receiptPublicEventBindings = db.receiptPublicEventBindings
        /\ db'.staged = db.staged
        /\ db'.attempts = db.attempts /\ db'.events = db.events
        /\ Only(CallMaps \cup {"events", "attempts", "artifacts"})
    BY <1>2 DEF WritesReceipt, Only, MapNames, LogMaps, StepMaps, CallMaps
  <1>4. /\ CallRows(db'.reservations, db'.receiptPublicEventBindings, db'.staged)
               = [rows EXCEPT ![i].status = result]
        /\ rows[i].status = "executing" /\ rows[i].attempt = a
    BY <1>1, <1>3, RowSettles
  <1> QED
    BY <1>1, <1>3, <1>4, StepsAndLeasesStay, SameNames, SameLeases
       DEF Store!CommitReceipt

LEMMA CommitReceiptWithPublicEventsRefines ==
    ASSUME MemInv, NEW a \in Attempts, NEW tok, NEW i \in Invocations,
           NEW r \in FreshReceiptIds, NEW result \in ReceiptStatuses,
           NEW verified \in BOOLEAN, NEW seq,
           CommitReceiptWithPublicEvents(a, tok, i, r, result, verified, seq)
    PROVE  \/ Store!CommitReceiptWithPublicEvents(a, tok, i, result, verified, seq)
           \/ UNCHANGED Store!storeVars
  <1> PICK kinds : kinds = ReceiptKindsOf(verified)
    OBVIOUS
  <1> PICK rows : rows = CallRows(db.reservations, db.receiptPublicEventBindings,
                                  db.staged)
    OBVIOUS
  <1>1. /\ UNCHANGED leaseSequence /\ CallsOK
        /\ IsActive(a) /\ HoldsLease(a, tok) /\ i \in db.staged
        /\ db.reservations[i] = [status |-> "executing", attempt |-> a]
        /\ db.attempts[a] = seq /\ (verified => result = "succeeded")
        /\ seq + Len(kinds) <= MaxEvents
    BY DEF CommitReceiptWithPublicEvents, Executing, MemInv, ReceiptKindsOf
  <1>2. Only({}) \/ ReceiptCommitted(a, i, r, result, kinds)
    BY CommitReceiptCases
  <1>3. CASE Only({})
    BY <1>1, <1>3, NoWriteStutters
  <1>4. CASE ReceiptCommitted(a, i, r, result, kinds)
    <2> PICK new : new = Store!NewRows(a, seq, kinds)
      OBVIOUS
    <2> PICK flag : flag = (i \in db.staged)
      OBVIOUS
    <2> PICK from : from = [status |-> "executing", attempt |-> a]
      OBVIOUS
    <2> PICK to : to = [status |-> result, attempt |-> a]
      OBVIOUS
    <2>1. seq = Len(db.events) /\ kinds \in Seq(Store!Kinds) /\ seq \in Nat
      BY <1>1, HolderIsActive, KindsOfMethods DEF ReceiptKindsOf
    <2> PICK binding : binding = [receipt |-> r, expected |-> seq,
                                  events |-> Stored(a, seq, kinds)]
      OBVIOUS
    <2>2. /\ db'.events = db.events \o Stored(a, seq, kinds)
          /\ db'.attempts = [db.attempts EXCEPT ![a] = seq + Len(kinds)]
          /\ db'.receiptPublicEventBindings =
                 [db.receiptPublicEventBindings EXCEPT ![i] = binding]
          /\ db'.reservations = [db.reservations EXCEPT ![i] = to]
          /\ db'.staged = db.staged
          /\ Only(CallMaps \cup LogMaps)
          /\ db'.commands = db.commands /\ db'.active = db.active
          /\ db'.leases = db.leases
      BY <1>4, <2>1 DEF ReceiptCommitted, WritesReceipt
    <2>3. Only(CallMaps \cup {"events", "attempts", "artifacts"})
      BY <2>2 DEF Only, MapNames, LogMaps, StepMaps, CallMaps
    <2>4. /\ ToSet(db'.events) = ToSet(db.events) \cup new
          /\ Store!NoClash(new)
      BY <2>1, <2>2, BatchInTheTable
    <2>5. ToSet(binding.events) = new
      BY <2>1, SameBatch
    <2>6. /\ OthersStay(i) /\ db'.receiptPublicEventBindings[i] = binding
          /\ db'.reservations[i] = to /\ db.reservations[i] = from
          /\ flag = (i \in db'.staged) /\ flag
          /\ from.status = "executing" /\ from.attempt = a
          /\ to.status = result /\ to.attempt = a
      BY <1>1, <2>2 DEF OthersStay, CallsOK
    <2>7. PICK row : row = CallRow(to, binding, flag)
      OBVIOUS
    <2>8. /\ CallRows(db'.reservations, db'.receiptPublicEventBindings, db'.staged)
                 = [rows EXCEPT ![i] = row]
          /\ rows[i] = CallRow(from, db.receiptPublicEventBindings[i], flag)
      BY <2>6, <2>7, RowChanges
    <2>9. /\ rows[i].status = "executing" /\ rows[i].attempt = a
          /\ rows[i].staged
      BY <2>6, <2>8, CallRowFields
    <2>10. BoundRow(row, rows[i], result, new)
      BY <2>5, <2>6, <2>7, <2>8, CallRowChanges
    <2>11. [rows EXCEPT ![i] = row]
               = [rows EXCEPT ![i].status = result, ![i].bound = new]
      BY <2>10 DEF BoundRow
    <2> QED
      BY <1>1, <2>2, <2>3, <2>4, <2>8, <2>9, <2>11, StepsAndLeasesStay,
         SameNames, SameLeases
         DEF Store!CommitReceiptWithPublicEvents, ReceiptKindsOf
  <1> QED
    BY <1>2, <1>3, <1>4

-----------------------------------------------------------------------------
(* The refinement *)

LEMMA InitRefines == Init => Store!Init
  <1> SUFFICES ASSUME Init PROVE Store!Init
    OBVIOUS
  <1> PICK records : records = db.terminalSnapshotHistory
    OBVIOUS
  <1>1. /\ db.commands = [status |-> "none", outcome |-> "none"]
        /\ db.active = 0 /\ db.attempts = [a \in Attempts |-> 0]
        /\ db.leases = [a \in Attempts |-> [token |-> 0, left |-> 0]]
        /\ leaseSequence = 0 /\ db.events = <<>>
        /\ db.modelSteps = [m \in ModelSteps |-> [status |-> "none", attempt |-> 0]]
        /\ db.snapshots = NoSnapshot
        /\ \A s \in SnapshotIds : records[s].ordinal = 0
        /\ db.reservations = [i \in Invocations |-> Absent]
        /\ db.receiptPublicEventBindings = [i \in Invocations |-> NoBinding]
        /\ db.staged = {}
    BY DEF Init, Absent
  <1>2. ToSet(db.events) = {}
    BY <1>1 DEF ToSet
  <1>3. Bare(db.snapshots) = [step |-> NoStep, attempt |-> 0, through |-> -1]
    BY <1>1 DEF Bare, NoSnapshot
  <1>4. InOrder(records) = <<>>
    <2>1. NumberedTo(records, 0)
      BY <1>1 DEF NumberedTo
    <2>2. LastOrdinal(records) = 0
      BY <1>1, <2>1, LastOrdinalIs
    <2> QED
      BY <2>2 DEF InOrder
  <1>5. CallRows(db.reservations, db.receiptPublicEventBindings, db.staged)
            = [i \in Invocations |-> [status |-> "none", attempt |-> 0,
                                      staged |-> FALSE, bound |-> {}]]
    <2>1. ToSet(NoBinding.events) = {}
      BY DEF NoBinding, ToSet
    <2>2. Absent.status = "none" /\ Absent.attempt = 0
      BY DEF Absent
    <2>3. PICK no : no = FALSE
      OBVIOUS
    <2> PICK rows : rows = CallRows(db.reservations,
                                    db.receiptPublicEventBindings, db.staged)
      OBVIOUS
    <2>4. ASSUME NEW i \in Invocations
          PROVE  rows[i] = [status |-> "none", attempt |-> 0, staged |-> no,
                            bound |-> {}]
      <3>1. /\ db.reservations[i] = Absent
            /\ db.receiptPublicEventBindings[i] = NoBinding
            /\ db.staged = {}
        BY <1>1
      <3>2. no = (i \in db.staged)
        <4>1. i \notin db.staged
          BY <3>1
        <4>2. (i \in db.staged) = FALSE
          BY <4>1
        <4> QED
          BY <2>3, <4>2
      <3>3. rows[i] = CallRow(Absent, NoBinding, no)
        BY <3>1, <3>2, CallRowIs
      <3> QED
        BY <2>1, <2>2, <3>3, CallRowFields
    <2>5. rows = [i \in Invocations |-> rows[i]]
      BY DEF CallRows
    <2>6. rows = [i \in Invocations |->
                     [status |-> "none", attempt |-> 0, staged |-> no,
                      bound |-> {}]]
      BY <2>4, <2>5
    <2> QED
      BY <2>3, <2>6
  <1> QED
    BY <1>1, <1>2, <1>3, <1>4, <1>5, SameNames DEF Store!Init

LEMMA StepRefines ==
    MemInv /\ [Next]_memVars => Store!Next \/ UNCHANGED Store!storeVars
  <1> SUFFICES ASSUME MemInv, [Next]_memVars
               PROVE  Store!Next \/ UNCHANGED Store!storeVars
    OBVIOUS
  <1>1. CASE CommandOperation
    <2>1. CASE ReserveRunCommand
      BY <2>1, ReserveRefines DEF Store!Next, Store!CommandOperation
    <2>2. ASSUME NEW seq \in 0 .. MaxEvents,
                 RecoverAndSettleRunCommandWithTerminalEvent(db.active, seq)
          PROVE  Store!CommandOperation \/ UNCHANGED Store!storeVars
      BY <2>2, RecoverRefines DEF Store!CommandOperation
    <2>3. ASSUME NEW seq \in 0 .. MaxEvents, NEW expected \in PreDispatch,
                 \/ ClaimInitialPreDispatch(expected, seq)
                 \/ ReclaimInitialPreDispatch(expected, seq)
          PROVE  Store!CommandOperation \/ UNCHANGED Store!storeVars
      BY <2>3, ClaimRefines, ReclaimRefines, SameNames DEF Store!CommandOperation
    <2>4. CASE CreateRunAttempt(db.active)
      BY <2>4, CreateRefines DEF Store!Next, Store!CommandOperation
    <2> QED
      BY <1>1, <2>1, <2>2, <2>3, <2>4
         DEF CommandOperation, Positions, Store!Next
  <1>2. CASE Tick
    BY <1>2, TickRefines DEF Store!Next
  <1>3. ASSUME NEW a \in Attempts, AcquireLease(a) PROVE Store!Next
    BY <1>3, AcquireRefines, SameNames DEF Store!Next
  <1>4. ASSUME NEW a \in Attempts, NEW tok, AuthorizedOperation(a, tok)
        PROVE  Store!AuthorizedOperation(a, tok)
    <2>1. Store!Unsettled = PreDispatch \cup {"dispatched"}
      BY SameNames DEF Store!Unsettled
    <2>2. ASSUME NEW expected \in Store!Unsettled,
                 TransitionRunCommand(a, tok, expected, "accepted", "none")
          PROVE  Store!AuthorizedOperation(a, tok)
      <3>1. Store!TransitionRunCommand(a, tok, expected, "accepted", "none")
        BY <2>2, TransitionRefines
      <3> QED
        BY <3>1 DEF Store!AuthorizedOperation
    <2>3. ASSUME NEW expected \in Store!Unsettled, NEW o \in TerminalStatuses,
                 TransitionRunCommand(a, tok, expected, "terminal", o)
          PROVE  Store!AuthorizedOperation(a, tok)
      <3>1. Store!TransitionRunCommand(a, tok, expected, "terminal", o)
        BY <2>3, TransitionRefines
      <3>2. o \in Store!Outcomes
        BY MemoryAssumption
      <3> QED
        BY <3>1, <3>2 DEF Store!AuthorizedOperation
    <2>4. ASSUME NEW expected \in Store!Unsettled, NEW seq \in 0 .. MaxEvents,
                 NEW o \in TerminalStatuses,
                 SettleRunCommandWithTerminalEvent(a, tok, expected, seq, o)
          PROVE  Store!AuthorizedOperation(a, tok)
      <3>1. Store!SettleRunCommandWithTerminalEvent(a, tok, expected, seq, o)
        BY <2>4, SettleRefines
      <3>2. o \in Store!Outcomes
        BY MemoryAssumption
      <3> QED
        BY <3>1, <3>2 DEF Store!AuthorizedOperation
    <2>5. CASE RenewLease(a, tok)
      BY <2>5, RenewRefines DEF Store!AuthorizedOperation
    <2>6. ASSUME NEW seq \in 0 .. MaxEvents, NEW kinds \in Batches,
                 AppendEvents(a, tok, seq, kinds)
          PROVE  Store!AuthorizedOperation(a, tok)
      BY <2>6, AppendRefines DEF Store!AuthorizedOperation
    <2> QED
      BY <1>4, <2>1, <2>2, <2>3, <2>4, <2>5, <2>6
         DEF AuthorizedOperation, Positions
  <1>5. ASSUME NEW a \in Attempts, NEW tok, StepOperation(a, tok)
        PROVE  Store!StepOperation(a, tok) \/ UNCHANGED Store!storeVars
    BY <1>5, StartRefines, FinishRefines, CommitTerminalRefines,
       WriteSnapshotRefines DEF StepOperation, Positions, Store!StepOperation
  <1>6. ASSUME NEW a \in Attempts, NEW tok, InvocationOperation(a, tok)
        PROVE  Store!InvocationOperation(a, tok) \/ UNCHANGED Store!storeVars
    <2>1. PICK i \in Invocations :
             \/ ReserveInvocation(a, tok, i)
             \/ BeginInvocationExecution(a, tok, i)
             \/ StagePublicToolResultDerivative(a, tok, i)
             \/ \E r \in FreshReceiptIds, result \in ReceiptStatuses :
                   \/ CommitReceipt(a, tok, i, r, result)
                   \/ \E verified \in BOOLEAN, seq \in 0 .. MaxEvents :
                         CommitReceiptWithPublicEvents(a, tok, i, r, result,
                                                       verified, seq)
      BY <1>6 DEF InvocationOperation, Positions
    <2>2. \/ Store!ReserveInvocation(a, tok, i)
          \/ Store!BeginInvocationExecution(a, tok, i)
          \/ Store!StagePublicToolResultDerivative(a, tok, i)
          \/ \E result \in ReceiptStatuses :
                \/ Store!CommitReceipt(a, tok, i, result)
                \/ \E verified \in BOOLEAN, seq \in 0 .. MaxEvents :
                      Store!CommitReceiptWithPublicEvents(a, tok, i, result,
                                                          verified, seq)
          \/ UNCHANGED Store!storeVars
      BY <2>1, ReserveInvocationRefines, BeginRefines, StageRefines,
         CommitReceiptRefines, CommitReceiptWithPublicEventsRefines
    <2>3. ReceiptStatuses \subseteq Store!Results
      BY MemoryAssumption
    <2> QED
      BY <2>2, <2>3 DEF Store!InvocationOperation
  <1>7. CASE UNCHANGED memVars
    <2>1. Only({}) /\ UNCHANGED leaseSequence
      BY <1>7 DEF memVars, Only, MemInv
    <2> QED
      BY <2>1, NoWriteStutters
  <1>8. ASSUME NEW a \in Attempts, NEW tok \in 1 .. leaseSequence,
               \/ AuthorizedOperation(a, tok)
               \/ StepOperation(a, tok)
               \/ InvocationOperation(a, tok)
        PROVE  Store!Next \/ UNCHANGED Store!storeVars
    BY <1>4, <1>5, <1>6, <1>8, SameNames DEF Store!Next
  <1> QED
    BY <1>1, <1>2, <1>3, <1>7, <1>8 DEF Next

\* The in-memory adapter implements the SQLite store: each of its calls, with
\* whichever hook throws half-way, writes what a transaction of the store
\* writes or nothing at all, for any callers, batches, ids and bounds.
THEOREM MemoryStoreIsSessionStore == Spec => ImplementsSessionStore
  <1>1. MemInv /\ [Next]_memVars => [Store!Next]_(Store!storeVars)
    BY StepRefines
  <1> QED
    BY <1>1, InitRefines, MemInvHolds, PTL DEF Spec, ImplementsSessionStore, Store!Spec
=============================================================================
