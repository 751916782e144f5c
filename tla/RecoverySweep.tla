---------------------------- MODULE RecoverySweep ----------------------------
(***************************************************************************)
(* How the recovery coordinator goes through the Commands of a store:      *)
(* recoverOnce (packages/agent-runtime/recovery-coordinator.ts) over       *)
(* listRecoverableCommands and readRecoveryBundle of the session store,    *)
(* called again and again by an owner that passes the cursor on.           *)
(*                                                                         *)
(* TurnWorkers looks at one Command and at what recovery writes to it;     *)
(* here there are several, and the question is which of them recovery      *)
(* reaches.  What classifyBundle says of a dispatched Command is therefore *)
(* one fact about it, its work.  A Command is "pending" while it is        *)
(* reserved or accepted.                                                   *)
(*                                                                         *)
(*   "leave"  nothing that may have happened outside (retain), or a log    *)
(*            that has ended, a bundle above its limits, records that       *)
(*            disagree (indeterminate)                                     *)
(*   "block"  an outside call with an unknown or unfinished result         *)
(*   "busy"   the same, while a worker still holds the lease of the Run    *)
(*                                                                         *)
(* Workers, dispatchers and other coordinators move a Command at any time. *)
(***************************************************************************)
EXTENDS Naturals, FiniteSets

CONSTANTS
    Runs,       \* run ids, numbered in their BINARY order
    Times,      \* what the clock may show when each of them is reserved
    ScanLimit,  \* scanLimit: Commands of one page
    MaxPages,   \* maxPages of one recoverOnce
    MaxFaults   \* bound: store calls that throw, and restarts

VARIABLES
    command,    \* run_commands, with the lease of the Run
    sweep,      \* the cursor the owner keeps, and what recoverOnce does
    unlisted,   \* history: the Commands that were open when the sweep began
                \* and that it has not listed yet
    faults      \* how much went wrong

vars == <<command, sweep, unlisted, faults>>

ASSUME SweepAssumption ==
    /\ Runs \subseteq Nat \ {0}
    /\ Times \in [Runs -> SUBSET (Nat \ {0})]
    /\ ScanLimit \in Nat \ {0}
    /\ MaxPages \in Nat \ {0}
    /\ MaxFaults \in Nat

(***************************************************************************)
(* Commands and cursors.                                                   *)
(***************************************************************************)
Works == {"leave", "busy", "block"}
Statuses == {"none", "pending", "dispatched", "terminal"}

Commands == [status : Statuses, created : Nat, work : Works]

NoCommand == [status |-> "none", created |-> 0, work |-> "leave"]

Open == {r \in Runs : command[r].status \notin {"none", "terminal"}}

\* RecoveryCommandCursor; null stands before every Command.
Cursors == [created : Nat, run : Nat]
Null == [created |-> 0, run |-> 0]
KeyOf(r) == [created |-> command[r].created, run |-> r]

\* Mutant: Commands of the same millisecond are not told apart.
AfterTime(key, cursor) == key.created > cursor.created

\* The order of the keyset (created_at, run_id); the cursor is exclusive.
After(key, cursor) ==
    \/ key.created > cursor.created
    \/ key.created = cursor.created /\ key.run > cursor.run

(***************************************************************************)
(* recoverOnce.  next is counts.nextCursor, and between two calls what the *)
(* owner passes to the next one; refs are the rows of the page that are    *)
(* still to be treated, complete and last its sweepComplete and its last   *)
(* row.  moved says that the Run to be settled has moved since its bundle  *)
(* was read.                                                               *)
(***************************************************************************)
Refs == [run : Runs, status : Statuses]

Sweeps ==
    [pc : {"idle", "list", "read", "settle"}, cursor : Cursors,
     next : Cursors, pages : 0 .. MaxPages, refs : SUBSET Refs,
     complete : BOOLEAN, last : Cursors, moved : BOOLEAN]

IdleFrom(cursor) ==
    [pc |-> "idle", cursor |-> Null, next |-> cursor, pages |-> 0,
     refs |-> {}, complete |-> FALSE, last |-> Null, moved |-> FALSE]
ListFrom(cursor, next, pages) ==
    [pc |-> "list", cursor |-> cursor, next |-> next, pages |-> pages,
     refs |-> {}, complete |-> FALSE, last |-> Null, moved |-> FALSE]

TypeOK ==
    /\ command \in [Runs -> Commands]
    /\ sweep \in Sweeps
    /\ unlisted \subseteq Runs
    /\ faults \in Nat

Init ==
    /\ command = [r \in Runs |-> NoCommand]
    /\ sweep = IdleFrom(Null)
    /\ unlisted = {}
    /\ faults = 0

Fault ==
    /\ faults < MaxFaults
    /\ faults' = faults + 1

(***************************************************************************)
(* The Commands move.                                                      *)
(***************************************************************************)

\* reserveRunCommand with the time of the server.
Reserve(r) ==
    /\ command[r].status = "none"
    /\ \E time \in Times[r] :
          command' = [command EXCEPT ![r].status = "pending",
                                     ![r].created = time]
    /\ UNCHANGED <<sweep, unlisted, faults>>

\* The row that is next in the order of the page.
IsNextRow(ref) ==
    /\ ref \in sweep.refs
    /\ \A other \in sweep.refs \ {ref} :
          After(KeyOf(other.run), KeyOf(ref.run))

\* Whether the Run's active Attempt or the head of its log has moved since
\* its bundle was read.
Disturb(r) ==
    \/ sweep' = sweep
    \/ /\ sweep.pc = "settle"
       /\ \E ref \in sweep.refs : IsNextRow(ref) /\ ref.run = r
       /\ sweep' = [sweep EXCEPT !.moved = TRUE]

Ended(row) == [row EXCEPT !.status = "terminal", !.work = "leave"]
Becomes(r, row) == command' = [command EXCEPT ![r] = row]

\* A worker moves its Command on, with or without a write that the store can
\* see in the log; leases come and go; another coordinator may settle it.
WorksFrom ==
    [leave |-> {"leave", "busy"}, busy |-> Works, block |-> {"busy"}]

Move(r) ==
    LET row == command[r] IN
    /\ r \in Open
    /\ \/ /\ row.status = "pending"
          /\ Becomes(r, [row EXCEPT !.status = "dispatched", !.work = "busy"])
       \/ /\ row.status = "dispatched"
          /\ \E work \in WorksFrom[row.work] : Becomes(r, [row EXCEPT !.work = work])
       \/ Becomes(r, Ended(row))
    /\ Disturb(r)
    /\ UNCHANGED <<unlisted, faults>>

(***************************************************************************)
(* The sweep.                                                              *)
(***************************************************************************)

\* Mutant: one page too many.
BeginWithOneMore ==
    /\ sweep.pc = "idle"
    /\ sweep' = ListFrom(sweep.next, Null, MaxPages + 1)
    /\ unlisted' = IF sweep.next = Null THEN Open ELSE unlisted
    /\ UNCHANGED <<command, faults>>

\* The owner calls recoverOnce; a null cursor begins a new sweep.
Begin ==
    /\ sweep.pc = "idle"
    /\ sweep' = ListFrom(sweep.next, Null, MaxPages)
    /\ unlisted' = IF sweep.next = Null THEN Open ELSE unlisted
    /\ UNCHANGED <<command, faults>>

\* Mutant: a sweep that runs out of pages does not say where it stopped.
ForgetCursor(s) ==
    IF s.complete THEN IdleFrom(Null)
    ELSE IF s.pages > 1
    THEN ListFrom(s.last, s.last, s.pages - 1)
    ELSE IdleFrom(Null)

\* The end of a page, and of the loop over pages.
EndOfPage(s) ==
    IF s.complete THEN IdleFrom(Null)
    ELSE IF s.pages > 1
    THEN ListFrom(s.last, s.last, s.pages - 1)
    ELSE IdleFrom(s.last)

\* The next row of the page, or the end of the page.
NextRow(s) ==
    IF s.refs = {} THEN EndOfPage(s)
    ELSE [s EXCEPT !.pc = "read", !.moved = FALSE]

\* listRecoverableCommands: the first ScanLimit open Commands after the
\* cursor, in order; it reads one more to see whether there are more.
Candidates == {r \in Open : After(KeyOf(r), sweep.cursor)}
IsPage(page) ==
    /\ \A r \in page : \A q \in Candidates \ page : After(KeyOf(q), KeyOf(r))
    /\ \/ page = Candidates /\ Cardinality(page) <= ScanLimit
       \/ page # Candidates /\ Cardinality(page) = ScanLimit

KeysOf(set) == {KeyOf(r) : r \in set}
IsLast(page, last) ==
    IF page = {} THEN last = sweep.cursor
    ELSE /\ last \in KeysOf(page)
         /\ \A key \in KeysOf(page) \ {last} : After(last, key)

ListPage ==
    \E page \in SUBSET Candidates, last \in {sweep.cursor} \cup KeysOf(Open) :
        /\ sweep.pc = "list"
        /\ IsPage(page)
        /\ IsLast(page, last)
        /\ sweep' = NextRow([sweep EXCEPT !.last = last,
               !.complete = (page = Candidates),
               !.refs = {[run |-> r, status |-> command[r].status] :
                            r \in page}])
        /\ unlisted' = unlisted \ page
        /\ UNCHANGED <<command, faults>>

\* The catch around it: what recoverOnce has found so far is returned.
ListThrows ==
    /\ sweep.pc = "list"
    /\ sweep' = IdleFrom(sweep.next)
    /\ Fault
    /\ UNCHANGED <<command, unlisted>>

Drop(ref) == NextRow([sweep EXCEPT !.refs = @ \ {ref}])

\* readRecoveryBundle and classifyBundle: only a Command that is as it was
\* listed and must be blocked is taken further.
ReadBundle ==
    \E ref \in sweep.refs :
        /\ sweep.pc = "read"
        /\ IsNextRow(ref)
        /\ sweep' = IF /\ command[ref.run].status = ref.status
                       /\ ref.status = "dispatched"
                       /\ command[ref.run].work # "leave"
                    THEN [sweep EXCEPT !.pc = "settle"]
                    ELSE Drop(ref)
        /\ UNCHANGED <<command, unlisted, faults>>

\* recoverAndSettleRunCommandWithTerminalEvent, or its refusal: no other
\* Attempt may hold a lease, and the Run must be as its bundle showed it.
Settle ==
    \E ref \in sweep.refs :
        /\ sweep.pc = "settle"
        /\ IsNextRow(ref)
        /\ \/ /\ command[ref.run].status = "dispatched"
              /\ command[ref.run].work # "busy"
              /\ ~sweep.moved
              /\ Becomes(ref.run, Ended(command[ref.run]))
           \/ /\ \/ command[ref.run].status # "dispatched"
                 \/ command[ref.run].work # "block"
                 \/ sweep.moved
              /\ command' = command
        /\ sweep' = Drop(ref)
        /\ UNCHANGED <<unlisted, faults>>

\* A read or the settlement throws: the Command is counted and left alone.
RowThrows ==
    \E ref \in sweep.refs :
        /\ sweep.pc \in {"read", "settle"}
        /\ IsNextRow(ref)
        /\ sweep' = Drop(ref)
        /\ Fault
        /\ UNCHANGED <<command, unlisted>>

\* The process restarts, and with it the owner.
Restart ==
    /\ sweep' = IdleFrom(Null)
    /\ Fault
    /\ UNCHANGED <<command, unlisted>>

Recover == Begin \/ ListPage \/ ReadBundle \/ Settle

Next ==
    \/ \E r \in Runs : Reserve(r) \/ Move(r)
    \/ Recover
    \/ ListThrows
    \/ RowThrows
    \/ Restart

Spec == Init /\ [][Next]_vars

\* The owner keeps calling, and running code goes on.
FairSpec == Spec /\ WF_vars(Recover)

(***************************************************************************)
(* Properties.                                                             *)
(***************************************************************************)

\* A sweep that ends has listed every Command that was open when it began
\* and still is, although the store was read page by page in several calls
\* of recoverOnce while Commands came, moved and ended.
SweepMissesNobody ==
    [][sweep.pc # "idle" /\ sweep' = IdleFrom(Null) /\ faults' = faults
          => Open' \cap unlisted' = {}]_vars

\* Retained Commands do not starve those behind them: one whose outcome is
\* unknown, and which nobody works on, does not stay so for ever.
Blockable(r) ==
    /\ command[r].status = "dispatched"
    /\ command[r].work = "block"

NobodyStarves == \A r \in Runs : Blockable(r) ~> ~Blockable(r)

=============================================================================
