------------------------- MODULE RecoverySweepProofs -------------------------
(***************************************************************************)
(* That a sweep misses nobody, for every number of Commands, every size of *)
(* a page and every number of pages.  The inductive invariant says where   *)
(* the sweep stands: each Command it still owes is open at a key after the *)
(* place from which it goes on, whichever variable holds that place.       *)
(***************************************************************************)
EXTENDS RecoverySweep, FiniteSetTheorems, TLAPS

\* The place from which the sweep goes on.
Position ==
    IF sweep.pc = "idle" THEN sweep.next
    ELSE IF sweep.pc = "list" THEN sweep.cursor
    ELSE sweep.last

Owed == unlisted \cap Open

\* A Command has a time once it is reserved, and only such a one is owed.
Dated ==
    /\ \A r \in Runs : command[r].status # "none" => command[r].created # 0
    /\ \A r \in unlisted : command[r].status # "none"

\* What the sweep owes lies ahead of it.
Ahead == \A r \in Owed : After(KeyOf(r), Position)

\* What recoverOnce knows about its place.
Place ==
    /\ sweep.pc = "list" => sweep.next \in {Null, sweep.cursor}
    /\ sweep.pc \in {"read", "settle"} => sweep.last # Null
    /\ sweep.pc \in {"read", "settle"} /\ sweep.complete => Owed = {}

IInv == TypeOK /\ Dated /\ Ahead /\ Place

-----------------------------------------------------------------------------
(* Records *)

LEMMA NullIsACursor == Null \in Cursors
BY DEF Null, Cursors

\* A sweep between two calls.
LEMMA IdleFields ==
    ASSUME NEW c \in Cursors
    PROVE  /\ IdleFrom(c) \in Sweeps
           /\ IdleFrom(c).pc = "idle"
           /\ IdleFrom(c).next = c
<1>1. 0 \in 0 .. MaxPages
  BY SweepAssumption
<1> QED
  BY <1>1, NullIsACursor DEF IdleFrom, Sweeps

\* A sweep that asks for a page.
LEMMA ListFields ==
    ASSUME NEW c \in Cursors, NEW n \in Cursors, NEW p \in 0 .. MaxPages
    PROVE  /\ ListFrom(c, n, p) \in Sweeps
           /\ ListFrom(c, n, p).pc = "list"
           /\ ListFrom(c, n, p).cursor = c
           /\ ListFrom(c, n, p).next = n
BY NullIsACursor DEF Sweeps, ListFrom

\* A sweep that has a row to treat.
LEMMA ReadFields ==
    ASSUME NEW s \in Sweeps, NEW t, t = [s EXCEPT !.pc = "read", !.moved = FALSE]
    PROVE  /\ t \in Sweeps /\ t.pc = "read"
           /\ t.last = s.last /\ t.complete = s.complete
BY Zenon DEF Sweeps

\* NextRow goes on with a row, with a page, or returns.
LEMMA NextRowCases ==
    ASSUME NEW s \in Sweeps
    PROVE  /\ NextRow(s) \in Sweeps
           /\ \/ /\ NextRow(s).pc = "read" /\ s.refs # {}
                 /\ NextRow(s).last = s.last
                 /\ NextRow(s).complete = s.complete
              \/ s.complete /\ NextRow(s) = IdleFrom(Null)
              \/ /\ ~s.complete
                 /\ NextRow(s).pc = "list"
                 /\ NextRow(s).cursor = s.last /\ NextRow(s).next = s.last
              \/ ~s.complete /\ NextRow(s) = IdleFrom(s.last)
<1>0. /\ s.last \in Cursors /\ s.pages \in 0 .. MaxPages
      /\ s.complete \in BOOLEAN
  BY Zenon DEF Sweeps
<1>1. CASE s.refs # {}
  <2>1. NextRow(s) = [s EXCEPT !.pc = "read", !.moved = FALSE]
    BY <1>1, Zenon DEF NextRow
  <2> QED
    BY <2>1, <1>1, ReadFields, Zenon
<1>2. CASE s.refs = {} /\ s.complete
  <2>1. NextRow(s) = IdleFrom(Null)
    BY <1>2, Zenon DEF NextRow, EndOfPage
  <2> QED
    BY <2>1, <1>2, IdleFields, NullIsACursor, Zenon
<1>3. CASE s.refs = {} /\ ~s.complete /\ s.pages > 1
  <2>1. NextRow(s) = ListFrom(s.last, s.last, s.pages - 1)
    BY <1>3, Zenon DEF NextRow, EndOfPage
  <2>2. s.pages - 1 \in 0 .. MaxPages
    BY <1>0, <1>3, SweepAssumption
  <2> DEFINE p == s.pages - 1
  <2> HIDE DEF p
  <2>3. /\ ListFrom(s.last, s.last, p) \in Sweeps
        /\ ListFrom(s.last, s.last, p).pc = "list"
        /\ ListFrom(s.last, s.last, p).cursor = s.last
        /\ ListFrom(s.last, s.last, p).next = s.last
    <3>1. p \in 0 .. MaxPages
      BY <2>2 DEF p
    <3> QED
      BY <3>1, <1>0, ListFields
  <2>4. NextRow(s) = ListFrom(s.last, s.last, p)
    BY <2>1 DEF p
  <2> QED
    BY <2>3, <2>4, <1>3, Zenon
<1>4. CASE s.refs = {} /\ ~s.complete /\ ~(s.pages > 1)
  <2>1. NextRow(s) = IdleFrom(s.last)
    BY <1>4, Zenon DEF NextRow, EndOfPage
  <2> QED
    BY <2>1, <1>0, <1>4, IdleFields, Zenon
<1> QED
  BY <1>1, <1>2, <1>3, <1>4, <1>0

-----------------------------------------------------------------------------
(* Steps of the Commands *)

\* Commands are not forgotten: none returns to "none" or from its end, and
\* its key stays.
CommandsStay ==
    /\ command' \in [Runs -> Commands]
    /\ \A r \in Runs :
          /\ command[r].status # "none" =>
                /\ command'[r].status # "none"
                /\ command'[r].created = command[r].created
          /\ command[r].status = "terminal" => command'[r].status = "terminal"
          /\ command'[r].status # "none" => command'[r].created # 0

\* One row is replaced by a later one.
LEMMA BecomesStays ==
    ASSUME TypeOK, Dated, NEW r \in Open, NEW row \in Commands,
           row.created = command[r].created, row.status # "none",
           Becomes(r, row)
    PROVE  CommandsStay
<1>1. /\ command \in [Runs -> Commands] /\ r \in Runs
      /\ command[r].status \notin {"none", "terminal"}
  BY DEF TypeOK, Open
<1>2. command' = [command EXCEPT ![r] = row]
  BY DEF Becomes
<1>3. command' \in [Runs -> Commands]
  BY <1>1, <1>2
<1>4. \A q \in Runs : command'[q] = IF q = r THEN row ELSE command[q]
  BY <1>1, <1>2
<1> QED
  BY <1>1, <1>3, <1>4 DEF CommandsStay, Dated

\* The rows that a step of a Command can leave.
LEMMA RowFields ==
    ASSUME NEW row \in Commands, NEW w \in Works
    PROVE  /\ Ended(row) \in Commands
           /\ Ended(row).created = row.created
           /\ Ended(row).status = "terminal"
           /\ [row EXCEPT !.work = w] \in Commands
           /\ [row EXCEPT !.work = w].created = row.created
           /\ [row EXCEPT !.work = w].status = row.status
           /\ [row EXCEPT !.status = "dispatched", !.work = w] \in Commands
           /\ [row EXCEPT !.status = "dispatched", !.work = w].created
                  = row.created
           /\ [row EXCEPT !.status = "dispatched", !.work = w].status
                  = "dispatched"
BY Zenon DEF Ended, Commands, Statuses, Works

LEMMA ReserveStays ==
    ASSUME TypeOK, Dated, NEW r \in Runs, Reserve(r)
    PROVE  CommandsStay
<1>1. command \in [Runs -> Commands] /\ command[r].status = "none"
  BY DEF TypeOK, Reserve
<1>2. PICK time \in Times[r] :
        command' = [command EXCEPT ![r].status = "pending", ![r].created = time]
  BY Zenon DEF Reserve
<1>3. time \in Nat /\ time # 0
  BY SweepAssumption
<1>4. PICK row : row = [[command[r] EXCEPT !.status = "pending"]
                           EXCEPT !.created = time]
  BY Zenon
<1>5. row \in Commands /\ row.status = "pending" /\ row.created = time
  <2>1. command[r] \in Commands
    BY <1>1
  <2> HIDE <1>2
  <2> QED
    BY <1>3, <1>4, <2>1, Zenon DEF Commands, Statuses
<1>6. command' = [command EXCEPT ![r] = row]
  BY <1>2, <1>4, <1>1, Zenon
<1> HIDE <1>2, <1>4
<1>7. command' \in [Runs -> Commands]
  BY <1>1, <1>5, <1>6
<1>8. \A q \in Runs : command'[q] = IF q = r THEN row ELSE command[q]
  BY <1>1, <1>6
<1> QED
  BY <1>1, <1>3, <1>5, <1>7, <1>8 DEF CommandsStay, Dated

LEMMA MoveStays ==
    ASSUME TypeOK, Dated, NEW r \in Runs, Move(r)
    PROVE  CommandsStay
<1>1. r \in Open /\ command[r] \in Commands /\ command[r].status # "none"
  BY Zenon DEF Move, Open, TypeOK
<1>2. PICK row \in Commands : /\ Becomes(r, row)
                              /\ row.created = command[r].created
                              /\ row.status # "none"
  <2>1. CASE Becomes(r, Ended(command[r]))
    <3>1. "leave" \in Works
      BY DEF Works
    <3> QED
      BY <1>1, <2>1, <3>1, RowFields, Zenon
  <2>2. CASE Becomes(r, [command[r] EXCEPT !.status = "dispatched",
                                           !.work = "busy"])
    <3>1. "busy" \in Works
      BY DEF Works
    <3> QED
      BY <1>1, <2>2, <3>1, RowFields, Zenon
  <2>3. CASE \E work \in WorksFrom[command[r].work] :
                Becomes(r, [command[r] EXCEPT !.work = work])
    <3>1. PICK work \in WorksFrom[command[r].work] :
            Becomes(r, [command[r] EXCEPT !.work = work])
      BY <2>3, Zenon
    <3>2. command[r].work \in Works
      BY <1>1, Zenon DEF Commands
    <3>3. WorksFrom[command[r].work] \subseteq Works
      BY <3>2 DEF WorksFrom, Works
    <3>4. work \in Works
      BY <3>3
    <3>5. /\ [command[r] EXCEPT !.work = work] \in Commands
          /\ [command[r] EXCEPT !.work = work].created = command[r].created
          /\ [command[r] EXCEPT !.work = work].status = command[r].status
      BY <1>1, <3>4, RowFields, Zenon
    <3> QED
      BY <1>1, <3>1, <3>5, Zenon
  <2> QED
    BY <2>1, <2>2, <2>3, Zenon DEF Move
<1> QED
  BY <1>1, <1>2, BecomesStays, Zenon

-----------------------------------------------------------------------------
(* What is owed *)

LEMMA OwedShrinks ==
    ASSUME Dated, CommandsStay, unlisted \subseteq Runs,
           unlisted' \subseteq unlisted
    PROVE  /\ Owed' \subseteq Owed
           /\ \A r \in Owed' : KeyOf(r)' = KeyOf(r)
           /\ Dated'
BY DEF Owed, Open, Dated, CommandsStay, KeyOf

LEMMA SameCommandsStay ==
    ASSUME TypeOK, Dated, command' = command
    PROVE  CommandsStay
BY DEF TypeOK, Dated, CommandsStay

-----------------------------------------------------------------------------
(* Steps of the sweep *)

\* A step that leaves the sweep where it is.
LEMMA StillKeepsInv ==
    ASSUME IInv, CommandsStay, unlisted' = unlisted, faults' \in Nat,
           sweep' \in Sweeps, sweep'.pc = sweep.pc, sweep'.next = sweep.next,
           sweep'.cursor = sweep.cursor, sweep'.last = sweep.last,
           sweep'.complete = sweep.complete
    PROVE  IInv'
<1>1. Owed' \subseteq Owed /\ (\A r \in Owed' : KeyOf(r)' = KeyOf(r)) /\ Dated'
  BY OwedShrinks DEF IInv, TypeOK
<1>2. TypeOK'
  BY DEF IInv, TypeOK, CommandsStay
<1>3. Position' = Position
  BY DEF Position
<1>4. Ahead'
  BY <1>1, <1>3 DEF IInv, Ahead, After
<1>5. Place'
  BY <1>1 DEF IInv, Place
<1> QED
  BY <1>1, <1>2, <1>4, <1>5 DEF IInv

\* The end of a row: what comes next, and that an end of the sweep owes
\* nothing.
LEMMA DropKeepsInv ==
    ASSUME IInv, sweep.pc \in {"read", "settle"}, CommandsStay,
           unlisted' = unlisted, faults' \in Nat, NEW ref, sweep' = Drop(ref)
    PROVE  IInv' /\ (sweep' = IdleFrom(Null) => Owed' = {})
<1> DEFINE s == [sweep EXCEPT !.refs = @ \ {ref}]
<1>1. s \in Sweeps /\ s.last = sweep.last /\ s.complete = sweep.complete
  <2>1. sweep \in Sweeps
    BY DEF IInv, TypeOK
  <2>2. PICK left : left = sweep.refs \ {ref}
    OBVIOUS
  <2>3. sweep.refs \in SUBSET Refs
    BY <2>1, Zenon DEF Sweeps
  <2>4. left \in SUBSET Refs
    BY <2>2, <2>3
  <2>5. s = [sweep EXCEPT !.refs = left]
    BY <2>2, Zenon
  <2> HIDE DEF s
  <2> QED
    BY <2>1, <2>4, <2>5, Zenon DEF Sweeps
<1>2. sweep' = NextRow(s)
  BY Zenon DEF Drop
<1> HIDE DEF s
<1>3. Owed' \subseteq Owed /\ (\A r \in Owed' : KeyOf(r)' = KeyOf(r)) /\ Dated'
  BY OwedShrinks DEF IInv, TypeOK
<1>4. sweep' \in Sweeps
  BY <1>1, <1>2, NextRowCases, Zenon
<1>5. TypeOK'
  BY <1>4 DEF IInv, TypeOK, CommandsStay
<1>6. /\ \A r \in Owed : After(KeyOf(r), sweep.last)
      /\ sweep.last # Null
      /\ sweep.complete => Owed = {}
      /\ sweep.last \in Cursors
  BY Zenon DEF IInv, Ahead, Position, Place, TypeOK, Sweeps
<1>7. \A r \in Owed' : After(KeyOf(r)', sweep.last)
  BY <1>3, <1>6
<1>8. CASE /\ sweep'.pc = "read" /\ sweep'.last = sweep.last
           /\ sweep'.complete = sweep.complete
  <2>1. sweep' # IdleFrom(Null)
    BY <1>8, IdleFields, NullIsACursor
  <2> QED
    BY <1>3, <1>5, <1>6, <1>7, <1>8, <2>1
    DEF IInv, Ahead, Place, Position
<1>9. CASE sweep.complete /\ sweep' = IdleFrom(Null)
  <2>1. Owed' = {}
    BY <1>3, <1>6, <1>9
  <2>2. sweep'.pc = "idle"
    BY <1>9, IdleFields, NullIsACursor
  <2> QED
    BY <1>3, <1>5, <2>1, <2>2 DEF IInv, Ahead, Place
<1>10. CASE /\ sweep'.pc = "list"
            /\ sweep'.cursor = sweep.last /\ sweep'.next = sweep.last
  <2>1. sweep' # IdleFrom(Null)
    BY <1>10, IdleFields, NullIsACursor
  <2> QED
    BY <1>3, <1>5, <1>7, <1>10, <2>1 DEF IInv, Ahead, Place, Position
<1>11. CASE sweep' = IdleFrom(sweep.last)
  <2>1. sweep'.pc = "idle" /\ sweep'.next = sweep.last
    BY <1>6, <1>11, IdleFields
  <2>2. sweep' # IdleFrom(Null)
    BY <1>6, <2>1, IdleFields, NullIsACursor
  <2> QED
    BY <1>3, <1>5, <1>7, <2>1, <2>2 DEF IInv, Ahead, Place, Position
<1> QED
  BY <1>1, <1>2, <1>8, <1>9, <1>10, <1>11, NextRowCases, Zenon

\* A new call: a new sweep owes what is open, and anything is ahead of null.
LEMMA BeginKeepsInv == IInv /\ Begin => IInv' /\ sweep' # IdleFrom(Null)
<1> SUFFICES ASSUME IInv, Begin PROVE IInv' /\ sweep' # IdleFrom(Null)
  OBVIOUS
<1>1. /\ sweep \in Sweeps /\ sweep.next \in Cursors /\ sweep.pc = "idle"
      /\ MaxPages \in 0 .. MaxPages /\ command' = command
  BY SweepAssumption DEF IInv, TypeOK, Sweeps, Begin
<1>2. sweep' = ListFrom(sweep.next, Null, MaxPages)
  BY DEF Begin
<1>3. /\ sweep' \in Sweeps /\ sweep'.pc = "list"
      /\ sweep'.cursor = sweep.next /\ sweep'.next = Null
  BY <1>1, <1>2, ListFields, NullIsACursor
<1>4. TypeOK' /\ Dated'
  BY <1>1, <1>3 DEF IInv, TypeOK, Dated, Begin, Open
<1>5. Position' = sweep.next /\ Open' = Open
      /\ (\A r \in Runs : KeyOf(r)' = KeyOf(r))
  BY <1>1, <1>3 DEF Position, Open, KeyOf
<1>6. Ahead'
  <2>1. CASE sweep.next = Null
    <3>1. \A r \in Open : /\ command[r].created \in Nat
                          /\ command[r].created # 0
      BY Zenon DEF IInv, Dated, Open, TypeOK, Commands
    <3>2. \A r \in Open : After(KeyOf(r), Null)
      BY <3>1 DEF After, KeyOf, Null
    <3> QED
      BY <2>1, <3>2, <1>5 DEF Ahead, Owed, Open
  <2>2. CASE sweep.next # Null
    <3>1. unlisted' = unlisted
      BY <2>2 DEF Begin
    <3>2. \A r \in Owed : After(KeyOf(r), sweep.next)
      BY <1>1 DEF IInv, Ahead, Position
    <3> QED
      BY <3>1, <3>2, <1>5 DEF Ahead, Owed, Open
  <2> QED
    BY <2>1, <2>2
<1>7. Place'
  BY <1>3 DEF Place
<1>8. sweep' # IdleFrom(Null)
  BY <1>3, IdleFields, NullIsACursor
<1> QED
  BY <1>4, <1>6, <1>7, <1>8 DEF IInv

\* A return without a sweep's end, by a fault.
LEMMA FaultKeepsInv ==
    ASSUME IInv, command' = command, unlisted' = unlisted, faults' \in Nat,
           NEW c \in {Null, Position}, sweep' = IdleFrom(c)
    PROVE  IInv'
<1>1. Position \in Cursors
  BY Zenon DEF IInv, TypeOK, Sweeps, Position
<1>2. c \in Cursors
  BY <1>1, NullIsACursor
<1>3. sweep' \in Sweeps /\ sweep'.pc = "idle" /\ sweep'.next = c
  BY <1>2, IdleFields
<1>4. TypeOK' /\ Dated' /\ Place'
  BY <1>3 DEF IInv, TypeOK, Dated, Place
<1>5. Position' = c /\ Owed' = Owed /\ (\A r \in Runs : KeyOf(r)' = KeyOf(r))
  BY <1>3 DEF Position, Owed, Open, KeyOf
<1>6. \A r \in Owed : After(KeyOf(r), Null)
  <2>1. \A r \in Owed : /\ command[r].created \in Nat
                        /\ command[r].created # 0
    BY Zenon DEF IInv, Dated, Owed, Open, TypeOK, Commands
  <2> QED
    BY <2>1 DEF After, KeyOf, Null
<1>7. \A r \in Owed : After(KeyOf(r), Position)
  BY DEF IInv, Ahead
<1>8. \A r \in Owed : After(KeyOf(r), c)
  BY <1>6, <1>7
<1>9. Ahead'
  BY <1>5, <1>8 DEF Ahead, Owed, Open
<1> QED
  BY <1>4, <1>9 DEF IInv

\* The head of a page, and what it leaves to list, lies after its last row.
LEMMA PageIsAPrefix ==
    ASSUME TypeOK, NEW page \in SUBSET Candidates,
           NEW last \in {sweep.cursor} \cup KeysOf(Open), IsPage(page),
           IsLast(page, last)
    PROVE  /\ page = {} => page = Candidates
           /\ page # {} => \E r \in page : last = KeyOf(r)
           /\ page # {} => \A r \in Candidates \ page : After(KeyOf(r), last)
<1>1. ASSUME page = {} PROVE page = Candidates
  <2>1. Cardinality(page) = 0
    BY <1>1, FS_EmptySet
  <2> QED
    BY <2>1, SweepAssumption DEF IsPage
<1>2. ASSUME page # {} PROVE \E r \in page : last = KeyOf(r)
  BY <1>2 DEF IsLast, KeysOf
<1>3. ASSUME page # {} PROVE \A r \in Candidates \ page : After(KeyOf(r), last)
  BY <1>2, <1>3, Zenon DEF IsPage
<1> QED
  BY <1>1, <1>2, <1>3

LEMMA ListKeepsInv ==
    ASSUME IInv, ListPage
    PROVE  IInv' /\ (sweep' = IdleFrom(Null) => Owed' = {})
<1>1. PICK page \in SUBSET Candidates, last \in {sweep.cursor} \cup KeysOf(Open) :
        /\ sweep.pc = "list"
        /\ IsPage(page)
        /\ IsLast(page, last)
        /\ sweep' = NextRow([sweep EXCEPT !.last = last,
               !.complete = (page = Candidates),
               !.refs = {[run |-> r, status |-> command[r].status] :
                            r \in page}])
        /\ unlisted' = unlisted \ page
        /\ UNCHANGED <<command, faults>>
  BY Zenon DEF ListPage
<1>2. PICK rows : rows = {[run |-> r, status |-> command[r].status] : r \in page}
  OBVIOUS
<1>3. PICK all : all = (page = Candidates) /\ all \in BOOLEAN
  OBVIOUS
<1>4. PICK s : s = [sweep EXCEPT !.last = last, !.complete = all, !.refs = rows]
  OBVIOUS
<1>5. sweep' = NextRow(s)
  BY <1>1, <1>2, <1>3, <1>4, Zenon
<1>6. /\ \A r \in Runs : command[r] \in Commands
      /\ \A r \in Open : command[r].created \in Nat /\ command[r].created # 0
      /\ page \subseteq Open /\ Open \subseteq Runs
  BY Zenon DEF IInv, Dated, TypeOK, Open, Candidates, Commands
<1>7. rows \in SUBSET Refs
  <2>1. \A r \in page : [run |-> r, status |-> command[r].status] \in Refs
    BY <1>6, Zenon DEF Refs, Commands
  <2> QED
    BY <1>2, <2>1
<1>8. \A r \in Open : KeyOf(r) \in Cursors /\ KeyOf(r) # Null
  <2>1. \A r \in Open : r \in Nat
    BY <1>6, SweepAssumption
  <2> QED
    BY <1>6, <2>1 DEF KeyOf, Cursors, Null
<1>9. sweep \in Sweeps /\ sweep.cursor \in Cursors
  BY Zenon DEF IInv, TypeOK, Sweeps
<1>10. last \in Cursors
  BY <1>8, <1>9 DEF KeysOf
<1>11. s \in Sweeps /\ s.last = last /\ s.complete = all /\ s.refs = rows
  BY <1>3, <1>4, <1>7, <1>9, <1>10, Zenon DEF Sweeps
<1> HIDE <1>4
<1>12. /\ page = {} => page = Candidates
       /\ page # {} => \E r \in page : last = KeyOf(r)
       /\ page # {} => \A r \in Candidates \ page : After(KeyOf(r), last)
  BY <1>1, PageIsAPrefix, Zenon DEF IInv
<1>13. page # {} => last # Null
  BY <1>6, <1>8, <1>12, Zenon
<1>14. Position = sweep.cursor /\ Owed \subseteq Candidates
  BY <1>1, <1>6 DEF Position, Owed, Candidates, IInv, Ahead
<1>15. CommandsStay
  BY <1>1, SameCommandsStay DEF IInv
<1>16. /\ Owed' = Owed \ page
       /\ \A r \in Runs : KeyOf(r)' = KeyOf(r)
       /\ Dated'
  BY <1>1 DEF Owed, Open, KeyOf, Dated, IInv
<1>17. all => Owed' = {}
  BY <1>3, <1>14, <1>16
<1>18. ~all => page # {} /\ (\A r \in Owed' : After(KeyOf(r)', last))
  <2> SUFFICES ASSUME ~all
               PROVE  page # {} /\ (\A r \in Owed' : After(KeyOf(r)', last))
    OBVIOUS
  <2>1. page # {}
    BY <1>3, <1>12
  <2>2. Owed' \subseteq Candidates \ page /\ Owed' \subseteq Runs
    BY <1>6, <1>14, <1>16 DEF Candidates
  <2>3. \A r \in Owed' : After(KeyOf(r), last)
    BY <1>12, <2>1, <2>2
  <2> QED
    BY <1>16, <2>1, <2>2, <2>3
<1>19. sweep' \in Sweeps
  BY <1>5, <1>11, NextRowCases, Zenon
<1>20. TypeOK'
  BY <1>1, <1>19 DEF IInv, TypeOK
<1>21. CASE /\ sweep'.pc = "read" /\ s.refs # {} /\ sweep'.last = last
            /\ sweep'.complete = all
  <2>1. sweep' # IdleFrom(Null)
    BY <1>21, IdleFields, NullIsACursor
  <2>2. page # {}
    BY <1>2, <1>11, <1>21
  <2>3. Position' = last
    BY <1>21 DEF Position
  <2>4. Ahead'
    BY <1>17, <1>18, <1>3, <2>3 DEF Ahead
  <2>5. Place'
    BY <1>13, <1>17, <1>21, <2>2 DEF Place
  <2> QED
    BY <1>16, <1>20, <2>1, <2>4, <2>5 DEF IInv
<1>22. CASE all /\ sweep' = IdleFrom(Null)
  <2>1. sweep'.pc = "idle"
    BY <1>22, IdleFields, NullIsACursor
  <2> QED
    BY <1>16, <1>17, <1>20, <1>22, <2>1 DEF IInv, Ahead, Place
<1>23. CASE ~all /\ sweep'.pc = "list" /\ sweep'.cursor = last /\ sweep'.next = last
  <2>1. sweep' # IdleFrom(Null)
    BY <1>23, IdleFields, NullIsACursor
  <2>2. Position' = last
    BY <1>23 DEF Position
  <2>3. Ahead' /\ Place'
    BY <1>18, <1>23, <2>2 DEF Ahead, Place
  <2> QED
    BY <1>16, <1>20, <2>1, <2>3 DEF IInv
<1>24. CASE ~all /\ sweep' = IdleFrom(last)
  <2>1. sweep'.pc = "idle" /\ sweep'.next = last
    BY <1>10, <1>24, IdleFields
  <2>2. sweep' # IdleFrom(Null)
    BY <1>13, <1>18, <1>24, <2>1, IdleFields, NullIsACursor
  <2>3. Position' = last
    BY <2>1 DEF Position
  <2>4. Ahead' /\ Place'
    BY <1>18, <1>24, <2>1, <2>3 DEF Ahead, Place
  <2> QED
    BY <1>16, <1>20, <2>2, <2>4 DEF IInv
<1> QED
  BY <1>5, <1>11, <1>21, <1>22, <1>23, <1>24, NextRowCases, Zenon

\* A Command that moves may be noted by the sweep, no more.
LEMMA CommandKeepsInv ==
    ASSUME IInv, NEW r \in Runs, Reserve(r) \/ Move(r)
    PROVE  IInv' /\ sweep'.pc = sweep.pc
<1>1. CommandsStay
  BY ReserveStays, MoveStays DEF IInv
<1>2. sweep \in Sweeps /\ faults \in Nat
  BY DEF IInv, TypeOK
<1>3. unlisted' = unlisted /\ faults' = faults
  BY Zenon DEF Reserve, Move
<1>4. sweep' = sweep \/ sweep' = [sweep EXCEPT !.moved = TRUE]
  BY Zenon DEF Reserve, Move, Disturb
<1>5. /\ sweep' \in Sweeps /\ sweep'.pc = sweep.pc
      /\ sweep'.next = sweep.next /\ sweep'.cursor = sweep.cursor
      /\ sweep'.last = sweep.last /\ sweep'.complete = sweep.complete
  <2>1. TRUE \in BOOLEAN
    OBVIOUS
  <2>2. CASE sweep' = sweep
    BY <1>2, <2>2
  <2>3. CASE sweep' = [sweep EXCEPT !.moved = TRUE]
    BY <1>2, <2>1, <2>3, Zenon DEF Sweeps
  <2> QED
    BY <1>4, <2>2, <2>3
<1> QED
  BY <1>1, <1>2, <1>3, <1>5, StillKeepsInv

LEMMA ReadKeepsInv ==
    ASSUME IInv, ReadBundle
    PROVE  IInv' /\ (sweep' = IdleFrom(Null) => Owed' = {})
<1>1. PICK ref \in sweep.refs :
        /\ sweep.pc = "read"
        /\ sweep' = Drop(ref) \/ sweep' = [sweep EXCEPT !.pc = "settle"]
  BY Zenon DEF ReadBundle
<1>2. /\ sweep \in Sweeps /\ command' = command /\ unlisted' = unlisted
      /\ faults' \in Nat
  BY DEF IInv, TypeOK, ReadBundle
<1>3. CommandsStay
  BY <1>2, SameCommandsStay DEF IInv
<1>4. CASE sweep' = Drop(ref)
  BY <1>1, <1>2, <1>3, <1>4, DropKeepsInv, Zenon
<1>5. CASE sweep' = [sweep EXCEPT !.pc = "settle"]
  <2>1. /\ sweep' \in Sweeps /\ sweep'.pc = "settle"
        /\ sweep'.last = sweep.last /\ sweep'.complete = sweep.complete
    <3>1. "settle" \in {"idle", "list", "read", "settle"}
      OBVIOUS
    <3> QED
      BY <1>2, <1>5, <3>1, Zenon DEF Sweeps
  <2>2. Position' = Position /\ Owed' = Owed
        /\ (\A r \in Runs : KeyOf(r)' = KeyOf(r)) /\ Owed \subseteq Runs
    BY <1>1, <1>2, <2>1 DEF Position, Owed, Open, KeyOf
  <2>3. TypeOK' /\ Dated'
    BY <1>2, <2>1 DEF IInv, TypeOK, Dated
  <2>4. Ahead'
    <3>1. \A r \in Owed : After(KeyOf(r), Position)
      BY DEF IInv, Ahead
    <3> QED
      BY <2>2, <3>1 DEF Ahead
  <2>5. Place'
    BY <1>1, <2>1, <2>2 DEF IInv, Place
  <2>6. sweep' # IdleFrom(Null)
    BY <2>1, IdleFields, NullIsACursor
  <2> QED
    BY <2>3, <2>4, <2>5, <2>6 DEF IInv
<1> QED
  BY <1>1, <1>4, <1>5

LEMMA SettleKeepsInv ==
    ASSUME IInv, Settle
    PROVE  IInv' /\ (sweep' = IdleFrom(Null) => Owed' = {})
<1>1. PICK ref \in sweep.refs :
        /\ sweep.pc = "settle"
        /\ \/ /\ command[ref.run].status = "dispatched"
              /\ Becomes(ref.run, Ended(command[ref.run]))
           \/ command' = command
        /\ sweep' = Drop(ref)
        /\ UNCHANGED <<unlisted, faults>>
  BY Zenon DEF Settle
<1>2. ref.run \in Runs /\ command[ref.run] \in Commands
  <2>1. ref \in Refs
    <3>1. sweep.refs \in SUBSET Refs
      BY Zenon DEF IInv, TypeOK, Sweeps
    <3> QED
      BY <3>1
  <2> QED
    BY <2>1 DEF Refs, IInv, TypeOK
<1>3. CommandsStay
  <2>1. CASE command' = command
    BY <2>1, SameCommandsStay DEF IInv
  <2>2. CASE /\ command[ref.run].status = "dispatched"
             /\ Becomes(ref.run, Ended(command[ref.run]))
    <3>1. ref.run \in Open
      BY <1>2, <2>2 DEF Open
    <3>2. /\ Ended(command[ref.run]) \in Commands
          /\ Ended(command[ref.run]).created = command[ref.run].created
          /\ Ended(command[ref.run]).status # "none"
      <4>1. "leave" \in Works
        BY DEF Works
      <4> QED
        BY <1>2, <4>1, RowFields
    <3> QED
      BY <2>2, <3>1, <3>2, BecomesStays, Zenon DEF IInv
  <2> QED
    BY <1>1, <2>1, <2>2
<1> QED
  BY <1>1, <1>3, DropKeepsInv DEF IInv, TypeOK

\* The steps that go wrong.
LEMMA FaultsKeepInv ==
    ASSUME IInv, ListThrows \/ RowThrows \/ Restart
    PROVE  IInv'
<1>1. command' = command /\ unlisted' = unlisted /\ faults' \in Nat
  BY DEF ListThrows, RowThrows, Restart, Fault, IInv, TypeOK
<1>2. CommandsStay
  BY <1>1, SameCommandsStay DEF IInv
<1>3. CASE ListThrows
  <2>1. sweep.next \in {Null, Position} /\ sweep' = IdleFrom(sweep.next)
    BY <1>3 DEF ListThrows, IInv, Place, Position
  <2> QED
    BY <1>1, <2>1, FaultKeepsInv
<1>4. CASE RowThrows
  <2>1. PICK ref \in sweep.refs :
            sweep.pc \in {"read", "settle"} /\ sweep' = Drop(ref)
    BY <1>4, Zenon DEF RowThrows
  <2> QED
    BY <1>1, <1>2, <2>1, DropKeepsInv, Zenon
<1>5. CASE Restart
  <2>1. Null \in {Null, Position} /\ sweep' = IdleFrom(Null)
    BY <1>5 DEF Restart
  <2> QED
    BY <1>1, <2>1, FaultKeepsInv
<1> QED
  BY <1>3, <1>4, <1>5

-----------------------------------------------------------------------------
(* The theorems *)

LEMMA InitIInv == Init => IInv
<1> SUFFICES ASSUME Init PROVE IInv
  OBVIOUS
<1>1. sweep \in Sweeps /\ sweep.pc = "idle"
  BY IdleFields, NullIsACursor DEF Init
<1>2. NoCommand \in Commands
  BY DEF NoCommand, Commands, Statuses, Works
<1>3. command \in [Runs -> Commands] /\ \A r \in Runs : command[r] = NoCommand
  BY <1>2 DEF Init
<1>4. \A r \in Runs : command[r].status = "none"
  BY <1>3 DEF NoCommand
<1> QED
  BY <1>1, <1>3, <1>4
  DEF IInv, TypeOK, Dated, Ahead, Owed, Place, Init

LEMMA StepIInv == IInv /\ [Next]_vars => IInv'
<1> SUFFICES ASSUME IInv, [Next]_vars PROVE IInv'
  OBVIOUS
<1>1. CASE \E r \in Runs : Reserve(r) \/ Move(r)
  BY <1>1, CommandKeepsInv
<1>2. CASE Begin
  BY <1>2, BeginKeepsInv
<1>3. CASE ListPage
  BY <1>3, ListKeepsInv
<1>4. CASE ReadBundle
  BY <1>4, ReadKeepsInv
<1>5. CASE Settle
  BY <1>5, SettleKeepsInv
<1>6. CASE ListThrows \/ RowThrows \/ Restart
  BY <1>6, FaultsKeepInv
<1>7. CASE UNCHANGED vars
  <2>1. CommandsStay
    BY <1>7, SameCommandsStay DEF IInv, vars
  <2> QED
    BY <1>7, <2>1, StillKeepsInv DEF vars, IInv, TypeOK
<1> QED
  BY <1>1, <1>2, <1>3, <1>4, <1>5, <1>6, <1>7 DEF Next, Recover

\* The steps that can end a sweep, end one that owes nothing.
LEMMA EndOwesNothing ==
    ASSUME IInv, [Next]_vars, sweep.pc # "idle", sweep' = IdleFrom(Null),
           faults' = faults
    PROVE  Owed' = {}
<1>0. sweep'.pc = "idle" /\ faults \in Nat
  BY IdleFields, NullIsACursor DEF IInv, TypeOK
<1>1. CASE \E r \in Runs : Reserve(r) \/ Move(r)
  BY <1>0, <1>1, CommandKeepsInv
<1>2. CASE Begin
  BY <1>2, BeginKeepsInv
<1>3. CASE ListPage
  BY <1>3, ListKeepsInv
<1>4. CASE ReadBundle
  BY <1>4, ReadKeepsInv
<1>5. CASE Settle
  BY <1>5, SettleKeepsInv
<1>6. CASE ListThrows \/ RowThrows \/ Restart
  BY <1>0, <1>6 DEF ListThrows, RowThrows, Restart, Fault
<1>7. CASE UNCHANGED vars
  BY <1>0, <1>7 DEF vars
<1> QED
  BY <1>1, <1>2, <1>3, <1>4, <1>5, <1>6, <1>7 DEF Next, Recover

\* Throughout, what the sweep owes lies ahead of the place it goes on from
\* (recovery-coordinator.ts, recoverOnce and its nextCursor).
THEOREM SweepInvariant == Spec => []IInv
<1> QED
  BY InitIInv, StepIInv, PTL DEF Spec

\* The cursor, the counters of recoverOnce and the Commands stay in their
\* types.
THEOREM SweepTypes == Spec => []TypeOK
<1>1. IInv => TypeOK
  BY DEF IInv
<1> QED
  BY <1>1, SweepInvariant, PTL

\* A sweep of recoverOnce that ends with a null nextCursor has listed every
\* Command that was open when it began and still is.
THEOREM NobodyIsMissed == Spec => SweepMissesNobody
<1>1. IInv /\ [Next]_vars =>
        [sweep.pc # "idle" /\ sweep' = IdleFrom(Null) /\ faults' = faults
            => Open' \cap unlisted' = {}]_vars
  BY EndOwesNothing DEF Owed
<1> QED
  BY <1>1, SweepInvariant, PTL DEF Spec, SweepMissesNobody

=============================================================================
