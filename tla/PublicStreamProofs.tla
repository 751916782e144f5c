------------------------- MODULE PublicStreamProofs -------------------------
(***************************************************************************)
(* Theorems about PublicStream for logs, pages and limits of every size.   *)
(*                                                                         *)
(* Shape says where the page and its request can be together.  Held bounds *)
(* everything by the log and says that what is read, on the wire or shown  *)
(* may be shown.  Confirmed is about a page that saw the end and asks for  *)
(* it again, Reasons explains the refusals.  They hold whatever goes       *)
(* wrong.  Complete says that nothing is missing either: it needs readings *)
(* that are not cut short by a store error.                                *)
(***************************************************************************)
EXTENDS PublicStream, FiniteSetTheorems, TLAPS

Shape ==
    /\ client.phase = "submitting" => request.kind = "post"
    /\ client.phase = "resuming" => request.kind = "resume"
    /\ client.phase = "live" => request.kind \in {"events", "stream"}
    /\ client.phase \notin {"submitting", "resuming", "live"}
          => request.kind \in {"none", "closing"}
    /\ request.kind = "closing" => client.phase \in {"idle", "terminal"}
    /\ client.op = "confirm" => client.phase \in {"resuming", "terminal", "error"}
    /\ request.kind = "events" => request.asked = client.cursor
    /\ request.kind # "stream" => request.wire = {}
    /\ request.kind # "resume" => request.found = {}
    /\ request.kind # "resume" => request.through = 0
    /\ request.kind \notin {"stream", "resume"} => request.upto = 0
    /\ client.phase \in {"idle", "submitting"} => client.cursor = 0

Held ==
    /\ client.cursor <= Len(log)
    /\ request.upto <= Len(log)
    /\ request.through <= Len(log)
    /\ request.kind = "resume" /\ request.upto # 0
          => request.upto <= request.through
    /\ request.found \subseteq Visible(0, request.upto)
    /\ request.wire \subseteq Visible(client.cursor, request.upto)
    /\ request.kind = "stream" => client.cursor <= request.upto

TailExists == \E t \in 1 .. Len(log) : IsTerminal(t) /\ t < Len(log)
TooLarge ==
    \/ Len(log) > MaxSource
    \/ Cardinality(Visible(0, Len(log))) > MaxResponse

Confirmed ==
    /\ request.kind = "closing" => Ended
    /\ request.kind = "resume" /\ client.op = "confirm"
          => \E t \in 1 .. ResumeThrough : IsTerminal(t)

Reasons ==
    /\ client.cause # "invalid_public_event"
    /\ "reject" \notin Faults => client.cause # "no_terminal_event"
    /\ client.cause = "snapshot_conflict" => TailExists
    /\ client.cause = "too_large" => TooLarge

Inv ==
    /\ TypeOK /\ Shape /\ Held /\ Confirmed
    /\ ViewIsSound /\ EndIsExact /\ Reasons

Complete ==
    "reject" \notin Faults =>
        /\ client.seen = Visible(0, client.cursor)
        /\ \A t \in client.seen : IsTerminal(t) => t = client.cursor
        /\ request.kind = "resume" => request.found = Visible(0, request.upto)
        /\ request.kind = "stream" =>
              /\ request.wire = Emitted(client.cursor, request.upto, {})
              /\ ~request.ended =>
                    \A t \in Visible(0, request.upto) : ~IsTerminal(t)

(***************************************************************************)
(* The records.                                                            *)
(***************************************************************************)
LEMMA VisibleRange ==
    ASSUME NEW from \in Nat, NEW to \in Nat
    PROVE  \A s \in Visible(from, to) : s \in Nat /\ from < s /\ s <= to
BY DEF Visible

LEMMA Fields ==
    ASSUME TypeOK
    PROVE  /\ Len(log) \in Nat
           /\ client \in Clients /\ request \in Requests
           /\ client.cursor \in Nat /\ client.seen \in SUBSET Nat
           /\ request.asked \in Nat
           /\ request.upto \in Nat /\ request.through \in Nat
           /\ request.found \in SUBSET Nat /\ request.wire \in SUBSET Nat
           /\ request.ended \in BOOLEAN
           /\ client.phase \in Phases /\ client.op \in Operations
           /\ client.cause \in Causes
BY DEF TypeOK, Clients, Requests

LEMMA RequestFields ==
    ASSUME NEW n \in Nat
    PROVE  /\ Nothing \in Requests
           /\ Nothing.kind = "none" /\ Nothing.upto = 0 /\ Nothing.through = 0
           /\ Nothing.found = {} /\ Nothing.wire = {}
           /\ Post \in Requests
           /\ Post.kind = "post" /\ Post.upto = 0 /\ Post.through = 0
           /\ Post.found = {} /\ Post.wire = {}
           /\ GetResume \in Requests
           /\ GetResume.kind = "resume" /\ GetResume.upto = 0
           /\ GetResume.through = 0
           /\ GetResume.found = {} /\ GetResume.wire = {}
           /\ Closing \in Requests
           /\ Closing.kind = "closing" /\ Closing.upto = 0
           /\ Closing.through = 0
           /\ Closing.found = {} /\ Closing.wire = {}
           /\ GetEvents(n) \in Requests
           /\ GetEvents(n).kind = "events" /\ GetEvents(n).asked = n
           /\ GetEvents(n).upto = 0 /\ GetEvents(n).through = 0
           /\ GetEvents(n).found = {} /\ GetEvents(n).wire = {}
           /\ Stream(n) \in Requests
           /\ Stream(n).kind = "stream" /\ Stream(n).upto = n
           /\ Stream(n).through = 0 /\ ~Stream(n).ended
           /\ Stream(n).found = {} /\ Stream(n).wire = {}
BY DEF Nothing, Post, GetResume, Closing, GetEvents, Stream, Requests

LEMMA FailedFields ==
    ASSUME client \in Clients, NEW cause \in Causes
    PROVE  /\ Failed(cause) \in Clients
           /\ Failed(cause).phase = "error" /\ Failed(cause).cause = cause
           /\ Failed(cause).seen = client.seen
           /\ Failed(cause).cursor = client.cursor
           /\ Failed(cause).op = client.op
BY DEF Failed, Clients, Phases, Causes

LEMMA NewClientFields ==
    /\ NewClient \in Clients
    /\ NewClient.phase = "idle" /\ NewClient.seen = {}
    /\ NewClient.cursor = 0 /\ NewClient.op = "none"
    /\ NewClient.cause = "none"
BY DEF NewClient, Clients, Phases, Operations, Causes

LEMMA LiveFields ==
    ASSUME NEW page \in Clients, Consume(page)
    PROVE  /\ client' \in Clients
           /\ client'.phase = "live" /\ client'.seen = page.seen
           /\ client'.cursor = page.cursor /\ client'.op = page.op
           /\ client'.cause = page.cause
           /\ request' = GetEvents(page.cursor)
BY DEF Consume, Clients, Phases

(***************************************************************************)
(* One lemma per action: it preserves the invariant.                       *)
(***************************************************************************)
IInv == Inv /\ Complete

LEMMA InitIInv == Init => IInv
<1>. SUFFICES ASSUME Init PROVE IInv
  OBVIOUS
<1>1. Len(log) = 0 /\ log \in Seq(Classes)
  BY DEF Init
<1>2. /\ client \in Clients /\ request \in Requests
      /\ client.phase = "idle" /\ client.seen = {} /\ client.cursor = 0
      /\ client.op = "none" /\ client.cause = "none"
      /\ request.kind = "none" /\ request.upto = 0 /\ request.through = 0
      /\ request.found = {} /\ request.wire = {}
  BY NewClientFields, RequestFields DEF Init
<1>. QED
  BY <1>1, <1>2 DEF Init, IInv, Inv, TypeOK, Shape, Held, ViewIsSound,
     EndIsExact, Reasons, Complete, Visible, Confirmed

\* Sets of rows that the log already has do not change.
LEMMA RowsStay ==
    ASSUME TypeOK, NEW class \in Classes, AppendRecord(class)
    PROVE  /\ TypeOK'
           /\ Len(log') = Len(log) + 1
           /\ \A s \in 1 .. Len(log) : log'[s] = log[s]
           /\ client' = client /\ request' = request
BY DEF TypeOK, AppendRecord

LEMMA AppendStep ==
    ASSUME IInv, NEW class \in Classes, AppendRecord(class)
    PROVE  IInv'
<1>1. /\ TypeOK'
      /\ Len(log) \in Nat /\ Len(log') = Len(log) + 1
      /\ \A s \in 1 .. Len(log) : log'[s] = log[s]
      /\ client' = client /\ request' = request
  BY RowsStay DEF IInv, Inv, TypeOK
<1>2. client.cursor \in Nat /\ request.upto \in Nat
  BY DEF IInv, Inv, TypeOK, Clients, Requests
<1>3. Visible(0, client.cursor)' = Visible(0, client.cursor)
  BY <1>1, <1>2 DEF Visible, IInv, Inv, Held
<1>4. Visible(0, request.upto)' = Visible(0, request.upto)
  BY <1>1, <1>2 DEF Visible, IInv, Inv, Held
<1>5. Visible(client.cursor, request.upto)'
        = Visible(client.cursor, request.upto)
  BY <1>1, <1>2 DEF Visible, IInv, Inv, Held
<1>6. \A s \in 1 .. Len(log) : IsTerminal(s)' <=> IsTerminal(s)
  BY <1>1 DEF IsTerminal
<1>7. Emitted(client.cursor, request.upto, {})'
        = Emitted(client.cursor, request.upto, {})
  <2>1. \A s \in Visible(client.cursor, request.upto) : s \in 1 .. Len(log)
    BY <1>1, <1>2, VisibleRange DEF IInv, Inv, Held
  <2>. QED
    BY <1>5, <1>6, <2>1 DEF Emitted, Shown
<1>8. Shape' /\ Held' /\ ViewIsSound'
  <2>1. Shape'
    BY <1>1 DEF IInv, Inv, Shape
  <2>2. ViewIsSound'
    BY <1>1, <1>3 DEF IInv, Inv, ViewIsSound
  <2>3. request.through \in Nat
    BY DEF IInv, Inv, TypeOK, Requests
  <2>4. Held'
    BY <1>1, <1>2, <1>4, <1>5, <2>3 DEF IInv, Inv, Held
  <2>. QED
    BY <2>1, <2>2, <2>4
<1>9. EndIsExact'
  BY <1>1, <1>2, <1>6 DEF IInv, Inv, Held, EndIsExact
<1>10. TailExists => TailExists'
  BY <1>1, <1>6 DEF TailExists
<1>11. TooLarge => TooLarge'
  <2>1. Visible(0, Len(log)) \subseteq Visible(0, Len(log))'
    BY <1>1 DEF Visible
  <2>2. IsFiniteSet(1 .. Len(log')) /\ Visible(0, Len(log))' \subseteq 1 .. Len(log')
    BY <1>1, FS_Interval DEF Visible
  <2>3. /\ IsFiniteSet(Visible(0, Len(log))')
        /\ IsFiniteSet(Visible(0, Len(log)))
        /\ Cardinality(Visible(0, Len(log)))
              <= Cardinality(Visible(0, Len(log))')
    BY <2>1, <2>2, FS_Subset
  <2>4. /\ Cardinality(Visible(0, Len(log))) \in Nat
        /\ Cardinality(Visible(0, Len(log))') \in Nat
    BY <2>3, FS_CardinalityType
  <2>. QED
    BY <1>1, <2>3, <2>4, StreamAssumption DEF TooLarge
<1>12. Reasons'
  BY <1>1, <1>10, <1>11 DEF IInv, Inv, Reasons
<1>13. Complete'
  BY <1>1, <1>2, <1>3, <1>4, <1>6, <1>7, VisibleRange
  DEF IInv, Inv, Held, Complete
<1>14. Confirmed'
  <2>1. request.through \in Nat /\ request.through <= Len(log)
    BY Fields DEF IInv, Inv, Held
  <2>2. /\ ResumeThrough \in Nat /\ ResumeThrough' \in Nat
        /\ ResumeThrough <= ResumeThrough' /\ ResumeThrough <= Len(log)
    BY <1>1, <1>2, <2>1 DEF ResumeThrough
  <2>3. \A t \in 1 .. ResumeThrough :
            t \in 1 .. ResumeThrough' /\ t \in 1 .. Len(log)
    BY <1>1, <2>2
  <2>4. Ended => Ended'
    BY <1>1, <1>6 DEF Ended
  <2>. QED
    BY <1>1, <1>6, <2>3, <2>4 DEF Confirmed, IInv, Inv
<1>. QED
  BY <1>1, <1>8, <1>9, <1>12, <1>13, <1>14 DEF IInv, Inv

\* The page keeps its view, or is a new one, and its next request, if any,
\* starts from nothing.
LEMMA FreshRequestStep ==
    ASSUME IInv, TypeOK', log' = log, Shape', Reasons',
           \/ /\ client'.seen = client.seen /\ client'.cursor = client.cursor
              /\ client.phase # "terminal"
           \/ client'.seen = {} /\ client'.cursor = 0,
           client'.phase # "terminal",
           request'.kind # "stream", request'.upto = 0, request'.through = 0,
           request'.found = {}, request'.wire = {},
           \/ Ended
           \/ request'.kind \in {"none", "post", "events"}
           \/ request'.kind = "resume" /\ client'.op # "confirm"
    PROVE  IInv'
<1>1. Visible(0, 0) = {}
  BY DEF Visible
<1>2. client.cursor \in Nat /\ Len(log) \in Nat
  BY Fields DEF IInv, Inv
<1>3. Held'
  BY <1>1, <1>2 DEF Held, IInv, Inv, Visible
<1>4. ViewIsSound'
  BY <1>1 DEF ViewIsSound, IInv, Inv, Visible
<1>5. EndIsExact'
  BY DEF EndIsExact, IInv, Inv, IsTerminal
<1>6. Complete'
  BY <1>1 DEF Complete, IInv, Visible, IsTerminal
<1>7. Confirmed'
  BY DEF Confirmed, Ended, ResumeThrough, IsTerminal
<1>. QED
  BY <1>3, <1>4, <1>5, <1>6, <1>7 DEF IInv, Inv

LEMMA SendStep == ASSUME IInv, Send PROVE IInv'
<1>1. /\ client' \in Clients /\ request' = Post
      /\ client'.phase = "submitting" /\ client'.seen = {}
      /\ client'.cursor = 0 /\ client'.op = "start" /\ client'.cause = "none"
  BY DEF Send, NewClient, Clients, Phases, Operations, Causes
<1>2. TypeOK'
  BY <1>1, RequestFields DEF Send, TypeOK, IInv, Inv
<1>3. Shape' /\ Reasons'
  BY <1>1, RequestFields DEF Shape, Reasons
<1>. QED
  BY <1>1, <1>2, <1>3, RequestFields, FreshRequestStep DEF Send

LEMMA SubmitAnsweredStep == ASSUME IInv, SubmitAnswered PROVE IInv'
<1>. DEFINE page == [client EXCEPT !.known = TRUE]
<1>1. /\ page \in Clients /\ page.seen = client.seen
      /\ page.cursor = client.cursor /\ page.op = client.op
      /\ page.cause = client.cause /\ client.cursor \in Nat
  BY Fields DEF IInv, Inv, Clients
<1>2. Consume(page)
  BY DEF SubmitAnswered
<1>3. /\ client' \in Clients /\ client'.phase = "live"
      /\ client'.seen = client.seen /\ client'.cursor = client.cursor
      /\ client'.op = client.op /\ client'.cause = client.cause
      /\ request' = GetEvents(client.cursor)
  <2>. HIDE DEF page
  <2>. QED
    BY <1>1, <1>2, LiveFields
<1>4. TypeOK'
  BY <1>1, <1>3, RequestFields DEF SubmitAnswered, TypeOK, IInv, Inv
<1>5. Shape' /\ client.phase # "terminal"
  BY <1>1, <1>3, RequestFields DEF SubmitAnswered, Shape, IInv, Inv
<1>6. Reasons'
  BY <1>3 DEF SubmitAnswered, Reasons, IInv, Inv, TailExists, TooLarge,
     IsTerminal, Visible
<1>. QED
  BY <1>1, <1>3, <1>4, <1>5, <1>6, RequestFields, FreshRequestStep
  DEF SubmitAnswered

LEMMA ReconnectStep ==
    ASSUME IInv, AutoReconnect \/ UserReconnect
    PROVE  IInv'
<1>. DEFINE page == [client EXCEPT !.op = "reconnect", !.cause = "none",
                       !.reconnects = Least(@ + 1, AutoReconnects)]
<1>1. client.reconnects \in Nat
  BY DEF IInv, Inv, TypeOK, Clients
<1>2. Least(client.reconnects + 1, AutoReconnects) \in Nat
  BY <1>1, StreamAssumption DEF Least
<1>3. /\ page \in Clients /\ page.seen = client.seen
      /\ page.cursor = client.cursor /\ page.op = "reconnect"
      /\ page.cause = "none" /\ client.cursor \in Nat
  BY <1>2, Fields DEF IInv, Inv, Clients, Operations, Causes
<1>4. Consume(page) /\ log' = log /\ UNCHANGED <<command, saved, faults>>
  BY DEF AutoReconnect, UserReconnect, Reconnect
<1>5. /\ client' \in Clients /\ client'.phase = "live"
      /\ client'.seen = client.seen /\ client'.cursor = client.cursor
      /\ client'.op = "reconnect" /\ client'.cause = "none"
      /\ request' = GetEvents(client.cursor)
  <2>. HIDE DEF page
  <2>. QED
    BY <1>3, <1>4, LiveFields
<1>6. TypeOK'
  BY <1>3, <1>4, <1>5, RequestFields DEF TypeOK, IInv, Inv
<1>7. Shape' /\ Reasons'
  BY <1>3, <1>5, RequestFields DEF Shape, Reasons
<1>8. client.phase # "terminal"
  BY DEF AutoReconnect, UserReconnect
<1>. QED
  BY <1>3, <1>4, <1>5, <1>6, <1>7, <1>8, RequestFields, FreshRequestStep

LEMMA RequestLostStep == ASSUME IInv, RequestLost PROVE IInv'
<1>1. /\ client' = Failed("network") /\ request' = Nothing /\ log' = log
      /\ client.phase # "terminal"
  BY DEF RequestLost, IInv, Inv, Shape
<1>2. /\ client' \in Clients /\ client'.phase = "error"
      /\ client'.seen = client.seen /\ client'.cursor = client.cursor
      /\ client'.op = client.op /\ client'.cause = "network"
  BY <1>1, Fields, FailedFields DEF IInv, Inv, Causes
<1>3. TypeOK'
  BY <1>1, <1>2, RequestFields DEF RequestLost, Fault, TypeOK, IInv, Inv
<1>4. Shape' /\ Reasons'
  BY <1>1, <1>2, RequestFields DEF Shape, Reasons, IInv, Inv
<1>. QED
  BY <1>1, <1>2, <1>3, <1>4, RequestFields, FreshRequestStep

LEMMA StreamClosedStep == ASSUME IInv, StreamClosed PROVE IInv'
<1>1. /\ client' \in Clients /\ client'.phase = "disconnected"
      /\ client'.seen = client.seen /\ client'.cursor = client.cursor
      /\ client'.op = client.op /\ client'.cause = client.cause
      /\ request' = Nothing /\ log' = log
  BY Fields DEF StreamClosed, IInv, Inv, Clients, Phases
<1>2. TypeOK' /\ client.phase # "terminal"
  BY <1>1, RequestFields DEF StreamClosed, TypeOK, Shape, IInv, Inv
<1>3. Shape'
  BY <1>1, RequestFields DEF StreamClosed, Shape, IInv, Inv
<1>4. Reasons'
  BY <1>1 DEF Reasons, IInv, Inv, TailExists, TooLarge, IsTerminal, Visible
<1>. QED
  BY <1>1, <1>2, <1>3, <1>4, RequestFields, FreshRequestStep

LEMMA NewPageStep == ASSUME IInv, Reload \/ Forget PROVE IInv'
<1>1. /\ log' = log /\ UNCHANGED command
      /\ saved' \in {"none", "pending", "run"} /\ faults' \in Nat
  BY DEF Reload, Forget, Fault, IInv, Inv, TypeOK
<1>2. /\ client' \in Clients /\ client'.seen = {} /\ client'.cursor = 0
      /\ client'.op # "confirm"
      /\ client'.cause \in {"none", "unknown_outcome"}
      /\ \/ client'.phase \in {"idle", "error"} /\ request'.kind = "none"
         \/ /\ client'.phase = "idle" /\ request'.kind = "closing"
            /\ Ended
         \/ client'.phase = "resuming" /\ request'.kind = "resume"
  <2>1. CASE Forget
    <3>1. client' = NewClient /\ request' = request
      BY <2>1 DEF Forget
    <3>2. \/ request.kind = "none"
          \/ request.kind = "closing" /\ Ended
      BY <2>1 DEF Forget, IInv, Inv, Shape, Confirmed
    <3>. QED
      BY <3>1, <3>2, NewClientFields
  <2>2. CASE Reload
    <3>1. CASE saved = "none"
      BY <2>2, <3>1, NewClientFields, RequestFields DEF Reload
    <3>2. CASE saved = "pending"
      BY <2>2, <3>2
      DEF Reload, NewClient, Nothing, Clients, Phases, Operations, Causes
    <3>3. CASE saved = "run"
      BY <2>2, <3>3
      DEF Reload, NewClient, GetResume, Nothing, Clients, Phases, Operations,
          Causes
    <3>. QED
      BY <3>1, <3>2, <3>3 DEF IInv, Inv, TypeOK
  <2>. QED
    BY <2>1, <2>2
<1>3. /\ request' \in Requests /\ request'.upto = 0 /\ request'.through = 0
      /\ request'.found = {} /\ request'.wire = {}
  <2>1. CASE Forget
    <3>1. request' = request /\ request.kind \in {"none", "closing"}
      BY <2>1 DEF Forget, IInv, Inv, Shape
    <3>. QED
      BY <3>1, Fields DEF IInv, Inv, Shape
  <2>2. CASE Reload
    BY <2>2, RequestFields DEF Reload
  <2>. QED
    BY <2>1, <2>2
<1>4. TypeOK' /\ Shape' /\ Reasons'
  BY <1>1, <1>2, <1>3 DEF TypeOK, Shape, Reasons, IInv, Inv
<1>. QED
  BY <1>1, <1>2, <1>3, <1>4, FreshRequestStep

LEMMA QuietStep ==
    ASSUME IInv, AcceptPost \/ UNCHANGED vars
    PROVE  IInv'
<1>1. /\ log' = log /\ client' = client /\ request' = request
      /\ TypeOK'
  BY DEF AcceptPost, vars, TypeOK, IInv, Inv
<1>. QED
  BY <1>1 DEF IInv, Inv, Shape, Held, ViewIsSound, EndIsExact, Reasons,
     Complete, TailExists, TooLarge, Visible, Emitted, Shown, IsTerminal,
     Confirmed, Ended, ResumeThrough

LEMMA StreamCancelledStep == ASSUME IInv, StreamCancelled PROVE IInv'
<1>1. /\ request.kind = "closing" /\ Ended
      /\ client.phase \in {"idle", "terminal"}
      /\ log' = log /\ UNCHANGED <<command, saved, faults>>
  BY DEF StreamCancelled, IInv, Inv, Shape, Confirmed
<1>2. CASE client.phase = "terminal"
  <2>1. client' = client /\ request' = Nothing
    BY <1>2 DEF StreamCancelled
  <2>2. TypeOK' /\ Shape'
    BY <1>1, <1>2, <2>1, RequestFields DEF TypeOK, Shape, IInv, Inv
  <2>3. client.cursor \in Nat /\ Len(log) \in Nat
    BY Fields DEF IInv, Inv
  <2>4. Held'
    BY <1>1, <2>1, <2>3, RequestFields DEF Held, Visible, IInv, Inv
  <2>5. Confirmed'
    BY <2>1, RequestFields DEF Confirmed
  <2>6. ViewIsSound' /\ EndIsExact' /\ Reasons'
    BY <1>1, <2>1 DEF ViewIsSound, EndIsExact, Reasons, IInv, Inv, Visible,
       IsTerminal, TailExists, TooLarge
  <2>7. Complete'
    BY <1>1, <2>1, RequestFields DEF Complete, IInv, Visible, IsTerminal
  <2>. QED
    BY <2>2, <2>4, <2>5, <2>6, <2>7 DEF IInv, Inv
<1>3. CASE client.phase # "terminal"
  <2>1. /\ client' = [client EXCEPT !.phase = "resuming", !.op = "confirm"]
        /\ request' = GetResume
    BY <1>3 DEF StreamCancelled
  <2>2. /\ client' \in Clients /\ client'.phase = "resuming"
        /\ client'.seen = client.seen /\ client'.cursor = client.cursor
        /\ client'.op = "confirm" /\ client'.cause = client.cause
    BY <2>1, Fields DEF IInv, Inv, Clients, Phases, Operations
  <2>3. TypeOK' /\ Shape'
    BY <1>1, <2>1, <2>2, RequestFields DEF TypeOK, Shape, IInv, Inv
  <2>4. Reasons'
    BY <1>1, <2>2 DEF Reasons, IInv, Inv, TailExists, TooLarge, IsTerminal,
       Visible
  <2>. QED
    BY <1>1, <1>3, <2>1, <2>2, <2>3, <2>4, RequestFields, FreshRequestStep
<1>. QED
  BY <1>2, <1>3

LEMMA ServerStopsStep == ASSUME IInv, ServerStops PROVE IInv'
<1>1. /\ request' \in Requests /\ request'.ended
      /\ request'.kind = "stream" /\ request.kind = "stream"
      /\ request'.upto = request.upto /\ request'.through = request.through
      /\ request'.found = request.found /\ request'.wire = request.wire
  BY Fields DEF ServerStops, IInv, Inv, Requests
<1>2. log' = log /\ client' = client
  BY DEF ServerStops
<1>3. TypeOK'
  BY <1>1, <1>2 DEF ServerStops, Fault, TypeOK, IInv, Inv
<1>4. Shape'
  BY <1>1, <1>2 DEF Shape, IInv, Inv
<1>. QED
  BY <1>1, <1>2, <1>3, <1>4 DEF IInv, Inv, Held, ViewIsSound, EndIsExact,
     Reasons, Complete, TailExists, TooLarge, Visible, Emitted, Shown,
     IsTerminal, Confirmed

\* The server accepts the cursor of every page that asks, except when this
\* very reading of the row fails.
LEMMA CursorAnswers ==
    ASSUME Inv, request.kind = "events", NEW skip
    PROVE  /\ CursorAnswer(request.asked, skip) \in
                {"origin", "event", "invalid"}
           /\ skip = {} => CursorAnswer(request.asked, skip)
                              \in {"origin", "event"}
<1>1. /\ request.asked = client.cursor /\ client.cursor \in Nat
      /\ client.phase = "live"
  BY Fields DEF Inv, Shape
<1>2. client.cursor # 0 => ~IsTerminal(client.cursor)
  BY <1>1 DEF Inv, EndIsExact
<1>3. client.cursor # 0 => client.cursor \in Visible(0, Len(log))
  BY <1>1, Fields DEF Inv, ViewIsSound, Held, Visible
<1>. QED
  BY <1>1, <1>2, <1>3 DEF CursorAnswer, Shown

LEMMA OpenEventsStep == ASSUME IInv, NEW skip, OpenEvents(skip) PROVE IInv'
<1>. DEFINE answer == CursorAnswer(request.asked, skip)
<1>1. /\ answer \in {"origin", "event", "invalid"}
      /\ log' = log /\ UNCHANGED <<command, saved>> /\ faults' \in Nat
      /\ request.kind = "events" /\ request.asked = client.cursor
      /\ client.cursor \in Nat /\ client.phase = "live"
  BY CursorAnswers, Fields DEF OpenEvents, Count, IInv, Inv, Shape, TypeOK
<1>2. CASE answer \in {"origin", "event"}
  <2>1. client' = client /\ request' = Stream(client.cursor)
    BY <1>1, <1>2 DEF OpenEvents
  <2>2. TypeOK'
    BY <1>1, <2>1, RequestFields DEF TypeOK, IInv, Inv
  <2>3. Shape'
    BY <1>1, <2>1, RequestFields DEF Shape, IInv, Inv
  <2>4. Held'
    BY <1>1, <2>1, RequestFields, Fields DEF Held, IInv, Inv, Visible
  <2>5. ViewIsSound' /\ EndIsExact' /\ Reasons'
    BY <1>1, <2>1 DEF ViewIsSound, EndIsExact, Reasons, IInv, Inv, Visible,
       IsTerminal, TailExists, TooLarge
  <2>6. Complete'
    <3>. SUFFICES ASSUME "reject" \notin Faults PROVE Complete'
      BY DEF Complete
    <3>1. /\ client.seen = Visible(0, client.cursor)
          /\ \A t \in client.seen : IsTerminal(t) => t = client.cursor
      BY DEF Complete, IInv
    <3>2. client.cursor # 0 => ~IsTerminal(client.cursor)
      BY <1>1 DEF EndIsExact, IInv, Inv
    <3>3. \A t \in Visible(0, client.cursor) : ~IsTerminal(t) /\ t # 0
      BY <1>1, <3>1, <3>2, VisibleRange
    <3>4. Visible(client.cursor, client.cursor) = {}
      BY <1>1 DEF Visible
    <3>. QED
      BY <1>1, <2>1, <3>1, <3>3, <3>4, RequestFields
      DEF Complete, Emitted, Shown, Visible, IsTerminal
  <2>7. Confirmed'
    BY <1>1, <2>1, RequestFields DEF Confirmed
  <2>. QED
    BY <2>2, <2>3, <2>4, <2>5, <2>6, <2>7 DEF IInv, Inv
<1>3. CASE answer = "invalid"
  <2>1. /\ client' \in Clients
        /\ client'.seen = client.seen /\ client'.cursor = client.cursor
        /\ client'.op # "confirm"
        /\ \/ /\ client'.phase = "resuming" /\ client'.cause = client.cause
              /\ request' = GetResume
           \/ /\ client'.phase = "error"
              /\ client'.cause = "event_cursor_conflict"
              /\ request' = Nothing
    <3>1. CASE client.op = "reconnect"
      <4>1. /\ client' = [client EXCEPT !.phase = "resuming",
                            !.op = "fallback"]
            /\ request' = GetResume
        BY <1>1, <1>3, <3>1 DEF OpenEvents
      <4>. QED
        BY <4>1, Fields DEF IInv, Inv, Clients, Phases, Operations
    <3>2. CASE client.op # "reconnect"
      <4>1. client' = Failed("event_cursor_conflict") /\ request' = Nothing
        BY <1>1, <1>3, <3>2 DEF OpenEvents
      <4>. QED
        BY <1>1, <4>1, Fields, FailedFields DEF IInv, Inv, Shape, Causes
    <3>. QED
      BY <3>1, <3>2
  <2>2. TypeOK' /\ Shape'
    BY <1>1, <2>1, RequestFields DEF TypeOK, Shape, IInv, Inv
  <2>3. Reasons'
    BY <1>1, <2>1 DEF Reasons, IInv, Inv, TailExists, TooLarge, IsTerminal,
       Visible
  <2>. QED
    BY <1>1, <2>1, <2>2, <2>3, RequestFields, FreshRequestStep
<1>. QED
  BY <1>1, <1>2, <1>3

\* Two readings, one after the other, see what one reading would see.
LEMMA VisibleJoins ==
    ASSUME NEW a \in Nat, NEW b \in Nat, NEW c \in Nat, a <= b, b <= c
    PROVE  Visible(a, c) = Visible(a, b) \cup Visible(b, c)
BY DEF Visible

LEMMA NoSkips ==
    ASSUME "reject" \notin Faults, NEW from, NEW to, NEW skip \in Skips(from, to)
    PROVE  skip = {}
BY DEF Skips

LEMMA PollStep ==
    ASSUME IInv, NEW skip \in Skips(request.upto, PollLast), Poll(skip)
    PROVE  IInv'
<1>. DEFINE sent == Emitted(request.upto, PollLast, skip)
            shown == Shown(request.upto, PollLast, skip)
            last == PollLast
<1>1. /\ request.upto \in Nat /\ client.cursor \in Nat /\ Len(log) \in Nat
      /\ client.cursor <= request.upto /\ request.upto <= Len(log)
      /\ request.kind = "stream" /\ ~request.ended /\ request.through = 0
  BY Fields DEF Poll, IInv, Inv, Shape, Held
<1>2. /\ last \in Nat /\ request.upto <= last /\ last <= Len(log)
  BY <1>1, StreamAssumption DEF PollLast, Least
<1>3. /\ sent \subseteq Visible(request.upto, last)
      /\ shown \subseteq Visible(request.upto, last)
      /\ sent \subseteq Nat /\ request.wire \subseteq Nat
  BY <1>1, <1>2, VisibleRange, Fields DEF Emitted, Shown, IInv, Inv
<1>. HIDE DEF last
<1>4. /\ request' = [request EXCEPT !.upto = last,
                       !.wire = @ \cup sent,
                       !.ended = \E t \in shown : IsTerminal(t)]
      /\ log' = log /\ client' = client
      /\ UNCHANGED <<command, saved>> /\ faults' \in Nat
  BY DEF Poll, Count, last, IInv, Inv, TypeOK
<1>. HIDE DEF sent, shown
<1>5. (\E t \in shown : IsTerminal(t)) \in BOOLEAN
  OBVIOUS
<1>6. request.wire \cup sent \in SUBSET Nat
  BY <1>3
<1>7. /\ request' \in Requests
      /\ request'.kind = "stream" /\ request'.upto = last
      /\ request'.through = 0 /\ request'.found = request.found
      /\ request'.wire = request.wire \cup sent
      /\ request'.ended <=> \E t \in shown : IsTerminal(t)
  BY <1>1, <1>2, <1>4, <1>5, <1>6, Fields, Zenon DEF IInv, Inv, Requests
<1>8. TypeOK' /\ Shape'
  BY <1>1, <1>4, <1>7 DEF TypeOK, Shape, IInv, Inv
<1>9. /\ Visible(client.cursor, last) = Visible(client.cursor, request.upto)
                                          \cup Visible(request.upto, last)
      /\ Visible(0, last) = Visible(0, request.upto)
                              \cup Visible(request.upto, last)
  BY <1>1, <1>2, VisibleJoins
<1>10. Held'
  <2>1. request.found = {}
    BY <1>1 DEF Shape, IInv, Inv
  <2>2. request'.wire \subseteq Visible(client.cursor, last)
    BY <1>3, <1>7, <1>9 DEF Held, IInv, Inv
  <2>. QED
    BY <1>1, <1>2, <1>4, <1>7, <2>1, <2>2 DEF Held, IInv, Inv, Visible
<1>11. ViewIsSound' /\ EndIsExact' /\ Reasons'
  BY <1>4 DEF ViewIsSound, EndIsExact, Reasons, IInv, Inv, Visible,
     IsTerminal, TailExists, TooLarge
<1>12. Complete'
  <2>. SUFFICES ASSUME "reject" \notin Faults PROVE Complete'
    BY DEF Complete
  <2>1. skip = {}
    BY NoSkips
  <2>2. /\ sent = Emitted(request.upto, last, {})
        /\ shown = Visible(request.upto, last)
    BY <2>1 DEF sent, shown, last, Shown
  <2>3. /\ client.seen = Visible(0, client.cursor)
        /\ \A t \in client.seen : IsTerminal(t) => t = client.cursor
        /\ request.wire = Emitted(client.cursor, request.upto, {})
        /\ \A t \in Visible(0, request.upto) : ~IsTerminal(t)
    BY <1>1 DEF Complete, IInv
  <2>4. \A t \in Visible(client.cursor, request.upto) : ~IsTerminal(t)
    BY <1>1, <2>3 DEF Visible
  <2>5. request.wire = Visible(client.cursor, request.upto)
    BY <2>3, <2>4 DEF Emitted, Shown
  <2>6. request'.wire = Emitted(client.cursor, last, {})
    <3>1. ASSUME NEW s \in Visible(client.cursor, request.upto)
          PROVE  s \in Emitted(client.cursor, last, {})
      <4>1. s \in Visible(client.cursor, last)
        BY <1>9, <3>1
      <4>2. ASSUME NEW t \in Visible(client.cursor, last), t < s
            PROVE  ~IsTerminal(t)
        <5>1. t \in Visible(client.cursor, request.upto)
          BY <1>1, <1>2, <3>1, <4>2, VisibleRange DEF Visible
        <5>. QED
          BY <2>4, <5>1
      <4>. QED
        BY <4>1, <4>2 DEF Emitted, Shown
    <3>2. ASSUME NEW s \in Visible(request.upto, last)
          PROVE  s \in Emitted(client.cursor, last, {})
                    <=> s \in Emitted(request.upto, last, {})
      BY <1>9, <2>4 DEF Emitted, Shown
    <3>3. /\ Emitted(client.cursor, last, {})
                \subseteq Visible(client.cursor, last)
          /\ Emitted(request.upto, last, {}) \subseteq Visible(request.upto, last)
      BY DEF Emitted, Shown
    <3>. QED
      BY <1>7, <1>9, <2>2, <2>5, <3>1, <3>2, <3>3
  <2>7. ~request'.ended => \A t \in Visible(0, last) : ~IsTerminal(t)
    BY <1>7, <1>9, <2>2, <2>3
  <2>. QED
    BY <1>4, <1>7, <2>3, <2>6, <2>7
    DEF Complete, Visible, Emitted, Shown, IsTerminal
<1>13. Confirmed'
  BY <1>7 DEF Confirmed
<1>. QED
  BY <1>8, <1>10, <1>11, <1>12, <1>13 DEF IInv, Inv

LEMMA ReceiveStep == ASSUME IInv, Receive PROVE IInv'
<1>. DEFINE ends(s) == s > client.cursor /\ IsTerminal(s)
<1>1. /\ request.upto \in Nat /\ client.cursor \in Nat /\ Len(log) \in Nat
      /\ client.cursor <= request.upto /\ request.upto <= Len(log)
      /\ request.kind = "stream" /\ client.phase = "live"
      /\ request.through = 0 /\ request.found = {}
      /\ request.wire \subseteq Visible(client.cursor, request.upto)
  BY Fields DEF Receive, IInv, Inv, Shape, Held, Phases
<1>2. PICK s \in request.wire :
        /\ \A t \in request.wire : s <= t
        /\ client' = IF s < client.cursor
                     THEN Failed("invalid_public_event")
                     ELSE IF s = client.cursor THEN client
                     ELSE [client EXCEPT !.seen = @ \cup {s}, !.cursor = s,
                              !.phase = IF ends(s) THEN "terminal" ELSE @]
        /\ request' = IF s < client.cursor THEN Nothing
                      ELSE IF ends(s) THEN Closing
                      ELSE [request EXCEPT !.wire = @ \ {s}]
  BY DEF Receive
<1>3. log' = log /\ UNCHANGED <<command, saved, faults>>
  BY DEF Receive
<1>4. /\ s \in Nat /\ client.cursor < s /\ s <= request.upto
      /\ s \in Visible(client.cursor, request.upto)
      /\ ends(s) <=> IsTerminal(s)
  BY <1>1, <1>2, VisibleRange
<1>. HIDE DEF ends
<1>5. client' = [client EXCEPT !.seen = @ \cup {s}, !.cursor = s,
                   !.phase = IF ends(s) THEN "terminal" ELSE @]
  BY <1>1, <1>2, <1>4
<1>6. client.seen \cup {s} \in SUBSET Nat
  BY <1>4, Fields DEF IInv, Inv
<1>7. /\ client' \in Clients /\ client'.seen = client.seen \cup {s}
      /\ client'.cursor = s /\ client'.op = client.op
      /\ client'.cause = client.cause
      /\ client'.phase = IF ends(s) THEN "terminal" ELSE "live"
  BY <1>1, <1>4, <1>5, <1>6, Fields, Zenon DEF IInv, Inv, Clients, Phases
<1>8. ViewIsSound'
  BY <1>1, <1>3, <1>4, <1>7, Fields DEF ViewIsSound, Visible, IInv, Inv
<1>9. EndIsExact'
  <2>1. s # 0
    BY <1>1, <1>4
  <2>2. client'.phase = "terminal" <=> IsTerminal(s)
    BY <1>4, <1>7
  <2>. QED
    BY <1>3, <1>7, <2>1, <2>2, Zenon DEF EndIsExact, IsTerminal
<1>10. Reasons'
  BY <1>3, <1>7 DEF Reasons, IInv, Inv, TailExists, TooLarge, IsTerminal,
     Visible
\* There is nothing to show between the cursor and the first event.
<1>11. "reject" \notin Faults =>
          /\ client'.seen = Visible(0, s)
          /\ \A t \in client'.seen : IsTerminal(t) => t = s
          /\ request.wire = Emitted(client.cursor, request.upto, {})
  <2>. SUFFICES ASSUME "reject" \notin Faults
                PROVE  /\ client'.seen = Visible(0, s)
                       /\ \A t \in client'.seen : IsTerminal(t) => t = s
    BY <1>1 DEF Complete, IInv
  <2>1. /\ client.seen = Visible(0, client.cursor)
        /\ \A t \in client.seen : IsTerminal(t) => t = client.cursor
        /\ request.wire = Emitted(client.cursor, request.upto, {})
    BY <1>1 DEF Complete, IInv
  <2>2. \A t \in client.seen : ~IsTerminal(t)
    BY <1>1, <2>1, VisibleRange DEF EndIsExact, IInv, Inv
  <2>3. ASSUME NEW t \in Visible(client.cursor, s), t # s PROVE FALSE
    <3>1. /\ t \in Visible(client.cursor, request.upto) /\ t < s
          /\ t \in Nat
      BY <1>1, <1>4, <2>3, VisibleRange DEF Visible
    <3>2. t \notin request.wire
      BY <1>2, <1>4, <3>1
    <3>3. PICK v \in Visible(client.cursor, request.upto) :
              v < t /\ IsTerminal(v)
      BY <2>1, <3>1, <3>2 DEF Emitted, Shown
    <3>4. v < s
      BY <1>1, <1>4, <3>1, <3>3, VisibleRange
    <3>. QED
      BY <1>2, <2>1, <3>3, <3>4 DEF Emitted, Shown
  <2>4. Visible(0, s) = Visible(0, client.cursor) \cup Visible(client.cursor, s)
    BY <1>1, <1>4, VisibleJoins
  <2>5. s \in Visible(client.cursor, s)
    BY <1>1, <1>4 DEF Visible
  <2>. QED
    BY <1>7, <2>1, <2>2, <2>3, <2>4, <2>5
<1>12. CASE ends(s)
  <2>1. request' = Closing
    BY <1>1, <1>2, <1>4, <1>12
  <2>2. TypeOK' /\ Shape'
    BY <1>3, <1>7, <1>12, <2>1, RequestFields DEF TypeOK, Shape, IInv, Inv
  <2>3. Held'
    BY <1>1, <1>3, <1>4, <1>7, <2>1, RequestFields DEF Held, Visible
  <2>4. Complete'
    BY <1>3, <1>7, <1>11, <2>1, RequestFields
    DEF Complete, Visible, IsTerminal
  <2>5. Confirmed'
    <3>1. s \in 1 .. Len(log) /\ IsTerminal(s)
      BY <1>1, <1>4, <1>12
    <3>. QED
      BY <1>3, <2>1, <3>1, RequestFields DEF Confirmed, Ended, IsTerminal
  <2>. QED
    BY <1>8, <1>9, <1>10, <2>2, <2>3, <2>4, <2>5 DEF IInv, Inv
<1>13. CASE ~ends(s)
  <2>1. request' = [request EXCEPT !.wire = @ \ {s}]
    BY <1>1, <1>2, <1>4, <1>13
  <2>2. request.wire \ {s} \in SUBSET Nat
    BY Fields DEF IInv, Inv
  <2>3. /\ request' \in Requests /\ request'.wire = request.wire \ {s}
        /\ request'.kind = "stream" /\ request'.upto = request.upto
        /\ request'.through = 0 /\ request'.found = {}
        /\ request'.ended = request.ended
    BY <1>1, <2>1, <2>2, Fields, Zenon DEF IInv, Inv, Requests
  <2>4. TypeOK' /\ Shape'
    BY <1>3, <1>7, <1>13, <2>3 DEF TypeOK, Shape, IInv, Inv
  <2>5. Held'
    <3>1. request'.wire \subseteq Visible(s, request.upto)
      BY <1>1, <1>2, <1>4, <2>3, VisibleRange DEF Visible
    <3>. QED
      BY <1>1, <1>3, <1>4, <1>7, <2>3, <3>1 DEF Held, Visible
  <2>6. Complete'
    <3>. SUFFICES ASSUME "reject" \notin Faults PROVE Complete'
      BY DEF Complete
    <3>1. \A t \in Visible(client.cursor, request.upto) :
            t \in Visible(s, request.upto) \/ t = s
      <4>1. ASSUME NEW t \in Visible(client.cursor, request.upto), t < s
            PROVE  FALSE
        <5>1. t \in Visible(0, s) /\ t \notin Visible(0, client.cursor)
          BY <1>1, <1>4, <4>1, VisibleRange DEF Visible
        <5>. QED
          BY <1>4, <1>7, <1>11, <4>1, <5>1 DEF Complete, IInv
      <4>. QED
        BY <1>1, <1>4, <4>1, VisibleRange DEF Visible
    <3>2. Visible(s, request.upto)
            \subseteq Visible(client.cursor, request.upto) \ {s}
      BY <1>1, <1>4 DEF Visible
    <3>3. ~IsTerminal(s)
      BY <1>4, <1>13
    <3>4. request'.wire = Emitted(s, request.upto, {})
      BY <1>11, <2>3, <3>1, <3>2, <3>3 DEF Emitted, Shown
    <3>5. ~request.ended => \A t \in Visible(0, request.upto) : ~IsTerminal(t)
      BY <1>1 DEF Complete, IInv
    <3>6. /\ Visible(0, s)' = Visible(0, s)
          /\ Visible(0, request.upto)' = Visible(0, request.upto)
          /\ Emitted(s, request.upto, {})' = Emitted(s, request.upto, {})
          /\ \A t : IsTerminal(t)' <=> IsTerminal(t)
      BY <1>3, <1>7, <2>3 DEF Visible, Emitted, Shown, IsTerminal
    <3>. QED
      BY <1>3, <1>7, <1>11, <2>3, <3>4, <3>5, <3>6 DEF Complete
  <2>7. Confirmed'
    BY <2>3 DEF Confirmed
  <2>. QED
    BY <1>8, <1>9, <1>10, <2>4, <2>5, <2>6, <2>7 DEF IInv, Inv
<1>. QED
  BY <1>12, <1>13

\* What a resume has read after one more page.
LEMMA ReadFields ==
    ASSUME IInv, request.kind = "resume",
           NEW skip \in Skips(request.upto, ResumeLast),
           NEW read, read = ResumePage(skip)
    PROVE  /\ read \in Requests
           /\ read.kind = "resume" /\ read.wire = {}
           /\ read.upto = ResumeLast /\ read.through = ResumeThrough
           /\ ResumeLast \in Nat /\ ResumeThrough \in Nat
           /\ ResumeLast <= ResumeThrough /\ ResumeThrough <= Len(log)
           /\ read.found \subseteq Visible(0, ResumeLast)
           /\ "reject" \notin Faults => read.found = Visible(0, ResumeLast)
<1>1. /\ request \in Requests /\ request.upto \in Nat
      /\ request.through \in Nat /\ Len(log) \in Nat
      /\ request.found \in SUBSET Nat /\ request.wire = {}
      /\ request.through <= Len(log)
      /\ request.upto # 0 => request.upto <= request.through
      /\ request.found \subseteq Visible(0, request.upto)
  BY Fields DEF IInv, Inv, Shape, Held
<1>2. /\ ResumeThrough \in Nat /\ ResumeThrough <= Len(log)
      /\ request.upto <= ResumeThrough
  BY <1>1 DEF ResumeThrough
<1>3. /\ ResumeLast \in Nat /\ request.upto <= ResumeLast
      /\ ResumeLast <= ResumeThrough
  BY <1>1, <1>2, StreamAssumption DEF ResumeLast, Least
<1>. DEFINE shown == Shown(request.upto, ResumeLast, skip)
            found == request.found \cup shown
<1>4. shown \subseteq Visible(request.upto, ResumeLast)
  BY DEF Shown
<1>5. Visible(0, ResumeLast) = Visible(0, request.upto)
                                 \cup Visible(request.upto, ResumeLast)
  BY <1>1, <1>3, VisibleJoins
<1>6. found \subseteq Visible(0, ResumeLast) /\ found \in SUBSET Nat
  BY <1>1, <1>3, <1>4, <1>5, VisibleRange
<1>7. "reject" \notin Faults => found = Visible(0, ResumeLast)
  <2>. SUFFICES ASSUME "reject" \notin Faults
                PROVE  found = Visible(0, ResumeLast)
    OBVIOUS
  <2>1. shown = Visible(request.upto, ResumeLast)
    BY NoSkips DEF Shown
  <2>2. request.found = Visible(0, request.upto)
    BY DEF IInv, Complete
  <2>. QED
    BY <1>5, <2>1, <2>2
<1>8. read = [request EXCEPT !.upto = ResumeLast, !.through = ResumeThrough,
                !.found = @ \cup shown]
  BY DEF ResumePage
<1>. HIDE DEF shown
<1>9. /\ read \in Requests
      /\ read.kind = "resume" /\ read.wire = {}
      /\ read.upto = ResumeLast /\ read.through = ResumeThrough
      /\ read.found = found
  BY <1>1, <1>2, <1>3, <1>6, <1>8, Zenon DEF Requests
<1>. QED
  BY <1>2, <1>3, <1>6, <1>7, <1>9

LEMMA ReadResumePageStep ==
    ASSUME IInv, NEW skip \in Skips(request.upto, ResumeLast),
           ReadResumePage(skip)
    PROVE  IInv'
<1>1. /\ request.kind = "resume" /\ request' = ResumePage(skip)
      /\ log' = log /\ client' = client
      /\ UNCHANGED <<command, saved>> /\ faults' \in Nat
  BY DEF ReadResumePage, Count, IInv, Inv, TypeOK
<1>2. /\ request' \in Requests
      /\ request'.kind = "resume" /\ request'.wire = {}
      /\ request'.upto = ResumeLast /\ request'.through = ResumeThrough
      /\ ResumeLast \in Nat /\ ResumeThrough \in Nat
      /\ ResumeLast <= ResumeThrough /\ ResumeThrough <= Len(log)
      /\ request'.found \subseteq Visible(0, ResumeLast)
      /\ "reject" \notin Faults => request'.found = Visible(0, ResumeLast)
  BY <1>1, ReadFields
<1>3. Len(log) \in Nat /\ client.cursor \in Nat
  BY Fields DEF IInv, Inv
<1>4. TypeOK' /\ Shape'
  BY <1>1, <1>2 DEF TypeOK, Shape, IInv, Inv
<1>6. Visible(0, request.upto)' = Visible(0, ResumeLast)
  BY <1>1, <1>2 DEF Visible
<1>7. Held'
  BY <1>1, <1>2, <1>3, <1>6 DEF Held, IInv, Inv
<1>8. ViewIsSound' /\ EndIsExact' /\ Reasons'
  BY <1>1 DEF ViewIsSound, EndIsExact, Reasons, IInv, Inv, Visible,
     IsTerminal, TailExists, TooLarge
<1>9. Complete'
  <2>1. (\A t \in client.seen : IsTerminal(t) => t = client.cursor)'
          <=> (\A t \in client.seen : IsTerminal(t) => t = client.cursor)
    BY <1>1 DEF IsTerminal
  <2>2. Visible(0, client.cursor)' = Visible(0, client.cursor)
    BY <1>1 DEF Visible
  <2>. QED
    BY <1>1, <1>2, <1>6, <2>1, <2>2 DEF Complete, IInv
<1>10. Confirmed'
  <2>1. ResumeThrough' = IF ResumeLast = 0 THEN Len(log) ELSE ResumeThrough
    BY <1>1, <1>2 DEF ResumeThrough
  <2>2. \A t \in 1 .. ResumeThrough : t \in 1 .. ResumeThrough'
    BY <1>2, <1>3, <2>1
  <2>3. request.kind = "resume"
    BY <1>1
  <2>. QED
    BY <1>1, <1>2, <2>2, <2>3 DEF Confirmed, IsTerminal, IInv, Inv
<1>. QED
  BY <1>4, <1>7, <1>8, <1>9, <1>10 DEF IInv, Inv

\* The verdicts, one by one.
LEMMA Verdicts ==
    ASSUME NEW read
    PROVE  /\ ResumeVerdict(read) = "snapshot_conflict" =>
                 \E t \in read.found : IsTerminal(t) /\ t < read.upto
           /\ ResumeVerdict(read) = "too_large" =>
                 \/ read.upto > MaxSource
                 \/ /\ ~(read.upto < read.through)
                    /\ Cardinality(read.found) > MaxResponse
           /\ ResumeVerdict(read) = "found" =>
                 /\ ~(read.upto < read.through)
                 /\ \A t \in read.found : IsTerminal(t) => ~(t < read.upto)
BY DEF ResumeVerdict, TailSeen

LEMMA ResumeRefusedStep ==
    ASSUME IInv, NEW skip \in Skips(request.upto, ResumeLast),
           ResumeRefused(skip)
    PROVE  IInv'
<1>. DEFINE read == ResumePage(skip)
            verdict == ResumeVerdict(read)
<1>1. /\ request.kind = "resume" /\ verdict \in {"too_large", "snapshot_conflict"}
      /\ client' = Failed(verdict) /\ request' = Nothing
      /\ log' = log /\ UNCHANGED <<command, saved>> /\ faults' \in Nat
  BY DEF ResumeRefused, Count, IInv, Inv, TypeOK
<1>2. /\ read.upto = ResumeLast /\ read.through = ResumeThrough
      /\ ResumeLast \in Nat /\ ResumeThrough \in Nat
      /\ ResumeLast <= ResumeThrough /\ ResumeThrough <= Len(log)
      /\ read.found \subseteq Visible(0, ResumeLast)
  BY <1>1, ReadFields
<1>3. /\ verdict = "snapshot_conflict" =>
            \E t \in read.found : IsTerminal(t) /\ t < read.upto
      /\ verdict = "too_large" =>
            read.upto > MaxSource \/ Cardinality(read.found) > MaxResponse
  BY Verdicts
<1>. HIDE DEF read, verdict
<1>4. Len(log) \in Nat
  BY Fields DEF IInv, Inv
<1>5. verdict = "snapshot_conflict" => TailExists
  <2>. SUFFICES ASSUME verdict = "snapshot_conflict" PROVE TailExists
    OBVIOUS
  <2>1. PICK t \in read.found : IsTerminal(t) /\ t < read.upto
    BY <1>3
  <2>. QED
    BY <1>2, <1>4, <2>1, VisibleRange DEF TailExists
<1>6. verdict = "too_large" => TooLarge
  <2>1. read.found \subseteq Visible(0, Len(log))
    BY <1>2, <1>4 DEF Visible
  <2>2. IsFiniteSet(1 .. Len(log)) /\ Visible(0, Len(log)) \subseteq 1 .. Len(log)
    BY <1>4, FS_Interval DEF Visible
  <2>3. IsFiniteSet(Visible(0, Len(log)))
    BY <2>2, FS_Subset
  <2>4. /\ IsFiniteSet(read.found)
        /\ Cardinality(read.found) <= Cardinality(Visible(0, Len(log)))
    BY <2>1, <2>3, FS_Subset
  <2>5. /\ Cardinality(read.found) \in Nat
        /\ Cardinality(Visible(0, Len(log))) \in Nat
    BY <2>3, <2>4, FS_CardinalityType
  <2>. QED
    BY <1>2, <1>3, <1>4, <2>4, <2>5, StreamAssumption DEF TooLarge
<1>7. /\ client' \in Clients /\ client'.phase = "error"
      /\ client'.seen = client.seen /\ client'.cursor = client.cursor
      /\ client'.op = client.op /\ client'.cause = verdict
  BY <1>1, Fields, FailedFields DEF IInv, Inv, Causes
<1>8. TypeOK'
  BY <1>1, <1>7, RequestFields DEF TypeOK, IInv, Inv
<1>9. Shape' /\ client.phase # "terminal"
  BY <1>1, <1>7, RequestFields DEF Shape, IInv, Inv
<1>10. Reasons'
  <2>1. TailExists' = TailExists /\ TooLarge' = TooLarge
    BY <1>1 DEF TailExists, TooLarge, IsTerminal, Visible
  <2>. QED
    BY <1>1, <1>5, <1>6, <1>7, <2>1 DEF Reasons
<1>. QED
  BY <1>1, <1>7, <1>8, <1>9, <1>10, RequestFields, FreshRequestStep

LEMMA ResumeLoadedStep ==
    ASSUME IInv, NEW skip \in Skips(request.upto, ResumeLast),
           ResumeLoaded(skip)
    PROVE  IInv'
<1>. DEFINE read == ResumePage(skip)
            ends(p) == p # 0 /\ IsTerminal(p)
            loaded(p) == [client EXCEPT !.known = TRUE, !.seen = read.found,
                            !.cursor = p, !.cause = "none"]
<1>1. PICK point \in 0 .. Len(log) :
        /\ request.kind = "resume"
        /\ ResumeVerdict(read) = "found"
        /\ IsResumePoint(read, point)
        /\ saved' = "run"
        /\ IF ~ends(point) /\ client.op # "confirm" THEN Consume(loaded(point))
           ELSE /\ request' = Nothing
                /\ client' = IF ends(point)
                             THEN [loaded(point) EXCEPT !.phase = "terminal"]
                             ELSE [loaded(point) EXCEPT !.phase = "error",
                                      !.cause = "no_terminal_event"]
        /\ Count(skip)
        /\ UNCHANGED <<command, log>>
  BY DEF ResumeLoaded
<1>2. /\ Len(log) \in Nat /\ point \in Nat
      /\ point <= Len(log) /\ faults' \in Nat /\ log' = log
      /\ UNCHANGED command
  BY <1>1, Fields DEF IInv, Inv, Count, TypeOK
<1>3. /\ read.upto = ResumeLast
      /\ read.through = ResumeThrough
      /\ ResumeLast \in Nat /\ ResumeThrough \in Nat
      /\ ResumeLast <= ResumeThrough /\ ResumeThrough <= Len(log)
      /\ read.found \subseteq Visible(0, ResumeLast)
      /\ "reject" \notin Faults => read.found = Visible(0, ResumeLast)
  BY <1>1, ReadFields
<1>4. /\ \A t \in read.found : IsTerminal(t) => ~(t < ResumeLast)
      /\ ResumeLast = ResumeThrough
  BY <1>1, <1>3, Verdicts
<1>5. IsResumePoint(read, point) /\ saved' = "run"
  BY <1>1
<1>. DEFINE page == loaded(point)
            seen == read.found
<1>6. \/ /\ ~ends(point) /\ client.op # "confirm" /\ Consume(page)
      \/ /\ ends(point) /\ request' = Nothing
         /\ client' = [page EXCEPT !.phase = "terminal"]
      \/ /\ ~ends(point) /\ client.op = "confirm" /\ request' = Nothing
         /\ client' = [page EXCEPT !.phase = "error",
                          !.cause = "no_terminal_event"]
  BY <1>1
<1>7. /\ seen \in SUBSET Nat
      /\ \A t \in seen : t \in Visible(0, point)
      /\ point # 0 => point \in seen
      /\ point = 0 => seen = {}
  BY <1>2, <1>3, <1>5, VisibleRange DEF IsResumePoint, Visible
<1>8. /\ page \in Clients /\ page.seen = seen /\ page.cursor = point
      /\ page.op = client.op /\ page.cause = "none"
  <2>1. seen \in SUBSET Nat /\ client \in Clients
    BY <1>7, Fields DEF IInv, Inv
  <2>. HIDE DEF seen
  <2>2. page = [client EXCEPT !.known = TRUE, !.seen = seen,
                  !.cursor = point, !.cause = "none"]
    BY DEF seen
  <2>. HIDE DEF page
  <2>. QED
    BY <1>2, <2>1, <2>2, Zenon DEF Clients, Causes
<1>. HIDE DEF page, loaded
<1>9. "reject" \notin Faults =>
        /\ seen = Visible(0, point)
        /\ \A t \in seen : IsTerminal(t) => t = point
  <2>. SUFFICES ASSUME "reject" \notin Faults
                PROVE  /\ seen = Visible(0, point)
                       /\ \A t \in seen : IsTerminal(t) => t = point
    OBVIOUS
  <2>1. seen = Visible(0, ResumeLast)
    BY <1>3
  <2>2. point <= ResumeLast
    BY <1>2, <1>3, <1>7, VisibleRange
  <2>3. Visible(0, point) \subseteq Visible(0, ResumeLast)
    BY <1>2, <1>3, <2>2 DEF Visible
  <2>4. \A t \in seen : IsTerminal(t) => t = point
    BY <1>2, <1>3, <1>4, <1>7, <2>1, <2>2, VisibleRange
  <2>. QED
    BY <1>7, <2>1, <2>3, <2>4
\* A page that saw the end finds it again, unless its authorization fails.
<1>10. ~ends(point) /\ client.op = "confirm" => "reject" \in Faults
  <2>. SUFFICES ASSUME client.op = "confirm", "reject" \notin Faults
                PROVE  ends(point)
    OBVIOUS
  <2>1. PICK t \in 1 .. ResumeThrough : IsTerminal(t)
    BY <1>1 DEF Confirmed, IInv, Inv
  <2>2. t \in Visible(0, ResumeLast) /\ t # 0
    BY <1>3, <1>4, <2>1 DEF Visible, IsTerminal
  <2>3. t \in seen
    BY <1>3, <2>2
  <2>. QED
    BY <1>9, <2>1, <2>2, <2>3
<1>. HIDE DEF seen
<1>11. /\ client' \in Clients /\ client'.seen = seen /\ client'.cursor = point
       /\ client'.op = client.op
       /\ \/ /\ ~ends(point) /\ client'.phase = "live"
             /\ client'.op # "confirm" /\ client'.cause = "none"
             /\ request' = GetEvents(point)
          \/ /\ ends(point) /\ client'.phase = "terminal"
             /\ client'.cause = "none" /\ request' = Nothing
          \/ /\ ~ends(point) /\ client'.phase = "error"
             /\ client'.cause = "no_terminal_event" /\ "reject" \in Faults
             /\ request' = Nothing
  <2>1. CASE ~ends(point) /\ client.op # "confirm"
    BY <1>6, <1>8, <2>1, LiveFields
  <2>2. CASE ends(point)
    <3>1. client' = [page EXCEPT !.phase = "terminal"] /\ request' = Nothing
      BY <1>6, <2>2
    <3>. QED
      BY <1>8, <2>2, <3>1, Zenon DEF Clients, Phases
  <2>3. CASE ~ends(point) /\ client.op = "confirm"
    <3>1. /\ client' = [page EXCEPT !.phase = "error",
                          !.cause = "no_terminal_event"]
          /\ request' = Nothing /\ "reject" \in Faults
      BY <1>6, <1>10, <2>3
    <3>. QED
      BY <1>8, <2>3, <3>1, Zenon DEF Clients, Phases, Causes
  <2>. QED
    BY <2>1, <2>2, <2>3
<1>12. /\ request' \in Requests /\ request'.upto = 0 /\ request'.through = 0
       /\ request'.found = {} /\ request'.wire = {}
       /\ request'.kind \in {"events", "none"}
       /\ request'.kind = "events" => request'.asked = point
       /\ request'.kind = "events" <=> client'.phase = "live"
  BY <1>2, <1>11, RequestFields
<1>13. TypeOK' /\ Shape' /\ Reasons'
  BY <1>2, <1>5, <1>11, <1>12 DEF TypeOK, Shape, Reasons, IInv, Inv
<1>14. Held'
  BY <1>2, <1>11, <1>12 DEF Held, Visible
<1>15. ViewIsSound'
  <2>1. Visible(0, client.cursor)' = Visible(0, point)
    BY <1>2, <1>11 DEF Visible
  <2>. QED
    BY <1>7, <1>11, <2>1 DEF ViewIsSound, seen
<1>16. EndIsExact'
  BY <1>2, <1>11, Zenon DEF EndIsExact, IsTerminal
<1>17. Complete'
  <2>1. Visible(0, client.cursor)' = Visible(0, point)
    BY <1>2, <1>11 DEF Visible
  <2>2. \A t : IsTerminal(t)' <=> IsTerminal(t)
    BY <1>2 DEF IsTerminal
  <2>. QED
    BY <1>9, <1>11, <1>12, <2>1, <2>2 DEF Complete
<1>18. Confirmed'
  BY <1>12 DEF Confirmed
<1>. QED
  BY <1>13, <1>14, <1>15, <1>16, <1>17, <1>18 DEF IInv, Inv

LEMMA StepIInv == ASSUME IInv, [Next]_vars PROVE IInv'
<1>1. CASE \E class \in Classes : AppendRecord(class)
  BY <1>1, AppendStep
<1>2. CASE Send
  BY <1>2, SendStep
<1>3. CASE AcceptPost
  BY <1>3, QuietStep
<1>4. CASE Serve
  <2>1. CASE \E skip \in Skips(0, request.asked) : OpenEvents(skip)
    BY <2>1, OpenEventsStep
  <2>2. CASE \E skip \in Skips(request.upto, PollLast) : Poll(skip)
    BY <2>2, PollStep
  <2>3. CASE \E skip \in Skips(request.upto, ResumeLast) :
                \/ ReadResumePage(skip)
                \/ ResumeLoaded(skip)
                \/ ResumeRefused(skip)
    BY <2>3, ReadResumePageStep, ResumeLoadedStep, ResumeRefusedStep
  <2>. QED
    BY <1>4, <2>1, <2>2, <2>3 DEF Serve
<1>5. CASE Page
  BY <1>5, SubmitAnsweredStep, ReceiveStep, StreamCancelledStep,
     StreamClosedStep, ReconnectStep
  DEF Page
<1>6. CASE ServerStops
  BY <1>6, ServerStopsStep
<1>7. CASE RequestLost
  BY <1>7, RequestLostStep
<1>8. CASE UserReconnect
  BY <1>8, ReconnectStep
<1>9. CASE Reload \/ Forget
  BY <1>9, NewPageStep
<1>10. CASE UNCHANGED vars
  BY <1>10, QuietStep
<1>. QED
  BY <1>1, <1>2, <1>3, <1>4, <1>5, <1>6, <1>7, <1>8, <1>9, <1>10 DEF Next

\* The invariant holds in every state, whatever goes wrong.
THEOREM StreamInvariant == Spec => []IInv
<1>1. Init => IInv
  BY InitIInv
<1>2. IInv /\ [Next]_vars => IInv'
  BY StepIInv
<1>. QED
  BY <1>1, <1>2, PTL DEF Spec

\* The variables keep their types, through every request, reconnect, reload
\* and fault.
THEOREM StreamTypes == Spec => []TypeOK
<1>1. IInv => TypeOK
  BY DEF IInv, Inv
<1>. QED
  BY <1>1, StreamInvariant, PTL

\* Unless the store throws while a row is authorized, a page has every public
\* event up to its cursor and nothing after the end of the Run: the snapshot
\* of /resume, the pages of a growing log, the events of the stream and the
\* reducer of the page fit together without a gap, for pages, limits and logs
\* of every size.
THEOREM PageSeesAPrefix == Spec => []ViewIsAPrefix
<1>1. IInv => ViewIsAPrefix
  BY DEF IInv, Complete, ViewIsAPrefix
<1>. QED
  BY <1>1, StreamInvariant, PTL

\* What a page shows may be shown, also when readings, streams, requests and
\* pages fail.
THEOREM PageSeesOnlyPublic == Spec => []ViewIsSound
<1>1. IInv => ViewIsSound
  BY DEF IInv, Inv
<1>. QED
  BY <1>1, StreamInvariant, PTL

\* The page announces the end of a Run exactly when it shows a terminal
\* event last, never because a stream has closed.
THEOREM PageEndsExactly == Spec => []EndIsExact
<1>1. IInv => EndIsExact
  BY DEF IInv, Inv
<1>. QED
  BY <1>1, StreamInvariant, PTL

\* validatePublicCursor accepts every cursor the page presents, the drift
\* and no-terminal errors of the page never occur, and a snapshot is refused
\* only for a log that is too large or goes on after its end.
THEOREM ServerAcceptsThePage == Spec => []PageAndServerAgree
<1>1. ASSUME IInv PROVE PageAndServerAgree
  <2>1. request.kind = "events" =>
          CursorAnswer(request.asked, {}) \in {"origin", "event"}
    BY <1>1, CursorAnswers DEF IInv
  <2>. QED
    BY <1>1, <2>1 DEF IInv, Inv, Reasons, TailExists, TooLarge,
       PageAndServerAgree
<1>. QED
  BY <1>1, StreamInvariant, PTL

=============================================================================
