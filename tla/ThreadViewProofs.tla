-------------------------- MODULE ThreadViewProofs --------------------------
(***************************************************************************)
(* Theorems about ThreadView: the types, that the page never passes a      *)
(* message over, that no refresh takes a message back or revives a run     *)
(* that was stopped, and that a page that has caught up shows the thread.  *)
(*                                                                         *)
(* The actions are sorted into few kinds.  Transactions of the thread only *)
(* append to the log, with new numbers, or delete from it (Grows), and     *)
(* tell what they do (Tells); most steps of the page neither show nor      *)
(* receive anything (Asks, Quiet).  What is left - an answer, a refresh,   *)
(* an event and a clear that returns - is proved one by one.               *)
(***************************************************************************)
EXTENDS ThreadView, TLAPS

-----------------------------------------------------------------------------
(* Types *)

LEMMA Literals ==
  /\ Blank \in View
  /\ NoRequest \in Request
  /\ \A by \in {"loop", "page"} : Ask(by) \in Request
  /\ NoCall \in Call
BY DEF Blank, View, NoRequest, Request, Ask, NoCall, Call, NoRun, Status

LEMMA EventsTyped ==
  ASSUME nextSeq \in Nat, NEW ahead \in Nat, NEW type \in EventType,
         NEW r \in Runs \cup {NoRun}, NEW m \in Nat
  PROVE  /\ Event1(ahead, type, r, m) \subseteq Event
         /\ Said(r) \subseteq Event
BY DEF Event1, Said, Event, EventType

\* Reconciling shows the answer, or keeps what it has if that is newer.
LEMMA ReconciledIs ==
  ASSUME NEW prev \in View, NEW snap \in View
  PROVE  LET v == Reconciled(prev, snap) IN
         /\ v \in View
         /\ \/ /\ ~prev.known \/ prev.cursor <= snap.cursor
               /\ v.msgs = snap.msgs /\ v.cursor = snap.cursor /\ v.known = snap.known
            \/ /\ prev.known
               /\ v.msgs = prev.msgs /\ v.cursor = prev.cursor /\ v.known = prev.known
<1>1. CASE ~prev.known \/ snap.cursor >= prev.cursor
  <2>1. "waiting_takeover" \in Status
    BY DEF Status, Active, Waiting
  <2> QED
    BY <1>1, <2>1 DEF Reconciled, View
<1>2. CASE ~(~prev.known \/ snap.cursor >= prev.cursor)
  BY <1>2 DEF Reconciled, View
<1> QED
  BY <1>1, <1>2

\* What an event does to the messages and the cursor of a view.
LEMMA ReducedIs ==
  ASSUME NEW v \in View, NEW e \in Event, v.known
  PROVE  LET w == Reduced(v, e) IN
         /\ w \in View /\ w.known
         /\ w.cursor \in {v.cursor, e.seq}
         /\ e.type = "cleared" => w.msgs = {} /\ w.cursor = e.seq
         /\ e.type # "cleared" => v.msgs \subseteq w.msgs
         /\ e.type = "message" => e.msg \in w.msgs /\ w.cursor = e.seq
<1> DEFINE w == Reduced(v, e)
<1>0. {"none", "running"} \cup Waiting \subseteq Status
  BY DEF Status, Active, Engaged
<1>1. CASE e.type = "cleared"
  <2>1. w = [Blank EXCEPT !.known = TRUE, !.cursor = e.seq]
    BY <1>1 DEF Reduced, Waiting
  <2> QED
    BY <1>1, <2>1, Literals DEF View, Event, Blank
<1>2. CASE e.type = "started"
  <2>1. w = Started(v, e)
    BY <1>2 DEF Reduced, Waiting
  <2> QED
    BY <1>0, <1>2, <2>1 DEF Started, Moved, View, Event
<1>3. CASE e.type = "progress"
  <2>1. w = [Moved(v, e) EXCEPT !.live = v.live \cup {e.run}]
    BY <1>3 DEF Reduced, Moved, View, Waiting
  <2>2. v.live \cup {e.run} \in SUBSET (Runs \cup {NoRun})
    BY DEF View, Event
  <2> QED
    BY <1>3, <2>1, <2>2 DEF Moved, View, Event
<1>4. CASE e.type \in {"message", "updated"}
  <2>1. w = [Moved(v, e) EXCEPT !.msgs = v.msgs \cup {e.msg}, !.live = v.live \ {e.run}]
    BY <1>4 DEF Reduced, Moved, View, Waiting
  <2>2. v.msgs \cup {e.msg} \in SUBSET Nat /\ v.live \ {e.run} \in SUBSET (Runs \cup {NoRun})
    BY DEF View, Event
  <2>3. /\ w \in View /\ w.known /\ w.cursor = e.seq
        /\ w.msgs = v.msgs \cup {e.msg}
    BY <2>1, <2>2 DEF Moved, View, Event
  <2> QED
    BY <1>4, <2>3
<1>5. CASE e.type = "ended"
  <2>1. w = [Moved(v, e) EXCEPT !.live = v.live \ {e.run},
               !.run = IF v.run = e.run THEN NoRun ELSE v.run,
               !.status = IF v.run = e.run THEN "none" ELSE v.status]
    BY <1>5 DEF Reduced, Moved, View, Waiting
  <2>2. /\ v.live \ {e.run} \in SUBSET (Runs \cup {NoRun})
        /\ NoRun \in Runs \cup {NoRun} /\ v.run \in Runs \cup {NoRun}
        /\ "none" \in Status /\ v.status \in Status
    BY <1>0 DEF View
  <2>3. PICK l \in SUBSET (Runs \cup {NoRun}), n \in Runs \cup {NoRun}, s \in Status :
          w = [Moved(v, e) EXCEPT !.live = l, !.run = n, !.status = s]
    BY <2>1, <2>2
  <2> QED
    BY <1>5, <2>3 DEF Moved, View, Event
<1>6. CASE e.type \in Waiting
  <2>1. w = v \/ \E l \in SUBSET (Runs \cup {NoRun}), s \in Status :
                   w = [Moved(v, e) EXCEPT !.live = l, !.status = s]
    BY <1>0, <1>6 DEF Reduced, Moved, View, Waiting
  <2> QED
    BY <1>6, <2>1 DEF Moved, View, Event, Waiting
<1>7. CASE e.type = "released"
  <2>1. w = v
    BY <1>7 DEF Reduced, Waiting
  <2> QED
    BY <1>7, <2>1
<1> QED
  BY <1>1, <1>2, <1>3, <1>4, <1>5, <1>6, <1>7 DEF Event, EventType, Waiting


\* What the calls, requests and statuses of the actions are.
LEMMA Called_ ==
  ASSUME call \in Call, NEW at \in {"returns", "cleared"}, Called(at, {})
  PROVE  call' \in Call
BY DEF Called, Call

LEMMA TypeInit == Init => TypeOK
<1> SUFFICES ASSUME Init PROVE TypeOK
  OBVIOUS
<1> QED
  BY Literals, ViewConstantsOK DEF Init, TypeOK, Event, Loop, Status

\* The transactions of the thread.
LEMMA TypeThread ==
  TypeOK /\ (Clear \/ Stop \/ StopDeletesProgress \/ \E r \in Runs : Run(r)) => TypeOK'
<1> SUFFICES ASSUME TypeOK, Clear \/ Stop \/ StopDeletesProgress \/ \E r \in Runs : Run(r)
             PROVE  TypeOK'
  OBVIOUS
<1> USE DEF TypeOK
<1>0. /\ 0 \in Nat /\ 1 \in Nat /\ nextSeq + 1 \in Nat /\ nextSeq + 2 \in Nat
      /\ EventType = {"message", "updated", "started", "progress", "waiting_input",
                      "waiting_takeover", "released", "ended", "cleared"}
      /\ ActiveRuns \subseteq Runs
      /\ \A rs : Cancelled(rs) \in [Runs -> Status]
      /\ \A rs : ProgressOf(rs) \subseteq log
      /\ Messages \subseteq Nat
      /\ \A m \in Messages : m \in Nat
  BY DEF EventType, ActiveRuns, Cancelled, ProgressOf, Messages, Event, Status
<1>a. /\ Waiting \subseteq Status /\ {"queued", "running"} \subseteq Status
      /\ {"cancelled", "completed", "failed"} \subseteq Status
  BY DEF Status, Active, Waiting
<1>b. detours \in 0..MaxDetours /\ Detour => detours' \in 0..MaxDetours
  BY ViewConstantsOK DEF Detour
<1>1. CASE Clear
  <2>1. Event1(0, "cleared", NoRun, 0) \subseteq Event
    BY <1>0, EventsTyped
  <2> QED
    BY <1>0, <1>1, <2>1, Called_ DEF Clear
<1>2. CASE Stop
  <2>1. call' \in Call
    BY <1>0, <1>2 DEF Stop, Call
  <2> QED
    BY <1>0, <1>2, <2>1 DEF Stop
<1>3. CASE StopDeletesProgress
  <2>1. call' \in Call
    BY <1>3 DEF StopDeletesProgress, Call
  <2> QED
    BY <1>0, <1>3, <2>1 DEF StopDeletesProgress
<1>4. ASSUME NEW r \in Runs, Run(r)
      PROVE  TypeOK'
  <2>0. /\ \A type \in EventType : Event1(0, type, r, 0) \subseteq Event
        /\ \A type \in EventType : Event1(1, type, r, 0) \subseteq Event
        /\ \A m \in Messages : Event1(0, "updated", r, m) \subseteq Event
        /\ Said(r) \subseteq Event
    BY <1>0, EventsTyped
  <2>1. CASE Send(r)
    <3>1. run' \in [Runs -> Status]
      BY <1>a, <2>1 DEF Send
    <3> QED
      BY <1>0, <2>0, <2>1, <3>1, Called_ DEF Send
  <2>2. CASE Start(r)
    BY <1>0, <1>a, <2>0, <2>2 DEF Start, page
  <2>3. CASE Progress(r)
    BY <1>0, <1>b, <2>0, <2>3 DEF Progress, page
  <2>11. CASE StartLate(r)
    BY <1>0, <1>b, <2>0, <2>11 DEF StartLate, page
  <2>4. CASE Requeue(r)
    BY <1>a, <1>b, <2>4 DEF Requeue, page
  <2>5. CASE PauseForInput(r)
    BY <1>0, <1>a, <2>0, <2>5 DEF PauseForInput, page, Waiting
  <2>6. CASE PauseForTakeover(r)
    BY <1>0, <1>a, <2>0, <2>6 DEF PauseForTakeover, page, Waiting
  <2>7. CASE AnswerInput(r)
    BY <1>0, <1>a, <2>0, <2>7, Called_ DEF AnswerInput
  <2>8. CASE ReleaseControl(r)
    BY <1>0, <1>a, <2>0, <2>8, Called_ DEF ReleaseControl
  <2>9. CASE Complete(r)
    BY <1>0, <1>a, <2>0, <2>9 DEF Complete, page
  <2>10. CASE Fail(r)
    BY <1>0, <1>a, <2>0, <2>10 DEF Fail, page
  <2> QED
    BY <1>4, <2>1, <2>2, <2>3, <2>4, <2>5, <2>6, <2>7, <2>8, <2>9, <2>10, <2>11 DEF Run
<1> QED
  BY <1>1, <1>2, <1>3, <1>4

LEMMA SnapshotTyped ==
  ASSUME TypeOK, NEW seq \in Nat, NEW r \in Runs \cup {NoRun}
  PROVE  Snapshot(seq, r) \in View
<1>1. Messages \subseteq Nat
  BY DEF Messages, TypeOK, Event
<1>2. (IF r = NoRun THEN "none" ELSE run[r]) \in Status
  BY DEF TypeOK, Status
<1> QED
  BY <1>1, <1>2 DEF Snapshot, View

\* The steps of the page.
LEMMA TypePage ==
  TypeOK /\ (Refreshes \/ Stream \/ Return \/ StopReturns \/ ClearReturns) => TypeOK'
<1> SUFFICES ASSUME TypeOK, Refreshes \/ Stream \/ Return \/ StopReturns \/ ClearReturns
             PROVE  TypeOK'
  OBVIOUS
<1> USE DEF TypeOK
<1>b. Detour => detours' \in 0..MaxDetours
  BY ViewConstantsOK DEF Detour
<1>1. ASSUME NEW seq \in 0..nextSeq, AnswerObsolete(seq)
      PROVE  TypeOK'
  BY <1>1 DEF AnswerObsolete, Loop, thread
<1>2. ASSUME NEW seq \in 0..nextSeq, NEW r \in Runs \cup {NoRun}, Answer(seq, r)
      PROVE  TypeOK'
  <2>0. seq \in Nat /\ Snapshot(seq, r) \in View
    BY SnapshotTyped
  <2>1. request' \in Request
    BY <1>2, <2>0 DEF Answer, Request
  <2> QED
    BY <1>2, <2>1 DEF Answer, Loop, thread
<1>3. CASE Refresh
  <2>1. view' \in View
    BY <1>3, ReconciledIs DEF Refresh, Request
  <2> QED
    BY <1>3, <2>1, Literals DEF Refresh, Loop, thread
<1>4. CASE RefreshFails
  BY <1>b, <1>4, Literals DEF RefreshFails, Loop, thread
<1>5. CASE Look
  BY <1>b, <1>5, Literals DEF Look, thread
<1>6. CASE SubscribeAnyway
  BY <1>6 DEF SubscribeAnyway, Loop, thread
<1>7. CASE ObsoleteFails
  BY <1>b, <1>7 DEF ObsoleteFails, Loop, thread
<1>8. CASE Read
  BY <1>8 DEF Read, Unread, thread
<1>9. ASSUME NEW e \in buffer, Receive(e)
      PROVE  TypeOK'
  <2>1. e \in Event
    OBVIOUS
  <2>2. view' \in View
    BY <1>9, <2>1, ReducedIs DEF Receive
  <2>3. loop' \in Loop
    BY <1>9, <2>1 DEF Receive, Loop, Event
  <2>4. request' \in Request
    <3>1. NoRequest \in Request /\ Ask("page") \in Request
      BY Literals
    <3>2. request' \in {NoRequest, Ask("page"), request}
      BY <1>9 DEF Receive
    <3> QED
      BY <3>1, <3>2
  <2>5. whole' \in BOOLEAN
    BY <1>9 DEF Receive, View
  <2> QED
    BY <1>9, <2>2, <2>3, <2>4, <2>5 DEF Receive, thread
<1>10. CASE Break
  BY <1>b, <1>10, Literals DEF Break, Loop, thread
<1>11. CASE Return
  BY <1>11, Literals DEF Return, thread
<1>12. CASE StopReturns
  <2>1. view' \in View
    BY <1>12 DEF StopReturns, View, Status
  <2>2. dead' \subseteq Runs
    BY <1>12 DEF StopReturns, Call
  <2> QED
    BY <1>12, <2>1, <2>2, Literals DEF StopReturns, thread
<1>13. CASE ClearReturns
  <2>1. view' \in View
    BY <1>13 DEF ClearReturns, View, Status
  <2> QED
    BY <1>13, <2>1, Literals DEF ClearReturns, thread
<1> QED
  BY <1>1, <1>2, <1>3, <1>4, <1>5, <1>6, <1>7, <1>8, <1>9, <1>10, <1>11, <1>12, <1>13
     DEF Refreshes, Stream

LEMMA TypeStep == TypeOK /\ [Next]_vars => TypeOK'
<1>1. TypeOK /\ UNCHANGED vars => TypeOK'
  BY DEF TypeOK, vars, thread, page
<1> QED
  BY <1>1, TypeThread, TypePage DEF Next

-----------------------------------------------------------------------------
(* Nothing is passed over *)

Kept == LogInOrder /\ StreamInOrder /\ AnswerIsComplete /\ NothingSkipped /\ NothingMissing

\* A message of the log is named by the event that brought it.
LEMMA MessagesAre ==
  ASSUME TypeOK, LogInOrder, NEW m \in Messages
  PROVE  /\ m \in Nat /\ 1 <= m /\ m <= nextSeq
         /\ \E e \in log : e.type = "message" /\ e.seq = m
BY DEF TypeOK, LogInOrder, Messages, Event

LEMMA KeptInit == Init => Kept
<1> SUFFICES ASSUME Init PROVE Kept
  OBVIOUS
<1>1. Messages = {}
  BY DEF Init, Messages
<1> QED
  BY <1>1 DEF Init, Kept, LogInOrder, StreamInOrder, AnswerIsComplete, NothingSkipped,
              NothingMissing, Blank, Ask

\* The order of the log survives whatever only reads it.
LEMMA OrderKept ==
  ASSUME LogInOrder, log' = log, nextSeq' = nextSeq, buffer' \subseteq log \cup buffer
  PROVE  LogInOrder' /\ Messages' = Messages
BY DEF LogInOrder, Messages

\* What a transaction of the thread does, seen from the page.
Grows ==
  /\ UNCHANGED <<view, loop, buffer, request, whole>>
  /\ nextSeq <= nextSeq'
  /\ \A e \in log' : e \notin log =>
       /\ nextSeq < e.seq /\ e.seq <= nextSeq'
       /\ e.type = "message" => e.msg = e.seq
       /\ e.type = "cleared" => \A f \in log' : e.seq <= f.seq
  /\ \A e, f \in log' : e \notin log /\ f \notin log /\ e.seq = f.seq => e = f

LEMMA GrowsKeeps ==
  ASSUME TypeOK, TypeOK', Kept, Grows
  PROVE  Kept'
<1> USE DEF Kept
<1>0. /\ nextSeq \in Nat /\ nextSeq' \in Nat
      /\ \A e \in log \cup log' \cup buffer : e.seq \in Nat
      /\ view.cursor \in Nat /\ loop.cursor \in Nat /\ request.got.cursor \in Nat
  BY DEF TypeOK, Event, View, Loop, Request
<1>1. LogInOrder'
  <2>1. ASSUME NEW e \in log' \cup buffer
        PROVE  /\ 1 <= e.seq /\ e.seq <= nextSeq'
               /\ e.type = "message" => e.msg = e.seq
               /\ e.type = "cleared" => \A f \in log' : e.seq <= f.seq
    <3>1. CASE e \in log \cup buffer
      BY <1>0, <3>1 DEF Grows, LogInOrder
    <3>2. CASE e \notin log \cup buffer
      BY <1>0, <3>2 DEF Grows
    <3> QED
      BY <3>1, <3>2
  <2>2. ASSUME NEW e \in log' \cup buffer, NEW f \in log' \cup buffer, e.seq = f.seq
        PROVE  e = f
    <3>1. CASE e \in log \cup buffer /\ f \in log \cup buffer
      BY <2>2, <3>1 DEF LogInOrder
    <3>2. CASE e \notin log \cup buffer /\ f \notin log \cup buffer
      BY <2>2, <3>2 DEF Grows
    <3>3. CASE e \in log \cup buffer /\ f \notin log \cup buffer
      BY <1>0, <2>2, <3>3 DEF Grows, LogInOrder
    <3>4. CASE e \notin log \cup buffer /\ f \in log \cup buffer
      BY <1>0, <2>2, <3>4 DEF Grows, LogInOrder
    <3> QED
      BY <3>1, <3>2, <3>3, <3>4
  <2>3. buffer' = buffer
    BY DEF Grows
  <2> QED
    BY <2>1, <2>2, <2>3 DEF LogInOrder
<1>2. ASSUME NEW m \in Messages', m \notin Messages
      PROVE  m \in Nat /\ nextSeq < m
  <2>1. PICK e \in log' : e.type = "message" /\ e.msg = m
    BY DEF Messages
  <2>2. e \notin log
    BY <1>2, <2>1 DEF Messages
  <2> QED
    BY <1>0, <2>1, <2>2 DEF Grows
<1>3. \A m \in Messages' : m \in Nat
  BY <1>2, MessagesAre
<1>4. StreamInOrder'
  BY <1>0 DEF Grows, StreamInOrder, LogInOrder
<1>5. AnswerIsComplete'
  BY <1>0, <1>2, <1>3 DEF Grows, AnswerIsComplete, StreamInOrder
<1>6. NothingSkipped'
  BY <1>0, <1>2, <1>3 DEF Grows, NothingSkipped, StreamInOrder
<1>7. NothingMissing'
  BY <1>0, <1>2, <1>3 DEF Grows, NothingMissing, NothingSkipped
<1> QED
  BY <1>1, <1>4, <1>5, <1>6, <1>7

\* A transaction of the thread is one that grows its log.
LEMMA ThreadGrows ==
  ASSUME TypeOK, Clear \/ Stop \/ StopDeletesProgress \/ \E r \in Runs : Run(r)
  PROVE  Grows
<1>0. nextSeq \in Nat
  BY DEF TypeOK
<1>p. \A rs : ProgressOf(rs) \subseteq log
  BY DEF ProgressOf
<1>1. CASE Clear
  BY <1>0, <1>1 DEF Clear, Grows, Event1
<1>2. CASE Stop
  BY <1>0, <1>2 DEF Stop, Grows
<1>3. CASE StopDeletesProgress
  BY <1>0, <1>p, <1>3 DEF StopDeletesProgress, Grows
<1>4. ASSUME NEW r \in Runs, Run(r)
      PROVE  Grows
  <2> USE DEF Event1, Said, Grows, page
  <2>1. CASE Send(r)
    BY <1>0, <2>1 DEF Send
  <2>2. CASE Start(r)
    BY <1>0, <2>2 DEF Start
  <2>3. CASE Progress(r)
    BY <1>0, <2>3 DEF Progress
  <2>11. CASE StartLate(r)
    BY <1>0, <2>11 DEF StartLate
  <2>4. CASE Requeue(r)
    BY <1>0, <2>4 DEF Requeue
  <2>5. CASE PauseForInput(r)
    BY <1>0, <1>p, <2>5 DEF PauseForInput
  <2>6. CASE PauseForTakeover(r)
    BY <1>0, <1>p, <2>6 DEF PauseForTakeover
  <2>7. CASE AnswerInput(r)
    BY <1>0, <2>7 DEF AnswerInput
  <2>8. CASE ReleaseControl(r)
    BY <1>0, <2>8 DEF ReleaseControl
  <2>9. CASE Complete(r)
    BY <1>0, <1>p, <2>9 DEF Complete
  <2>10. CASE Fail(r)
    BY <1>0, <1>p, <2>10 DEF Fail
  <2> QED
    BY <1>4, <2>1, <2>2, <2>3, <2>4, <2>5, <2>6, <2>7, <2>8, <2>9, <2>10, <2>11 DEF Run
<1> QED
  BY <1>1, <1>2, <1>3, <1>4

\* What most steps of the page do: a request is made, given up or left alone, the loop
\* goes on from its cursor or from the start, and nothing in flight is read.
Asks ==
  /\ UNCHANGED <<nextSeq, log>>
  /\ view'.known = view.known /\ view'.cursor = view.cursor /\ view'.msgs = view.msgs
  /\ whole' => whole
  /\ buffer' \in {buffer, {}}
  /\ \/ request' = request
     \/ request' \in {NoRequest, Ask("page")}
     \/ request' = Ask("loop") /\ loop'.at = "back"
  /\ \/ loop' = loop
     \/ /\ loop'.at = "on" /\ buffer = {} /\ loop'.cursor = 0
        /\ request'.by # "loop" /\ loop.at # "back"
     \/ /\ loop'.at = "on" /\ loop.at = "back" /\ loop'.cursor = loop.cursor
        /\ request'.by # "loop"
     \/ /\ loop'.at = "on" /\ loop.at = "answered" /\ loop'.cursor = loop.cursor
        /\ request'.by # "loop" /\ ~whole'
     \/ /\ loop'.at = "back" /\ loop.at = "on" /\ loop'.cursor = loop.cursor
        /\ buffer' = {} /\ request' = Ask("loop")

LEMMA AsksKeeps ==
  ASSUME TypeOK, TypeOK', Kept, Asks
  PROVE  Kept'
<1> USE DEF Kept
<1>0. /\ nextSeq \in Nat
      /\ \A e \in log \cup buffer : e.seq \in Nat
      /\ view.cursor \in Nat /\ loop.cursor \in Nat /\ request.got.cursor \in Nat
  BY DEF TypeOK, Event, View, Loop, Request
<1>1. LogInOrder' /\ Messages' = Messages
  BY OrderKept DEF Asks
<1>2. \A m \in Messages : m \in Nat /\ 1 <= m
  BY MessagesAre
<1>3. /\ Ask("page").at = "asked" /\ Ask("page").by = "page" /\ Ask("page").got.cursor = 0
      /\ Ask("loop").at = "asked" /\ Ask("loop").by = "loop" /\ Ask("loop").got.cursor = 0
      /\ NoRequest.at = "none" /\ NoRequest.by = "page" /\ NoRequest.got.cursor = 0
  BY DEF Ask, NoRequest, Blank
<1>4. StreamInOrder'
  BY <1>0 DEF Asks, StreamInOrder
<1>5. AnswerIsComplete'
  BY <1>0, <1>1, <1>2, <1>3 DEF Asks, AnswerIsComplete
<1>6. NothingSkipped'
  BY <1>0, <1>1, <1>2 DEF Asks, NothingSkipped
<1>7. NothingMissing'
  BY <1>0, <1>1 DEF Asks, NothingMissing
<1> QED
  BY <1>1, <1>4, <1>5, <1>6, <1>7

\* A page that gives up a request, asks again, or goes on with its stream.
LEMMA PageAsks ==
  ASSUME TypeOK, Kept,
         RefreshFails \/ Look \/ SubscribeAnyway \/ ObsoleteFails \/ Break \/ Return \/ StopReturns
  PROVE  Asks
<1>0. NoRequest.by = "page" /\ Ask("page").by = "page"
  BY DEF NoRequest, Ask
<1>1. loop \in Loop /\ request \in Request /\ view \in View /\ whole \in BOOLEAN
  BY DEF TypeOK
<1>2. loop.at # "on" => buffer = {}
  BY DEF Kept, StreamInOrder
<1>3. request.by = "loop" => loop.at # "on"
  BY DEF Kept, AnswerIsComplete
<1> USE DEF Asks, thread
<1>4. CASE RefreshFails
  BY <1>0, <1>1, <1>2, <1>3, <1>4 DEF RefreshFails, Loop
<1>5. CASE Look
  BY <1>5 DEF Look
<1>6. CASE SubscribeAnyway
  <2>1. request'.by # "loop" /\ loop'.at = "on" /\ loop'.cursor = loop.cursor
    BY <1>1, <1>6 DEF SubscribeAnyway, Loop
  <2> QED
    BY <1>1, <1>6, <2>1 DEF SubscribeAnyway
<1>7. CASE ObsoleteFails
  BY <1>1, <1>2, <1>7 DEF ObsoleteFails, Loop
<1>8. CASE Break
  BY <1>1, <1>8 DEF Break, Loop
<1>9. CASE Return
  BY <1>9 DEF Return
<1>10. CASE StopReturns
  BY <1>1, <1>10 DEF StopReturns, View
<1> QED
  BY <1>4, <1>5, <1>6, <1>7, <1>8, <1>9, <1>10

\* The thread answers: the snapshot has every message up to its cursor, which is that of
\* the last event.
LEMMA AnswerKeeps ==
  ASSUME TypeOK, TypeOK', Kept, NEW seq \in Nat, NEW r \in Runs \cup {NoRun},
         seq <= nextSeq, Answer(seq, r)
  PROVE  Kept'
<1> USE DEF Kept
<1>0. /\ nextSeq \in Nat
      /\ \A e \in log \cup buffer : e.seq \in Nat
      /\ view.cursor \in Nat /\ loop.cursor \in Nat
      /\ request \in Request /\ loop \in Loop
  BY DEF TypeOK, Event, View, Loop, Request
<1>1. LogInOrder' /\ Messages' = Messages
  BY OrderKept DEF Answer, thread
<1>2. ASSUME NEW m \in Messages
      PROVE  m \in Nat /\ m <= seq
  BY <1>0, <1>2, MessagesAre DEF Answer, IsLast
<1>3. /\ request'.at = "answered" /\ request'.by = request.by
      /\ request'.got.known /\ request'.got.cursor = seq /\ request'.got.msgs = Messages
  BY <1>0 DEF Answer, Request, Snapshot
<1>4. loop' = loop \/ (loop.at = "asked" /\ loop' = [at |-> "answered", cursor |-> seq])
  BY DEF Answer
<1>5. StreamInOrder'
  BY <1>0, <1>4 DEF Answer, StreamInOrder, thread
<1>6. AnswerIsComplete'
  <2>1. loop'.at \in {"on", "back"} => loop' = loop
    BY <1>4
  <2>2. request'.by = "loop" => loop'.at # "on"
    BY <1>3, <1>4 DEF AnswerIsComplete
  <2>3. loop'.at \in {"asked", "answered"} /\ request'.by = "loop" =>
          /\ loop'.at = "answered" /\ loop'.cursor = seq /\ ~view.known
    BY <1>0, <1>3, <1>4 DEF AnswerIsComplete, Answer
  <2> QED
    BY <1>0, <1>1, <1>2, <1>3, <2>1, <2>2, <2>3 DEF AnswerIsComplete, Answer, thread
<1>7. NothingSkipped' /\ NothingMissing'
  BY <1>1, <1>4 DEF Answer, NothingSkipped, NothingMissing, thread
<1> QED
  BY <1>1, <1>5, <1>6, <1>7

LEMMA AnswerObsoleteKeeps ==
  ASSUME TypeOK, TypeOK', Kept, NEW seq \in Nat, seq <= nextSeq, AnswerObsolete(seq)
  PROVE  Kept'
<1> USE DEF Kept
<1>1. LogInOrder' /\ Messages' = Messages
  BY OrderKept DEF AnswerObsolete, thread
<1>2. loop'.at = "answered" /\ loop'.cursor = seq
  BY DEF AnswerObsolete
<1>3. StreamInOrder'
  BY <1>2 DEF AnswerObsolete, StreamInOrder, thread
<1>4. AnswerIsComplete' /\ NothingSkipped' /\ NothingMissing'
  BY <1>1, <1>2 DEF AnswerObsolete, AnswerIsComplete, NothingSkipped, NothingMissing, thread
<1> QED
  BY <1>1, <1>3, <1>4

\* The stream reads the log from its cursor, all of it.
LEMMA ReadKeeps ==
  ASSUME TypeOK, TypeOK', Kept, Read
  PROVE  Kept'
<1> USE DEF Kept
<1>1. LogInOrder' /\ Messages' = Messages
  BY OrderKept DEF Read, Unread, thread
<1>2. StreamInOrder'
  BY DEF Read, Unread, StreamInOrder, thread
<1>3. AnswerIsComplete' /\ NothingSkipped' /\ NothingMissing'
  BY <1>1 DEF Read, AnswerIsComplete, NothingSkipped, NothingMissing, thread
<1> QED
  BY <1>1, <1>2, <1>3

\* The answer replaces the view if it is not older; the stream's cursor may be beyond the
\* answer's, but then there is no message between them.
LEMMA RefreshKeeps ==
  ASSUME TypeOK, TypeOK', Kept, Refresh
  PROVE  Kept'
<1> USE DEF Kept
<1>0. /\ nextSeq \in Nat
      /\ \A e \in log \cup buffer : e.seq \in Nat
      /\ view.cursor \in Nat /\ loop.cursor \in Nat /\ request.got.cursor \in Nat
      /\ request \in Request /\ loop \in Loop /\ view \in View /\ request.got \in View
  BY DEF TypeOK, Event, View, Loop, Request
<1>1. LogInOrder' /\ Messages' = Messages
  BY OrderKept DEF Refresh, thread
<1>2. \A m \in Messages : m \in Nat /\ 1 <= m
  BY MessagesAre
<1>3. loop'.cursor = loop.cursor /\ loop'.at \in {loop.at, "on"}
      /\ (request.by = "page" => loop' = loop)
  BY <1>0 DEF Refresh, Loop
<1>4. StreamInOrder'
  BY <1>0, <1>3 DEF Refresh, StreamInOrder, AnswerIsComplete, thread
<1>5. request'.at = "none" /\ request'.by = "page" /\ request'.got.cursor = 0
  BY DEF Refresh, NoRequest, Blank
<1>6. AnswerIsComplete'
  BY <1>0, <1>5 DEF Refresh, AnswerIsComplete, thread
<1>a. CASE /\ ~view.known \/ view.cursor <= request.got.cursor
           /\ view'.msgs = request.got.msgs /\ view'.cursor = request.got.cursor
           /\ view'.known = request.got.known
  <2>1. ASSUME whole', loop'.at \in {"on", "back"}, NEW m \in Messages, m <= loop.cursor
        PROVE  m \in request.got.msgs
    <3>1. whole
      BY <2>1 DEF Refresh
    <3>2. CASE m <= request.got.cursor
      BY <3>2 DEF Refresh, AnswerIsComplete
    <3>3. CASE request.got.cursor < m /\ loop.at \in {"on", "back"}
      <4>1. m <= view.cursor
        BY <2>1, <3>1, <3>3 DEF Refresh, AnswerIsComplete
      <4>2. view.known
        BY <1>0, <1>2, <2>1, <3>1, <3>3 DEF NothingSkipped
      <4> QED
        BY <1>0, <1>2, <1>a, <3>3, <4>1, <4>2
    <3>4. CASE loop.at \in {"asked", "answered"}
      <4>1. request.by = "loop"
        BY <1>0, <1>3, <2>1, <3>4 DEF Request
      <4>2. loop.cursor = request.got.cursor
        BY <3>4, <4>1 DEF Refresh, AnswerIsComplete
      <4> QED
        BY <2>1, <3>2, <4>2
    <3> QED
      BY <1>0, <1>2, <3>2, <3>3, <3>4 DEF Loop
  <2>2. view'.known /\ view'.cursor <= nextSeq
    BY <1>a DEF Refresh, AnswerIsComplete
  <2>3. NothingSkipped'
    BY <1>1, <1>3, <1>a, <2>1, <2>2 DEF NothingSkipped, Refresh, thread
  <2>4. NothingMissing'
    BY <1>1, <1>a DEF NothingMissing, Refresh, AnswerIsComplete
  <2> QED
    BY <1>1, <1>4, <1>6, <2>3, <2>4
<1>b. CASE /\ view.known
           /\ view'.msgs = view.msgs /\ view'.cursor = view.cursor /\ view'.known = view.known
  <2>1. NothingMissing'
    BY <1>1, <1>b DEF NothingMissing, Refresh
  <2>2. loop'.at \in {"on", "back"} => loop.at \in {"on", "back"}
    BY <1>0, <1>3, <1>b DEF AnswerIsComplete, Loop, Request
  <2>3. NothingSkipped'
    BY <1>1, <1>3, <1>b, <2>2 DEF NothingSkipped, Refresh, thread
  <2> QED
    BY <1>1, <1>4, <1>6, <2>1, <2>3
<1> QED
  BY <1>0, <1>a, <1>b, ReconciledIs DEF Refresh

\* The event may be older than the view, but then the view has it.
LEMMA ReceiveKeeps ==
  ASSUME TypeOK, TypeOK', Kept, NEW e \in buffer, Receive(e)
  PROVE  Kept'
<1> USE DEF Kept
<1>0. /\ nextSeq \in Nat
      /\ \A f \in log \cup buffer : f.seq \in Nat
      /\ view.cursor \in Nat /\ loop.cursor \in Nat /\ request.got.cursor \in Nat
      /\ loop \in Loop /\ view \in View /\ whole \in BOOLEAN /\ e \in Event
  BY DEF TypeOK, Event, View, Loop, Request
<1>1. LogInOrder' /\ Messages' = Messages
  BY OrderKept DEF Receive, thread
<1>2. \A m \in Messages : m \in Nat /\ 1 <= m
  BY MessagesAre
<1>3. /\ loop.at = "on" /\ loop'.at = "on" /\ loop'.cursor = e.seq
      /\ loop.cursor < e.seq /\ e.seq <= nextSeq
  BY <1>0 DEF Receive, Loop, StreamInOrder, LogInOrder
<1>4. StreamInOrder'
  <2>1. ASSUME NEW b \in buffer', NEW f \in log, e.seq < f.seq, f.seq <= b.seq
        PROVE  f \in buffer'
    BY <1>0, <1>3, <2>1 DEF Receive, StreamInOrder
  <2>2. \A b \in buffer' : e.seq < b.seq
    BY <1>0 DEF Receive, LogInOrder
  <2> QED
    BY <1>3, <2>1, <2>2 DEF Receive, StreamInOrder, thread
\* The stream has no gaps: the only message it can newly pass is this event.
<1>5. ASSUME NEW m \in Messages, m <= e.seq
      PROVE  m <= loop.cursor \/ (e.type = "message" /\ m = e.seq /\ e.msg = m)
  <2>1. PICK f \in log : f.type = "message" /\ f.seq = m
    BY MessagesAre
  <2>2. CASE loop.cursor < m
    <3>1. f \in buffer
      BY <1>5, <2>1, <2>2 DEF StreamInOrder
    <3>2. f.seq = e.seq
      BY <1>0, <1>5, <2>1, <3>1 DEF Receive
    <3> QED
      BY <2>1, <3>1, <3>2 DEF LogInOrder
  <2> QED
    BY <1>0, <1>2, <2>2
<1>6. ASSUME NEW m \in Messages, m <= e.seq
      PROVE  e.type # "cleared"
  <2>1. PICK f \in log : f.type = "message" /\ f.seq = m
    BY MessagesAre
  <2>2. ASSUME e.type = "cleared" PROVE FALSE
    <3>1. e.seq = f.seq
      BY <1>0, <1>6, <2>1, <2>2 DEF LogInOrder
    <3> QED
      BY <2>1, <2>2, <3>1 DEF LogInOrder
  <2> QED
    BY <2>2
<1>7. whole' => whole /\ view.known
  BY DEF Receive
<1>8. view.known => /\ view' = Reduced(view, e) /\ view'.known
                    /\ view'.cursor \in {view.cursor, e.seq}
                    /\ e.type = "cleared" => view'.msgs = {} /\ view'.cursor = e.seq
                    /\ e.type # "cleared" => view.msgs \subseteq view'.msgs
                    /\ e.type = "message" => e.msg \in view'.msgs /\ view'.cursor = e.seq
  BY <1>0, ReducedIs DEF Receive
<1>9. ~view.known => view' = view
  BY DEF Receive
<1>10. AnswerIsComplete'
  <2>1. \/ request' = request
        \/ request'.at # "answered" /\ request'.by = "page" /\ request'.got.cursor = 0
    BY DEF Receive, NoRequest, Ask, Blank
  <2>2. ASSUME whole', request' = request, request.at = "answered",
               NEW m \in Messages, request.got.cursor < m, m <= e.seq
        PROVE  m <= view'.cursor
    <3>1. view.known /\ whole
      BY <1>7, <2>2
    <3>2. CASE m <= loop.cursor
      <4>1. m <= view.cursor
        BY <1>3, <2>2, <3>1, <3>2 DEF AnswerIsComplete
      <4> QED
        BY <1>8, <2>2, <3>1, <4>1
    <3>3. CASE e.type = "message" /\ m = e.seq
      BY <1>0, <1>8, <3>1, <3>3
    <3> QED
      BY <1>5, <2>2, <3>2, <3>3
  <2> QED
    BY <1>0, <1>1, <1>3, <2>1, <2>2 DEF AnswerIsComplete, Receive, thread
<1>11. ASSUME whole', NEW m \in Messages, m <= e.seq
       PROVE  m \in view'.msgs
  <2>1. view.known /\ whole /\ e.type # "cleared"
    BY <1>6, <1>7, <1>11
  <2>2. CASE m <= loop.cursor
    BY <1>3, <1>8, <2>1, <2>2 DEF NothingSkipped
  <2>3. CASE e.type = "message" /\ e.msg = m
    BY <1>8, <2>1, <2>3
  <2> QED
    BY <1>5, <1>11, <2>2, <2>3
<1>12. NothingSkipped'
  BY <1>0, <1>1, <1>3, <1>7, <1>8, <1>9, <1>11 DEF NothingSkipped, Receive, thread
<1>13. NothingMissing'
  <2>1. ASSUME whole', view'.known, NEW m \in Messages, m <= view'.cursor
        PROVE  m \in view'.msgs
    <3>1. view.known /\ whole
      BY <1>7, <2>1
    <3>2. CASE m <= e.seq
      BY <1>11, <2>1, <3>2
    <3>3. CASE ~(m <= e.seq)
      <4>1. view'.cursor = view.cursor /\ e.type # "cleared"
        BY <1>8, <2>1, <3>1, <3>3
      <4> QED
        BY <1>8, <2>1, <3>1, <4>1 DEF NothingMissing
    <3> QED
      BY <3>2, <3>3
  <2> QED
    BY <1>1, <2>1 DEF NothingMissing
<1> QED
  BY <1>1, <1>4, <1>10, <1>12, <1>13

\* The page empties its transcript; the cleared messages are no longer in the thread.
LEMMA ClearReturnsKeeps ==
  ASSUME TypeOK, TypeOK', Kept, ClearReturns
  PROVE  Kept'
<1> USE DEF Kept
<1>1. LogInOrder' /\ Messages' = Messages
  BY OrderKept DEF ClearReturns, thread
<1>2. view'.known = view.known /\ view'.cursor = view.cursor
  BY DEF ClearReturns, TypeOK, View
<1>3. whole' => whole /\ view.msgs \cap Messages = {}
  BY DEF ClearReturns
<1>4. request'.at = "none" /\ request'.by = "page" /\ request'.got.cursor = 0
  BY DEF ClearReturns, NoRequest, Blank
<1>5. StreamInOrder'
  BY DEF ClearReturns, StreamInOrder, thread
<1>6. AnswerIsComplete'
  BY <1>4 DEF ClearReturns, AnswerIsComplete, TypeOK, thread
<1>7. NothingSkipped' /\ NothingMissing'
  BY <1>1, <1>2, <1>3 DEF ClearReturns, NothingSkipped, NothingMissing, thread
<1> QED
  BY <1>1, <1>5, <1>6, <1>7

LEMMA KeptStep == TypeOK /\ Kept /\ [Next]_vars => Kept'
<1> SUFFICES ASSUME TypeOK, Kept, [Next]_vars
             PROVE  Kept'
  OBVIOUS
<1>0. TypeOK'
  BY TypeStep
<1>1. CASE Clear \/ Stop \/ StopDeletesProgress \/ \E r \in Runs : Run(r)
  BY <1>0, <1>1, ThreadGrows, GrowsKeeps
<1>2. CASE Refreshes
  <2>0. nextSeq \in Nat
    BY DEF TypeOK
  <2>1. ASSUME NEW seq \in 0..nextSeq, AnswerObsolete(seq)
        PROVE  Kept'
    BY <1>0, <2>0, <2>1, AnswerObsoleteKeeps
  <2>2. ASSUME NEW seq \in 0..nextSeq, NEW r \in Runs \cup {NoRun}, Answer(seq, r)
        PROVE  Kept'
    BY <1>0, <2>0, <2>2, AnswerKeeps
  <2> QED
    BY <1>0, <1>2, <2>1, <2>2, RefreshKeeps, PageAsks, AsksKeeps DEF Refreshes
<1>3. CASE Stream
  BY <1>0, <1>3, ReadKeeps, ReceiveKeeps, PageAsks, AsksKeeps DEF Stream
<1>4. CASE Return \/ StopReturns
  BY <1>0, <1>4, PageAsks, AsksKeeps
<1>5. CASE ClearReturns
  BY <1>0, <1>5, ClearReturnsKeeps
<1>6. CASE UNCHANGED vars
  <2>1. Asks
    BY <1>6 DEF vars, thread, page, Asks
  <2> QED
    BY <1>0, <2>1, AsksKeeps
<1> QED
  BY <1>1, <1>2, <1>3, <1>4, <1>5, <1>6 DEF Next

-----------------------------------------------------------------------------

\* The invariant: types, the order of the log, of the stream and of the answers, and what
\* the two cursors say of the page's transcript (the loop of the page, refreshThread,
\* reconcileRefreshedThread, reduceThreadSnapshot).
THEOREM ViewInvHolds == Spec => []ViewInv
<1>1. Init => ViewInv
  BY TypeInit, KeptInit DEF ViewInv, Kept
<1>2. ViewInv /\ [Next]_vars => ViewInv'
  BY TypeStep, KeptStep DEF ViewInv, Kept
<1> QED
  BY <1>1, <1>2, PTL DEF Spec

\* However refreshes, events, reconnects and the page's own calls overtake each other, the
\* page has every message its cursor has passed and that was not cleared.
THEOREM NothingIsMissing == Spec => []NothingMissing
<1>1. ViewInv => NothingMissing
  BY DEF ViewInv
<1> QED
  BY <1>1, ViewInvHolds, PTL

-----------------------------------------------------------------------------
(* What the page has stopped *)

\* A run the page has stopped was cancelled, and no answer under way shows it as active.
DeadStayDead ==
  /\ \A r \in dead : run[r] = "cancelled"
  /\ call.at \in {"stopping", "stopped"} => \A r \in call.runs : run[r] = "cancelled"
  /\ request.at = "answered" /\ request.got.status \in Active => request.got.run \notin dead

\* A transaction of the thread stops runs; none brings a cancelled run back.
LEMMA StopsOnly ==
  ASSUME TypeOK, Clear \/ Stop \/ StopDeletesProgress \/ \E r \in Runs : Run(r)
  PROVE  /\ UNCHANGED <<view, request, dead>>
         /\ \A r \in Runs : run[r] = "cancelled" => run'[r] = "cancelled"
         /\ \/ call' = call
            \/ call'.at \in {"returns", "cleared"}
            \/ call'.at = "stopping" /\ \A r \in call'.runs : run'[r] = "cancelled"
            \/ call.at = "stopping" /\ call'.at = "stopped" /\ call'.runs = call.runs
<1>0. run \in [Runs -> Status] /\ call \in Call /\ ActiveRuns \subseteq Runs
  BY DEF TypeOK, ActiveRuns
<1>c. \A r \in Runs :
        run[r] = "cancelled" \/ r \in ActiveRuns => Cancelled(ActiveRuns)[r] = "cancelled"
  BY DEF Cancelled
<1>1. CASE Clear
  BY <1>c, <1>1 DEF Clear, Called
<1>2. CASE Stop
  BY <1>0, <1>c, <1>2 DEF Stop
<1>3. CASE StopDeletesProgress
  BY <1>0, <1>3 DEF StopDeletesProgress, Call
<1>4. ASSUME NEW r \in Runs, Run(r)
      PROVE  /\ UNCHANGED <<view, request, dead>>
             /\ \A q \in Runs : run[q] = "cancelled" => run'[q] = "cancelled"
             /\ call' = call \/ call'.at \in {"returns", "cleared"}
  <2> USE DEF page
  <2>1. CASE Send(r)
    BY <1>0, <2>1 DEF Send, Called
  <2>2. CASE Start(r) \/ StartLate(r) \/ Progress(r) \/ Requeue(r)
    BY <1>0, <2>2 DEF Start, StartLate, Progress, Requeue
  <2>3. CASE PauseForInput(r) \/ PauseForTakeover(r)
    BY <1>0, <2>3 DEF PauseForInput, PauseForTakeover
  <2>4. CASE AnswerInput(r) \/ ReleaseControl(r)
    BY <1>0, <2>4 DEF AnswerInput, ReleaseControl, Called
  <2>5. CASE Complete(r) \/ Fail(r)
    BY <1>0, <2>5 DEF Complete, Fail
  <2> QED
    BY <1>4, <2>1, <2>2, <2>3, <2>4, <2>5 DEF Run
<1> QED
  BY <1>1, <1>2, <1>3, <1>4

\* What the thread answers, it has read.
LEMMA AnswerIs ==
  ASSUME TypeOK, NEW seq \in Nat, NEW r \in Runs \cup {NoRun}, Answer(seq, r)
  PROVE  /\ request'.at = "answered" /\ request'.by = request.by
         /\ request'.got = Snapshot(seq, r)
         /\ request'.got.cursor = seq /\ request'.got.msgs = Messages
         /\ request'.got.run = r
         /\ request'.got.status \in Active => r \in Runs /\ request'.got.status = run[r]
         /\ r \in Runs => request'.got.status = run[r]
<1>1. request \in Request
  BY DEF TypeOK
<1>2. request'.at = "answered" /\ request'.by = request.by /\ request'.got = Snapshot(seq, r)
  BY <1>1 DEF Answer, Request
<1>3. "none" \notin Active /\ NoRun \notin Runs
  BY DEF Active, Waiting, NoRun, Runs
<1> QED
  BY <1>2, <1>3 DEF Snapshot

LEMMA DeadStep ==
  ASSUME TypeOK, DeadStayDead, [Next]_vars
  PROVE  DeadStayDead'
<1> USE DEF DeadStayDead
<1>0. /\ run \in [Runs -> Status] /\ call \in Call /\ request \in Request
      /\ dead \subseteq Runs /\ call.runs \subseteq Runs
  BY DEF TypeOK, Call
<1>1. CASE Clear \/ Stop \/ StopDeletesProgress \/ \E r \in Runs : Run(r)
  <2>1. /\ UNCHANGED <<view, request, dead>>
        /\ \A r \in Runs : run[r] = "cancelled" => run'[r] = "cancelled"
        /\ \/ call' = call
           \/ call'.at \in {"returns", "cleared"}
           \/ call'.at = "stopping" /\ \A r \in call'.runs : run'[r] = "cancelled"
           \/ call.at = "stopping" /\ call'.at = "stopped" /\ call'.runs = call.runs
    BY <1>1, StopsOnly
  <2> QED
    BY <1>0, <2>1
<1>2. /\ NoRequest.at = "none" /\ NoCall.at = "none"
      /\ \A by : Ask(by).at = "asked"
  BY DEF NoRequest, NoCall, Ask
<1>3. CASE Refreshes
  <2>1. ASSUME NEW seq \in 0..nextSeq, NEW r \in Runs \cup {NoRun}, Answer(seq, r)
        PROVE  DeadStayDead'
    <3>1. seq \in Nat /\ "cancelled" \notin Active
      BY DEF TypeOK, Active, Waiting
    <3>2. request'.got.status \in Active =>
            request'.got.run \in Runs /\ run[request'.got.run] \in Active
      BY <2>1, <3>1, AnswerIs
    <3> QED
      BY <2>1, <3>1, <3>2 DEF Answer, thread
  <2> QED
    BY <1>2, <1>3, <2>1 DEF Refreshes, AnswerObsolete, Refresh, RefreshFails, Look, thread
<1>4. CASE Stream
  BY <1>2, <1>4 DEF Stream, SubscribeAnyway, ObsoleteFails, Read, Receive, Break, thread
<1>5. CASE Return \/ StopReturns \/ ClearReturns
  BY <1>2, <1>5 DEF Return, StopReturns, ClearReturns, thread
<1>6. CASE UNCHANGED vars
  BY <1>6 DEF vars, thread, page
<1> QED
  BY <1>1, <1>3, <1>4, <1>5, <1>6 DEF Next

LEMMA DeadAlways == Spec => [](TypeOK /\ DeadStayDead)
<1>1. Init => TypeOK /\ DeadStayDead
  BY TypeInit DEF Init, DeadStayDead, NoCall, Ask
<1>2. TypeOK /\ DeadStayDead /\ [Next]_vars => (TypeOK /\ DeadStayDead)'
  BY TypeStep, DeadStep
<1> QED
  BY <1>1, <1>2, PTL DEF Spec

\* What reconciling may show as active: what the answer does, or what was shown before.
LEMMA ReconciledShows ==
  ASSUME NEW prev \in View, NEW snap \in View
  PROVE  LET v == Reconciled(prev, snap) IN
         v.status \in Active =>
           \/ v.run = snap.run /\ snap.status \in Active
           \/ v.run = prev.run /\ v.status = prev.status /\ prev.known
<1>1. CASE ~prev.known \/ snap.cursor >= prev.cursor
  BY <1>1 DEF Reconciled, View
<1>2. CASE ~(~prev.known \/ snap.cursor >= prev.cursor)
  BY <1>2 DEF Reconciled, View
<1> QED
  BY <1>1, <1>2

\* No refresh makes the page show a run again that it has stopped: those under way when
\* the stop returned are obsolete, and no later answer shows a cancelled run as active
\* (stopThreadRuns, clearActiveThreadRuns, refreshThread, reconcileRefreshedThread).
THEOREM RefreshesDoNotRevive == Spec => RefreshNeverRevives
<1>1. TypeOK /\ DeadStayDead /\ [Next]_vars
        => [buffer' = buffer => Shown(view') \cap dead \subseteq Shown(view)]_vars
  <2> SUFFICES ASSUME TypeOK, DeadStayDead, [Next]_vars, buffer' = buffer,
                      NEW r \in Shown(view'), r \in dead
               PROVE  r \in Shown(view)
    OBVIOUS
  <2>0. request \in Request /\ view \in View /\ request.got \in View /\ "none" \notin Active
    BY DEF TypeOK, Request, Active, Waiting
  <2>1. view'.status \in Active /\ r = view'.run
    BY DEF Shown
  <2>2. CASE Refresh
    <3>1. request.at = "answered" /\ view' = Reconciled(view, request.got)
      BY <2>2 DEF Refresh
    <3>2. CASE view'.run = request.got.run /\ request.got.status \in Active
      BY <2>1, <3>1, <3>2 DEF DeadStayDead
    <3>3. CASE view'.run = view.run /\ view'.status = view.status
      BY <2>1, <3>3 DEF Shown
    <3> QED
      BY <2>0, <2>1, <3>1, <3>2, <3>3, ReconciledShows
  <2>3. CASE \E e \in buffer : Receive(e)
    BY <2>3 DEF Receive
  <2>4. CASE StopReturns \/ ClearReturns
    <3>1. view'.status = "none"
      BY <2>0, <2>4 DEF StopReturns, ClearReturns, View
    <3> QED
      BY <2>0, <2>1, <3>1
  <2>5. CASE view' = view
    BY <2>5
  <2>6. \/ Refresh \/ (\E e \in buffer : Receive(e)) \/ StopReturns \/ ClearReturns
        \/ view' = view
    <3>1. Clear \/ Stop \/ StopDeletesProgress \/ (\E q \in Runs : Run(q)) => view' = view
      BY StopsOnly
    <3> QED
      BY <3>1 DEF Next, Refreshes, Stream, AnswerObsolete, Answer, RefreshFails, Look,
                  SubscribeAnyway, ObsoleteFails, Read, Break, Return, vars, page
  <2> QED
    BY <2>2, <2>3, <2>4, <2>5, <2>6
<1> QED
  BY <1>1, DeadAlways, PTL DEF Spec, RefreshNeverRevives

-----------------------------------------------------------------------------
(* What the page shows, and what it will be told of it *)

\* How far the stream has come, as long as nothing was lost.
passed == IF whole /\ loop.at \in {"on", "back"} THEN loop.cursor ELSE 0

\* The thread was cleared, or the run has ended, after the n-th event.
ClearsAfter(n) == \E c \in log : c.type = "cleared" /\ n < c.seq
EndsAfter(r, n) ==
  \E x \in log : (x.type = "cleared" \/ (x.type = "ended" /\ x.run = r)) /\ n < x.seq
Lasts(r) == run[r] \in Active \cup {"cancelled"} \/ r \in stale
Alive(r, n) == r \in Runs /\ (Lasts(r) \/ EndsAfter(r, n))

\* What is in flight is in the log, or a clear or a pause has deleted it; an update is of
\* a message of the thread; and whatever shows a run as active is followed by its end.
EventsFit ==
  \A b \in log \cup buffer :
    /\ b.msg <= b.seq
    /\ b.type # "progress" => b \in log \/ ClearsAfter(b.seq)
    /\ b.type = "updated" => b.msg \in Messages \/ ClearsAfter(b.seq)
    /\ b.type \in {"started"} \cup Waiting => Alive(b.run, b.seq)

\* Nothing is shown before it is there.
NothingFromAhead ==
  /\ \A m \in view.msgs : m <= nextSeq
  /\ ~view.known => view.msgs = {} /\ view.status \notin Active
  /\ request.at = "answered" => \A m \in request.got.msgs : m <= nextSeq

\* A message that is no longer in the thread will be cleared from the page.
GoneIsCleared ==
  /\ \A m \in view.msgs : m \in Messages \/ ClearsAfter(passed)
  /\ request.at = "answered" => \A m \in request.got.msgs :
       m \in Messages \/ (ClearsAfter(passed) /\ ClearsAfter(request.got.cursor))

\* A run that is shown as active is, or was cancelled or announced late, or its end is still
\* to come.
ShownIsAlive ==
  /\ view.status \in Active => Alive(view.run, passed)
  /\ request.at = "answered" /\ request.got.status \in Active =>
       Alive(request.got.run, passed) /\ Alive(request.got.run, request.got.cursor)

\* What the page shows and an answer under way does not have, the stream has brought since.
NewerIsKept ==
  request.at = "answered" =>
    \A m \in view.msgs \cap Messages : request.got.cursor < m =>
      /\ loop.at \in {"on", "back"}
      /\ request.got.cursor < view.cursor /\ request.got.cursor < loop.cursor

Told == EventsFit /\ NothingFromAhead /\ GoneIsCleared /\ ShownIsAlive /\ NewerIsKept

LEMMA ToldInit == Init => Told
<1> SUFFICES ASSUME Init PROVE Told
  OBVIOUS
<1>1. Messages = {} /\ "none" \notin Active
  BY DEF Init, Messages, Active, Waiting
<1> QED
  BY <1>1 DEF Init, Told, EventsFit, NothingFromAhead, GoneIsCleared, ShownIsAlive,
              NewerIsKept, Blank, Ask

\* What a transaction of the thread tells of what it does: only progress is deleted but by
\* a clear, no run ends without its event but a cancelled one, and none is announced that
\* has ended, but late.
Tells ==
  /\ \A b \in log : b.type # "progress" =>
       b \in log' \/ \E c \in log' : c.type = "cleared" /\ nextSeq < c.seq
  /\ \A r \in Runs : Lasts(r) =>
       \/ Lasts(r)'
       \/ \E x \in log' : x.type = "ended" /\ x.run = r /\ nextSeq < x.seq
  /\ \A b \in log' \ log :
       /\ b.msg <= b.seq
       /\ b.type = "updated" => b.msg \in Messages'
       /\ b.type \in {"started"} \cup Waiting => b.run \in Runs /\ Lasts(b.run)'

LEMMA ThreadTells ==
  ASSUME TypeOK, LogInOrder, Clear \/ Stop \/ StopDeletesProgress \/ \E r \in Runs : Run(r)
  PROVE  Tells
<1>0. /\ nextSeq \in Nat /\ run \in [Runs -> Status] /\ ActiveRuns \subseteq Runs
      /\ {"queued", "running"} \cup Waiting \subseteq Active
  BY DEF TypeOK, ActiveRuns, Active
<1>p. \A rs : \A b \in log : b \in ProgressOf(rs) => b.type = "progress"
  BY DEF ProgressOf
<1>q. \A rs : ProgressOf(rs) \subseteq log
  BY DEF ProgressOf
<1>c. \A r \in Runs : run[r] \in Active \cup {"cancelled"} => Cancelled(ActiveRuns)[r] = "cancelled"
  BY DEF Cancelled, ActiveRuns
<1> USE DEF Tells, Lasts
<1>1. CASE Clear
  <2> DEFINE c == [seq |-> nextSeq + 1 + 0, type |-> "cleared", run |-> NoRun, msg |-> 0]
  <2>1. log' = {c} /\ c.type = "cleared" /\ c.seq = nextSeq + 1 /\ c.msg = 0
    BY <1>0, <1>1 DEF Clear, Event1
  <2> HIDE DEF c
  <2>2. nextSeq < c.seq /\ 0 <= c.seq
    BY <1>0, <2>1
  <2> QED
    BY <1>c, <1>1, <2>1, <2>2 DEF Clear, Waiting
<1>2. CASE Stop
  BY <1>c, <1>2 DEF Stop
<1>3. CASE StopDeletesProgress
  BY <1>p, <1>q, <1>3 DEF StopDeletesProgress
<1>4. ASSUME NEW r \in Runs, Run(r)
      PROVE  Tells
  <2> USE DEF Event1, Said, page
  <2>1. CASE Send(r)
    <3>1. \A q \in Runs :
            run[q] \in Active \cup {"cancelled"} => run'[q] \in Active \cup {"cancelled"}
      BY <1>0, <2>1 DEF Send
    <3> QED
      BY <1>0, <2>1, <3>1 DEF Send, Waiting
  <2>2. CASE Start(r)
    BY <1>0, <2>2 DEF Start, Waiting
  <2>3. CASE Progress(r)
    BY <1>0, <2>3 DEF Progress, Waiting
  <2>11. CASE StartLate(r)
    <3>1. Active \cap {"none", "completed", "failed"} = {} /\ Lasts(r)'
      BY <1>0, <2>11 DEF StartLate, Active, Waiting, Status
    <3> QED
      BY <1>0, <2>11, <3>1 DEF StartLate, Waiting
  <2>4. CASE Requeue(r)
    BY <1>0, <2>4 DEF Requeue
  <2>5. CASE PauseForInput(r)
    BY <1>0, <1>p, <1>q, <2>5 DEF PauseForInput, Waiting
  <2>6. CASE PauseForTakeover(r)
    BY <1>0, <1>p, <1>q, <2>6 DEF PauseForTakeover, Waiting
  <2>7. CASE AnswerInput(r)
    <3>1. PICK m \in Messages :
            log' = log \cup {[seq |-> nextSeq + 1 + 0, type |-> "updated", run |-> r, msg |-> m]}
      BY <2>7 DEF AnswerInput
    <3>2. m \in Messages' /\ m <= nextSeq /\ m \in Nat
      BY <3>1, MessagesAre DEF Messages
    <3>3. run' = [run EXCEPT ![r] = "queued"] /\ stale' = stale
      BY <2>7 DEF AnswerInput
    <3>4. \A q \in Runs : Lasts(q) => Lasts(q)'
      BY <1>0, <3>3
    <3> QED
      BY <3>1, <3>2, <3>4, <1>0 DEF Waiting
  <2>8. CASE ReleaseControl(r)
    BY <1>0, <2>8 DEF ReleaseControl, Waiting
  <2>9. CASE Complete(r)
    <3> DEFINE x == [seq |-> nextSeq + 1 + 1, type |-> "ended", run |-> r, msg |-> 0]
    <3>1. x \in log' /\ x.type = "ended" /\ x.run = r /\ nextSeq < x.seq
      BY <1>0, <2>9 DEF Complete
    <3> HIDE DEF x
    <3>2. run' = [run EXCEPT ![r] = "completed"]
      BY <2>9 DEF Complete
    <3>3. \A q \in Runs : Lasts(q) =>
            \/ Lasts(q)'
            \/ \E y \in log' : y.type = "ended" /\ y.run = q /\ nextSeq < y.seq
      BY <1>0, <2>9, <3>1, <3>2 DEF Complete
    <3> QED
      BY <1>0, <1>p, <1>q, <2>9, <3>3 DEF Complete, Waiting
  <2>10. CASE Fail(r)
    <3> DEFINE x == [seq |-> nextSeq + 1 + 0, type |-> "ended", run |-> r, msg |-> 0]
    <3>1. x \in log' /\ x.type = "ended" /\ x.run = r /\ nextSeq < x.seq
      BY <1>0, <2>10 DEF Fail
    <3> HIDE DEF x
    <3>2. run' = [run EXCEPT ![r] = "failed"]
      BY <2>10 DEF Fail
    <3>3. \A q \in Runs : Lasts(q) =>
            \/ Lasts(q)'
            \/ \E y \in log' : y.type = "ended" /\ y.run = q /\ nextSeq < y.seq
      BY <1>0, <2>10, <3>1, <3>2 DEF Fail
    <3> QED
      BY <1>0, <1>p, <1>q, <2>10, <3>3 DEF Fail, Waiting
  <2> QED
    BY <1>4, <2>1, <2>2, <2>3, <2>4, <2>5, <2>6, <2>7, <2>8, <2>9, <2>10, <2>11 DEF Run
<1> QED
  BY <1>1, <1>2, <1>3, <1>4

\* A clear or an end that is still to be told remains so.
LEMMA ToldLater ==
  ASSUME TypeOK, TypeOK', Kept, Grows, Tells, NEW n \in Nat, n <= nextSeq
  PROVE  /\ ClearsAfter(n) => ClearsAfter(n)'
         /\ \A r \in Runs : Alive(r, n) => Alive(r, n)'
         /\ \A m \in Messages : m \in Messages' \/ ClearsAfter(n)'
<1>0. /\ nextSeq \in Nat
      /\ \A e \in log \cup log' : e.seq \in Nat
  BY DEF TypeOK, Event
<1>1. ASSUME NEW b \in log, n < b.seq, b.type \in {"cleared", "ended"}
      PROVE  b \in log' \/ ClearsAfter(n)'
  BY <1>0, <1>1 DEF Tells, ClearsAfter
<1>2. ClearsAfter(n) => ClearsAfter(n)'
  BY <1>1 DEF ClearsAfter
<1>3. ASSUME NEW r \in Runs, Alive(r, n)
      PROVE  Alive(r, n)'
  <2>1. CASE Lasts(r)
    BY <1>0, <2>1 DEF Tells, Alive, EndsAfter
  <2>2. CASE EndsAfter(r, n)
    <3>1. PICK x \in log : (x.type = "cleared" \/ (x.type = "ended" /\ x.run = r)) /\ n < x.seq
      BY <2>2 DEF EndsAfter
    <3>2. x \in log' \/ ClearsAfter(n)'
      BY <1>1, <3>1
    <3> QED
      BY <3>1, <3>2 DEF Alive, EndsAfter, ClearsAfter
  <2> QED
    BY <1>3, <2>1, <2>2 DEF Alive
<1>4. ASSUME NEW m \in Messages
      PROVE  m \in Messages' \/ ClearsAfter(n)'
  <2>1. PICK e \in log : e.type = "message" /\ e.msg = m
    BY DEF Messages
  <2>2. CASE e \in log'
    BY <2>1, <2>2 DEF Messages
  <2>3. CASE \E c \in log' : c.type = "cleared" /\ nextSeq < c.seq
    BY <1>0, <2>3 DEF ClearsAfter
  <2> QED
    BY <2>1, <2>2, <2>3 DEF Tells
<1> QED
  BY <1>2, <1>3, <1>4

LEMMA ThreadKeepsTold ==
  ASSUME TypeOK, TypeOK', Kept, Told, Grows, Tells
  PROVE  Told'
<1> USE DEF Told
<1>0. /\ nextSeq \in Nat /\ nextSeq' \in Nat /\ nextSeq <= nextSeq'
      /\ \A e \in log \cup log' \cup buffer : e.seq \in Nat
      /\ view.cursor \in Nat /\ loop.cursor \in Nat /\ request.got.cursor \in Nat
      /\ view.msgs \subseteq Nat /\ request.got.msgs \subseteq Nat
      /\ UNCHANGED <<view, loop, buffer, request, whole>>
  BY DEF TypeOK, Event, View, Loop, Request, Grows
<1>1. passed' = passed /\ passed \in Nat /\ passed <= nextSeq /\ request.got.cursor <= nextSeq
  BY <1>0 DEF passed, Kept, StreamInOrder, AnswerIsComplete
<1>2. EventsFit'
  <2>1. ASSUME NEW b \in log \cup buffer
        PROVE  /\ b.msg <= b.seq
               /\ b.type # "progress" => b \in log' \/ ClearsAfter(b.seq)'
               /\ b.type = "updated" => b.msg \in Messages' \/ ClearsAfter(b.seq)'
               /\ b.type \in {"started"} \cup Waiting => Alive(b.run, b.seq)'
    <3>1. b.seq \in Nat /\ b.seq <= nextSeq
      BY <1>0 DEF Kept, LogInOrder
    <3>2. /\ ClearsAfter(b.seq) => ClearsAfter(b.seq)'
          /\ \A r \in Runs : Alive(r, b.seq) => Alive(r, b.seq)'
          /\ \A m \in Messages : m \in Messages' \/ ClearsAfter(b.seq)'
      BY <3>1, ToldLater
    <3>3. ASSUME b.type # "progress"
          PROVE  b \in log' \/ ClearsAfter(b.seq)'
      <4>1. CASE b \in log
        BY <1>0, <3>1, <3>3, <4>1 DEF Tells, ClearsAfter
      <4>2. CASE ClearsAfter(b.seq)
        BY <3>2, <4>2
      <4> QED
        BY <3>3, <4>1, <4>2 DEF EventsFit
    <3>4. ASSUME b.type \in {"started"} \cup Waiting
          PROVE  Alive(b.run, b.seq)'
      <4>1. Alive(b.run, b.seq)
        BY <3>4 DEF EventsFit
      <4> QED
        BY <3>2, <4>1 DEF Alive
    <3> QED
      BY <3>2, <3>3, <3>4 DEF EventsFit
  <2>2. ASSUME NEW b \in log' \ log
        PROVE  /\ b.msg <= b.seq
               /\ b.type = "updated" => b.msg \in Messages'
               /\ b.type \in {"started"} \cup Waiting => Alive(b.run, b.seq)'
    BY <2>2 DEF Tells, Alive
  <2> QED
    BY <1>0, <2>1, <2>2 DEF EventsFit
<1>3. NothingFromAhead'
  BY <1>0 DEF NothingFromAhead
<1>4. GoneIsCleared'
  <2>1. /\ ClearsAfter(passed) => ClearsAfter(passed)'
        /\ \A m \in Messages : m \in Messages' \/ ClearsAfter(passed)'
    BY <1>1, ToldLater DEF ClearsAfter
  <2>2. /\ ClearsAfter(request.got.cursor) => ClearsAfter(request.got.cursor)'
        /\ \A m \in Messages : m \in Messages' \/ ClearsAfter(request.got.cursor)'
    BY <1>0, <1>1, ToldLater DEF ClearsAfter
  <2> QED
    BY <1>0, <2>1, <2>2 DEF GoneIsCleared
<1>5. ShownIsAlive'
  <2>1. \A r \in Runs : Alive(r, passed) => Alive(r, passed)'
    BY <1>1, ToldLater DEF Alive, EndsAfter
  <2>2. \A r \in Runs : Alive(r, request.got.cursor) => Alive(r, request.got.cursor)'
    BY <1>0, <1>1, ToldLater DEF Alive, EndsAfter
  <2>3. \A r, n : Alive(r, n) => r \in Runs
    BY DEF Alive
  <2> QED
    BY <1>0, <2>1, <2>2, <2>3 DEF ShownIsAlive, Alive
<1>6. NewerIsKept'
  <2>1. ASSUME NEW m \in view.msgs, m \in Messages'
        PROVE  m \in Messages
    <3>1. PICK e \in log' : e.type = "message" /\ e.msg = m
      BY <2>1 DEF Messages
    <3>2. m <= nextSeq
      BY DEF NothingFromAhead
    <3>3. e \in log
      BY <1>0, <3>1, <3>2 DEF Grows
    <3> QED
      BY <3>1, <3>3 DEF Messages
  <2> QED
    BY <1>0, <2>1 DEF NewerIsKept
<1> QED
  BY <1>2, <1>3, <1>4, <1>5, <1>6

\* What an event does to the run a view shows, and which messages it may bring.
LEMMA ReducedShows ==
  ASSUME NEW v \in View, NEW e \in Event, v.known
  PROVE  LET w == Reduced(v, e) IN
         /\ \A m \in w.msgs : m \in v.msgs \/
              (e.type \in {"message", "updated"} /\ m = e.msg /\ w.cursor = e.seq)
         /\ e.type = "cleared" => w.status = "none"
         /\ e.type = "started" => w.run = e.run /\ w.status = "running" /\ w.cursor = e.seq
         /\ e.type \in {"progress", "message", "updated"} =>
              w.run = v.run /\ w.status = v.status /\ w.cursor = e.seq
         /\ e.type = "ended" =>
              IF v.run = e.run THEN w.status = "none"
                               ELSE w.run = v.run /\ w.status = v.status
         /\ e.type \in Waiting =>
              /\ w.run = v.run
              /\ w.status = IF v.run = e.run THEN e.type ELSE v.status
         /\ e.type = "released" => w = v
<1> DEFINE w == Reduced(v, e)
<1>1. CASE e.type = "cleared"
  <2>1. w = [Blank EXCEPT !.known = TRUE, !.cursor = e.seq]
    BY <1>1 DEF Reduced, Waiting
  <2> QED
    BY <1>1, <2>1 DEF Blank, Waiting
<1>2. CASE e.type = "started"
  <2>1. w = Started(v, e)
    BY <1>2 DEF Reduced, Waiting
  <2> QED
    BY <1>2, <2>1 DEF Started, Moved, View, Waiting
<1>3. CASE e.type = "progress"
  <2>1. w = [Moved(v, e) EXCEPT !.live = v.live \cup {e.run}]
    BY <1>3 DEF Reduced, Moved, View, Waiting
  <2> QED
    BY <1>3, <2>1 DEF Moved, View, Waiting
<1>4. CASE e.type \in {"message", "updated"}
  <2>1. w = [Moved(v, e) EXCEPT !.msgs = v.msgs \cup {e.msg}, !.live = v.live \ {e.run}]
    BY <1>4 DEF Reduced, Moved, View, Waiting
  <2> QED
    BY <1>4, <2>1 DEF Moved, View, Waiting
<1>5. CASE e.type = "ended"
  <2>1. w = [Moved(v, e) EXCEPT !.live = v.live \ {e.run},
               !.run = IF v.run = e.run THEN NoRun ELSE v.run,
               !.status = IF v.run = e.run THEN "none" ELSE v.status]
    BY <1>5 DEF Reduced, Moved, View, Waiting
  <2> QED
    BY <1>5, <2>1 DEF Moved, View, Waiting
<1>6. CASE e.type \in Waiting
  <2> DEFINE bubble  == e.type = "waiting_input" /\ e.run \in v.live
             changed == v.run = e.run /\ v.status # e.type
  <2>1. w = IF ~bubble /\ ~changed THEN v
            ELSE [Moved(v, e) EXCEPT
                    !.live = IF bubble THEN v.live \ {e.run} ELSE v.live,
                    !.status = IF changed THEN e.type ELSE v.status]
    BY <1>6 DEF Reduced, Moved, View, Waiting
  <2> QED
    BY <1>6, <2>1 DEF Moved, View, Waiting
<1>7. CASE e.type = "released"
  <2>1. w = v
    BY <1>7 DEF Reduced, Waiting
  <2> QED
    BY <1>7, <2>1 DEF Waiting
<1> QED
  BY <1>1, <1>2, <1>3, <1>4, <1>5, <1>6, <1>7 DEF Event, EventType, Waiting

\* What an Asks leaves of the runs, and of what is shown.
Quiet ==
  /\ Asks /\ UNCHANGED <<run, stale>>
  /\ \/ view' = view
     \/ view'.status = "none" /\ (whole' => Shown(view) \cap ActiveRuns = {})
  /\ loop.at = "on" => loop' = loop \/ loop'.at = "back"

LEMMA PageIsQuiet ==
  ASSUME TypeOK, Kept,
         RefreshFails \/ Look \/ SubscribeAnyway \/ ObsoleteFails \/ Break \/ Return \/ StopReturns
  PROVE  Quiet
<1>1. StopReturns => view'.status = "none"
  BY DEF StopReturns, TypeOK, View
<1>2. loop.at = "on" => loop' = loop \/ loop'.at = "back"
  BY DEF Kept, AnswerIsComplete, RefreshFails, Look, SubscribeAnyway, ObsoleteFails, Break,
     Return, StopReturns, TypeOK, Loop
<1> QED
  BY <1>1, <1>2, PageAsks DEF Quiet, RefreshFails, Look, SubscribeAnyway, ObsoleteFails, Break,
     Return, StopReturns, thread

\* The log is only read: what is in flight fits it as before.
LEMMA FitKept ==
  ASSUME EventsFit, UNCHANGED <<log, run, stale>>, buffer' \subseteq log \cup buffer
  PROVE  /\ EventsFit'
         /\ Messages' = Messages
         /\ \A n : ClearsAfter(n)' = ClearsAfter(n)
         /\ \A r, n : Alive(r, n)' = Alive(r, n)
BY DEF EventsFit, Messages, ClearsAfter, Alive, Lasts, EndsAfter

\* The less the stream has told, the more it still will.
LEMMA Earlier ==
  ASSUME TypeOK, NEW n \in Nat, NEW k \in Nat, k <= n
  PROVE  /\ ClearsAfter(n) => ClearsAfter(k)
         /\ \A r : Alive(r, n) => Alive(r, k)
<1>1. \A e \in log : e.seq \in Nat
  BY DEF TypeOK, Event
<1> QED
  BY <1>1 DEF ClearsAfter, Alive, Lasts, EndsAfter

LEMMA QuietKeepsTold ==
  ASSUME TypeOK, TypeOK', Kept, Told, Quiet
  PROVE  Told'
<1> USE DEF Told
<1>0. /\ nextSeq \in Nat /\ view.cursor \in Nat /\ loop.cursor \in Nat
      /\ "none" \notin Active
      /\ loop \in Loop /\ loop' \in Loop /\ request.got.cursor \in Nat
  BY DEF TypeOK, View, Loop, Request, Active, Waiting
<1>1. /\ EventsFit' /\ Messages' = Messages
      /\ \A n : ClearsAfter(n)' = ClearsAfter(n)
      /\ \A r, n : Alive(r, n)' = Alive(r, n)
  BY FitKept DEF Quiet, Asks
<1>2. passed \in Nat /\ passed' \in Nat /\ passed' <= passed
  BY <1>0 DEF Quiet, Asks, passed, Loop
<1>3. /\ ClearsAfter(passed) => ClearsAfter(passed')
      /\ \A r : Alive(r, passed) => Alive(r, passed')
  BY <1>2, Earlier
<1>4. request'.at = "answered" => request' = request
  BY DEF Quiet, Asks, NoRequest, Ask
<1>5. NothingFromAhead'
  BY <1>0, <1>4 DEF Quiet, Asks, NothingFromAhead
<1>6. GoneIsCleared'
  <2>1. view'.msgs = view.msgs
    BY DEF Quiet, Asks
  <2> QED
    BY <1>1, <1>3, <1>4, <2>1 DEF GoneIsCleared, ClearsAfter
<1>7. ShownIsAlive'
  <2>1. view'.status \in Active => view' = view
    BY <1>0 DEF Quiet
  <2>2. UNCHANGED <<log, run, stale>>
    BY DEF Quiet, Asks
  <2> QED
    BY <1>1, <1>3, <1>4, <2>1, <2>2 DEF ShownIsAlive, Alive, Lasts, EndsAfter
<1>8. NewerIsKept'
  <2>1. ASSUME request'.at = "answered", NEW m \in view'.msgs \cap Messages',
               request'.got.cursor < m
        PROVE  /\ loop'.at \in {"on", "back"}
               /\ request'.got.cursor < view'.cursor /\ request'.got.cursor < loop'.cursor
    <3>1. /\ loop.at \in {"on", "back"}
          /\ request.got.cursor < view.cursor /\ request.got.cursor < loop.cursor
      BY <1>1, <1>4, <2>1 DEF NewerIsKept, Quiet, Asks
    <3>2. loop'.at \in {"on", "back"} /\ loop'.cursor = loop.cursor
      BY <1>4, <3>1, <2>1 DEF Quiet, Asks, Ask
    <3> QED
      BY <1>4, <2>1, <3>1, <3>2 DEF Quiet, Asks
  <2> QED
    BY <2>1 DEF NewerIsKept
<1> QED
  BY <1>1, <1>5, <1>6, <1>7, <1>8

LEMMA AnswerKeepsTold ==
  ASSUME TypeOK, TypeOK', Kept, Told, NEW seq \in Nat, NEW r \in Runs \cup {NoRun},
         seq <= nextSeq, Answer(seq, r)
  PROVE  Told'
<1> USE DEF Told
<1>0. /\ nextSeq \in Nat /\ loop \in Loop
      /\ UNCHANGED <<nextSeq, log, run, stale, view, buffer, whole>>
  BY DEF TypeOK, Answer, thread
<1>1. /\ EventsFit' /\ Messages' = Messages
      /\ \A n : ClearsAfter(n)' = ClearsAfter(n)
      /\ \A q, n : Alive(q, n)' = Alive(q, n)
  BY <1>0, FitKept
<1>2. passed' = passed
  BY <1>0 DEF Answer, passed, Loop
<1>3. /\ request'.got.cursor = seq /\ request'.got.msgs = Messages
      /\ request'.got.status \in Active =>
           request'.got.run \in Runs /\ run[request'.got.run] \in Active
  BY AnswerIs
<1>4. ASSUME NEW m \in Messages
      PROVE  m \in Nat /\ m <= nextSeq /\ m <= seq
  <2>1. m \in Nat /\ m <= nextSeq /\ \E e \in log : e.seq = m
    BY MessagesAre DEF Kept
  <2> QED
    BY <2>1 DEF Answer, IsLast
<1>5. NothingFromAhead'
  BY <1>0, <1>3, <1>4 DEF NothingFromAhead
<1>6. GoneIsCleared'
  BY <1>0, <1>1, <1>2, <1>3 DEF GoneIsCleared, ClearsAfter
<1>7. ShownIsAlive'
  <2>1. \A q \in Runs : run[q] \in Active => \A n : Alive(q, n)
    BY DEF Alive, Lasts
  <2>2. view.status \in Active => Alive(view.run, passed)
    BY DEF ShownIsAlive
  <2>3. \A q, n : Alive(q, n) => /\ q \in Runs
                                 /\ Lasts(q)' \/ EndsAfter(q, n)'
    BY <1>0 DEF Alive, Lasts, EndsAfter
  <2> QED
    BY <1>0, <1>2, <1>3, <2>1, <2>2, <2>3 DEF ShownIsAlive, Alive
<1>8. NewerIsKept'
  BY <1>0, <1>1, <1>3, <1>4 DEF NewerIsKept
<1> QED
  BY <1>1, <1>5, <1>6, <1>7, <1>8

LEMMA AnswerObsoleteKeepsTold ==
  ASSUME TypeOK, TypeOK', Kept, Told, NEW seq \in Nat, AnswerObsolete(seq)
  PROVE  Told'
<1> USE DEF Told
<1>0. UNCHANGED <<nextSeq, log, run, stale, view, buffer, request, whole>>
  BY DEF AnswerObsolete, thread
<1>1. EventsFit' /\ Messages' = Messages
  BY <1>0, FitKept
<1>2. passed' = passed /\ loop.at = "asked"
  BY DEF AnswerObsolete, passed
<1>3. NothingFromAhead' /\ GoneIsCleared' /\ ShownIsAlive'
  BY <1>0, <1>1, <1>2
     DEF NothingFromAhead, GoneIsCleared, ShownIsAlive, Alive, Lasts, EndsAfter, ClearsAfter
<1>4. NewerIsKept'
  BY <1>0, <1>1, <1>2 DEF NewerIsKept
<1> QED
  BY <1>1, <1>3, <1>4

LEMMA ReadKeepsTold ==
  ASSUME TypeOK, TypeOK', Kept, Told, Read
  PROVE  Told'
<1> USE DEF Told
<1>0. /\ UNCHANGED <<nextSeq, log, run, stale, view, loop, request, whole>>
      /\ buffer' \subseteq log \cup buffer
  BY DEF Read, thread, Unread
<1>1. EventsFit' /\ Messages' = Messages
  BY <1>0, FitKept
<1>2. passed' = passed
  BY <1>0 DEF passed
<1>3. NothingFromAhead' /\ GoneIsCleared' /\ ShownIsAlive' /\ NewerIsKept'
  BY <1>0, <1>1, <1>2 DEF NothingFromAhead, GoneIsCleared, ShownIsAlive, Alive, Lasts, EndsAfter,
                          ClearsAfter, NewerIsKept
<1> QED
  BY <1>1, <1>3

\* Where the loop stands when a refresh returns: where it was, or, at its first, at the
\* answer's cursor; then the page had nothing yet.
LEMMA RefreshAt ==
  ASSUME TypeOK, Kept, Refresh
  PROVE  /\ loop'.cursor = loop.cursor
         /\ \/ passed' = passed /\ (loop'.at \in {"on", "back"} => loop.at \in {"on", "back"})
            \/ passed' \in {0, request.got.cursor} /\ loop.cursor = request.got.cursor
               /\ loop.at = "answered" /\ ~view.known
<1>1. loop \in Loop /\ request \in Request
  BY DEF TypeOK
<1>2. CASE request.by = "loop"
  <2>1. loop'.cursor = loop.cursor /\ loop'.at = "on" /\ whole' = whole
    BY <1>1, <1>2 DEF Refresh, Loop
  <2>2. CASE loop.at = "back"
    BY <1>1, <2>1, <2>2 DEF passed
  <2>3. CASE loop.at \in {"asked", "answered"}
    BY <1>1, <1>2, <2>1, <2>3 DEF passed, Refresh, Kept, AnswerIsComplete
  <2> QED
    BY <1>1, <1>2, <2>2, <2>3 DEF Loop, Kept, AnswerIsComplete
<1>3. CASE request.by # "loop"
  BY <1>3 DEF Refresh, passed
<1> QED
  BY <1>2, <1>3

LEMMA RefreshKeepsTold ==
  ASSUME TypeOK, TypeOK', Kept, Told, Refresh
  PROVE  Told'
<1> USE DEF Told
<1>0. /\ UNCHANGED <<nextSeq, log, run, stale, buffer, whole>>
      /\ request.at = "answered" /\ request'.at = "none"
      /\ view' = Reconciled(view, request.got)
      /\ view \in View /\ request.got \in View /\ request.got.cursor \in Nat
      /\ request.got.known
  BY DEF TypeOK, Refresh, thread, NoRequest, Request, View, Kept, AnswerIsComplete
<1>1. EventsFit' /\ Messages' = Messages
  BY <1>0, FitKept
<1>3. \/ /\ view'.msgs = request.got.msgs /\ view'.known
      \/ view.known /\ view'.msgs = view.msgs /\ view'.known
  BY <1>0, ReconciledIs
<1>4. passed \in Nat /\ 0 <= passed /\ 0 <= request.got.cursor
  BY <1>0 DEF TypeOK, Loop, passed
<1>5. \/ passed' = passed
      \/ passed' \in {0, request.got.cursor} /\ ~view.known
  BY RefreshAt
<1>6. /\ ClearsAfter(passed) /\ ClearsAfter(request.got.cursor) => ClearsAfter(passed')
      /\ \A r : Alive(r, passed) /\ Alive(r, request.got.cursor) => Alive(r, passed')
  BY <1>0, <1>4, <1>5, Earlier
<1>7. NothingFromAhead'
  BY <1>0, <1>3 DEF NothingFromAhead
<1>8. GoneIsCleared'
  <2>1. \A m \in view'.msgs : m \in Messages \/ ClearsAfter(passed')
    BY <1>0, <1>3, <1>5, <1>6 DEF GoneIsCleared
  <2> QED
    BY <1>0, <1>1, <2>1 DEF GoneIsCleared, ClearsAfter
<1>9. ShownIsAlive'
  <2>1. ASSUME view'.status \in Active
        PROVE  Alive(view'.run, passed')
    <3>1. CASE view'.run = request.got.run /\ request.got.status \in Active
      BY <1>0, <1>6, <3>1 DEF ShownIsAlive
    <3>2. CASE view'.run = view.run /\ view'.status = view.status /\ view.known
      <4>1. passed' = passed
        BY <1>5, <3>2
      <4> QED
        BY <2>1, <3>2, <4>1 DEF ShownIsAlive
    <3> QED
      BY <1>0, <2>1, <3>1, <3>2, ReconciledShows
  <2> QED
    BY <1>0, <2>1 DEF ShownIsAlive, Alive, Lasts, EndsAfter
<1>10. NewerIsKept'
  BY <1>0 DEF NewerIsKept
<1> QED
  BY <1>1, <1>7, <1>8, <1>9, <1>10

\* The stream has no gaps: what it passes with an event is that event.
LEMMA ReceivePasses ==
  ASSUME TypeOK, Kept, NEW e \in buffer, Receive(e)
  PROVE  /\ e \in Event /\ e.seq \in Nat /\ e.seq <= nextSeq
         /\ loop.at = "on" /\ loop'.at = "on" /\ loop'.cursor = e.seq /\ loop.cursor < e.seq
         /\ \A f \in log : f.seq <= e.seq => f.seq <= loop.cursor \/ f = e
         /\ passed = IF whole THEN loop.cursor ELSE 0
         /\ passed' = IF whole' THEN e.seq ELSE 0
<1>1. /\ e \in Event /\ loop \in Loop /\ loop.cursor \in Nat
      /\ \A f \in log \cup buffer : f.seq \in Nat
  BY DEF TypeOK, Event, Loop
<1>2. /\ loop.at = "on" /\ loop'.at = "on" /\ loop'.cursor = e.seq
      /\ loop.cursor < e.seq /\ e.seq <= nextSeq
  BY <1>1 DEF Receive, Loop, Kept, StreamInOrder, LogInOrder
<1>3. ASSUME NEW f \in log, f.seq <= e.seq, loop.cursor < f.seq
      PROVE  f = e
  <2>1. f \in buffer
    BY <1>3 DEF Kept, StreamInOrder
  <2>2. f.seq = e.seq
    BY <1>1, <1>3, <2>1 DEF Receive
  <2> QED
    BY <2>1, <2>2 DEF Kept, LogInOrder
<1> QED
  BY <1>1, <1>2, <1>3 DEF passed

LEMMA ReceiveKeepsTold ==
  ASSUME TypeOK, TypeOK', Kept, Told, NEW e \in buffer, Receive(e)
  PROVE  Told'
<1> USE DEF Told
<1>0. /\ UNCHANGED <<nextSeq, log, run, stale>> /\ buffer' \subseteq log \cup buffer
      /\ nextSeq \in Nat /\ view \in View /\ view.cursor \in Nat /\ e.msg \in Nat
      /\ loop.cursor \in Nat /\ request.got.cursor \in Nat /\ whole \in BOOLEAN
      /\ \A f \in log : f.seq \in Nat
      /\ whole' = (whole /\ view.known)
  BY DEF TypeOK, Receive, thread, Event, View, Loop, Request
<1>1. EventsFit' /\ Messages' = Messages
  BY <1>0, FitKept
<1>2. /\ e \in Event /\ e.seq \in Nat /\ e.seq <= nextSeq
      /\ loop.at = "on" /\ loop'.at = "on" /\ loop'.cursor = e.seq /\ loop.cursor < e.seq
      /\ \A f \in log : f.seq <= e.seq => f.seq <= loop.cursor \/ f = e
      /\ passed = IF whole THEN loop.cursor ELSE 0
      /\ passed' = IF whole' THEN e.seq ELSE 0
  BY ReceivePasses
<1>3. /\ e.msg <= e.seq
      /\ e.type = "message" => e.msg \in Messages \/ ClearsAfter(e.seq)
      /\ e.type = "updated" => e.msg \in Messages \/ ClearsAfter(e.seq)
      /\ e.type \in {"started"} \cup Waiting => Alive(e.run, e.seq)
  BY DEF EventsFit, Messages
\* What is still to be told after an event that does not tell it.
<1>4. ASSUME e.type # "cleared", ClearsAfter(passed)
      PROVE  ClearsAfter(passed')
  <2>1. PICK c \in log : c.type = "cleared" /\ passed < c.seq
    BY <1>4 DEF ClearsAfter
  <2>2. passed' < c.seq
    BY <1>0, <1>2, <1>4, <2>1
  <2> QED
    BY <2>1, <2>2 DEF ClearsAfter
<1>5. ASSUME e.type # "cleared", NEW r, ~(e.type = "ended" /\ e.run = r), Alive(r, passed)
      PROVE  Alive(r, passed')
  <2>1. CASE EndsAfter(r, passed)
    <3>1. PICK x \in log :
            (x.type = "cleared" \/ (x.type = "ended" /\ x.run = r)) /\ passed < x.seq
      BY <2>1 DEF EndsAfter
    <3>2. passed' < x.seq
      BY <1>0, <1>2, <1>5, <3>1
    <3> QED
      BY <1>5, <3>1, <3>2 DEF EndsAfter, Alive
  <2> QED
    BY <1>5, <2>1 DEF Alive
<1>6. /\ ClearsAfter(e.seq) => ClearsAfter(passed')
      /\ \A r : Alive(r, e.seq) => Alive(r, passed')
  BY <1>0, <1>2, Earlier
<1>7. request'.at = "answered" => request' = request /\ e.type \notin {"cleared", "ended"}
  BY DEF Receive, NoRequest, Ask
<1>8. ~view.known => view' = view /\ view.msgs = {} /\ view.status \notin Active
  BY DEF Receive, NothingFromAhead
<1>9. view.known =>
        /\ view' = Reduced(view, e) /\ view'.known /\ view'.cursor \in {view.cursor, e.seq}
        /\ e.type = "cleared" => view'.msgs = {}
        /\ \A m \in view'.msgs : m \in view.msgs \/
             (e.type \in {"message", "updated"} /\ m = e.msg /\ view'.cursor = e.seq)
  BY <1>0, <1>2, ReducedIs, ReducedShows DEF Receive
<1>10. NothingFromAhead'
  <2>1. \A m \in view'.msgs : m <= nextSeq
    <3>1. e.msg <= nextSeq
      BY <1>0, <1>2, <1>3
    <3> QED
      BY <1>8, <1>9, <3>1 DEF NothingFromAhead
  <2> QED
    BY <1>0, <1>7, <1>8, <1>9, <2>1 DEF NothingFromAhead
<1>11. GoneIsCleared'
  <2>1. ASSUME NEW m \in view'.msgs, m \notin Messages
        PROVE  ClearsAfter(passed')
    <3>1. view.known /\ e.type # "cleared"
      BY <1>8, <1>9, <2>1
    <3> QED
      BY <1>3, <1>4, <1>6, <1>9, <2>1, <3>1 DEF GoneIsCleared
  <2>2. ASSUME request'.at = "answered", NEW m \in request'.got.msgs, m \notin Messages
        PROVE  ClearsAfter(passed') /\ ClearsAfter(request'.got.cursor)
    BY <1>4, <1>7, <2>2 DEF GoneIsCleared
  <2> QED
    BY <1>0, <1>1, <2>1, <2>2 DEF GoneIsCleared, ClearsAfter
<1>12. ShownIsAlive'
  <2>1. ASSUME view'.status \in Active
        PROVE  Alive(view'.run, passed')
    <3>0. view.known /\ view' = Reduced(view, e) /\ "none" \notin Active /\ "running" \in Active
      BY <1>8, <1>9, <2>1 DEF Active, Waiting
    <3>1. CASE e.type \in {"started"} \cup Waiting /\ view'.run = e.run
      BY <1>3, <1>6, <3>1
    <3>2. CASE /\ view'.run = view.run /\ view'.status = view.status
               /\ e.type # "cleared" /\ ~(e.type = "ended" /\ e.run = view.run)
      BY <1>5, <2>1, <3>2 DEF ShownIsAlive
    <3> QED
      BY <1>0, <1>2, <2>1, <3>0, <3>1, <3>2, ReducedShows DEF Event, EventType, Waiting
  <2>2. ASSUME request'.at = "answered", request'.got.status \in Active
        PROVE  Alive(request'.got.run, passed') /\ Alive(request'.got.run, request'.got.cursor)
    BY <1>5, <1>7, <2>2 DEF ShownIsAlive
  <2> QED
    BY <1>0, <2>1, <2>2 DEF ShownIsAlive, Alive, Lasts, EndsAfter
<1>13. NewerIsKept'
  <2>1. ASSUME request'.at = "answered", NEW m \in view'.msgs, m \in Messages,
               request'.got.cursor < m
        PROVE  request'.got.cursor < view'.cursor /\ request'.got.cursor < e.seq
    <3>1. request' = request /\ view.known
      BY <1>7, <1>8, <2>1
    <3>2. CASE m \in view.msgs
      <4>1. request.got.cursor < view.cursor /\ request.got.cursor < loop.cursor
        BY <2>1, <3>1, <3>2 DEF NewerIsKept
      <4> QED
        BY <1>0, <1>2, <1>9, <3>1, <4>1
    <3>3. CASE m = e.msg /\ view'.cursor = e.seq
      BY <1>0, <1>2, <1>3, <2>1, <3>1, <3>3
    <3> QED
      BY <1>9, <2>1, <3>1, <3>2, <3>3
  <2> QED
    BY <1>1, <1>2, <2>1 DEF NewerIsKept
<1> QED
  BY <1>1, <1>10, <1>11, <1>12, <1>13

LEMMA ClearReturnsKeepsTold ==
  ASSUME TypeOK, TypeOK', Kept, Told, ClearReturns
  PROVE  Told'
<1> USE DEF Told
<1>0. /\ UNCHANGED <<nextSeq, log, run, stale, buffer>>
      /\ view'.msgs = {} /\ view'.status = "none" /\ request'.at = "none"
      /\ "none" \notin Active
  BY DEF TypeOK, View, ClearReturns, thread, NoRequest, Active, Waiting
<1>1. EventsFit'
  BY <1>0, FitKept
<1> QED
  BY <1>0, <1>1 DEF NothingFromAhead, GoneIsCleared, ShownIsAlive, NewerIsKept

LEMMA ToldStep ==
  ASSUME TypeOK, Kept, Told, [Next]_vars
  PROVE  Told'
<1>0. TypeOK' /\ nextSeq \in Nat
  BY TypeStep DEF TypeOK
<1>1. CASE Clear \/ Stop \/ StopDeletesProgress \/ \E r \in Runs : Run(r)
  BY <1>0, <1>1, ThreadGrows, ThreadTells, ThreadKeepsTold DEF Kept
<1>2. CASE Refreshes
  <2>1. ASSUME NEW seq \in 0..nextSeq, AnswerObsolete(seq)
        PROVE  Told'
    BY <1>0, <2>1, AnswerObsoleteKeepsTold
  <2>2. ASSUME NEW seq \in 0..nextSeq, NEW r \in Runs \cup {NoRun}, Answer(seq, r)
        PROVE  Told'
    BY <1>0, <2>2, AnswerKeepsTold
  <2> QED
    BY <1>0, <1>2, <2>1, <2>2, RefreshKeepsTold, PageIsQuiet, QuietKeepsTold DEF Refreshes
<1>3. CASE Stream
  BY <1>0, <1>3, ReadKeepsTold, ReceiveKeepsTold, PageIsQuiet, QuietKeepsTold DEF Stream
<1>4. CASE Return \/ StopReturns
  BY <1>0, <1>4, PageIsQuiet, QuietKeepsTold
<1>5. CASE ClearReturns
  BY <1>0, <1>5, ClearReturnsKeepsTold
<1>6. CASE UNCHANGED vars
  <2>1. Quiet
    BY <1>6 DEF vars, thread, page, Quiet, Asks
  <2> QED
    BY <1>0, <2>1, QuietKeepsTold
<1> QED
  BY <1>1, <1>2, <1>3, <1>4, <1>5, <1>6 DEF Next

LEMMA ToldAlways == Spec => [](TypeOK /\ Kept /\ Told)
<1>1. Init => TypeOK /\ Kept /\ Told
  BY TypeInit, KeptInit, ToldInit
<1>2. TypeOK /\ Kept /\ Told /\ [Next]_vars => (TypeOK /\ Kept /\ Told)'
  BY TypeStep, KeptStep, ToldStep
<1> QED
  BY <1>1, <1>2, PTL DEF Spec

\* A refresh replaces the transcript, and takes no message back that is still in the
\* thread: an answer that is not older than the view has what the view has, for what the
\* stream has brought since has moved the cursor of the view as well (threadSnapshot,
\* reconcileRefreshedThread, reduceThreadSnapshot).
THEOREM RefreshesKeepMessages == Spec => RefreshKeepsMessages
<1>1. TypeOK /\ Kept /\ Told /\ [Next]_vars
        => [loop.cursor' = loop.cursor /\ call' = call
            => view.msgs \cap Messages' \subseteq view'.msgs]_vars
  <2> SUFFICES ASSUME TypeOK, Kept, Told, [Next]_vars,
                      loop.cursor' = loop.cursor, call' = call,
                      NEW m \in view.msgs, m \in Messages'
               PROVE  m \in view'.msgs
    OBVIOUS
  <2>1. CASE Refresh
    <3>0. /\ request.at = "answered" /\ view' = Reconciled(view, request.got)
          /\ view \in View /\ request.got \in View /\ Messages' = Messages
          /\ view.cursor \in Nat /\ request.got.cursor \in Nat
      BY <2>1 DEF Refresh, TypeOK, Request, View, Messages, thread
    <3>1. CASE view'.msgs = request.got.msgs /\ (~view.known \/ view.cursor <= request.got.cursor)
      <4>1. view.known
        BY DEF Told, NothingFromAhead
      <4>2. m \in Nat /\ ~(request.got.cursor < m)
        BY <3>0, <3>1, <4>1, MessagesAre DEF Told, NewerIsKept, Kept
      <4> QED
        BY <3>0, <3>1, <4>2 DEF Kept, AnswerIsComplete
    <3>2. CASE view'.msgs = view.msgs
      BY <3>2
    <3> QED
      BY <3>0, <3>1, <3>2, ReconciledIs
  <2>2. CASE \E e \in buffer : Receive(e)
    <3>1. PICK e \in buffer : Receive(e)
      BY <2>2
    <3>2. loop'.cursor = e.seq /\ loop.cursor < e.seq /\ loop.cursor \in Nat
      BY <3>1, ReceivePasses DEF TypeOK, Loop
    <3> QED
      BY <3>2
  <2>3. CASE ClearReturns
    BY <2>3 DEF ClearReturns, NoCall
  <2>4. CASE view'.msgs = view.msgs
    BY <2>4
  <2>5. \/ Refresh \/ (\E e \in buffer : Receive(e)) \/ ClearReturns
        \/ view'.msgs = view.msgs
    <3>1. Clear \/ Stop \/ StopDeletesProgress \/ (\E q \in Runs : Run(q)) => view' = view
      BY StopsOnly
    <3>2. StopReturns => view'.msgs = view.msgs
      BY PageAsks DEF Asks
    <3> QED
      BY <3>1, <3>2 DEF Next, Refreshes, Stream, AnswerObsolete, Answer, RefreshFails, Look,
                  SubscribeAnyway, ObsoleteFails, Read, Break, Return, vars, page
  <2> QED
    BY <2>1, <2>2, <2>3, <2>4, <2>5
<1> QED
  BY <1>1, ToldAlways, PTL DEF Spec, RefreshKeepsMessages

-----------------------------------------------------------------------------
(* The only run of the thread *)

\* One run at a time is at work, and a thread with active runs has a message.
OneAtWork ==
  /\ alone => \A q, r \in Runs : run[q] \in Engaged /\ run[r] \in Engaged => q = r
  /\ ActiveRuns # {} => Messages # {}

\* s is the last start of r, the only run there is: nothing else has happened since, but
\* that an ended one may have reported.
IsOnlyRun(r) == alone /\ r \notin stale /\ run[r] \in Engaged /\ Listed = {r}
LastStart(r, s) ==
  /\ s \in log /\ s.type = "started" /\ s.run = r
  /\ \A b \in log \cup buffer : s.seq < b.seq =>
       /\ b.type = "progress" \/ (b.run = r /\ b.type \in {"message"} \cup Waiting)
       /\ b.type \in Waiting => b.type = run[r]
  /\ run[r] \in Waiting => \E w \in log : w.type = run[r] /\ s.seq < w.seq
  /\ \E m \in Messages : m < s.seq

\* The run's pause is among the first n events.
PauseIsRead(r, s, n) ==
  \E w \in log : w.type = run[r] /\ run[r] \in Waiting /\ s.seq < w.seq /\ w.seq <= n

\* The page shows it from the moment the stream has brought its start, and so does every
\* answer under way that has read it.
Shows(v, r) == v.run = r /\ v.status \in {"running", run[r]}
ViewFollows(r, s) ==
  whole /\ view.known /\ loop.at \in {"on", "back"} /\ s.seq <= loop.cursor =>
    /\ s.seq <= view.cursor /\ Shows(view, r)
    /\ PauseIsRead(r, s, loop.cursor) => view.status = run[r]
AnswerFollows(r, s) ==
  request.at = "answered" /\ s.seq <= request.got.cursor =>
    /\ Shows(request.got, r)
    /\ PauseIsRead(r, s, request.got.cursor) => request.got.status = run[r]
\* A question the stream has brought has made the page ask again.
QuestionIsAnswered(r, s) ==
  /\ whole /\ loop.at \in {"on", "back"} /\ request.at = "answered"
  /\ run[r] = "waiting_input" /\ PauseIsRead(r, s, loop.cursor)
  => s.seq <= request.got.cursor /\ PauseIsRead(r, s, request.got.cursor)
Follows(r, s) ==
  LastStart(r, s) /\ ViewFollows(r, s) /\ AnswerFollows(r, s) /\ QuestionIsAnswered(r, s)

OnlyRunIsShown == \A r \in Runs : IsOnlyRun(r) => \E s \in log : Follows(r, s)

Sole == OneAtWork /\ OnlyRunIsShown

LEMMA SoleInit == Init => Sole
BY DEF Init, Sole, OneAtWork, OnlyRunIsShown, IsOnlyRun, ActiveRuns, Active, Engaged, Waiting

LEMMA Statuses ==
  /\ Engaged = {"running"} \cup Waiting /\ Waiting = {"waiting_input", "waiting_takeover"}
  /\ Engaged \subseteq Active /\ {"queued"} \subseteq Active
  /\ "queued" \notin Engaged
  /\ Active \cap {"none", "completed", "failed", "cancelled"} = {}
BY DEF Engaged, Active, Waiting

\* What a transaction of the thread does to the runs.  The only run there is was already
\* the only one, unless this starts it, or announces it again.
LEMMA WorkStep ==
  ASSUME TypeOK, OneAtWork, Clear \/ Stop \/ StopDeletesProgress \/ \E r \in Runs : Run(r)
  PROVE  /\ OneAtWork'
         /\ \A r \in Runs : IsOnlyRun(r)' =>
              \/ Start(r) \/ StartLate(r)
              \/ /\ IsOnlyRun(r)
                 /\ \/ StopDeletesProgress \/ \E q \in Runs : Progress(q)
                    \/ PauseForInput(r) \/ PauseForTakeover(r)
<1>0. /\ run \in [Runs -> Status] /\ alone \in BOOLEAN /\ nextSeq \in Nat
  BY DEF TypeOK
<1>m. ASSUME \A e \in log : e.type = "message" => e \in log'
      PROVE  Messages # {} => Messages' # {}
  BY <1>m DEF Messages
<1>p. \A rs : \A b \in log : b \in ProgressOf(rs) => b.type = "progress"
  BY DEF ProgressOf
<1>c. /\ \A q \in Runs : Cancelled(ActiveRuns)[q] \notin Active
      /\ \A q \in Runs : q \notin ActiveRuns => Cancelled(ActiveRuns)[q] = run[q]
  BY Statuses DEF Cancelled, ActiveRuns
<1>1. CASE Clear \/ Stop
  <2>1. run' = Cancelled(ActiveRuns)
    BY <1>1 DEF Clear, Stop
  <2>2. \A q \in Runs : run'[q] \notin Active
    BY <1>c, <2>1
  <2> QED
    BY <2>2, Statuses DEF OneAtWork, ActiveRuns, IsOnlyRun
<1>2. CASE StopDeletesProgress
  <2>1. /\ run' = run /\ alone' = alone /\ stale' = stale
        /\ \A e \in log : e.type = "message" => e \in log'
    BY <1>p, <1>2 DEF StopDeletesProgress
  <2> QED
    BY <1>2, <1>m, <2>1 DEF OneAtWork, ActiveRuns, IsOnlyRun, Listed
<1>3. ASSUME NEW q \in Runs, Run(q)
      PROVE  /\ OneAtWork'
             /\ \A r \in Runs : IsOnlyRun(r)' =>
                  \/ Start(r) \/ StartLate(r)
                  \/ IsOnlyRun(r) /\ (Progress(q) \/ PauseForInput(r) \/ PauseForTakeover(r))
  <2> USE Statuses
  <2>1. CASE Send(q)
    <3>1. Messages' # {}
      <4> DEFINE e == [seq |-> nextSeq + 1 + 0, type |-> "message", run |-> q, msg |-> nextSeq + 1]
      <4>1. e \in log' /\ e.type = "message"
        BY <2>1 DEF Send, Said, Event1
      <4> HIDE DEF e
      <4> QED
        BY <4>1 DEF Messages
    <3>2. /\ run'[q] = "queued" /\ run[q] = "none" /\ alone' = alone /\ stale' = stale
          /\ \A r \in Runs : run'[r] \in Engaged => run[r] \in Engaged
      BY <1>0, <2>1 DEF Send
    <3>3. q \in Listed'
      BY <3>2 DEF Listed
    <3> QED
      BY <3>1, <3>2, <3>3 DEF OneAtWork, IsOnlyRun
  <2>2. CASE Start(q)
    <3>1. /\ run[q] = "queued" /\ run' = [run EXCEPT ![q] = "running"]
          /\ alone' = (alone /\ \A r \in Runs : run[r] \notin Engaged)
          /\ \A e \in log : e.type = "message" => e \in log'
      BY <2>2 DEF Start
    <3>2. OneAtWork'
      BY <1>0, <1>m, <3>1 DEF OneAtWork, ActiveRuns
    <3>3. \A r \in Runs : IsOnlyRun(r)' => r = q
      BY <1>0, <3>1 DEF IsOnlyRun
    <3> QED
      BY <2>2, <3>1, <3>2, <3>3
  <2>3. CASE Progress(q)
    <3>1. /\ run' = run /\ alone' = alone /\ stale' = stale
          /\ \A e \in log : e.type = "message" => e \in log'
      BY <2>3 DEF Progress
    <3>2. \A r \in Runs : IsOnlyRun(r)' => IsOnlyRun(r)
      BY <3>1 DEF IsOnlyRun, Listed
    <3> QED
      BY <1>m, <2>3, <3>1, <3>2 DEF OneAtWork, ActiveRuns
  <2>8. CASE StartLate(q)
    <3>1. /\ run' = run /\ \A e \in log : e.type = "message" => e \in log'
          /\ alone' = (alone /\ \A r \in Runs \ {q} : run[r] \notin Engaged)
      BY <2>8 DEF StartLate
    <3>2. OneAtWork'
      BY <1>0, <1>m, <3>1 DEF OneAtWork, ActiveRuns
    <3>3. \A r \in Runs : IsOnlyRun(r)' => r = q
      BY <1>0, <3>1 DEF IsOnlyRun
    <3> QED
      BY <2>8, <3>2, <3>3
  <2>4. CASE Requeue(q)
    <3>1. run' = [run EXCEPT ![q] = "queued"] /\ alone' = alone /\ log' = log /\ run[q] = "running"
      BY <2>4 DEF Requeue
    <3>2. OneAtWork'
      BY <1>0, <1>m, <3>1 DEF OneAtWork, ActiveRuns
    <3>3. q \in Listed' /\ run'[q] = "queued"
      BY <1>0, <3>1 DEF Listed
    <3> QED
      BY <3>2, <3>3 DEF IsOnlyRun
  <2>5. CASE PauseForInput(q) \/ PauseForTakeover(q)
    <3>1. /\ run[q] = "running" /\ alone' = alone /\ stale' = stale
          /\ \/ run' = [run EXCEPT ![q] = "waiting_input"]
             \/ run' = [run EXCEPT ![q] = "waiting_takeover"]
          /\ \A e \in log : e.type = "message" => e \in log'
      BY <1>p, <2>5 DEF PauseForInput, PauseForTakeover
    <3>2. OneAtWork'
      BY <1>0, <1>m, <3>1 DEF OneAtWork, ActiveRuns
    <3>3. Listed' = Listed /\ q \in Listed
      BY <1>0, <3>1 DEF Listed
    <3> QED
      BY <1>0, <2>5, <3>1, <3>2, <3>3 DEF IsOnlyRun
  <2>6. CASE AnswerInput(q) \/ ReleaseControl(q)
    <3>1. /\ run' = [run EXCEPT ![q] = "queued"] /\ alone' = alone /\ run[q] \in Waiting
          /\ \A e \in log : e.type = "message" => e \in log'
      BY <2>6 DEF AnswerInput, ReleaseControl
    <3>2. OneAtWork'
      BY <1>0, <1>m, <3>1 DEF OneAtWork, ActiveRuns
    <3>3. q \in Listed' /\ run'[q] = "queued"
      BY <1>0, <3>1 DEF Listed
    <3> QED
      BY <3>2, <3>3 DEF IsOnlyRun
  <2>7. CASE Complete(q) \/ Fail(q)
    <3>1. /\ run[q] = "running" /\ alone' = alone
          /\ run' = [run EXCEPT ![q] = "completed"] \/ run' = [run EXCEPT ![q] = "failed"]
          /\ \A e \in log : e.type = "message" => e \in log'
      BY <1>p, <2>7 DEF Complete, Fail
    <3>2. OneAtWork'
      BY <1>0, <1>m, <3>1 DEF OneAtWork, ActiveRuns
    <3>3. \A r \in Runs : alone /\ run'[r] \in Engaged => FALSE
      BY <1>0, <3>1 DEF OneAtWork
    <3> QED
      BY <3>1, <3>2, <3>3 DEF IsOnlyRun
  <2> QED
    BY <1>3, <2>1, <2>2, <2>3, <2>4, <2>5, <2>6, <2>7, <2>8 DEF Run
<1> QED
  BY <1>1, <1>2, <1>3

\* A run that starts alone, or is announced again: nothing has been read of that yet.
LEMMA StartFollows ==
  ASSUME TypeOK, TypeOK', Kept, OneAtWork, NEW r \in Runs, Start(r) \/ StartLate(r),
         IsOnlyRun(r)'
  PROVE  \E s \in log' : Follows(r, s)'
<1>0. /\ nextSeq \in Nat /\ run \in [Runs -> Status]
      /\ UNCHANGED <<view, loop, buffer, request, whole>>
      /\ loop.cursor <= nextSeq /\ request.got.cursor <= nextSeq
      /\ loop.cursor \in Nat /\ request.got.cursor \in Nat
      /\ \A b \in log \cup buffer : b.seq \in Nat /\ b.seq <= nextSeq
  BY DEF TypeOK, Start, StartLate, page, Loop, Request, View, Event, Kept, StreamInOrder, AnswerIsComplete,
         LogInOrder
<1>1. run'[r] = "running" /\ run[r] \in {"queued", "running"}
  <2>1. CASE Start(r)
    BY <1>0, <2>1 DEF Start
  <2>2. CASE StartLate(r)
    BY <1>0, <2>2, Statuses DEF StartLate, IsOnlyRun
  <2> QED
    BY <2>1, <2>2
<1>2. PICK s \in log' :
        /\ log' = log \cup {s}
        /\ s.type = "started" /\ s.run = r /\ s.seq = nextSeq + 1
  <2> DEFINE new == [seq |-> nextSeq + 1 + 0, type |-> "started", run |-> r, msg |-> 0]
  <2>1. log' = log \cup {new}
    BY DEF Start, StartLate, Event1
  <2>2. new.type = "started" /\ new.run = r /\ new.seq = nextSeq + 1
    BY <1>0
  <2> QED
    BY <2>1, <2>2
<1>3. run'[r] = "running" /\ run'[r] \notin Waiting
  BY <1>0, <1>1, Statuses
<1>4. \E m \in Messages' : m < s.seq
  <2>1. r \in ActiveRuns
    BY <1>1, Statuses DEF ActiveRuns
  <2>2. PICK m \in Messages : TRUE
    BY <2>1 DEF OneAtWork
  <2>3. m \in Messages' /\ m \in Nat /\ m <= nextSeq
    BY <1>2, MessagesAre DEF Messages, Kept
  <2> QED
    BY <1>0, <1>2, <2>3
<1>5. LastStart(r, s)'
  <2>1. \A b \in log' \cup buffer' : ~(s.seq < b.seq)
    BY <1>0, <1>2
  <2> QED
    BY <1>2, <1>3, <1>4, <2>1 DEF LastStart
<1>6. ViewFollows(r, s)' /\ AnswerFollows(r, s)'
  BY <1>0, <1>2 DEF ViewFollows, AnswerFollows
<1>7. QuestionIsAnswered(r, s)'
  BY <1>3, Statuses DEF QuestionIsAnswered
<1> QED
  BY <1>2, <1>5, <1>6, <1>7 DEF Follows

\* It works, and pauses at most once; then nothing more is read of it.
LEMMA WorkFollows ==
  ASSUME TypeOK, TypeOK', Kept, NEW r \in Runs, NEW s \in log, IsOnlyRun(r), Follows(r, s),
         \/ StopDeletesProgress \/ \E q \in Runs : Progress(q)
         \/ PauseForInput(r) \/ PauseForTakeover(r)
  PROVE  s \in log' /\ Follows(r, s)'
<1> USE Statuses DEF Follows
<1>0. /\ nextSeq \in Nat /\ run \in [Runs -> Status]
      /\ UNCHANGED <<view, loop, buffer, request, whole>>
      /\ loop.cursor <= nextSeq /\ request.got.cursor <= nextSeq
      /\ loop.cursor \in Nat /\ request.got.cursor \in Nat
      /\ \A b \in log \cup buffer : b.seq \in Nat /\ b.seq <= nextSeq
  BY DEF TypeOK, Loop, Request, View, Event, Kept, StreamInOrder, AnswerIsComplete,
         LogInOrder, StopDeletesProgress, Progress, PauseForInput, PauseForTakeover, page
<1>p. \A rs : \A b \in log : b \in ProgressOf(rs) => b.type = "progress"
  BY DEF ProgressOf
<1>q. \A rs : ProgressOf(rs) \subseteq log
  BY DEF ProgressOf
<1>1. \A b \in log : b.type # "progress" => b \in log'
  BY <1>p DEF StopDeletesProgress, Progress, PauseForInput, PauseForTakeover
<1>2. ASSUME NEW b \in log', b \notin log
      PROVE  /\ b.type = "progress" \/ (b.run = r /\ b.type \in {"message"} \cup Waiting)
             /\ b.type \in Waiting => b.type = run'[r]
             /\ nextSeq < b.seq
  BY <1>0, <1>2 DEF StopDeletesProgress, Progress, PauseForInput, PauseForTakeover,
                    Event1, Said
<1>3. \/ run' = run
      \/ /\ run[r] = "running" /\ run'[r] \in Waiting
         /\ \E w \in log' : w.type = run'[r] /\ nextSeq < w.seq
  <2>1. CASE StopDeletesProgress \/ \E q \in Runs : Progress(q)
    BY <2>1 DEF StopDeletesProgress, Progress
  <2>2. CASE PauseForInput(r)
    <3> DEFINE w == [seq |-> nextSeq + 1 + 1, type |-> "waiting_input", run |-> r, msg |-> 0]
    <3>1. w \in log' /\ w.type = "waiting_input" /\ nextSeq < w.seq
      BY <1>0, <2>2 DEF PauseForInput, Event1
    <3> HIDE DEF w
    <3> QED
      BY <1>0, <2>2, <3>1 DEF PauseForInput
  <2>3. CASE PauseForTakeover(r)
    <3> DEFINE w == [seq |-> nextSeq + 1 + 0, type |-> "waiting_takeover", run |-> r, msg |-> 0]
    <3>1. w \in log' /\ w.type = "waiting_takeover" /\ nextSeq < w.seq
      BY <1>0, <2>3 DEF PauseForTakeover, Event1
    <3> HIDE DEF w
    <3> QED
      BY <1>0, <2>3, <3>1 DEF PauseForTakeover
  <2> QED
    BY <2>1, <2>2, <2>3
<1>4. s \in log' /\ s.seq <= nextSeq /\ s.seq \in Nat
  BY <1>0, <1>1 DEF LastStart
<1>5. LastStart(r, s)'
  <2>1. ASSUME NEW b \in log' \cup buffer, s.seq < b.seq
        PROVE  /\ b.type = "progress" \/ (b.run = r /\ b.type \in {"message"} \cup Waiting)
               /\ b.type \in Waiting => b.type = run'[r]
    BY <1>2, <1>3, <2>1 DEF LastStart
  <2>2. run'[r] \in Waiting => \E w \in log' : w.type = run'[r] /\ s.seq < w.seq
    <3>1. CASE run' = run
      BY <1>1, <3>1 DEF LastStart
    <3>2. CASE \E w \in log' : w.type = run'[r] /\ nextSeq < w.seq
      <4>1. PICK w \in log' : w.type = run'[r] /\ nextSeq < w.seq
        BY <3>2
      <4>2. w.seq \in Nat
        BY DEF TypeOK, Event
      <4> QED
        BY <1>0, <1>4, <4>1, <4>2
    <3> QED
      BY <1>3, <3>1, <3>2
  <2>3. \E m \in Messages' : m < s.seq
    <3>1. Messages \subseteq Messages'
      BY <1>1 DEF Messages
    <3> QED
      BY <3>1 DEF LastStart
  <2> QED
    BY <1>0, <1>4, <2>1, <2>2, <2>3 DEF LastStart
\* Nobody has read the pause.
<1>6. ASSUME NEW n \in Nat, n <= nextSeq, PauseIsRead(r, s, n)'
      PROVE  run' = run /\ PauseIsRead(r, s, n)
  <2>1. PICK w \in log' : w.type = run'[r] /\ run'[r] \in Waiting /\ s.seq < w.seq /\ w.seq <= n
    BY <1>6 DEF PauseIsRead
  <2>2. w \in log
    <3>1. w.seq \in Nat
      BY DEF TypeOK, Event
    <3> QED
      BY <1>0, <1>2, <1>6, <2>1, <3>1
  <2>3. w.type = run[r]
    BY <2>1, <2>2 DEF LastStart
  <2> QED
    BY <1>3, <2>1, <2>2, <2>3 DEF PauseIsRead
<1>7. \A v : Shows(v, r) => Shows(v, r)'
  BY <1>3 DEF Shows
<1>8. ViewFollows(r, s)'
  BY <1>0, <1>6, <1>7 DEF ViewFollows, Shows, PauseIsRead
<1>9. AnswerFollows(r, s)'
  BY <1>0, <1>6, <1>7 DEF AnswerFollows, Shows, PauseIsRead
<1>10. QuestionIsAnswered(r, s)'
  BY <1>0, <1>1, <1>6 DEF QuestionIsAnswered, PauseIsRead
<1> QED
  BY <1>4, <1>5, <1>8, <1>9, <1>10

\* The steps of the page leave the log and the runs alone.
LEMMA LastStartKept ==
  ASSUME NEW r, NEW s, LastStart(r, s), UNCHANGED <<log, run>>, buffer' \subseteq log \cup buffer
  PROVE  s \in log' /\ LastStart(r, s)'
BY DEF LastStart, Messages

LEMMA StartIsNumbered ==
  ASSUME TypeOK, Kept, NEW r \in Runs, NEW s, LastStart(r, s)
  PROVE  /\ s \in log /\ s.seq \in Nat /\ 1 <= s.seq /\ s.seq <= nextSeq
         /\ \A b \in log \cup buffer : b.seq \in Nat
         /\ nextSeq \in Nat /\ view.cursor \in Nat /\ loop.cursor \in Nat
         /\ request.got.cursor \in Nat
BY DEF TypeOK, Kept, LogInOrder, LastStart, Event, View, Loop, Request

LEMMA QuietFollows ==
  ASSUME TypeOK, TypeOK', Kept, NEW r \in Runs, NEW s \in log, IsOnlyRun(r), Follows(r, s), Quiet
  PROVE  s \in log' /\ Follows(r, s)'
<1> USE DEF Follows
<1>0. /\ UNCHANGED <<log, run>> /\ buffer' \subseteq log \cup buffer
      /\ s.seq \in Nat /\ 1 <= s.seq /\ loop.cursor \in Nat
      /\ loop \in Loop /\ loop' \in Loop /\ whole \in BOOLEAN
      /\ view'.known = view.known /\ view'.cursor = view.cursor
  BY StartIsNumbered DEF Quiet, Asks, TypeOK
<1>1. s \in log' /\ LastStart(r, s)'
  BY <1>0, LastStartKept
<1>2. request'.at = "answered" => request' = request
  BY DEF Quiet, Asks, NoRequest, Ask
<1>3. ASSUME whole', loop'.at \in {"on", "back"}, s.seq <= loop'.cursor
      PROVE  whole /\ loop.at \in {"on", "back"} /\ loop'.cursor = loop.cursor
  BY <1>0, <1>3 DEF Quiet, Asks, Loop
<1>4. ViewFollows(r, s)'
  <2>1. ASSUME whole', view'.known, loop'.at \in {"on", "back"}, s.seq <= loop'.cursor
        PROVE  view' = view
    <3>1. Shows(view, r)
      BY <1>0, <1>3, <2>1 DEF ViewFollows
    <3>2. run[r] \in Active /\ r \in ActiveRuns /\ view.status \in Active
      BY <3>1, Statuses DEF IsOnlyRun, Shows, ActiveRuns
    <3> QED
      BY <2>1, <3>1, <3>2 DEF Quiet, Shown, Shows
  <2> QED
    BY <1>0, <1>3, <2>1 DEF ViewFollows, Shows, PauseIsRead
<1>5. AnswerFollows(r, s)'
  BY <1>0, <1>2 DEF AnswerFollows, Shows, PauseIsRead
<1>6. QuestionIsAnswered(r, s)'
  <2>1. PauseIsRead(r, s, loop'.cursor) => s.seq <= loop'.cursor
    <3>1. loop'.cursor \in Nat /\ \A w \in log : w.seq \in Nat
      BY <1>0, StartIsNumbered DEF Loop
    <3> QED
      BY <1>0, <3>1 DEF PauseIsRead
  <2> QED
    BY <1>0, <1>2, <1>3, <2>1 DEF QuestionIsAnswered, PauseIsRead
<1> QED
  BY <1>1, <1>4, <1>5, <1>6

\* The thread's answer shows the run as it is.
LEMMA AnswerFollowsIt ==
  ASSUME TypeOK, TypeOK', Kept, NEW r \in Runs, NEW s \in log, IsOnlyRun(r), Follows(r, s),
         NEW seq \in Nat, NEW q \in Runs \cup {NoRun}, Answer(seq, q)
  PROVE  s \in log' /\ Follows(r, s)'
<1> USE DEF Follows
<1>0. /\ UNCHANGED <<log, run, view, whole, buffer>> /\ buffer' \subseteq log \cup buffer
  BY DEF Answer, thread
<1>1. s \in log' /\ LastStart(r, s)'
  BY <1>0, LastStartKept
<1>2. q = r
  BY DEF Answer, IsNewest, IsOnlyRun
<1>3. /\ request'.got.run = r /\ request'.got.status = run[r] /\ request'.got.cursor = seq
  BY <1>2, AnswerIs
<1>4. loop'.at \in {"on", "back"} => loop' = loop
  BY DEF Answer
<1>5. ViewFollows(r, s)'
  BY <1>0, <1>4 DEF ViewFollows, Shows, PauseIsRead
<1>6. AnswerFollows(r, s)'
  BY <1>0, <1>3 DEF AnswerFollows, Shows
<1>7. QuestionIsAnswered(r, s)'
  <2>1. \A w \in log : w.seq <= seq
    BY DEF Answer, IsLast
  <2> QED
    BY <1>0, <1>3, <2>1 DEF QuestionIsAnswered, PauseIsRead
<1> QED
  BY <1>1, <1>5, <1>6, <1>7

\* The refresh brings the start with it if the stream has read it: the view is not older.
LEMMA RefreshFollows ==
  ASSUME TypeOK, TypeOK', Kept, Told, NEW r \in Runs, NEW s \in log, IsOnlyRun(r), Follows(r, s),
         Refresh
  PROVE  s \in log' /\ Follows(r, s)'
<1> USE DEF Follows
<1>0. /\ UNCHANGED <<log, run, whole, buffer>> /\ buffer' \subseteq log \cup buffer
      /\ request.at = "answered" /\ request'.at = "none"
      /\ view' = Reconciled(view, request.got)
      /\ view \in View /\ request.got \in View /\ loop \in Loop
      /\ run[r] \in Engaged
  BY DEF TypeOK, Refresh, thread, NoRequest, Request, IsOnlyRun
<1>n. /\ s.seq \in Nat /\ 1 <= s.seq
      /\ view.cursor \in Nat /\ loop.cursor \in Nat /\ request.got.cursor \in Nat
  BY StartIsNumbered
<1>1. s \in log' /\ LastStart(r, s)'
  BY <1>0, LastStartKept
<1>2. /\ loop'.cursor = loop.cursor
      /\ loop'.at \in {"on", "back"} =>
           \/ loop.at \in {"on", "back"}
           \/ loop.cursor = request.got.cursor /\ ~view.known
  BY RefreshAt
<1>3. ASSUME whole, loop'.at \in {"on", "back"}, s.seq <= loop.cursor
      PROVE  /\ s.seq <= view'.cursor /\ Shows(view', r)
             /\ PauseIsRead(r, s, loop.cursor) => view'.status = run[r]
  <2>a. CASE view.known /\ loop.at \in {"on", "back"}
    <3>1. /\ s.seq <= view.cursor /\ Shows(view, r)
          /\ PauseIsRead(r, s, loop.cursor) => view.status = run[r]
      BY <1>3, <2>a DEF ViewFollows
    <3>2. CASE view.cursor <= request.got.cursor
      <4>1. /\ s.seq <= request.got.cursor /\ Shows(request.got, r)
            /\ PauseIsRead(r, s, request.got.cursor) => request.got.status = run[r]
        BY <1>0, <1>n, <3>1, <3>2 DEF AnswerFollows
      <4>2. request.got.status \in Active /\ request.got.run = view.run
        BY <1>0, <3>1, <4>1, Statuses DEF Shows
      <4>3. view' = IF view.status = "waiting_takeover"
                    THEN [request.got EXCEPT !.status = "waiting_takeover"] ELSE request.got
        BY <1>0, <1>n, <3>2, <4>2 DEF Reconciled
      <4>4. CASE view.status = "waiting_takeover"
        <5>1. run[r] = "waiting_takeover"
          BY <3>1, <4>4 DEF Shows
        <5> QED
          BY <1>0, <4>1, <4>3, <4>4, <5>1 DEF Shows, View
      <4>5. CASE view.status # "waiting_takeover"
        <5>1. ASSUME PauseIsRead(r, s, loop.cursor)
              PROVE  request.got.status = run[r]
          <6>1. run[r] = "waiting_input"
            BY <3>1, <4>5, <5>1, Statuses DEF PauseIsRead
          <6>2. PauseIsRead(r, s, request.got.cursor)
            BY <1>0, <1>3, <2>a, <5>1, <6>1 DEF QuestionIsAnswered
          <6> QED
            BY <4>1, <6>2
        <5> QED
          BY <4>1, <4>3, <4>5, <5>1
      <4> QED
        BY <4>4, <4>5
    <3>3. CASE ~(view.cursor <= request.got.cursor)
      <4>1. view.run # NoRun /\ ~(request.got.cursor >= view.cursor)
        BY <1>n, <3>1, <3>3 DEF Shows, NoRun, Runs
      <4>2. view' = view
        BY <1>0, <2>a, <4>1 DEF Reconciled
      <4> QED
        BY <3>1, <4>2
    <3> QED
      BY <3>2, <3>3
  <2>b. CASE ~view.known
    <3>1. s.seq <= request.got.cursor /\ loop.cursor = request.got.cursor
      BY <1>n, <1>2, <1>3, <2>b DEF Kept, NothingSkipped
    <3>2. view.status # "waiting_takeover"
      BY <2>b, Statuses DEF Told, NothingFromAhead
    <3>3. view' = request.got
      BY <1>0, <2>b, <3>2 DEF Reconciled
    <3>4. /\ Shows(request.got, r)
          /\ PauseIsRead(r, s, request.got.cursor) => request.got.status = run[r]
      BY <1>0, <3>1 DEF AnswerFollows
    <3> QED
      BY <3>1, <3>3, <3>4
  <2> QED
    BY <1>2, <1>3, <2>a, <2>b
<1>4. ViewFollows(r, s)'
  BY <1>0, <1>2, <1>3 DEF ViewFollows, Shows, PauseIsRead
<1>5. AnswerFollows(r, s)' /\ QuestionIsAnswered(r, s)'
  BY <1>0 DEF AnswerFollows, QuestionIsAnswered
<1> QED
  BY <1>1, <1>4, <1>5

\* What follows the start on the stream is the run's, and ends with its pause.
LEMMA ReceiveFollows ==
  ASSUME TypeOK, TypeOK', Kept, NEW r \in Runs, NEW s \in log, IsOnlyRun(r), Follows(r, s),
         NEW e \in buffer, Receive(e)
  PROVE  s \in log' /\ Follows(r, s)'
<1> USE DEF Follows
<1>0. /\ UNCHANGED <<log, run>> /\ buffer' \subseteq log \cup buffer
      /\ view \in View /\ whole \in BOOLEAN
      /\ whole' = (whole /\ view.known)
      /\ ~view.known => view' = view
      /\ view.known => view' = Reduced(view, e)
  BY DEF TypeOK, Receive, thread
<1>n. /\ s.seq \in Nat /\ 1 <= s.seq /\ \A b \in log \cup buffer : b.seq \in Nat
      /\ view.cursor \in Nat /\ loop.cursor \in Nat /\ request.got.cursor \in Nat
  BY StartIsNumbered
<1>1. s \in log' /\ LastStart(r, s)'
  BY <1>0, LastStartKept
<1>2. /\ e \in Event /\ loop.at = "on" /\ loop'.at = "on"
      /\ loop'.cursor = e.seq /\ loop.cursor < e.seq
      /\ \A f \in log : f.seq <= e.seq => f.seq <= loop.cursor \/ f = e
  BY ReceivePasses
\* The pause the stream has now brought, it had brought before, or this is it.
<1>3. PauseIsRead(r, s, e.seq) =>
        PauseIsRead(r, s, loop.cursor) \/ (e.type = run[r] /\ run[r] \in Waiting /\ s.seq < e.seq)
  BY <1>2 DEF PauseIsRead
<1>4. ASSUME whole', view.known, s.seq <= e.seq
      PROVE  /\ s.seq <= view'.cursor /\ Shows(view', r)
             /\ PauseIsRead(r, s, e.seq) => view'.status = run[r]
  <2>1. CASE s.seq <= loop.cursor
    <3>1. /\ s.seq <= view.cursor /\ Shows(view, r)
          /\ PauseIsRead(r, s, loop.cursor) => view.status = run[r]
      BY <1>0, <1>2, <1>4, <2>1 DEF ViewFollows
    <3>2. /\ s.seq < e.seq
          /\ e.type = "progress" \/ (e.run = r /\ e.type \in {"message"} \cup Waiting)
          /\ e.type \in Waiting => e.run = r /\ e.type = run[r]
      BY <1>n, <1>2, <2>1, Statuses DEF LastStart
    <3>3. s.seq <= view'.cursor
      <4>1. view'.cursor \in {view.cursor, e.seq}
        BY <1>0, <1>2, <1>4, ReducedIs
      <4> QED
        BY <1>4, <3>1, <4>1
    <3>4. CASE e.type \in {"progress", "message"}
      <4>1. view'.run = view.run /\ view'.status = view.status
        BY <1>0, <1>2, <1>4, <3>4, ReducedShows
      <4> QED
        BY <1>3, <3>1, <3>3, <3>4, <4>1, Statuses DEF Shows
    <3>5. CASE e.type \in Waiting
      <4>1. view'.run = view.run /\ view'.status = e.type
        BY <1>0, <1>2, <1>4, <3>1, <3>2, <3>5, ReducedShows DEF Shows
      <4> QED
        BY <3>1, <3>2, <3>3, <3>5, <4>1 DEF Shows
    <3> QED
      BY <3>2, <3>4, <3>5
  <2>2. CASE ~(s.seq <= loop.cursor)
    <3>1. s = e /\ e.type = "started" /\ e.run = r
      BY <1>2, <1>4, <2>2 DEF LastStart
    <3>2. view'.run = r /\ view'.status = "running" /\ view'.cursor = e.seq
      BY <1>0, <1>2, <1>4, <3>1, ReducedShows
    <3>3. ~PauseIsRead(r, s, e.seq)
      BY <1>n, <3>1 DEF PauseIsRead
    <3> QED
      BY <1>4, <3>2, <3>3 DEF Shows
  <2> QED
    BY <2>1, <2>2
<1>5. ViewFollows(r, s)'
  BY <1>0, <1>2, <1>4 DEF ViewFollows, Shows, PauseIsRead
<1>6. request'.at = "answered" => request' = request /\ e.type # "waiting_input"
  BY DEF Receive, NoRequest, Ask
<1>7. AnswerFollows(r, s)'
  BY <1>0, <1>6 DEF AnswerFollows, Shows, PauseIsRead
<1>8. QuestionIsAnswered(r, s)'
  <2>1. ASSUME whole, request.at = "answered", run[r] = "waiting_input",
               PauseIsRead(r, s, e.seq), e.type # "waiting_input"
        PROVE  s.seq <= request.got.cursor /\ PauseIsRead(r, s, request.got.cursor)
    BY <1>2, <1>3, <2>1 DEF QuestionIsAnswered
  <2> QED
    BY <1>0, <1>2, <1>6, <2>1 DEF QuestionIsAnswered, PauseIsRead
<1> QED
  BY <1>1, <1>5, <1>7, <1>8

\* A clear that returns late has lost the thread's first message, if the page shows the
\* run at all: the run is younger than that.
LEMMA ClearReturnsFollows ==
  ASSUME TypeOK, TypeOK', Kept, NEW r \in Runs, NEW s \in log, IsOnlyRun(r), Follows(r, s),
         ClearReturns
  PROVE  s \in log' /\ Follows(r, s)'
<1> USE DEF Follows
<1>0. /\ UNCHANGED <<log, run, loop, buffer>> /\ buffer' \subseteq log \cup buffer
      /\ view'.known = view.known /\ request'.at = "none"
      /\ whole' => whole /\ view.msgs \cap Messages = {}
  BY DEF ClearReturns, thread, TypeOK, View, NoRequest
<1>1. s \in log' /\ LastStart(r, s)'
  BY <1>0, LastStartKept
<1>2. ~(whole' /\ view.known /\ loop.at \in {"on", "back"} /\ s.seq <= loop.cursor)
  <2> SUFFICES ASSUME whole', view.known, loop.at \in {"on", "back"}, s.seq <= loop.cursor
               PROVE  FALSE
    OBVIOUS
  <2>1. PICK m \in Messages : m < s.seq
    BY DEF LastStart
  <2>2. m \in Nat /\ m <= loop.cursor
    BY <2>1, StartIsNumbered, MessagesAre DEF Kept
  <2>3. m \in view.msgs
    BY <1>0, <2>1, <2>2 DEF Kept, NothingSkipped
  <2> QED
    BY <1>0, <2>1, <2>3
<1>3. ViewFollows(r, s)'
  BY <1>0, <1>2 DEF ViewFollows
<1>4. AnswerFollows(r, s)' /\ QuestionIsAnswered(r, s)'
  BY <1>0 DEF AnswerFollows, QuestionIsAnswered
<1> QED
  BY <1>1, <1>3, <1>4

LEMMA SoleStep ==
  ASSUME TypeOK, Kept, Told, Sole, [Next]_vars
  PROVE  Sole'
<1> USE DEF Sole
<1>0. TypeOK' /\ nextSeq \in Nat
  BY TypeStep DEF TypeOK
<1>1. CASE Clear \/ Stop \/ StopDeletesProgress \/ \E r \in Runs : Run(r)
  <2>1. OneAtWork'
    BY <1>1, WorkStep
  <2>2. ASSUME NEW r \in Runs, IsOnlyRun(r)'
        PROVE  \E s \in log' : Follows(r, s)'
    <3>1. CASE Start(r) \/ StartLate(r)
      BY <1>0, <2>2, <3>1, StartFollows
    <3>2. CASE /\ IsOnlyRun(r)
               /\ \/ StopDeletesProgress \/ \E q \in Runs : Progress(q)
                  \/ PauseForInput(r) \/ PauseForTakeover(r)
      <4>1. PICK s \in log : Follows(r, s)
        BY <3>2 DEF OnlyRunIsShown
      <4> QED
        BY <1>0, <3>2, <4>1, WorkFollows
    <3> QED
      BY <1>1, <2>2, <3>1, <3>2, WorkStep
  <2> QED
    BY <2>1, <2>2 DEF OnlyRunIsShown
\* The page: neither the log nor the runs change.
<1>2. ASSUME UNCHANGED <<log, run, alone, stale>>,
             \A r \in Runs : \A s \in log :
               IsOnlyRun(r) /\ Follows(r, s) => s \in log' /\ Follows(r, s)'
      PROVE  Sole'
  <2>1. OneAtWork'
    BY <1>2 DEF OneAtWork, ActiveRuns, Messages
  <2>2. ASSUME NEW r \in Runs, IsOnlyRun(r)'
        PROVE  \E s \in log' : Follows(r, s)'
    <3>1. IsOnlyRun(r)
      BY <1>2, <2>2 DEF IsOnlyRun, Listed
    <3>2. PICK s \in log : Follows(r, s)
      BY <3>1 DEF OnlyRunIsShown
    <3> QED
      BY <1>2, <3>1, <3>2
  <2> QED
    BY <2>1, <2>2 DEF OnlyRunIsShown
<1>3. ASSUME Quiet, UNCHANGED <<alone, stale>>
      PROVE  Sole'
  <2>1. UNCHANGED <<log, run, alone, stale>>
    BY <1>3 DEF Quiet, Asks
  <2> QED
    BY <1>0, <1>2, <1>3, <2>1, QuietFollows
<1>4. CASE RefreshFails \/ Look \/ SubscribeAnyway \/ ObsoleteFails \/ Break \/ Return \/ StopReturns
  <2>1. UNCHANGED <<alone, stale>>
    BY <1>4 DEF RefreshFails, Look, SubscribeAnyway, ObsoleteFails, Break, Return, StopReturns
  <2> QED
    BY <1>3, <1>4, <2>1, PageIsQuiet
<1>5. CASE Refreshes
  <2>1. ASSUME NEW seq \in 0..nextSeq, AnswerObsolete(seq)
        PROVE  Sole'
    <3>1. /\ UNCHANGED <<log, run, alone, stale, view, buffer, request, whole>>
          /\ loop'.at = "answered" /\ buffer' \subseteq log \cup buffer
      BY <2>1 DEF AnswerObsolete, thread
    <3>2. ASSUME NEW r \in Runs, NEW s \in log, Follows(r, s)
          PROVE  s \in log' /\ Follows(r, s)'
      <4>1. s \in log' /\ LastStart(r, s)'
        BY <3>1, <3>2, LastStartKept DEF Follows
      <4> QED
        BY <3>1, <3>2, <4>1 DEF Follows, ViewFollows, AnswerFollows, QuestionIsAnswered, Shows,
                                PauseIsRead
    <3> QED
      BY <1>2, <3>1, <3>2
  <2>2. ASSUME NEW seq \in 0..nextSeq, NEW q \in Runs \cup {NoRun}, Answer(seq, q)
        PROVE  Sole'
    <3>1. UNCHANGED <<log, run, alone, stale>> /\ seq \in Nat
      BY <1>0, <2>2 DEF Answer, thread
    <3> QED
      BY <1>0, <1>2, <2>2, <3>1, AnswerFollowsIt
  <2>3. CASE Refresh
    <3>1. UNCHANGED <<log, run, alone, stale>>
      BY <2>3 DEF Refresh, thread
    <3> QED
      BY <1>0, <1>2, <2>3, <3>1, RefreshFollows
  <2> QED
    BY <1>4, <1>5, <2>1, <2>2, <2>3 DEF Refreshes
<1>6. CASE Stream
  <2>1. CASE Read
    <3>1. /\ UNCHANGED <<log, run, alone, stale, view, loop, request, whole>>
          /\ buffer' \subseteq log \cup buffer
      BY <2>1 DEF Read, thread, Unread
    <3>2. ASSUME NEW r \in Runs, NEW s \in log, Follows(r, s)
          PROVE  s \in log' /\ Follows(r, s)'
      <4>1. s \in log' /\ LastStart(r, s)'
        BY <3>1, <3>2, LastStartKept DEF Follows
      <4> QED
        BY <3>1, <3>2, <4>1 DEF Follows, ViewFollows, AnswerFollows, QuestionIsAnswered, Shows,
                                PauseIsRead
    <3> QED
      BY <1>2, <3>1, <3>2
  <2>2. ASSUME NEW e \in buffer, Receive(e)
        PROVE  Sole'
    <3>1. UNCHANGED <<log, run, alone, stale>>
      BY <2>2 DEF Receive, thread
    <3> QED
      BY <1>0, <1>2, <2>2, <3>1, ReceiveFollows
  <2> QED
    BY <1>4, <1>6, <2>1, <2>2 DEF Stream
<1>7. CASE ClearReturns
  <2>1. UNCHANGED <<log, run, alone, stale>>
    BY <1>7 DEF ClearReturns, thread
  <2> QED
    BY <1>0, <1>2, <1>7, <2>1, ClearReturnsFollows
<1>8. CASE UNCHANGED vars
  BY <1>3, <1>8 DEF vars, thread, page, Quiet, Asks
<1> QED
  BY <1>1, <1>4, <1>5, <1>6, <1>7, <1>8 DEF Next

LEMMA SoleAlways == Spec => [](TypeOK /\ Kept /\ Told /\ Sole)
<1>1. Init => TypeOK /\ Kept /\ Told /\ Sole
  BY TypeInit, KeptInit, ToldInit, SoleInit
<1>2. TypeOK /\ Kept /\ Told /\ Sole /\ [Next]_vars => (TypeOK /\ Kept /\ Told /\ Sole)'
  BY TypeStep, KeptStep, ToldStep, SoleStep
<1> QED
  BY <1>1, <1>2, PTL DEF Spec

\* A page that has received everything, and waits for nothing, shows the thread: its
\* messages, no run as active that has ended, and the only run at work with its status,
\* but for runs announced again when they waited or had ended (threadSnapshot,
\* reconcileRefreshedThread, reduceThreadSnapshot, the page's stop and clear).
THEOREM CaughtUpAgrees == Spec => []AgreesWhenCaughtUp
<1>1. TypeOK /\ Kept /\ Told /\ Sole => AgreesWhenCaughtUp
  <2> SUFFICES ASSUME TypeOK, Kept, Told, Sole, view.known, whole, CaughtUp
               PROVE  /\ view.msgs = Messages
                      /\ \A r \in Shown(view) \ stale : run[r] \in Active \cup {"cancelled"}
                      /\ alone => \A r \in Runs \ stale : run[r] \in Engaged /\ Listed = {r} =>
                           view.run = r /\ view.status = run[r]
    BY DEF AgreesWhenCaughtUp
  <2>0. /\ loop.at = "on" /\ passed = loop.cursor /\ loop.cursor \in Nat
        /\ \A e \in log : e.seq \in Nat /\ e.seq <= loop.cursor
    BY DEF CaughtUp, Unread, passed, TypeOK, Loop, Event
  <2>1. view.msgs \subseteq Messages
    BY <2>0 DEF Told, GoneIsCleared, ClearsAfter
  <2>2. ASSUME NEW m \in Messages
        PROVE  m \in view.msgs
    <3>1. PICK e \in log : e.seq = m
      BY MessagesAre DEF Kept
    <3> QED
      BY <2>0, <3>1 DEF Kept, NothingSkipped
  <2>3. ASSUME NEW r \in Shown(view) \ stale
        PROVE  run[r] \in Active \cup {"cancelled"}
    <3>1. view.status \in Active /\ r = view.run
      BY <2>3 DEF Shown
    <3>2. Alive(r, loop.cursor)
      BY <2>0, <3>1 DEF Told, ShownIsAlive
    <3> QED
      BY <2>0, <3>2 DEF Alive, EndsAfter, Lasts
  <2>4. ASSUME alone, NEW r \in Runs \ stale, run[r] \in Engaged, Listed = {r}
        PROVE  view.run = r /\ view.status = run[r]
    <3>1. PICK s \in log : Follows(r, s)
      BY <2>4 DEF Sole, OnlyRunIsShown, IsOnlyRun
    <3>2. /\ Shows(view, r)
          /\ PauseIsRead(r, s, loop.cursor) => view.status = run[r]
      BY <2>0, <3>1 DEF Follows, ViewFollows
    <3>3. CASE run[r] \in Waiting
      <4>1. PauseIsRead(r, s, loop.cursor)
        BY <2>0, <3>1, <3>3 DEF Follows, LastStart, PauseIsRead
      <4> QED
        BY <3>2, <4>1 DEF Shows
    <3>4. CASE run[r] = "running"
      BY <3>2, <3>4 DEF Shows
    <3> QED
      BY <2>4, <3>3, <3>4, Statuses
  <2> QED
    BY <2>1, <2>2, <2>3, <2>4
<1> QED
  BY <1>1, SoleAlways, PTL
=============================================================================
