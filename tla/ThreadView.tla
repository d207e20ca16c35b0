----------------------------- MODULE ThreadView -----------------------------
(***************************************************************************)
(* What one page shows of a bot's thread: the snapshot it has fetched, the *)
(* events it has applied to it since, and the refreshes that replace it.   *)
(*                                                                         *)
(* A stream and a refresh reach the page over different connections and    *)
(* overtake each other.  The page has two cursors: that of its snapshot,   *)
(* which decides whether a refresh is newer, and that of its stream, which *)
(* decides what a reconnect asks for.                                      *)
(***************************************************************************)
EXTENDS Naturals, FiniteSets

CONSTANTS
  MaxRuns,     \* bound on the runs of the thread
  MaxEvents,   \* bound on its events
  MaxDetours   \* bound on broken streams, failed or extra refreshes, lost run leases, and
               \* events of invocations without one

ASSUME ViewConstantsOK ==
  MaxRuns \in Nat /\ MaxEvents \in Nat /\ MaxDetours \in Nat

VARIABLES
  nextSeq,   \* thread.nextEventSeq; the first event is 1 here, so 0 stands for -1
  log,       \* the thread's events
  run,       \* the status of each run, in the order they are created
  doomed,    \* runs another page has stopped, whose progress is still to be deleted
  view,      \* snapshotRef.current
  loop,      \* the loop that subscribes: where it is, and its own cursor
  buffer,    \* events of its stream that the page has not received yet
  request,   \* the latest threads.get; the page ignores the answers to earlier ones
  call,      \* the page's own call of the API
  detours,   \* detours taken so far
  dead,      \* only for checking: runs this page has stopped
  whole,     \* only for checking: nothing was lost in one of the ways listed below
  alone,     \* only for checking: no run was started beside another
  stale      \* only for checking: runs announced late when they waited or had ended

thread == <<nextSeq, log, run, doomed>>
page == <<view, loop, buffer, request, call>>
vars == <<thread, page, detours, dead, whole, alone, stale>>

-----------------------------------------------------------------------------
(* Types *)

Runs == 1..MaxRuns
NoRun == 0

Waiting == {"waiting_input", "waiting_takeover"}
Active == {"queued", "running"} \cup Waiting   \* "queued" until run.started is appended
Engaged == {"running"} \cup Waiting
Status == {"none", "completed", "failed", "cancelled"} \cup Active

EventType == {"message", "updated", "started", "progress", "waiting_input",
              "waiting_takeover", "released", "ended", "cleared"}
Event == [seq  : Nat,
          type : EventType,
          run  : Runs \cup {NoRun},
          msg  : Nat]   \* the message it brings, named by its first event
\* The next event but `ahead'; only an update brings an earlier message.
Event1(ahead, type, r, m) ==
  {[seq |-> nextSeq + 1 + ahead, type |-> type, run |-> r, msg |-> m]}
Said(r) == Event1(0, "message", r, nextSeq + 1)

View == [known  : BOOLEAN,        \* not null
         cursor : Nat,
         run    : Runs \cup {NoRun},
         status : Status,         \* of that run
         msgs   : SUBSET Nat,
         live   : SUBSET (Runs \cup {NoRun})]   \* runs with a progress bubble
Blank == [known |-> FALSE, cursor |-> 0, run |-> NoRun, status |-> "none",
          msgs |-> {}, live |-> {}]

Request == [at : {"none", "asked", "answered"}, by : {"loop", "page"}, got : View]
NoRequest == [at |-> "none", by |-> "page", got |-> Blank]
Ask(by) == [at |-> "asked", by |-> by, got |-> Blank]

Loop == [at : {"asked", "answered", "on", "back"}, cursor : Nat]

Call == [at : {"none", "returns", "stopping", "stopped", "cleared"}, runs : SUBSET Runs]
NoCall == [at |-> "none", runs |-> {}]

TypeOK ==
  /\ nextSeq \in Nat
  /\ log \subseteq Event
  /\ run \in [Runs -> Status]
  /\ doomed \subseteq Runs
  /\ view \in View
  /\ loop \in Loop
  /\ buffer \subseteq Event
  /\ request \in Request
  /\ call \in Call
  /\ detours \in 0..MaxDetours
  /\ dead \subseteq Runs
  /\ whole \in BOOLEAN /\ alone \in BOOLEAN /\ stale \subseteq Runs

-----------------------------------------------------------------------------
(* Helpers *)

Detour == detours < MaxDetours /\ detours' = detours + 1
Room(n) == nextSeq + n <= MaxEvents

Messages == {e.msg : e \in {f \in log : f.type = "message"}}
ProgressOf(rs) == {e \in log : e.type = "progress" /\ e.run \in rs}
Unread(seq) == {e \in log : e.seq > seq}

\* isActive and activeThreadRuns, for the one run a bot's thread shows.
Shown(v) == IF v.status \in Active THEN {v.run} ELSE {}

\* Whoever calls the API: this page, which then waits, or somebody else.
Called(at, rs) ==
  \/ call' = call
  \/ call.at = "none" /\ call' = [at |-> at, runs |-> rs]

Init ==
  /\ nextSeq = 0 /\ log = {}
  /\ run = [r \in Runs |-> "none"]
  /\ doomed = {}
  /\ view = Blank
  /\ loop = [at |-> "asked", cursor |-> 0]
  /\ buffer = {}
  /\ request = Ask("loop")
  /\ call = NoCall
  /\ detours = 0
  /\ dead = {} /\ whole = TRUE /\ alone = TRUE /\ stale = {}

-----------------------------------------------------------------------------
(* The thread: transactions that hold its row *)

\* sendThreadMessage: a message and a run; the runs still queued are superseded.
Send(r) ==
  /\ run[r] = "none" /\ \A q \in Runs : q < r => run[q] # "none"
  /\ Room(1)
  /\ nextSeq' = nextSeq + 1
  /\ log' = log \cup Said(r)
  /\ \E superseded \in SUBSET {q \in Runs : run[q] = "queued"} :
       run' = [q \in Runs |-> IF q = r THEN "queued"
                              ELSE IF q \in superseded THEN "cancelled" ELSE run[q]]
  /\ Called("returns", {})
  /\ UNCHANGED <<doomed, view, loop, buffer, request, detours, dead, whole, alone, stale>>

\* continueRun announces that it runs the run.
Start(r) ==
  /\ run[r] = "queued" /\ Room(1)
  /\ nextSeq' = nextSeq + 1
  /\ log' = log \cup Event1(0, "started", r, 0)
  /\ run' = [run EXCEPT ![r] = "running"]
  /\ alone' = (alone /\ \A q \in Runs : run[q] \notin Engaged)
  /\ stale' = stale \ {r}
  /\ UNCHANGED <<doomed, page, detours, dead, whole>>

\* An invocation that has lost its lease announces the run as well: nothing looks at the
\* lease, and only the history of a cancelled run is closed (assertRunCanWriteHistory).
StartLate(r) ==
  /\ run[r] \notin {"none", "cancelled"} /\ Room(1) /\ Detour
  /\ nextSeq' = nextSeq + 1
  /\ log' = log \cup Event1(0, "started", r, 0)
  /\ alone' = (alone /\ \A q \in Runs \ {r} : run[q] \notin Engaged)
  /\ stale' = stale \cup ({r} \ {q \in Runs : run[q] \in {"queued", "running"}})
  /\ UNCHANGED <<run, doomed, page, dead, whole>>

\* An invocation looks at its lease once a second: what it reports may come late, too.
Progress(r) ==
  /\ \/ run[r] = "running" /\ UNCHANGED detours
     \/ run[r] \notin {"none", "cancelled"} /\ Detour
  /\ Room(1)
  /\ nextSeq' = nextSeq + 1
  /\ log' = log \cup Event1(0, "progress", r, 0)
  /\ UNCHANGED <<run, doomed, page, dead, whole, alone, stale>>

\* Its lease is lost, or its computer is not to be had: it will be started again.
Requeue(r) ==
  /\ run[r] = "running" /\ Detour
  /\ run' = [run EXCEPT ![r] = "queued"]
  /\ UNCHANGED <<nextSeq, log, doomed, page, dead, whole, alone, stale>>

\* pauseRunForInput: the card, the event, and the run's progress goes.
PauseForInput(r) ==
  /\ run[r] = "running" /\ Room(2)
  /\ nextSeq' = nextSeq + 2
  /\ log' = (log \ ProgressOf({r})) \cup Said(r) \cup Event1(1, "waiting_input", r, 0)
  /\ run' = [run EXCEPT ![r] = "waiting_input"]
  /\ UNCHANGED <<doomed, page, detours, dead, whole, alone, stale>>

PauseForTakeover(r) ==
  /\ run[r] = "running" /\ Room(1)
  /\ nextSeq' = nextSeq + 1
  /\ log' = (log \ ProgressOf({r})) \cup Event1(0, "waiting_takeover", r, 0)
  /\ run' = [run EXCEPT ![r] = "waiting_takeover"]
  /\ UNCHANGED <<doomed, page, detours, dead, whole, alone, stale>>

\* answerRunInput: the run's last message is its card.
AnswerInput(r) ==
  /\ run[r] = "waiting_input" /\ Room(1)
  /\ \E m \in Messages : \E e \in log :
       /\ e.msg = m /\ e.type = "message" /\ e.run = r
       /\ \A f \in log : f.type = "message" /\ f.run = r => f.seq <= e.seq
       /\ log' = log \cup Event1(0, "updated", r, m)
  /\ nextSeq' = nextSeq + 1
  /\ run' = [run EXCEPT ![r] = "queued"]
  /\ Called("returns", {})
  /\ UNCHANGED <<doomed, view, loop, buffer, request, detours, dead, whole, alone, stale>>

\* finalizeComputerControlRelease, of a user or of an expired lease.
ReleaseControl(r) ==
  /\ run[r] = "waiting_takeover" /\ Room(1)
  /\ nextSeq' = nextSeq + 1
  /\ log' = log \cup Event1(0, "released", r, 0)
  /\ run' = [run EXCEPT ![r] = "queued"]
  /\ Called("returns", {})
  /\ UNCHANGED <<doomed, view, loop, buffer, request, detours, dead, whole, alone, stale>>

\* finalizeRun: only a completed run leaves a message.
Complete(r) ==
  /\ run[r] = "running" /\ Room(2)
  /\ nextSeq' = nextSeq + 2
  /\ log' = (log \ ProgressOf({r})) \cup Said(r) \cup Event1(1, "ended", r, 0)
  /\ run' = [run EXCEPT ![r] = "completed"]
  /\ UNCHANGED <<doomed, page, detours, dead, whole, alone, stale>>

Fail(r) ==
  /\ run[r] = "running" /\ Room(1)
  /\ nextSeq' = nextSeq + 1
  /\ log' = (log \ ProgressOf({r})) \cup Event1(0, "ended", r, 0)
  /\ run' = [run EXCEPT ![r] = "failed"]
  /\ UNCHANGED <<doomed, page, detours, dead, whole, alone, stale>>

ActiveRuns == {r \in Runs : run[r] \in Active}
Cancelled(rs) == [r \in Runs |-> IF r \in rs THEN "cancelled" ELSE run[r]]

ClearKeepingLog ==
  /\ Room(1)
  /\ nextSeq' = nextSeq + 1
  /\ log' = log \cup Event1(0, "cleared", NoRun, 0)
  /\ run' = Cancelled(ActiveRuns)
  /\ Called("cleared", {})
  /\ UNCHANGED <<doomed, view, loop, buffer, request, detours, dead, whole, alone, stale>>

\* clearThread: one transaction, and an event.
Clear ==
  /\ Room(1)
  /\ nextSeq' = nextSeq + 1
  /\ log' = Event1(0, "cleared", NoRun, 0)
  /\ run' = Cancelled(ActiveRuns)
  /\ Called("cleared", {})
  /\ UNCHANGED <<doomed, view, loop, buffer, request, detours, dead, whole, alone, stale>>

\* stopThreadRuns cancels the active runs, and in another statement deletes their
\* progress; it appends no event.  The page offers it while it shows a run as active.
Stop ==
  /\ run' = Cancelled(ActiveRuns)
  /\ \/ /\ Shown(view) # {} /\ call.at = "none"
        /\ call' = [at |-> "stopping", runs |-> ActiveRuns] /\ doomed' = doomed
     \/ /\ ActiveRuns # {}
        /\ doomed' = doomed \cup ActiveRuns /\ call' = call
  /\ UNCHANGED <<nextSeq, log, view, loop, buffer, request, detours, dead, whole, alone, stale>>

StopDeletesProgress ==
  /\ \/ /\ call.at = "stopping"
        /\ call' = [call EXCEPT !.at = "stopped"]
        /\ log' = log \ ProgressOf(call.runs) /\ doomed' = doomed
     \/ /\ doomed # {}
        /\ doomed' = {}
        /\ log' = log \ ProgressOf(doomed) /\ call' = call
  /\ UNCHANGED <<nextSeq, run, view, loop, buffer, request, detours, dead, whole, alone, stale>>

-----------------------------------------------------------------------------
(* The page: refreshes *)

\* threadSnapshot shows the newest run that is active or failed.
Listed == {r \in Runs : run[r] \in Active \cup {"failed"}}
IsNewest(r) == IF Listed = {} THEN r = NoRun ELSE r \in Listed /\ \A q \in Listed : q <= r
IsLast(seq) == /\ \A e \in log : e.seq <= seq
               /\ seq = 0 \/ \E e \in log : e.seq = seq
Snapshot(seq, r) ==
  [known  |-> TRUE,
   cursor |-> seq,
   run    |-> r,
   status |-> IF r = NoRun THEN "none" ELSE run[r],
   msgs   |-> Messages,
   live   |-> {q \in Runs : q = r /\ run[q] \in Active /\ ProgressOf({q}) # {}}]

\* threads.get, under a shared lock of the thread's row.
Answer(seq, r) ==
  /\ request.at = "asked" /\ IsLast(seq) /\ IsNewest(r)
  /\ request' = [request EXCEPT !.at = "answered", !.got = Snapshot(seq, r)]
  /\ loop' = IF request.by = "loop" /\ loop.at = "asked"
             THEN [at |-> "answered", cursor |-> seq] ELSE loop
  /\ UNCHANGED <<thread, view, buffer, call, detours, dead, whole, alone, stale>>

\* The same for the loop's first request, once a later one has made it obsolete: the page
\* ignores its snapshot, the loop does not ignore its cursor.
AnswerObsolete(seq) ==
  /\ loop.at = "asked" /\ request.by = "page" /\ IsLast(seq)
  /\ loop' = [at |-> "answered", cursor |-> seq]
  /\ UNCHANGED <<thread, view, buffer, request, call, detours, dead, whole, alone, stale>>

\* reconcileRefreshedThread
ReconciledAlways(prev, snap) == snap
Reconciled(prev, snap) ==
  IF ~prev.known \/ snap.cursor >= prev.cursor
  THEN IF /\ prev.status = "waiting_takeover" /\ snap.run = prev.run
          /\ snap.status \in Active
       THEN [snap EXCEPT !.status = "waiting_takeover"]
       ELSE snap
  ELSE IF prev.run = NoRun /\ snap.run \in prev.live
       THEN [prev EXCEPT !.run = snap.run, !.status = snap.status]
       ELSE prev

\* The answer arrives at refreshThread; the loop, if it waits for it, goes on from the
\* answer's cursor if it is its first, and from its own otherwise.
Refresh ==
  /\ request.at = "answered"
  /\ view' = Reconciled(view, request.got)
  /\ request' = NoRequest
  /\ loop' = IF request.by = "loop" THEN [loop EXCEPT !.at = "on"] ELSE loop
  /\ UNCHANGED <<thread, buffer, call, detours, dead, whole, alone, stale>>

\* A refresh fails; the loop goes on without a snapshot, the first time from the start.
RefreshFails ==
  /\ request.at # "none" /\ Detour
  /\ request' = NoRequest
  /\ loop' = IF request.by # "loop" THEN loop
             ELSE [at |-> "on", cursor |-> IF loop.at = "back" THEN loop.cursor ELSE 0]
  /\ UNCHANGED <<thread, view, buffer, call, dead, whole, alone, stale>>

\* The page asks whenever its user opens a panel.
Look ==
  /\ Detour
  /\ request' = Ask("page")
  /\ UNCHANGED <<thread, view, loop, buffer, call, dead, whole, alone, stale>>

-----------------------------------------------------------------------------
(* The page: its stream *)

\* The loop's request is obsolete.  The loop goes on when the answer is there, or has
\* failed: the first time from the cursor of a snapshot the page has not shown.
SubscribeAnyway ==
  /\ request.by = "page"
  /\ \/ loop.at = "back" /\ whole' = whole
     \/ loop.at = "answered" /\ whole' = FALSE
  /\ loop' = [loop EXCEPT !.at = "on"]
  /\ UNCHANGED <<thread, view, buffer, request, call, detours, dead, alone, stale>>

ObsoleteFails ==
  /\ request.by = "page" /\ loop.at \in {"asked", "answered"} /\ Detour
  /\ loop' = [at |-> "on", cursor |-> 0]
  /\ UNCHANGED <<thread, view, buffer, request, call, dead, whole, alone, stale>>

\* followThreadEvents reads what there is.
Read ==
  /\ loop.at = "on" /\ buffer = {}
  /\ buffer' = Unread(loop.cursor) /\ buffer' # {}
  /\ UNCHANGED <<thread, view, loop, request, call, detours, dead, whole, alone, stale>>

\* reduceThreadSnapshot
Moved(v, e) == [v EXCEPT !.cursor = e.seq]
StartedUnlessShown(v, e) ==
  IF v.run = e.run THEN Moved(v, e)
  ELSE [Moved(v, e) EXCEPT !.run = e.run, !.status = "running"]
Started(v, e) == [Moved(v, e) EXCEPT !.run = e.run, !.status = "running"]
Reduced(v, e) ==
  CASE e.type = "cleared"  -> [Blank EXCEPT !.known = TRUE, !.cursor = e.seq]
    [] e.type = "started"  -> Started(v, e)
    [] e.type = "progress" -> [Moved(v, e) EXCEPT !.live = @ \cup {e.run}]
    [] e.type \in {"message", "updated"} ->
         [Moved(v, e) EXCEPT !.msgs = @ \cup {e.msg}, !.live = @ \ {e.run}]
    [] e.type = "ended" ->
         [Moved(v, e) EXCEPT !.live = @ \ {e.run},
            !.run = IF @ = e.run THEN NoRun ELSE @,
            !.status = IF v.run = e.run THEN "none" ELSE @]
    [] e.type \in Waiting ->
         LET bubble  == e.type = "waiting_input" /\ e.run \in v.live
             changed == v.run = e.run /\ v.status # e.type
         IN  IF ~bubble /\ ~changed THEN v
             ELSE [Moved(v, e) EXCEPT
                     !.live = IF bubble THEN @ \ {e.run} ELSE @,
                     !.status = IF changed THEN e.type ELSE @]
    [] OTHER -> v

\* An event arrives.  A clear makes the refreshes under way obsolete, and the end of a run
\* or a question makes the page ask for a new one.
Receive(e) ==
  /\ e \in buffer /\ \A f \in buffer : e.seq <= f.seq
  /\ buffer' = buffer \ {e}
  /\ loop' = [loop EXCEPT !.cursor = e.seq]
  /\ view' = IF view.known THEN Reduced(view, e) ELSE view
  /\ request' = CASE e.type = "cleared" -> NoRequest
                  [] e.type \in {"ended", "waiting_input"} -> Ask("page")
                  [] OTHER -> request
  /\ whole' = (whole /\ view.known)
  /\ UNCHANGED <<thread, call, detours, dead, alone, stale>>

BreakToNow ==
  /\ loop.at = "on" /\ Detour
  /\ loop' = [at |-> "back", cursor |-> nextSeq]
  /\ buffer' = {}
  /\ request' = Ask("loop")
  /\ UNCHANGED <<thread, view, call, dead, whole, alone, stale>>

\* The stream breaks with what is in flight.
Break ==
  /\ loop.at = "on" /\ Detour
  /\ loop' = [loop EXCEPT !.at = "back"]
  /\ buffer' = {}
  /\ request' = Ask("loop")
  /\ UNCHANGED <<thread, view, call, dead, whole, alone, stale>>

-----------------------------------------------------------------------------
(* The page: its calls return *)

\* followed by a refresh
Return ==
  /\ call.at = "returns"
  /\ call' = NoCall
  /\ request' = Ask("page")
  /\ UNCHANGED <<thread, view, loop, buffer, detours, dead, whole, alone, stale>>

StopReturnsSilently ==
  /\ call.at = "stopped"
  /\ view' = [view EXCEPT !.run = NoRun, !.status = "none", !.live = @ \ Shown(view)]
  /\ call' = NoCall
  /\ dead' = dead \cup call.runs
  /\ whole' = (whole /\ Shown(view) \cap ActiveRuns = {})
  /\ UNCHANGED <<thread, loop, buffer, request, detours, alone, stale>>

\* clearActiveThreadRuns, then a refresh
StopReturns ==
  /\ call.at = "stopped"
  /\ view' = [view EXCEPT !.run = NoRun, !.status = "none", !.live = @ \ Shown(view)]
  /\ call' = NoCall
  /\ request' = Ask("page")
  /\ dead' = dead \cup call.runs
  /\ whole' = (whole /\ Shown(view) \cap ActiveRuns = {})
  /\ UNCHANGED <<thread, loop, buffer, detours, alone, stale>>

\* The page empties its snapshot, and makes obsolete what it has asked.  It leaves
\* activeRuns to the event of the clear, which empties it too.
ClearReturns ==
  /\ call.at = "cleared"
  /\ view' = [view EXCEPT !.msgs = {}, !.live = {}, !.run = NoRun, !.status = "none"]
  /\ call' = NoCall
  /\ request' = NoRequest
  /\ whole' = (whole /\ view.msgs \cap Messages = {})
  /\ UNCHANGED <<thread, loop, buffer, detours, dead, alone, stale>>

-----------------------------------------------------------------------------
Run(r) ==
  \/ Send(r) \/ Start(r) \/ StartLate(r) \/ Progress(r) \/ Requeue(r)
  \/ PauseForInput(r) \/ PauseForTakeover(r) \/ AnswerInput(r) \/ ReleaseControl(r)
  \/ Complete(r) \/ Fail(r)

Refreshes ==
  \/ \E seq \in 0..nextSeq : AnswerObsolete(seq) \/ \E r \in Runs \cup {NoRun} : Answer(seq, r)
  \/ Refresh \/ RefreshFails \/ Look

Stream == SubscribeAnyway \/ ObsoleteFails \/ Read \/ (\E e \in buffer : Receive(e)) \/ Break

Next ==
  \/ \E r \in Runs : Run(r)
  \/ Clear \/ Stop \/ StopDeletesProgress
  \/ Refreshes \/ Stream
  \/ Return \/ StopReturns \/ ClearReturns

Spec == Init /\ [][Next]_vars

-----------------------------------------------------------------------------
(* Properties *)

\* The page never passes a message over: what its snapshot's cursor has passed is in its
\* transcript, or was cleared - though refreshes and events overtake each other, and a
\* reconnect replays what a refresh has brought (threadSnapshot, reconcileRefreshedThread,
\* reduceThreadSnapshot).  Three ways to lose one are excepted by `whole'.
NothingMissing ==
  view.known /\ whole => \A m \in Messages : m <= view.cursor => m \in view.msgs

\* Nothing is under way, and the page has received everything.
CaughtUp ==
  /\ loop.at = "on" /\ buffer = {} /\ Unread(loop.cursor) = {}
  /\ request.at = "none" /\ call.at = "none"

\* A page that has caught up shows the thread's messages.  It shows no run as active that
\* is not, but for cancelled ones, of which no event tells (stopThreadRuns,
\* cancelSupersededQueuedRuns), and for ended ones that an invocation without a lease has
\* announced again (continueRun); and if runs come one after the other, it shows the one
\* that is running or waits, with its status, unless that was announced again while it
\* waited.
AgreesWhenCaughtUp ==
  view.known /\ whole /\ CaughtUp =>
    /\ view.msgs = Messages
    /\ \A r \in Shown(view) \ stale : run[r] \in Active \cup {"cancelled"}
    /\ alone => \A r \in Runs \ stale :
         run[r] \in Engaged /\ Listed = {r} => view.run = r /\ view.status = run[r]

\* A refresh never takes a message back that is still in the thread: "a threads.get
\* started before SSE caught up must not wipe newer live state" (mergeThreadSnapshot).
RefreshKeepsMessages ==
  [][loop.cursor' = loop.cursor /\ call' = call
     => view.msgs \cap Messages' \subseteq view'.msgs]_vars

\* Only the stream can make the page show a run again that it has stopped: no refresh
\* does, however late its answer ("an older-cursor refresh must keep that cleared local
\* state", reconcileRefreshedThread, refreshThread's epochs).
RefreshNeverRevives ==
  [][buffer' = buffer => Shown(view') \cap dead \subseteq Shown(view)]_vars

\* Claimed where the page stops a run: its state is cleared at once so that nothing "can
\* leave Stop enabled / Take control blocked while the API is already idle"
\* (Shell.tsx, stopRun).
StoppedStaysStopped == CaughtUp => Shown(view) \cap dead = {}

-----------------------------------------------------------------------------
(* Why: the invariant the proof of NothingMissing rests on *)

\* An event keeps its number, a message is named by it, and a clear leaves nothing older.
LogInOrder ==
  /\ \A e \in log \cup buffer :
       /\ 1 <= e.seq /\ e.seq <= nextSeq
       /\ e.type = "message" => e.msg = e.seq
       /\ e.type = "cleared" => \A f \in log : e.seq <= f.seq
  /\ \A e, f \in log \cup buffer : e.seq = f.seq => e = f

\* What is in flight follows the stream's cursor, and without gaps.
StreamInOrder ==
  /\ loop.cursor <= nextSeq
  /\ buffer # {} => loop.at = "on"
  /\ \A b \in buffer :
       /\ loop.cursor < b.seq
       /\ \A e \in log : loop.cursor < e.seq /\ e.seq <= b.seq => e \in buffer

\* A snapshot under way has every message up to its cursor.  Whatever the stream has
\* brought beyond it has moved the cursor of the view: the page will not go back.
AnswerIsComplete ==
  /\ request.got.cursor <= nextSeq
  /\ request.at = "answered" =>
       /\ request.got.known
       /\ \A m \in Messages : m <= request.got.cursor => m \in request.got.msgs
       /\ whole /\ loop.at \in {"on", "back"} =>
            \A m \in Messages :
              request.got.cursor < m /\ m <= loop.cursor => m <= view.cursor
  /\ request.by = "loop" => loop.at # "on"
  /\ loop.at \in {"asked", "answered"} /\ request.by = "loop" =>
       /\ request.at = loop.at /\ ~view.known
       /\ loop.at = "answered" => loop.cursor = request.got.cursor

\* The page has what either of its cursors has passed.
NothingSkipped ==
  /\ view.cursor <= nextSeq
  /\ whole /\ loop.at \in {"on", "back"} =>
       IF view.known THEN \A m \in Messages : m <= loop.cursor => m \in view.msgs
                     ELSE loop.cursor = 0

\* The types, the order of events and the two cursors together (appendEventInTransaction,
\* followThreadEvents, threadSnapshot, and the loop of the page).
ViewInv ==
  TypeOK /\ LogInOrder /\ StreamInOrder /\ AnswerIsComplete /\ NothingSkipped /\ NothingMissing
=============================================================================
