---------------------------- MODULE ThreadEvents ----------------------------
(***************************************************************************)
(* The event log of one thread, the realtime fan-out of one API process,   *)
(* and the clients that follow the thread through it.                      *)
(*                                                                         *)
(* Events are durable and read by cursor.  A notification only says that   *)
(* there is something to read; it may be lost with the process that sends  *)
(* it or with the connection that receives it.                             *)
(***************************************************************************)
EXTENDS Naturals, FiniteSets

CONSTANTS
  Writers,     \* transactions that append to the thread, of any process
  Clients,     \* browser tabs, each with one stream of the thread
  None,        \* no writer
  BatchSize,   \* EVENT_BATCH_SIZE
  MaxEvents,   \* bound on the events of the thread
  MaxDetours   \* bound on lost signals and connections, aborts and stops

ASSUME FeedConstantsOK ==
  /\ None \notin Writers
  /\ BatchSize \in Nat \ {0}
  /\ MaxEvents \in Nat /\ MaxDetours \in Nat

VARIABLES
  nextSeq,    \* thread.nextEventSeq, with the increments of the lock's holder
  log,        \* the sequence numbers of the thread's events; the first is 1 here
  progress,   \* those of type thread.progress
  lock,       \* the writer that holds the thread's row
  work,       \* what each writer is doing
  conn,       \* the connection that listens
  wire,       \* notifications sent to it and not yet handled
  feed,       \* each client's followThreadEvents and its stream
  cursor,     \* each client's own cursor
  detours,    \* detours taken so far
  lost        \* only for checking: the last notification was lost

writing == <<nextSeq, log, progress, lock, work>>
fanout == <<conn, wire>>
vars == <<writing, fanout, feed, cursor, detours, lost>>

-----------------------------------------------------------------------------
(* Types *)

Kind == {"message", "progress", "settle", "clear"}
Size(kind) == IF kind = "settle" THEN 2 ELSE 1   \* events appended

Work == [at : {"idle", "notify"} \cup Kind, base : Nat]
NoWork == [at |-> "idle", base |-> 0]

Connection == {"off", "retry", "connecting", "listening", "up"}

Feed == [at      : {"closed", "off", "loop", "read", "yield", "wait"},
         pos     : Nat,          \* seq
         batch   : SUBSET Nat,   \* read and not yet yielded
         full    : BOOLEAN,      \* batchSize = EVENT_BATCH_SIZE
         changed : BOOLEAN,      \* the latch's generation is not the one observed
         sent    : SUBSET Nat]   \* yielded and not yet received
Closed == [at |-> "closed", pos |-> 0, batch |-> {}, full |-> FALSE, changed |-> FALSE,
           sent |-> {}]

TypeOK ==
  /\ nextSeq \in Nat
  /\ log \subseteq 1..nextSeq
  /\ progress \subseteq log
  /\ lock \in Writers \cup {None}
  /\ work \in [Writers -> Work]
  /\ conn \in Connection
  /\ wire \in Nat
  /\ feed \in [Clients -> Feed]
  /\ cursor \in [Clients -> Nat]
  /\ detours \in 0..MaxDetours
  /\ lost \in BOOLEAN

-----------------------------------------------------------------------------
(* Helpers *)

Detour == detours < MaxDetours /\ detours' = detours + 1

Following(c) == feed[c].at \notin {"closed", "off"}
Subscribers == {c \in Clients : Following(c)}

\* latch.notify for every subscriber.
Notified == [c \in Clients |-> IF Following(c) THEN [feed[c] EXCEPT !.changed = TRUE]
                                               ELSE feed[c]]

\* s is the least element of S.
Least(s, S) == s \in S /\ \A t \in S : s <= t

\* The first BatchSize events after pos, in the order of their sequence numbers.
AfterInclusive(pos) == {s \in log : s >= pos}
After(pos) == {s \in log : s > pos}
Batch(pos) == {s \in After(pos) : Cardinality({t \in After(pos) : t < s}) < BatchSize}

\* The last event a transaction has committed.
Last == IF lock = None THEN nextSeq ELSE work[lock].base

Init ==
  /\ nextSeq = 0
  /\ log = {} /\ progress = {}
  /\ lock = None
  /\ work = [w \in Writers |-> NoWork]
  /\ conn = "off" /\ wire = 0
  /\ feed = [c \in Clients |-> Closed]
  /\ cursor = [c \in Clients |-> 0]
  /\ detours = 0
  /\ lost = FALSE

-----------------------------------------------------------------------------
(* Writers *)

BeginUnlocked(w, kind) ==
  /\ work[w].at = "idle"
  /\ nextSeq + Size(kind) <= MaxEvents
  /\ lock' = w
  /\ work' = [work EXCEPT ![w] = [at |-> kind, base |-> nextSeq]]
  /\ nextSeq' = nextSeq + Size(kind)
  /\ UNCHANGED <<log, progress, fanout, feed, cursor, detours, lost>>

\* appendEventInTransaction increments nextEventSeq, which locks the thread's row until
\* the transaction ends.
Begin(w, kind) ==
  /\ work[w].at = "idle"
  /\ lock = None
  /\ nextSeq + Size(kind) <= MaxEvents
  /\ lock' = w
  /\ work' = [work EXCEPT ![w] = [at |-> kind, base |-> nextSeq]]
  /\ nextSeq' = nextSeq + Size(kind)
  /\ UNCHANGED <<log, progress, fanout, feed, cursor, detours, lost>>

\* A pause or the end of a run deletes its progress; a clear deletes everything.
Commit(w) ==
  LET kind == work[w].at
      new  == work[w].base + 1 .. work[w].base + Size(kind)
      kept == CASE kind = "clear"  -> {}
                [] kind = "settle" -> log \ progress
                [] OTHER           -> log
  IN  /\ kind \in Kind
      /\ log' = kept \cup new
      /\ progress' = (progress \cap kept) \cup (IF kind = "progress" THEN new ELSE {})
      /\ lock' = None
      /\ work' = [work EXCEPT ![w].at = "notify"]
      /\ UNCHANGED <<nextSeq, fanout, feed, cursor, detours, lost>>

\* The transaction fails: its increment is rolled back with it.
Abort(w) ==
  /\ work[w].at \in Kind /\ Detour
  /\ nextSeq' = work[w].base
  /\ lock' = None
  /\ work' = [work EXCEPT ![w] = NoWork]
  /\ UNCHANGED <<log, progress, fanout, feed, cursor, lost>>

\* notifyRealtime, after the commit; a notification reaches who listens by then.
Notify(w) ==
  LET heard == conn \in {"listening", "up"} IN
  /\ work[w].at = "notify"
  /\ wire' = IF heard THEN wire + 1 ELSE wire
  /\ lost' = IF heard THEN FALSE ELSE lost
  /\ work' = [work EXCEPT ![w] = NoWork]
  /\ UNCHANGED <<nextSeq, log, progress, lock, conn, feed, cursor, detours>>

\* The process dies first, the notification fails (its error is swallowed), or the
\* listener's session is gone without its process knowing.
LoseNotification(w) ==
  /\ work[w].at = "notify" /\ Detour
  /\ lost' = TRUE
  /\ work' = [work EXCEPT ![w] = NoWork]
  /\ UNCHANGED <<nextSeq, log, progress, lock, fanout, feed, cursor>>

\* stopThreadRuns deletes the progress of the runs it stops, without the row lock and
\* without an event of its own.
DeleteProgress ==
  /\ progress # {} /\ Detour
  /\ log' = log \ progress
  /\ progress' = {}
  /\ UNCHANGED <<nextSeq, lock, work, fanout, feed, cursor, lost>>

-----------------------------------------------------------------------------
(* The fan-out: PostgresRealtimeFanout *)

\* connectClient has issued LISTEN; notifications are handled from here on.
Listen ==
  /\ conn = "connecting"
  /\ conn' = "listening"
  /\ UNCHANGED <<writing, wire, feed, cursor, detours, lost>>

EstablishSilently ==
  /\ conn = "listening"
  /\ conn' = "up"
  /\ UNCHANGED <<writing, wire, feed, cursor, detours, lost>>

\* The new connection is adopted, and every subscriber told to catch up; without
\* subscribers it is disposed of.
Establish ==
  /\ conn = "listening"
  /\ IF Subscribers = {}
     THEN conn' = "off" /\ wire' = 0 /\ UNCHANGED <<feed, lost>>
     ELSE conn' = "up" /\ wire' = wire /\ feed' = Notified /\ lost' = FALSE
  /\ UNCHANGED <<writing, cursor, detours>>

\* handleNotification.
HandleNotification ==
  /\ wire > 0
  /\ wire' = wire - 1
  /\ feed' = Notified
  /\ UNCHANGED <<writing, conn, cursor, detours, lost>>

\* handleDisconnect, or an attempt to connect that fails: what is on the wire is lost.
Disconnect ==
  /\ conn \in {"connecting", "listening", "up"} /\ Detour
  /\ conn' = IF Subscribers = {} THEN "off" ELSE "retry"
  /\ wire' = 0
  /\ UNCHANGED <<writing, feed, cursor, lost>>

\* The reconnect timer.
Reconnect ==
  /\ conn = "retry"
  /\ conn' = IF Subscribers = {} THEN "off" ELSE "connecting"
  /\ UNCHANGED <<writing, wire, feed, cursor, detours, lost>>

-----------------------------------------------------------------------------
(* A client and the follower that serves it *)

\* threads.get reads the log under a share lock of the thread's row; the stream starts
\* from its cursor, or from the beginning if it fails.
Open(c) ==
  /\ feed[c].at = "closed" /\ lock = None
  /\ \E s \in {0} \cup log :
       /\ s = 0 \/ \A t \in log : t <= s
       /\ cursor' = [cursor EXCEPT ![c] = s]
  /\ feed' = [feed EXCEPT ![c].at = "off"]
  /\ UNCHANGED <<writing, fanout, detours, lost>>

\* threads.subscribe from the client's cursor: the latch is subscribed before anything
\* is read, and the fan-out connects if it is not connected.
Follow(c) ==
  /\ feed[c].at = "off"
  /\ feed' = [feed EXCEPT ![c] = [Closed EXCEPT !.at = "loop", !.pos = cursor[c]]]
  /\ conn' = IF conn \in {"off", "retry"} THEN "connecting" ELSE conn
  /\ UNCHANGED <<writing, wire, cursor, detours, lost>>

\* observedGeneration = latch.generation, before the log is read.
Observe(c) ==
  /\ feed[c].at = "loop"
  /\ feed' = [feed EXCEPT ![c] = [feed[c] EXCEPT !.at = "read", !.changed = FALSE]]
  /\ UNCHANGED <<writing, fanout, cursor, detours, lost>>

\* eventsAfter.
Read(c) ==
  LET batch == Batch(feed[c].pos) IN
  /\ feed[c].at = "read"
  /\ feed' = [feed EXCEPT ![c] = [feed[c] EXCEPT !.at = "yield", !.batch = batch,
                                          !.full = Cardinality(batch) = BatchSize]]
  /\ UNCHANGED <<writing, fanout, cursor, detours, lost>>

Yield(c) ==
  /\ feed[c].at = "yield"
  /\ \E s \in feed[c].batch :
       /\ Least(s, feed[c].batch)
       /\ feed' = [feed EXCEPT ![c] = [feed[c] EXCEPT !.pos = s, !.batch = @ \ {s},
                                               !.sent = @ \cup {s}]]
  /\ UNCHANGED <<writing, fanout, cursor, detours, lost>>

\* After a full batch it reads again, else it waits for a change.
EndBatch(c) ==
  /\ feed[c].at = "yield" /\ feed[c].batch = {}
  /\ feed' = [feed EXCEPT ![c].at = IF feed[c].full THEN "read" ELSE "wait"]
  /\ UNCHANGED <<writing, fanout, cursor, detours, lost>>

\* waitForChange returns because the latch has changed ...
Wake(c) ==
  /\ feed[c].at = "wait" /\ feed[c].changed
  /\ feed' = [feed EXCEPT ![c].at = "loop"]
  /\ UNCHANGED <<writing, fanout, cursor, detours, lost>>

TimeoutWhenDown(c) ==
  /\ feed[c].at = "wait" /\ ~feed[c].changed /\ conn # "up"
  /\ feed' = [feed EXCEPT ![c].at = "loop"]
  /\ UNCHANGED <<writing, fanout, cursor, detours, lost>>

\* ... or because catchUpMs have passed.
Timeout(c) ==
  /\ feed[c].at = "wait" /\ ~feed[c].changed
  /\ feed' = [feed EXCEPT ![c].at = "loop"]
  /\ UNCHANGED <<writing, fanout, cursor, detours, lost>>

\* The stream keeps the order of the yields, which is ascending.
Receive(c) ==
  /\ \E s \in feed[c].sent :
       /\ Least(s, feed[c].sent)
       /\ cursor' = [cursor EXCEPT ![c] = s]
       /\ feed' = [feed EXCEPT ![c].sent = @ \ {s}]
  /\ UNCHANGED <<writing, fanout, detours, lost>>

\* The stream breaks: what is in flight is lost, and the follower ends.  The client
\* subscribes again, from its own cursor.
Break(c) ==
  /\ Following(c) /\ Detour
  /\ feed' = [feed EXCEPT ![c] = [Closed EXCEPT !.at = "off"]]
  /\ UNCHANGED <<writing, fanout, cursor, lost>>

-----------------------------------------------------------------------------
(* The specification *)

Writer(w) ==
  \/ \E kind \in Kind : Begin(w, kind)
  \/ Commit(w) \/ Abort(w) \/ Notify(w) \/ LoseNotification(w)

Fanout == Listen \/ Establish \/ HandleNotification \/ Disconnect \/ Reconnect

Follower(c) ==
  \/ Follow(c) \/ Observe(c) \/ Read(c) \/ Yield(c) \/ EndBatch(c) \/ Wake(c)
  \/ Timeout(c)

Client(c) == Open(c) \/ Follower(c) \/ Receive(c) \/ Break(c)

Next ==
  \/ \E w \in Writers : Writer(w)
  \/ DeleteProgress
  \/ Fanout
  \/ \E c \in Clients : Client(c)

Spec == Init /\ [][Next]_vars

\* Followers go on, streams deliver, clients reconnect (the loop of the page retries for
\* as long as it is open).  Nothing is assumed of writers and connections.
Fairness == \A c \in Clients : WF_vars(Follower(c)) /\ WF_vars(Receive(c))

FairSpec == Spec /\ Fairness

-----------------------------------------------------------------------------
(* Properties *)

\* The log and its followers keep the promise of ThreadFeed: every client receives the
\* events in order, none twice, and none is passed over unless it was deleted - though
\* events of concurrent transactions commit at any time, streams break with events in
\* flight, and events are deleted between being read and being received
\* (appendEventInTransaction's row lock, eventsAfter, followThreadEvents, the cursor of
\* the page).
Promise == INSTANCE ThreadFeed WITH
  last <- Last,
  gone <- 1..Last \ log,
  open <- {c \in Clients : feed[c].at # "closed"},
  seen <- cursor
KeepsPromise == Promise!Spec

\* A follower never sleeps through an event: if it waits with something unread, then it
\* has been notified, or a notification is under way, or the connection is being made
\* and will tell it to catch up - unless the last notification was lost (the latch is
\* read before the log, the subscription precedes both, and a new connection wakes all).
Signalled(c) ==
  \/ feed[c].changed
  \/ wire > 0
  \/ \E w \in Writers : work[w].at = "notify"
  \/ conn \in {"retry", "connecting", "listening"}
  \/ lost
NoLostWakeup ==
  \A c \in Clients : feed[c].at = "wait" /\ After(feed[c].pos) # {} => Signalled(c)

\* Whatever is lost, every event reaches every client unless it is deleted first: the
\* catch-up timer needs no notification (followThreadEvents, catchUpMs).
EveryEventArrives ==
  \A c \in Clients, s \in 1..MaxEvents :
    s \in log /\ feed[c].at # "closed" ~> cursor[c] >= s \/ s \notin log

-----------------------------------------------------------------------------
(* Why: the invariant the proof of KeepsPromise rests on *)

\* Only the holder of the lock has increments that are not committed.
LockGuardsLog ==
  /\ \A w \in Writers : work[w].at \in Kind <=> lock = w
  /\ lock # None => nextSeq = work[lock].base + Size(work[lock].at)
  /\ \A s \in log : s <= Last

\* Between what a client has received and what its follower has read lies nothing but
\* what is in flight, in the batch, or deleted.
PassedNothing(c) ==
  /\ cursor[c] <= Last
  /\ ~Following(c) => feed[c].sent = {}
  /\ \A s \in feed[c].sent : cursor[c] < s /\ s <= feed[c].pos
  /\ Following(c) => /\ cursor[c] <= feed[c].pos /\ feed[c].pos <= Last
                     /\ \A s \in log : cursor[c] < s /\ s <= feed[c].pos
                                       => s \in feed[c].sent
  /\ \A s \in feed[c].batch :
       /\ feed[c].at = "yield" /\ feed[c].pos < s /\ s <= Last
       /\ \A t \in log : feed[c].pos < t /\ t < s => t \in feed[c].batch
NothingPassedOver == \A c \in Clients : PassedNothing(c)

\* The types, the row lock and the position of every follower together: sequence numbers
\* are committed in order, and a position never gets ahead of what can still be received
\* (appendEventInTransaction, followThreadEvents).
FeedInv == TypeOK /\ LockGuardsLog /\ NothingPassedOver

-----------------------------------------------------------------------------
(* Why: the invariant the proof of NoLostWakeup rests on *)

\* Whoever follows has the fan-out connect.
FollowersConnect == Subscribers # {} => conn # "off"

\* A follower that will wait after its batch knows of whatever came after the batch.
BatchIsLast ==
  \A c \in Clients :
    feed[c].at = "yield" /\ ~feed[c].full /\ After(feed[c].pos) \ feed[c].batch # {}
    => Signalled(c)

WakeInv == FollowersConnect /\ BatchIsLast /\ NoLostWakeup
=============================================================================
