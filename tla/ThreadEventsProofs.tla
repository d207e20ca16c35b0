------------------------ MODULE ThreadEventsProofs ------------------------
(***************************************************************************)
(* Proofs about ThreadEvents: its invariant, that the log and its          *)
(* followers keep the promise of ThreadFeed, and that no follower sleeps   *)
(* through an event.                                                       *)
(***************************************************************************)
EXTENDS ThreadEvents, FiniteSetTheorems, WellFoundedInduction, TLAPS

-----------------------------------------------------------------------------
(* Lemmas *)

\* What is committed is a number, and stays what it is while no transaction commits.
LEMMA LastIsNat ==
  ASSUME TypeOK
  PROVE  Last \in Nat
BY DEF TypeOK, Last, Work

\* A batch has no gaps: every event between the position and a member is a member.
LEMMA BatchHasNoGaps ==
  ASSUME TypeOK, NEW pos \in Nat, NEW s \in Batch(pos), NEW t \in log, pos < t, t < s
  PROVE  t \in Batch(pos)
<1> DEFINE Before(n) == {u \in After(pos) : u < n}
<1>1. s \in Nat /\ t \in Nat /\ nextSeq \in Nat
  BY DEF Batch, After, TypeOK
<1>2. IsFiniteSet(1..nextSeq)
  BY <1>1, FS_Interval
<1>3. Before(s) \subseteq 1..nextSeq /\ Before(t) \subseteq Before(s)
  <2>1. Before(s) \subseteq log /\ log \subseteq 1..nextSeq
    BY DEF After, TypeOK
  <2>2. ASSUME NEW u \in Before(t)
        PROVE  u \in Before(s)
    <3>1. u \in After(pos) /\ u < t /\ u \in Nat
      BY <1>1 DEF After, TypeOK
    <3> QED
      BY <1>1, <3>1
  <2> QED
    BY <2>1, <2>2
<1>4. IsFiniteSet(Before(s))
  BY <1>2, <1>3, FS_Subset
<1>5. /\ Cardinality(Before(s)) \in Nat /\ Cardinality(Before(t)) \in Nat
      /\ Cardinality(Before(t)) <= Cardinality(Before(s))
  BY <1>3, <1>4, FS_Subset, FS_CardinalityType
<1>6. Cardinality(Before(s)) < BatchSize
  BY DEF Batch
<1>7. Cardinality(Before(t)) < BatchSize
  BY <1>5, <1>6, FeedConstantsOK
<1>8. t \in After(pos)
  BY DEF After
<1> QED
  BY <1>7, <1>8 DEF Batch

-----------------------------------------------------------------------------
(* What an action has to keep for the invariant to hold after it *)

\* A step of writers or of the fan-out that leaves the clients alone.
LEMMA ClientsStay ==
  ASSUME FeedInv, TypeOK', LockGuardsLog', UNCHANGED <<feed, cursor>>,
         Last <= Last', \A s \in log' : s \in log \/ s > Last
  PROVE  FeedInv'
<1>1. /\ Last \in Nat /\ Last' \in Nat
      /\ \A s \in log' : s \in Nat
      /\ cursor \in [Clients -> Nat] /\ feed \in [Clients -> Feed]
  <2>1. TypeOK
    BY DEF FeedInv
  <2> QED
    BY <2>1 DEF TypeOK, Last, Work
<1>2. ASSUME NEW c \in Clients
      PROVE  PassedNothing(c)'
  <2>1. PassedNothing(c)
    BY DEF FeedInv, NothingPassedOver
  <2>2. /\ feed[c].pos \in Nat /\ cursor[c] \in Nat
        /\ feed[c].batch \subseteq Nat /\ feed[c].sent \subseteq Nat
    BY <1>1 DEF Feed
  <2>3. cursor'[c] <= Last'
    BY <1>1, <2>1, <2>2 DEF PassedNothing
  <2>4. Following(c) => /\ cursor[c] <= feed[c].pos /\ feed[c].pos <= Last'
                        /\ \A s \in log' : cursor[c] < s /\ s <= feed[c].pos
                                           => s \in feed[c].sent
    BY <1>1, <2>1, <2>2 DEF PassedNothing
  <2>5. \A s \in feed[c].batch :
          /\ feed[c].at = "yield" /\ feed[c].pos < s /\ s <= Last'
          /\ \A t \in log' : feed[c].pos < t /\ t < s => t \in feed[c].batch
    BY <1>1, <2>1, <2>2 DEF PassedNothing
  <2> QED
    BY <2>1, <2>3, <2>4, <2>5 DEF PassedNothing, Following
<1> QED
  BY <1>2 DEF FeedInv, NothingPassedOver

\* A step of one client and its follower.
LEMMA OtherClientsStay ==
  ASSUME FeedInv, TypeOK', UNCHANGED writing, NEW c \in Clients, PassedNothing(c)',
         \A d \in Clients \ {c} : feed'[d] = feed[d] /\ cursor'[d] = cursor[d]
  PROVE  FeedInv'
<1>1. Last' = Last
  BY DEF writing, Last
<1>2. LockGuardsLog'
  BY <1>1 DEF FeedInv, LockGuardsLog, writing
<1>3. ASSUME NEW d \in Clients \ {c}
      PROVE  PassedNothing(d)'
  BY <1>1 DEF FeedInv, NothingPassedOver, PassedNothing, Following, writing
<1> QED
  BY <1>2, <1>3 DEF FeedInv, NothingPassedOver

\* Notifying changes nothing but the latches.
LEMMA NotifyingStays ==
  ASSUME FeedInv, TypeOK', UNCHANGED <<writing, cursor>>, feed' = Notified
  PROVE  FeedInv'
<1>1. Last' = Last
  BY DEF writing, Last
<1>2. LockGuardsLog'
  BY <1>1 DEF FeedInv, LockGuardsLog, writing
<1>3. ASSUME NEW c \in Clients
      PROVE  PassedNothing(c)'
  <2>1. /\ feed'[c].at = feed[c].at /\ feed'[c].pos = feed[c].pos
        /\ feed'[c].batch = feed[c].batch /\ feed'[c].sent = feed[c].sent
    BY DEF FeedInv, TypeOK, Notified, Feed
  <2> QED
    BY <1>1, <2>1 DEF FeedInv, NothingPassedOver, PassedNothing, Following, writing
<1> QED
  BY <1>2, <1>3 DEF FeedInv, NothingPassedOver

-----------------------------------------------------------------------------
(* The invariant *)

LEMMA InitFeed == Init => FeedInv
<1> SUFFICES ASSUME Init
             PROVE  FeedInv
  OBVIOUS
<1>1. TypeOK
  <2>1. work \in [Writers -> Work] /\ feed \in [Clients -> Feed]
    BY DEF Init, Work, NoWork, Feed, Closed
  <2>2. cursor \in [Clients -> Nat] /\ detours \in 0..MaxDetours
    BY FeedConstantsOK DEF Init
  <2>3. /\ nextSeq \in Nat /\ log \subseteq 1..nextSeq /\ progress \subseteq log
        /\ lock \in Writers \cup {None} /\ conn \in Connection /\ wire \in Nat
    BY DEF Init, Connection
  <2>4. lost \in BOOLEAN
    BY Zenon DEF Init
  <2> QED
    BY <2>1, <2>2, <2>3, <2>4 DEF TypeOK
<1>2. LockGuardsLog
  BY FeedConstantsOK DEF Init, LockGuardsLog, NoWork, Kind
<1>3. NothingPassedOver
  BY DEF Init, NothingPassedOver, PassedNothing, Following, Last, Closed
<1> QED
  BY <1>1, <1>2, <1>3 DEF FeedInv

\* The steps of a writer.
LEMMA WriterStep ==
  ASSUME FeedInv, NEW w \in Writers, Writer(w)
  PROVE  FeedInv'
<1> USE FeedConstantsOK
<1>1. TypeOK /\ LockGuardsLog /\ Last \in Nat
  BY LastIsNat DEF FeedInv
<1>2. /\ nextSeq \in Nat /\ log \subseteq 1..nextSeq /\ work[w] \in Work
      /\ work[w].base \in Nat /\ \A s \in log : s \in Nat /\ s <= Last
  BY <1>1 DEF TypeOK, Work, LockGuardsLog
<1>3. ASSUME NEW kind \in Kind, Begin(w, kind)
      PROVE  FeedInv'
  <2>1. Size(kind) \in Nat
    BY DEF Size
  <2>2. TypeOK'
    BY <1>1, <1>2, <1>3, <2>1 DEF Begin, TypeOK, Work, fanout
  <2>3. work'[w] = [at |-> kind, base |-> nextSeq]
    BY <1>1, <1>3 DEF Begin, TypeOK
  <2>4. Last' = Last
    BY <1>3, <2>3 DEF Begin, Last
  <2>5. LockGuardsLog'
    <3>1. \A v \in Writers : work'[v].at \in Kind <=> lock' = v
      BY <1>1, <1>3, <2>3 DEF Begin, TypeOK, LockGuardsLog
    <3>2. nextSeq' = work'[lock'].base + Size(work'[lock'].at)
      BY <1>3, <2>3 DEF Begin
    <3>3. \A s \in log' : s <= Last'
      BY <1>2, <1>3, <2>4 DEF Begin
    <3> QED
      BY <3>1, <3>2, <3>3 DEF LockGuardsLog
  <2> QED
    BY <1>1, <1>3, <2>2, <2>4, <2>5, ClientsStay DEF Begin
<1>4. CASE Commit(w)
  <2> DEFINE kind == work[w].at
             new  == work[w].base + 1 .. work[w].base + Size(kind)
  <2>1. /\ kind \in Kind /\ lock = w /\ lock # None
        /\ Size(kind) \in Nat /\ nextSeq = work[w].base + Size(kind)
    BY <1>1, <1>4 DEF Commit, LockGuardsLog, Size
  <2>2. Last = work[w].base /\ Last' = nextSeq /\ nextSeq' = nextSeq
    BY <1>4, <2>1 DEF Commit, Last
  <2>3. /\ log' \subseteq log \cup new
        /\ progress' \subseteq log'
    BY <1>1, <1>4 DEF Commit, TypeOK, Kind
  <2>4. \A s \in new : s \in 1..nextSeq /\ s > Last /\ s <= Last'
    BY <1>2, <2>1, <2>2
  <2>5. TypeOK'
    <3>1. log' \subseteq 1..nextSeq'
      BY <1>1, <2>2, <2>3, <2>4 DEF TypeOK
    <3>2. work' \in [Writers -> Work]
      BY <1>1, <1>4 DEF Commit, TypeOK, Work
    <3> QED
      BY <1>1, <1>4, <2>3, <3>1, <3>2 DEF Commit, TypeOK, fanout
  <2>6. LockGuardsLog'
    <3>1. \A v \in Writers : work'[v].at \in Kind <=> lock' = v
      <4>1. ASSUME NEW v \in Writers, v # w
            PROVE  work'[v].at \notin Kind /\ lock' # v
        BY <1>1, <1>4, <2>1, <4>1, FeedConstantsOK DEF Commit, TypeOK, LockGuardsLog
      <4>2. work'[w].at = "notify" /\ lock' # w
        BY <1>1, <1>4, FeedConstantsOK DEF Commit, TypeOK, Work
      <4> QED
        BY <4>1, <4>2 DEF Kind
    <3>2. ASSUME NEW s \in log'
          PROVE  s <= Last'
      <4>1. CASE s \in new
        BY <2>4, <4>1
      <4>2. CASE s \in log
        BY <1>2, <2>1, <2>2, <4>2
      <4> QED
        BY <2>3, <4>1, <4>2
    <3> QED
      BY <1>4, <3>1, <3>2 DEF Commit, LockGuardsLog
  <2>7. Last <= Last' /\ \A s \in log' : s \in log \/ s > Last
    BY <1>2, <2>1, <2>2, <2>3, <2>4
  <2> QED
    BY <1>4, <2>5, <2>6, <2>7, ClientsStay DEF Commit
<1>5. CASE Abort(w)
  <2>1. lock = w /\ lock # None /\ Last = work[w].base
    BY <1>1, <1>5 DEF Abort, LockGuardsLog, Last
  <2>2. Last' = Last /\ nextSeq' = Last
    BY <1>5, <2>1 DEF Abort, Last
  <2>3. TypeOK'
    <3>1. log' \subseteq 1..nextSeq' /\ nextSeq' \in Nat
      BY <1>1, <1>2, <1>5, <2>2 DEF Abort, TypeOK
    <3>2. work' \in [Writers -> Work]
      BY <1>1, <1>5 DEF Abort, TypeOK, Work, NoWork
    <3> QED
      BY <1>1, <1>5, <3>1, <3>2 DEF Abort, TypeOK, fanout, Detour
  <2>4. LockGuardsLog'
    BY <1>1, <1>2, <1>5, <2>1, <2>2 DEF Abort, TypeOK, LockGuardsLog, NoWork, Kind
  <2> QED
    BY <1>1, <1>5, <2>2, <2>3, <2>4, ClientsStay DEF Abort
<1>6. CASE Notify(w) \/ LoseNotification(w)
  <2>1. /\ work[w].at = "notify" /\ work' = [work EXCEPT ![w] = NoWork]
        /\ UNCHANGED <<nextSeq, log, progress, lock, feed, cursor>>
    BY <1>6 DEF Notify, LoseNotification, fanout
  <2>2. lock # w
    BY <1>1, <2>1 DEF LockGuardsLog, Kind
  <2>3. Last' = Last
    BY <1>1, <2>1, <2>2 DEF Last, TypeOK
  <2>4. TypeOK'
    <3>1. work' \in [Writers -> Work]
      BY <1>1, <2>1 DEF TypeOK, Work, NoWork
    <3>2. wire' \in Nat /\ conn' \in Connection /\ detours' \in 0..MaxDetours
      <4>1. /\ wire \in Nat /\ conn \in Connection /\ detours \in 0..MaxDetours
            /\ MaxDetours \in Nat
        BY <1>1 DEF TypeOK
      <4>2. CASE Notify(w)
        BY <4>1, <4>2 DEF Notify
      <4>3. CASE LoseNotification(w)
        BY <4>1, <4>3 DEF LoseNotification, fanout, Detour
      <4> QED
        BY <1>6, <4>2, <4>3
    <3>3. lost' \in BOOLEAN
      BY <1>1, <1>6, Zenon DEF Notify, LoseNotification, TypeOK
    <3> QED
      BY <1>1, <2>1, <3>1, <3>2, <3>3 DEF TypeOK
  <2>5. LockGuardsLog'
    <3>1. \A v \in Writers : work'[v].at \in Kind <=> lock' = v
      BY <1>1, <2>1, <2>2 DEF TypeOK, LockGuardsLog, NoWork, Kind
    <3>2. lock' # None => nextSeq' = work'[lock'].base + Size(work'[lock'].at)
      BY <1>1, <2>1, <2>2 DEF TypeOK, LockGuardsLog
    <3>3. \A s \in log' : s <= Last'
      BY <1>2, <2>1, <2>3
    <3> QED
      BY <3>1, <3>2, <3>3 DEF LockGuardsLog
  <2> QED
    BY <1>1, <2>1, <2>3, <2>4, <2>5, ClientsStay
<1> QED
  BY <1>3, <1>4, <1>5, <1>6 DEF Writer

LEMMA DeleteProgressStep ==
  ASSUME FeedInv, DeleteProgress
  PROVE  FeedInv'
<1>1. TypeOK /\ LockGuardsLog /\ Last \in Nat
  BY LastIsNat DEF FeedInv
<1>2. Last' = Last /\ log' \subseteq log
  BY DEF DeleteProgress, Last
<1>3. TypeOK'
  <2>1. detours' \in 0..MaxDetours
    BY <1>1, FeedConstantsOK DEF DeleteProgress, Detour, TypeOK
  <2> QED
    BY <1>1, <2>1 DEF DeleteProgress, TypeOK, fanout
<1>4. LockGuardsLog'
  BY <1>1, <1>2 DEF DeleteProgress, LockGuardsLog
<1> QED
  BY <1>1, <1>2, <1>3, <1>4, ClientsStay DEF DeleteProgress

\* What notifying the subscribers leaves is a state of the followers.
LEMMA NotifiedIsFeed ==
  ASSUME TypeOK
  PROVE  Notified \in [Clients -> Feed]
<1>1. ASSUME NEW c \in Clients
      PROVE  [feed[c] EXCEPT !.changed = TRUE] \in Feed /\ feed[c] \in Feed
  BY DEF TypeOK, Feed
<1> QED
  BY <1>1 DEF Notified

LEMMA FanoutStep ==
  ASSUME FeedInv, Fanout
  PROVE  FeedInv'
<1>1. TypeOK /\ LockGuardsLog /\ Last \in Nat
  BY LastIsNat DEF FeedInv
<1>2. UNCHANGED <<writing, cursor>>
  BY DEF Fanout, Listen, Establish, HandleNotification, Disconnect, Reconnect
<1>3. feed' = feed \/ feed' = Notified
  BY DEF Fanout, Listen, Establish, HandleNotification, Disconnect, Reconnect
<1>4. conn' \in Connection /\ wire' \in Nat
  <2>1. conn \in Connection /\ wire \in Nat
    BY <1>1 DEF TypeOK
  <2>2. CASE Listen \/ Establish
    BY <2>1, <2>2 DEF Listen, Establish, Connection
  <2>3. CASE HandleNotification
    BY <2>1, <2>3 DEF HandleNotification
  <2>4. CASE Disconnect \/ Reconnect
    BY <2>1, <2>4 DEF Disconnect, Reconnect, Connection
  <2> QED
    BY <2>2, <2>3, <2>4 DEF Fanout
<1>5. detours' \in 0..MaxDetours
  BY <1>1, FeedConstantsOK DEF Fanout, Listen, Establish, HandleNotification, Disconnect,
     Reconnect, Detour, TypeOK
<1>6. lost' \in BOOLEAN
  <2>1. lost' = lost \/ lost' = FALSE
    BY Zenon DEF Fanout, Listen, Establish, HandleNotification, Disconnect, Reconnect
  <2> QED
    BY <1>1, <2>1, Zenon DEF TypeOK
<1>7. TypeOK'
  <2>1. feed' \in [Clients -> Feed]
    BY <1>1, <1>3, NotifiedIsFeed DEF TypeOK
  <2> QED
    BY <1>1, <1>2, <1>4, <1>5, <1>6, <2>1 DEF TypeOK, writing
<1>8. CASE feed' = feed
  <2>1. Last' = Last /\ log' = log
    BY <1>2 DEF writing, Last
  <2>2. LockGuardsLog'
    BY <1>1, <1>2, <2>1 DEF LockGuardsLog, writing
  <2> QED
    BY <1>1, <1>2, <1>7, <1>8, <2>1, <2>2, ClientsStay
<1>9. CASE feed' = Notified
  BY <1>2, <1>7, <1>9, NotifyingStays
<1> QED
  BY <1>3, <1>8, <1>9

-----------------------------------------------------------------------------
(* The steps of a client and its follower *)

\* PassedNothing of a client whose follower is in state f and whose cursor is n.
Keeps(f, n) ==
  /\ n <= Last
  /\ f.at \in {"closed", "off"} => f.sent = {}
  /\ \A s \in f.sent : n < s /\ s <= f.pos
  /\ f.at \notin {"closed", "off"}
       => /\ n <= f.pos /\ f.pos <= Last
          /\ \A s \in log : n < s /\ s <= f.pos => s \in f.sent
  /\ \A s \in f.batch :
       /\ f.at = "yield" /\ f.pos < s /\ s <= Last
       /\ \A t \in log : f.pos < t /\ t < s => t \in f.batch

\* A step of one client, by what it makes of its follower and of its cursor.
LEMMA ClientMoves ==
  ASSUME FeedInv, NEW c \in Clients, NEW f \in Feed, NEW n \in Nat, Keeps(f, n),
         feed' = [feed EXCEPT ![c] = f], cursor' = [cursor EXCEPT ![c] = n],
         UNCHANGED <<writing, wire, lost>>,
         conn' \in Connection, detours' \in 0..MaxDetours
  PROVE  FeedInv'
<1>1. TypeOK
  BY DEF FeedInv
<1>2. TypeOK'
  BY <1>1 DEF TypeOK, writing
<1>3. feed'[c] = f /\ cursor'[c] = n
  BY <1>1 DEF TypeOK
<1>4. \A d \in Clients \ {c} : feed'[d] = feed[d] /\ cursor'[d] = cursor[d]
  BY <1>1 DEF TypeOK
<1>5. Last' = Last /\ log' = log
  BY DEF writing, Last
<1>6. PassedNothing(c)'
  BY <1>3, <1>5 DEF Keeps, PassedNothing, Following
<1> QED
  BY <1>2, <1>4, <1>6, OtherClientsStay DEF writing

LEMMA OpenStep ==
  ASSUME FeedInv, NEW c \in Clients, Open(c)
  PROVE  FeedInv'
<1>1. TypeOK /\ LockGuardsLog /\ PassedNothing(c) /\ Last \in Nat
  BY LastIsNat DEF FeedInv, NothingPassedOver
<1>2. PICK s \in {0} \cup log : cursor' = [cursor EXCEPT ![c] = s]
  BY DEF Open
<1>3. s \in Nat /\ s <= Last
  BY <1>1 DEF TypeOK, LockGuardsLog
<1> DEFINE f == [feed[c] EXCEPT !.at = "off"]
<1>4. feed[c] \in Feed
  BY <1>1 DEF TypeOK
<1>5. f \in Feed
  BY <1>4 DEF Feed
<1>6. f.at = "off" /\ f.sent = {} /\ f.batch = {}
  BY <1>1, <1>4 DEF Open, PassedNothing, Following, Feed
<1>7. Keeps(f, s)
  BY <1>3, <1>6 DEF Keeps
<1>8. feed' = [feed EXCEPT ![c] = f]
  BY DEF Open
<1> HIDE DEF f
<1> QED
  BY <1>1, <1>2, <1>3, <1>5, <1>7, <1>8, ClientMoves DEF Open, TypeOK, fanout

LEMMA FollowStep ==
  ASSUME FeedInv, NEW c \in Clients, Follow(c)
  PROVE  FeedInv'
<1>1. TypeOK /\ PassedNothing(c) /\ Last \in Nat
  BY LastIsNat DEF FeedInv, NothingPassedOver
<1>2. cursor[c] \in Nat /\ cursor' = [cursor EXCEPT ![c] = cursor[c]]
  BY <1>1 DEF Follow, TypeOK
<1> DEFINE f == [Closed EXCEPT !.at = "loop", !.pos = cursor[c]]
<1>3. f \in Feed /\ f.at = "loop" /\ f.pos = cursor[c] /\ f.batch = {} /\ f.sent = {}
  BY <1>2 DEF Closed, Feed
<1>4. \A s \in log : s \in Nat
  BY <1>1 DEF TypeOK
<1>5. Keeps(f, cursor[c])
  BY <1>1, <1>2, <1>3, <1>4 DEF Keeps, PassedNothing
<1>6. feed' = [feed EXCEPT ![c] = f]
  BY DEF Follow
<1>7. conn' \in Connection
  BY <1>1 DEF Follow, TypeOK, Connection
<1> HIDE DEF f
<1> QED
  BY <1>1, <1>2, <1>3, <1>5, <1>6, <1>7, ClientMoves DEF Follow, TypeOK

LEMMA ReadStep ==
  ASSUME FeedInv, NEW c \in Clients, Read(c)
  PROVE  FeedInv'
<1>1. TypeOK /\ LockGuardsLog /\ PassedNothing(c) /\ Last \in Nat
  BY LastIsNat DEF FeedInv, NothingPassedOver
<1>2. cursor[c] \in Nat /\ cursor' = [cursor EXCEPT ![c] = cursor[c]] /\ feed[c] \in Feed
  BY <1>1 DEF Read, TypeOK
<1> DEFINE batch == Batch(feed[c].pos)
           full == Cardinality(batch) = BatchSize
           f == [feed[c] EXCEPT !.at = "yield", !.batch = batch, !.full = full]
<1>3. batch \subseteq log /\ \A s \in batch : s > feed[c].pos
  BY DEF Batch, After
<1>4. f \in Feed
  <2>1. batch \subseteq Nat
    <3>1. log \subseteq Nat
      BY <1>1 DEF TypeOK
    <3> HIDE DEF batch
    <3> QED
      BY <1>3, <3>1
  <2>2. full \in BOOLEAN
    BY Zenon
  <2> HIDE DEF batch, full
  <2> QED
    BY <1>2, <2>1, <2>2 DEF Feed
<1>5. f.at = "yield" /\ f.pos = feed[c].pos /\ f.batch = batch /\ f.sent = feed[c].sent
  BY <1>2 DEF Feed
<1>6. feed[c].pos \in Nat
  BY <1>2 DEF Feed
<1>7. Following(c)
  BY DEF Read, Following
<1>8. \A s \in batch : /\ feed[c].pos < s /\ s <= Last
                      /\ \A t \in log : feed[c].pos < t /\ t < s => t \in batch
  <2> SUFFICES ASSUME NEW s \in batch
               PROVE  /\ feed[c].pos < s /\ s <= Last
                      /\ \A t \in log : feed[c].pos < t /\ t < s => t \in batch
    OBVIOUS
  <2>1. feed[c].pos < s /\ s <= Last
    BY <1>1, <1>3, <1>6 DEF LockGuardsLog, TypeOK
  <2>2. \A t \in log : feed[c].pos < t /\ t < s => t \in batch
    BY <1>1, <1>6, BatchHasNoGaps
  <2> QED
    BY <2>1, <2>2
<1>9. Keeps(f, cursor[c])
  BY <1>1, <1>5, <1>7, <1>8 DEF Keeps, PassedNothing
<1>10. feed' = [feed EXCEPT ![c] = f]
  BY DEF Read
<1> HIDE DEF f
<1> QED
  BY <1>1, <1>2, <1>4, <1>9, <1>10, ClientMoves DEF Read, TypeOK, fanout

LEMMA YieldStep ==
  ASSUME FeedInv, NEW c \in Clients, Yield(c)
  PROVE  FeedInv'
<1>1. TypeOK /\ LockGuardsLog /\ PassedNothing(c) /\ Last \in Nat
  BY LastIsNat DEF FeedInv, NothingPassedOver
<1>2. cursor[c] \in Nat /\ cursor' = [cursor EXCEPT ![c] = cursor[c]] /\ feed[c] \in Feed
  BY <1>1 DEF Yield, TypeOK
<1>3. PICK s \in feed[c].batch :
        /\ Least(s, feed[c].batch)
        /\ feed' = [feed EXCEPT ![c] = [feed[c] EXCEPT !.pos = s, !.batch = @ \ {s},
                                                !.sent = @ \cup {s}]]
  BY DEF Yield
<1> DEFINE f == [feed[c] EXCEPT !.pos = s, !.batch = @ \ {s}, !.sent = @ \cup {s}]
<1>4. /\ s \in Nat /\ feed[c].pos \in Nat
      /\ feed[c].batch \subseteq Nat /\ feed[c].sent \subseteq Nat
      /\ log \subseteq Nat
  BY <1>1, <1>2 DEF Feed, TypeOK
<1>5. f \in Feed
  BY <1>2, <1>4 DEF Feed
<1>6. /\ f.at = "yield" /\ f.pos = s
      /\ f.batch = feed[c].batch \ {s} /\ f.sent = feed[c].sent \cup {s}
  BY <1>2 DEF Feed, Yield
<1>7. Following(c) /\ feed[c].at = "yield"
  BY DEF Yield, Following
<1>8. /\ cursor[c] <= feed[c].pos /\ feed[c].pos < s /\ s <= Last
      /\ \A t \in log : feed[c].pos < t /\ t < s => t \in feed[c].batch
  BY <1>1, <1>3, <1>7 DEF PassedNothing
<1>9. Keeps(f, cursor[c])
  <2>1. \A t \in f.sent : cursor[c] < t /\ t <= s
    BY <1>1, <1>2, <1>4, <1>6, <1>8 DEF PassedNothing
  <2>2. ASSUME NEW t \in log, cursor[c] < t, t <= s
        PROVE  t \in f.sent
    <3>1. CASE t <= feed[c].pos
      BY <1>1, <1>6, <1>7, <2>2, <3>1 DEF PassedNothing
    <3>2. CASE feed[c].pos < t
      <4>1. ~(t < s)
        BY <1>3, <1>4, <1>8, <3>2 DEF Least
      <4> QED
        BY <1>4, <1>6, <2>2, <4>1
    <3> QED
      BY <1>4, <3>1, <3>2
  <2>3. ASSUME NEW t \in f.batch
        PROVE  /\ s < t /\ t <= Last
               /\ \A u \in log : s < u /\ u < t => u \in f.batch
    <3>1. s < t
      BY <1>3, <1>4, <1>6 DEF Least
    <3>2. t <= Last /\ \A u \in log : feed[c].pos < u /\ u < t => u \in feed[c].batch
      BY <1>1, <1>6 DEF PassedNothing
    <3> QED
      BY <1>4, <1>6, <1>8, <3>1, <3>2
  <2> QED
    BY <1>1, <1>2, <1>4, <1>6, <1>8, <2>1, <2>2, <2>3 DEF Keeps, PassedNothing
<1>10. feed' = [feed EXCEPT ![c] = f]
  BY <1>3, Zenon
<1> HIDE DEF f
<1> QED
  BY <1>1, <1>2, <1>5, <1>9, <1>10, ClientMoves DEF Yield, TypeOK, fanout

LEMMA ReceiveStep ==
  ASSUME FeedInv, NEW c \in Clients, Receive(c)
  PROVE  FeedInv'
<1>1. TypeOK /\ PassedNothing(c) /\ Last \in Nat /\ feed[c] \in Feed
  BY LastIsNat DEF FeedInv, NothingPassedOver, TypeOK
<1>2. PICK s \in feed[c].sent :
        /\ Least(s, feed[c].sent)
        /\ cursor' = [cursor EXCEPT ![c] = s]
        /\ feed' = [feed EXCEPT ![c].sent = @ \ {s}]
  BY DEF Receive
<1> DEFINE f == [feed[c] EXCEPT !.sent = @ \ {s}]
<1>3. /\ s \in Nat /\ feed[c].pos \in Nat /\ cursor[c] \in Nat
      /\ feed[c].sent \subseteq Nat /\ log \subseteq Nat
  BY <1>1 DEF Feed, TypeOK
<1>4. f \in Feed
  BY <1>1, <1>3 DEF Feed
<1>5. /\ f.at = feed[c].at /\ f.pos = feed[c].pos /\ f.batch = feed[c].batch
      /\ f.sent = feed[c].sent \ {s}
  BY <1>1 DEF Feed
<1>6. Following(c) /\ cursor[c] < s /\ s <= feed[c].pos /\ feed[c].pos <= Last
  BY <1>1, <1>2 DEF PassedNothing
<1>7. Keeps(f, s)
  <2>1. \A t \in f.sent : s < t /\ t <= f.pos
    BY <1>1, <1>2, <1>3, <1>5 DEF Least, PassedNothing
  <2>2. \A t \in log : s < t /\ t <= f.pos => t \in f.sent
    BY <1>1, <1>3, <1>5, <1>6 DEF PassedNothing
  <2> QED
    BY <1>1, <1>3, <1>5, <1>6, <2>1, <2>2 DEF Keeps, PassedNothing, Following
<1>8. feed' = [feed EXCEPT ![c] = f]
  BY <1>2
<1> HIDE DEF f
<1> QED
  BY <1>1, <1>2, <1>3, <1>4, <1>7, <1>8, ClientMoves DEF Receive, TypeOK, fanout

\* A follower moves on without reading or yielding.
LEMMA MovesOn ==
  ASSUME FeedInv, NEW c \in Clients, NEW f \in Feed,
         feed[c].at = "yield" => feed[c].batch = {},
         f.at \in {"loop", "read", "wait"}, Following(c),
         f.pos = feed[c].pos, f.batch = feed[c].batch, f.sent = feed[c].sent,
         feed' = [feed EXCEPT ![c] = f],
         UNCHANGED <<writing, fanout, cursor, detours, lost>>
  PROVE  FeedInv'
<1>1. TypeOK /\ PassedNothing(c) /\ feed[c] \in Feed /\ cursor[c] \in Nat
  BY DEF FeedInv, NothingPassedOver, TypeOK
<1>2. cursor' = [cursor EXCEPT ![c] = cursor[c]]
  BY <1>1 DEF TypeOK
<1>3. feed[c].batch = {}
  BY <1>1 DEF PassedNothing
<1>4. Keeps(f, cursor[c])
  BY <1>1, <1>3 DEF Keeps, PassedNothing
<1> QED
  BY <1>1, <1>2, <1>4, ClientMoves DEF TypeOK, fanout

LEMMA FollowerMovesOn ==
  ASSUME FeedInv, NEW c \in Clients,
         Observe(c) \/ EndBatch(c) \/ Wake(c) \/ Timeout(c)
  PROVE  FeedInv'
<1>1. feed \in [Clients -> Feed] /\ feed[c] \in Feed
  BY DEF FeedInv, TypeOK
<1>2. /\ Following(c) /\ (feed[c].at = "yield" => feed[c].batch = {})
      /\ UNCHANGED <<writing, fanout, cursor, detours, lost>>
  BY DEF Observe, EndBatch, Wake, Timeout, Following
<1>3. CASE Observe(c)
  <2> DEFINE f == [feed[c] EXCEPT !.at = "read", !.changed = FALSE]
  <2>1. /\ f \in Feed /\ f.at = "read" /\ f.pos = feed[c].pos
        /\ f.batch = feed[c].batch /\ f.sent = feed[c].sent
    BY <1>1 DEF Feed
  <2>2. feed' = [feed EXCEPT ![c] = f]
    BY <1>3, Zenon DEF Observe
  <2> HIDE DEF f
  <2> QED
    BY <1>2, <2>1, <2>2, MovesOn
<1>4. ASSUME NEW at \in {"loop", "read", "wait"}, feed' = [feed EXCEPT ![c].at = at]
      PROVE  FeedInv'
  <2> DEFINE f == [feed[c] EXCEPT !.at = at]
  <2>1. /\ f \in Feed /\ f.at = at /\ f.pos = feed[c].pos
        /\ f.batch = feed[c].batch /\ f.sent = feed[c].sent
    BY <1>1 DEF Feed
  <2>2. feed' = [feed EXCEPT ![c] = f]
    BY <1>4
  <2> HIDE DEF f
  <2> QED
    BY <1>2, <2>1, <2>2, MovesOn
<1> QED
  BY <1>3, <1>4 DEF EndBatch, Wake, Timeout

LEMMA BreakStep ==
  ASSUME FeedInv, NEW c \in Clients, Break(c)
  PROVE  FeedInv'
<1>1. TypeOK /\ PassedNothing(c) /\ cursor[c] \in Nat
  BY DEF FeedInv, NothingPassedOver, TypeOK
<1>2. cursor' = [cursor EXCEPT ![c] = cursor[c]]
  BY <1>1 DEF Break, TypeOK
<1> DEFINE f == [Closed EXCEPT !.at = "off"]
<1>3. f \in Feed /\ f.at = "off" /\ f.batch = {} /\ f.sent = {}
  BY DEF Closed, Feed
<1>4. Keeps(f, cursor[c])
  BY <1>1, <1>3 DEF Keeps, PassedNothing
<1>5. detours' \in 0..MaxDetours
  BY <1>1, FeedConstantsOK DEF Break, Detour, TypeOK
<1>6. feed' = [feed EXCEPT ![c] = f]
  BY DEF Break
<1> HIDE DEF f
<1> QED
  BY <1>1, <1>2, <1>3, <1>4, <1>5, <1>6, ClientMoves DEF Break, TypeOK, fanout

-----------------------------------------------------------------------------
(* Theorems *)

LEMMA FeedStep ==
  ASSUME FeedInv, [Next]_vars
  PROVE  FeedInv'
<1>1. ASSUME NEW c \in Clients, Client(c)
      PROVE  FeedInv'
  BY <1>1, OpenStep, FollowStep, ReadStep, YieldStep, ReceiveStep, FollowerMovesOn, BreakStep
     DEF Client, Follower
<1>2. CASE UNCHANGED vars
  <2>1. Last' = Last
    BY <1>2 DEF vars, writing, Last
  <2>2. TypeOK'
    BY <1>2 DEF vars, writing, fanout, FeedInv, TypeOK
  <2>3. LockGuardsLog'
    BY <1>2, <2>1 DEF vars, writing, FeedInv, LockGuardsLog
  <2>4. Last \in Nat
    BY LastIsNat DEF FeedInv
  <2> QED
    BY <1>2, <2>1, <2>2, <2>3, <2>4, ClientsStay DEF vars, writing
<1> QED
  BY <1>1, <1>2, WriterStep, DeleteProgressStep, FanoutStep DEF Next

\* Sequence numbers are guarded by the thread's row lock, and nothing lies between what
\* a client has received and what its follower has read, but what is in flight, in the
\* batch, or deleted - for any writers, clients and batch size.
THEOREM FeedInvHolds == Spec => []FeedInv
BY InitFeed, FeedStep, PTL DEF Spec

-----------------------------------------------------------------------------
(* The log and its followers implement ThreadFeed *)

\* What ThreadFeed calls open and gone.
Loaded == {c \in Clients : feed[c].at # "closed"}
Gone == 1..Last \ log

LEMMA PromiseInit == Init => Promise!Init
BY DEF Init, Last, Closed, Promise!Init

\* A step that moves followers, connections or notifications is no step of ThreadFeed.
LEMMA Stutters ==
  ASSUME Last' = Last, log' = log, cursor' = cursor, Loaded' = Loaded
  PROVE  UNCHANGED Promise!vars
BY DEF Promise!vars, Loaded

LEMMA WriterKeepsPromise ==
  ASSUME FeedInv, NEW w \in Writers, Writer(w)
  PROVE  Promise!Commit \/ UNCHANGED Promise!vars
<1>1. TypeOK /\ LockGuardsLog /\ Last \in Nat
  BY LastIsNat DEF FeedInv
<1>2. UNCHANGED <<feed, cursor>> /\ Loaded' = Loaded
  BY DEF Writer, Begin, Commit, Abort, Notify, LoseNotification, fanout, Loaded
<1>3. CASE \E kind \in Kind : Begin(w, kind)
  <2>1. PICK kind \in Kind : Begin(w, kind)
    BY <1>3
  <2>2. work'[w].base = nextSeq /\ lock' = w /\ lock = None /\ w # None
    BY <1>1, <2>1, FeedConstantsOK DEF Begin, TypeOK
  <2>3. Last' = Last /\ log' = log
    BY <2>1, <2>2 DEF Begin, Last
  <2> QED
    BY <1>2, <2>3, Stutters
<1>4. CASE Commit(w)
  <2> DEFINE kind == work[w].at
             new  == work[w].base + 1 .. work[w].base + Size(kind)
  <2>1. /\ kind \in Kind /\ lock = w /\ lock # None /\ Size(kind) \in Nat
        /\ nextSeq = work[w].base + Size(kind) /\ work[w].base \in Nat
    BY <1>1, <1>4, FeedConstantsOK DEF Commit, LockGuardsLog, Size, TypeOK, Work
  <2>2. Last = work[w].base /\ Last' = nextSeq
    BY <1>4, <2>1 DEF Commit, Last
  <2>3. log' \subseteq log \cup new /\ new \subseteq log'
    BY <1>1, <1>4 DEF Commit, Kind
  <2>4. Last' \in Nat /\ Last <= Last' /\ new = Last + 1 .. Last'
    BY <1>1, <2>1, <2>2
  <2> HIDE DEF kind, new
  <2>5. Gone \subseteq Gone'
    BY <1>1, <2>3, <2>4 DEF Gone
  <2>6. Gone' \subseteq 1..Last
    BY <1>1, <2>3, <2>4 DEF Gone
  <2> QED
    BY <1>2, <2>4, <2>5, <2>6 DEF Promise!Commit, Promise!Events, Gone, Loaded
<1>5. CASE Abort(w)
  <2>1. lock = w /\ w # None
    BY <1>1, <1>5, FeedConstantsOK DEF Abort, LockGuardsLog
  <2>2. Last' = Last /\ log' = log
    BY <1>5, <2>1 DEF Abort, Last
  <2> QED
    BY <1>2, <2>2, Stutters
<1>6. CASE Notify(w) \/ LoseNotification(w)
  <2>1. /\ work[w].at = "notify" /\ work' = [work EXCEPT ![w] = NoWork]
        /\ UNCHANGED <<nextSeq, log, lock>>
    BY <1>6 DEF Notify, LoseNotification
  <2>2. lock # w
    BY <1>1, <2>1 DEF LockGuardsLog, Kind
  <2>3. Last' = Last /\ log' = log
    BY <1>1, <2>1, <2>2 DEF Last, TypeOK
  <2> QED
    BY <1>2, <2>3, Stutters
<1> QED
  BY <1>3, <1>4, <1>5, <1>6 DEF Writer

LEMMA DeletionKeepsPromise ==
  ASSUME FeedInv, DeleteProgress
  PROVE  Promise!Commit
<1>1. Last' = Last /\ Last \in Nat /\ log' \subseteq log
  BY LastIsNat DEF FeedInv, DeleteProgress, Last
<1>2. UNCHANGED <<feed, cursor>> /\ Gone \subseteq Gone' /\ Gone' \subseteq 1..Last
  BY <1>1 DEF DeleteProgress, Gone
<1> QED
  BY <1>1, <1>2 DEF Promise!Commit, Promise!Events, Gone

LEMMA FanoutKeepsPromise ==
  ASSUME FeedInv, Fanout
  PROVE  UNCHANGED Promise!vars
<1>1. UNCHANGED <<writing, cursor>> /\ (feed' = feed \/ feed' = Notified)
  BY DEF Fanout, Listen, Establish, HandleNotification, Disconnect, Reconnect
<1>2. Last' = Last /\ log' = log
  BY <1>1 DEF writing, Last
<1>3. ASSUME NEW c \in Clients
      PROVE  feed'[c].at = feed[c].at
  BY <1>1 DEF FeedInv, TypeOK, Notified, Feed
<1> QED
  BY <1>1, <1>2, <1>3, Stutters DEF Loaded

LEMMA OpenKeepsPromise ==
  ASSUME FeedInv, NEW c \in Clients, Open(c)
  PROVE  Promise!Open(c)
<1>1. TypeOK /\ LockGuardsLog /\ Last \in Nat
  BY LastIsNat DEF FeedInv
<1>2. Last' = Last /\ log' = log
  BY DEF Open, writing, Last
<1>3. PICK s \in {0} \cup log : /\ s = 0 \/ \A t \in log : t <= s
                              /\ cursor' = [cursor EXCEPT ![c] = s]
  BY DEF Open
<1>4. s \in 0..Last
  BY <1>1, <1>3 DEF TypeOK, LockGuardsLog
<1>5. s = 0 \/ \A m \in s+1..Last : m \in Gone
  BY <1>1, <1>3, <1>4 DEF Gone
<1>6. c \notin Loaded /\ Loaded' = Loaded \cup {c}
  <2>1. feed'[c].at = "off" /\ \A d \in Clients \ {c} : feed'[d] = feed[d]
    BY <1>1 DEF Open, TypeOK, Feed
  <2> QED
    BY <2>1 DEF Open, Loaded
<1> QED
  BY <1>2, <1>3, <1>4, <1>5, <1>6 DEF Promise!Open, Loaded, Gone

LEMMA ReceiveKeepsPromise ==
  ASSUME FeedInv, NEW c \in Clients, Receive(c)
  PROVE  Promise!Receive(c)
<1>1. TypeOK /\ LockGuardsLog /\ PassedNothing(c) /\ Last \in Nat /\ feed[c] \in Feed
  BY LastIsNat DEF FeedInv, NothingPassedOver, TypeOK
<1>2. Last' = Last /\ log' = log
  BY DEF Receive, writing, Last
<1>3. PICK s \in feed[c].sent :
        /\ Least(s, feed[c].sent)
        /\ cursor' = [cursor EXCEPT ![c] = s]
        /\ feed' = [feed EXCEPT ![c].sent = @ \ {s}]
  BY DEF Receive
<1>4. /\ s \in Nat /\ cursor[c] \in Nat /\ feed[c].pos \in Nat
      /\ cursor[c] < s /\ s <= feed[c].pos /\ feed[c].pos <= Last /\ Following(c)
  BY <1>1, <1>3 DEF PassedNothing, TypeOK, Feed
<1>5. ASSUME NEW m \in cursor[c]+1..s-1
      PROVE  m \in Gone
  <2>1. m \in 1..Last /\ cursor[c] < m /\ m < s
    BY <1>1, <1>4
  <2>2. m \notin feed[c].sent
    BY <1>1, <1>3, <1>4, <2>1 DEF Least
  <2> QED
    BY <1>1, <1>4, <2>1, <2>2 DEF PassedNothing, Gone
<1>6. c \in Loaded /\ Loaded' = Loaded
  <2>1. \A d \in Clients : feed'[d].at = feed[d].at
    BY <1>1, <1>3 DEF TypeOK, Feed
  <2> QED
    BY <1>4, <2>1 DEF Following, Loaded
<1>7. s \in cursor[c]+1..Last
  BY <1>1, <1>4
<1> QED
  BY <1>2, <1>3, <1>5, <1>6, <1>7 DEF Promise!Receive, Loaded, Gone

\* Whatever a follower does, and a stream that breaks, is not seen by ThreadFeed.
LEMMA FollowerStutters ==
  ASSUME FeedInv, NEW c \in Clients, Follower(c) \/ Break(c)
  PROVE  UNCHANGED Promise!vars
<1>1. UNCHANGED <<writing, cursor>>
  BY DEF Follower, Follow, Observe, Read, Yield, EndBatch, Wake, Timeout, Break
<1>2. Last' = Last /\ log' = log
  BY <1>1 DEF writing, Last
<1>3. \A d \in Clients : feed'[d].at # "closed" <=> feed[d].at # "closed"
  <2>1. feed \in [Clients -> Feed] /\ feed[c] \in Feed
    BY DEF FeedInv, TypeOK
  <2>2. CASE Follow(c) \/ Break(c)
    BY <2>1, <2>2 DEF Follow, Break, Following, Closed
  <2>3. CASE Observe(c) \/ Read(c)
    BY <2>1, <2>3 DEF Observe, Read, Feed
  <2>4. CASE Yield(c)
    BY <2>1, <2>4 DEF Yield, Feed
  <2>5. CASE EndBatch(c) \/ Wake(c) \/ Timeout(c)
    BY <2>1, <2>5 DEF EndBatch, Wake, Timeout, Feed
  <2> QED
    BY <2>2, <2>3, <2>4, <2>5 DEF Follower
<1>4. Loaded' = Loaded
  BY <1>3 DEF Loaded
<1> QED
  BY <1>1, <1>2, <1>4, Stutters

\* The log, the fan-out and the followers implement ThreadFeed, for any writers, clients
\* and batch size.
THEOREM PromiseKept == Spec => KeepsPromise
<1>1. ASSUME FeedInv, [Next]_vars
      PROVE  [Promise!Next]_(Promise!vars)
  <2>1. CASE UNCHANGED vars
    <3>1. Last' = Last /\ Loaded' = Loaded
      BY <2>1 DEF vars, writing, Last, Loaded
    <3> QED
      BY <2>1, <3>1, Stutters DEF vars, writing
  <2>2. ASSUME NEW c \in Clients, Client(c)
        PROVE  [Promise!Next]_(Promise!vars)
    BY <1>1, <2>2, OpenKeepsPromise, ReceiveKeepsPromise, FollowerStutters
       DEF Client, Promise!Next
  <2> QED
    BY <1>1, <2>1, <2>2, WriterKeepsPromise, DeletionKeepsPromise, FanoutKeepsPromise
       DEF Next, Promise!Next
<1> QED
  BY <1>1, PromiseInit, FeedInvHolds, PTL DEF Spec, KeepsPromise, Promise!Spec

-----------------------------------------------------------------------------
(* Sets of numbers *)

LEMMA LeastExists ==
  ASSUME NEW S, S \subseteq Nat, S # {}
  PROVE  \E m \in S : Least(m, S)
<1>1. PICK m \in S : \A n \in S : ~(<<n, m>> \in OpToRel(<, Nat))
  BY NatLessThanWellFounded, WFMin
<1>2. \A n \in S : ~(n < m)
  BY <1>1 DEF OpToRel
<1> QED
  BY <1>2 DEF Least

LEMMA GreatestExists ==
  ASSUME NEW n \in Nat, NEW S, S \subseteq 1..n, S # {}
  PROVE  \E m \in S : \A s \in S : s <= m
<1> DEFINE Bounds == {b \in Nat : \A s \in S : s <= b}
<1>1. n \in Bounds
  OBVIOUS
<1>2. PICK m \in Bounds : Least(m, Bounds)
  BY <1>1, LeastExists
<1>3. m \in S
  <2> SUFFICES ASSUME m \notin S
               PROVE  FALSE
    OBVIOUS
  <2>1. m \in Nat /\ m - 1 \in Nat
    <3>1. PICK s \in S : TRUE
      OBVIOUS
    <3>2. s \in Nat /\ s >= 1
      OBVIOUS
    <3>3. m \in Nat /\ s <= m
      OBVIOUS
    <3> QED
      BY <3>2, <3>3
  <2>2. ASSUME NEW s \in S
        PROVE  s <= m - 1
    BY <2>1
  <2>3. m - 1 \in Bounds
    BY <2>1, <2>2
  <2> QED
    BY <1>2, <2>1, <2>3 DEF Least
<1> QED
  BY <1>3

\* A batch that leaves something has as many events as were asked for.
LEMMA BatchIsFull ==
  ASSUME TypeOK, NEW pos \in Nat, After(pos) \ Batch(pos) # {}
  PROVE  Cardinality(Batch(pos)) = BatchSize
<1> DEFINE A == After(pos)
           B == Batch(pos)
           Before(n) == {t \in A : t < n}
<1>1. /\ A \subseteq 1..nextSeq /\ A \subseteq Nat /\ B \subseteq A /\ nextSeq \in Nat
      /\ BatchSize \in Nat \ {0} /\ A \ B # {}
  <2>1. B \subseteq A
    BY DEF Batch
  <2>2. A \subseteq log /\ log \subseteq 1..nextSeq /\ nextSeq \in Nat
    BY DEF TypeOK, After
  <2>3. A \ B # {}
    OBVIOUS
  <2>4. 1..nextSeq \subseteq Nat
    BY <2>2
  <2> HIDE DEF A, B
  <2> QED
    BY <2>1, <2>2, <2>3, <2>4, FeedConstantsOK
<1>2. \A n \in A : n \in B <=> Cardinality(Before(n)) < BatchSize
  BY DEF Batch
<1>3. IsFiniteSet(A) /\ IsFiniteSet(B)
  <2>1. IsFiniteSet(1..nextSeq)
    BY <1>1, FS_Interval
  <2> HIDE DEF A, B
  <2> QED
    BY <1>1, <2>1, FS_Subset
<1>4. \A n : IsFiniteSet(Before(n)) /\ Cardinality(Before(n)) \in Nat
  <2> HIDE DEF A
  <2>1. \A n : Before(n) \subseteq A
    OBVIOUS
  <2> HIDE DEF Before
  <2> QED
    BY <1>3, <2>1, FS_Subset, FS_CardinalityType
<1>5. Cardinality(B) \in Nat
  BY <1>3, FS_CardinalityType
<1>6. PICK x \in A \ B : Least(x, A \ B)
  <2> HIDE DEF A, B
  <2> QED
    BY <1>1, LeastExists
<1>7. B = Before(x)
  <2>1. ASSUME NEW t \in B
        PROVE  t < x
    <3>1. ~(x < t)
      <4>1. x \in log /\ pos < x
        BY DEF After
      <4> QED
        BY <1>6, <4>1, BatchHasNoGaps
    <3>2. t \in Nat /\ x \in Nat /\ t # x
      BY <1>1, <1>6
    <3> QED
      BY <3>1, <3>2
  <2>2. ASSUME NEW t \in A, t < x
        PROVE  t \in B
    BY <1>1, <1>6, <2>2 DEF Least
  <2> HIDE DEF A, B
  <2> QED
    BY <1>1, <2>1, <2>2
<1>8. Cardinality(B) >= BatchSize
  <2> HIDE DEF A, B
  <2> QED
    BY <1>1, <1>2, <1>4, <1>6, <1>7
<1>9. B # {}
  <2> HIDE DEF A, B
  <2> QED
    BY <1>1, <1>8, FS_EmptySet
<1>10. PICK y \in B : \A t \in B : t <= y
  <2> HIDE DEF A, B
  <2> QED
    BY <1>1, <1>9, GreatestExists
<1>11. B \ {y} \subseteq Before(y)
  <2> HIDE DEF A, B
  <2> QED
    BY <1>1, <1>10
<1>12. /\ Cardinality(B \ {y}) = Cardinality(B) - 1
       /\ Cardinality(B \ {y}) <= Cardinality(Before(y))
  <2> HIDE DEF A, B, Before
  <2> QED
    BY <1>3, <1>4, <1>10, <1>11, FS_RemoveElement, FS_Subset
<1>13. Cardinality(Before(y)) < BatchSize
  <2> HIDE DEF A, B
  <2> QED
    BY <1>1, <1>2, <1>10
<1>14. Cardinality(Before(y)) \in Nat
  BY <1>4
<1> HIDE DEF A, Before
<1>15. Cardinality(B) = BatchSize
  <2> HIDE DEF B
  <2> QED
    BY <1>1, <1>5, <1>8, <1>12, <1>13, <1>14
<1> QED
  BY <1>15

-----------------------------------------------------------------------------
(* The invariant *)

\* A follower that will wait, or waits, although there is something to read.
Needs(f) ==
  \/ f.at = "wait" /\ After(f.pos) # {}
  \/ f.at = "yield" /\ ~f.full /\ After(f.pos) \ f.batch # {}

LEMMA WakeInvIs ==
  WakeInv <=> FollowersConnect /\ \A c \in Clients : Needs(feed[c]) => Signalled(c)
BY DEF WakeInv, BatchIsLast, NoLostWakeup, Needs

LEMMA NeedsFollows ==
  ASSUME NEW c \in Clients, Needs(feed[c])
  PROVE  Following(c)
BY DEF Needs, Following

\* All are signalled after the step, or none needs it.
LEMMA SignalledIsEnough ==
  ASSUME FollowersConnect', \A c \in Clients : Needs(feed[c])' => Signalled(c)'
  PROVE  WakeInv'
BY DEF WakeInv, BatchIsLast, NoLostWakeup, Needs

LEMMA InitWake == Init => WakeInv
BY DEF Init, WakeInv, FollowersConnect, BatchIsLast, NoLostWakeup, Subscribers, Following, Closed

LEMMA WriterWakes ==
  ASSUME FeedInv, WakeInv, DeleteProgress \/ \E w \in Writers : Writer(w)
  PROVE  WakeInv'
<1>1. TypeOK /\ FollowersConnect /\ \A c \in Clients : Needs(feed[c]) => Signalled(c)
  BY WakeInvIs DEF FeedInv
<1>2. conn' = conn /\ feed' = feed
  BY DEF Writer, Begin, Commit, Abort, Notify, LoseNotification, DeleteProgress, fanout
<1>3. FollowersConnect'
  BY <1>1, <1>2 DEF FollowersConnect, Subscribers, Following
<1>4. CASE DeleteProgress \/ \E w \in Writers : Abort(w) \/ \E kind \in Kind : Begin(w, kind)
  <2>1. wire' = wire /\ lost' = lost /\ log' \subseteq log
    BY <1>4 DEF Begin, Abort, DeleteProgress, fanout
  <2>2. \A v \in Writers : work[v].at = "notify" => work'[v].at = "notify"
    BY <1>1, <1>4 DEF Begin, Abort, DeleteProgress, TypeOK, Kind
  <2>3. ASSUME NEW c \in Clients, Needs(feed[c])'
        PROVE  Signalled(c)'
    <3>1. Needs(feed[c])
      BY <1>2, <2>1, <2>3 DEF Needs, After
    <3> QED
      BY <1>1, <1>2, <2>1, <2>2, <3>1 DEF Signalled
  <2> QED
    BY <1>3, <2>3, SignalledIsEnough
<1>5. ASSUME NEW w \in Writers, Commit(w)
      PROVE  WakeInv'
  <2>1. work'[w].at = "notify"
    BY <1>1, <1>5 DEF Commit, TypeOK, Work
  <2> QED
    BY <1>3, <2>1, SignalledIsEnough DEF Signalled
<1>6. ASSUME NEW w \in Writers, Notify(w)
      PROVE  WakeInv'
  <2>1. CASE conn \in {"listening", "up"}
    <3>1. wire' > 0
      BY <1>1, <1>6, <2>1 DEF Notify, TypeOK
    <3> QED
      BY <1>3, <3>1, SignalledIsEnough DEF Signalled
  <2>2. CASE conn \in {"retry", "connecting"}
    BY <1>2, <1>3, <2>2, SignalledIsEnough DEF Signalled
  <2>3. CASE conn = "off"
    <3>1. \A c \in Clients : ~Following(c)'
      BY <1>1, <1>2, <2>3 DEF FollowersConnect, Subscribers, Following
    <3> QED
      BY <1>3, <3>1, SignalledIsEnough DEF Needs, Following
  <2> QED
    BY <1>1, <2>1, <2>2, <2>3 DEF TypeOK, Connection
<1>7. ASSUME NEW w \in Writers, LoseNotification(w)
      PROVE  WakeInv'
  BY <1>3, <1>7, SignalledIsEnough DEF LoseNotification, Signalled
<1> QED
  BY <1>4, <1>5, <1>6, <1>7 DEF Writer

LEMMA FanoutWakes ==
  ASSUME FeedInv, WakeInv, Fanout
  PROVE  WakeInv'
<1>1. TypeOK /\ FollowersConnect /\ \A c \in Clients : Needs(feed[c]) => Signalled(c)
  BY WakeInvIs DEF FeedInv
<1>2. UNCHANGED <<log, work>> /\ (feed' = feed \/ feed' = Notified)
  BY DEF Fanout, Listen, Establish, HandleNotification, Disconnect, Reconnect, writing
<1>3. \A c \in Clients : feed'[c].at = feed[c].at
  BY <1>1, <1>2 DEF TypeOK, Notified, Feed
<1>4. Subscribers' = Subscribers
  BY <1>3 DEF Subscribers, Following
<1>5. FollowersConnect'
  BY <1>1, <1>4 DEF Fanout, Listen, Establish, HandleNotification, Disconnect, Reconnect,
     FollowersConnect
<1>6. CASE feed' = Notified
  <2>1. \A c \in Clients : Following(c) => feed'[c].changed
    BY <1>1, <1>6 DEF Notified, TypeOK, Feed
  <2>2. ASSUME NEW c \in Clients, Needs(feed[c])'
        PROVE  Signalled(c)'
    BY <1>3, <2>1, <2>2 DEF Needs, Following, Signalled
  <2> QED
    BY <1>5, <2>2, SignalledIsEnough
<1>7. CASE Subscribers = {}
  <2>1. \A c \in Clients : ~Following(c)'
    BY <1>3, <1>7 DEF Subscribers, Following
  <2> QED
    BY <1>5, <2>1, SignalledIsEnough DEF Needs, Following
<1>8. CASE Subscribers # {} /\ (Listen \/ Disconnect \/ Reconnect)
  <2>1. conn' \in {"retry", "connecting", "listening"}
    BY <1>8 DEF Listen, Disconnect, Reconnect
  <2> QED
    BY <1>5, <2>1, SignalledIsEnough DEF Signalled
<1> QED
  BY <1>6, <1>7, <1>8 DEF Fanout, Establish, HandleNotification

\* A step of one client, by what it makes of its follower.
LEMMA ClientWakes ==
  ASSUME FeedInv, WakeInv, NEW c \in Clients, NEW f, feed' = [feed EXCEPT ![c] = f],
         UNCHANGED <<writing, wire, lost>>,
         f.at \in {"closed", "off"} \/ Following(c) \/ conn' # "off",
         conn' = conn \/ conn' = "connecting",
         Needs(f) => Following(c) /\ Needs(feed[c]) /\ f.changed = feed[c].changed
  PROVE  WakeInv'
<1>1. /\ TypeOK /\ FollowersConnect
      /\ \A d \in Clients : Needs(feed[d]) => Signalled(d)
  BY WakeInvIs DEF FeedInv
<1>2. feed'[c] = f /\ \A d \in Clients \ {c} : feed'[d] = feed[d]
  BY <1>1 DEF TypeOK
<1>3. FollowersConnect'
  <2> SUFFICES ASSUME conn' = "off"
               PROVE  Subscribers' = {}
    BY DEF FollowersConnect
  <2>1. conn = "off" /\ Subscribers = {}
    BY <1>1 DEF FollowersConnect
  <2>2. \A d \in Clients : ~Following(d)
    BY <2>1 DEF Subscribers
  <2>3. \A d \in Clients : ~Following(d)'
    BY <1>2, <2>2 DEF Following
  <2> QED
    BY <2>3 DEF Subscribers
<1>4. CASE conn' = "connecting"
  BY <1>3, <1>4, SignalledIsEnough DEF Signalled
<1>5. CASE conn' = conn
  <2>1. ASSUME NEW d \in Clients, Needs(feed[d])'
        PROVE  Signalled(d)'
    <3>1. log' = log /\ work' = work
      BY DEF writing
    <3>2. Needs(feed'[d])
      BY <2>1, <3>1 DEF Needs, After
    <3>3. Needs(feed[d]) /\ feed'[d].changed = feed[d].changed
      BY <1>2, <3>2
    <3> QED
      BY <1>1, <1>5, <3>1, <3>3 DEF Signalled
  <2> QED
    BY <1>3, <2>1, SignalledIsEnough
<1> QED
  BY <1>4, <1>5

LEMMA ClientStepWakes ==
  ASSUME FeedInv, WakeInv, NEW c \in Clients, Client(c)
  PROVE  WakeInv'
<1>1. TypeOK /\ feed \in [Clients -> Feed] /\ feed[c] \in Feed
  BY DEF FeedInv, TypeOK
<1>2. CASE Open(c)
  <2> DEFINE f == [feed[c] EXCEPT !.at = "off"]
  <2>1. f.at = "off" /\ ~Needs(f)
    BY <1>1 DEF Feed, Needs
  <2>2. feed' = [feed EXCEPT ![c] = f]
    BY <1>2 DEF Open
  <2> HIDE DEF f
  <2> QED
    BY <1>2, <2>1, <2>2, ClientWakes DEF Open, fanout
<1>3. CASE Follow(c)
  <2> DEFINE f == [Closed EXCEPT !.at = "loop", !.pos = cursor[c]]
  <2>1. ~Needs(f)
    BY DEF Closed, Needs
  <2>2. /\ feed' = [feed EXCEPT ![c] = f] /\ conn' # "off"
        /\ conn' = conn \/ conn' = "connecting"
    BY <1>3 DEF Follow
  <2> HIDE DEF f
  <2> QED
    BY <1>3, <2>1, <2>2, ClientWakes DEF Follow
<1>4. CASE Observe(c)
  <2> DEFINE f == [feed[c] EXCEPT !.at = "read", !.changed = FALSE]
  <2>1. ~Needs(f) /\ Following(c)
    BY <1>1, <1>4 DEF Observe, Feed, Needs, Following
  <2>2. feed' = [feed EXCEPT ![c] = f]
    BY <1>4, Zenon DEF Observe
  <2> HIDE DEF f
  <2> QED
    BY <1>4, <2>1, <2>2, ClientWakes DEF Observe, fanout
<1>5. CASE Read(c)
  <2> DEFINE batch == Batch(feed[c].pos)
             full == Cardinality(batch) = BatchSize
             f == [feed[c] EXCEPT !.at = "yield", !.batch = batch, !.full = full]
  <2>1. full \in BOOLEAN
    BY Zenon
  <2>2. ~full => After(feed[c].pos) \ batch = {}
    BY <1>1, BatchIsFull DEF Feed
  <2>3. feed' = [feed EXCEPT ![c] = f] /\ Following(c)
    BY <1>5 DEF Read, Following
  <2> HIDE DEF batch, full
  <2>4. f.at = "yield" /\ f.pos = feed[c].pos /\ f.batch = batch /\ f.full = full
    BY <1>1 DEF Feed
  <2>5. ~Needs(f)
    BY <2>1, <2>2, <2>4 DEF Needs
  <2> HIDE DEF f
  <2> QED
    BY <1>5, <2>3, <2>5, ClientWakes DEF Read, fanout
<1>6. CASE Yield(c)
  <2>1. PICK s \in feed[c].batch :
          feed' = [feed EXCEPT ![c] = [feed[c] EXCEPT !.pos = s, !.batch = @ \ {s},
                                                      !.sent = @ \cup {s}]]
    BY <1>6 DEF Yield
  <2> DEFINE f == [feed[c] EXCEPT !.pos = s, !.batch = @ \ {s}, !.sent = @ \cup {s}]
  <2>2. feed' = [feed EXCEPT ![c] = f]
    BY <2>1
  <2>3. /\ f.at = "yield" /\ f.pos = s /\ f.batch = feed[c].batch \ {s}
        /\ f.full = feed[c].full /\ f.changed = feed[c].changed
        /\ feed[c].at = "yield" /\ Following(c)
    BY <1>1, <1>6 DEF Yield, Feed, Following
  <2>4. s \in Nat /\ feed[c].pos \in Nat /\ feed[c].pos < s /\ log \subseteq Nat
    BY <1>1 DEF FeedInv, NothingPassedOver, PassedNothing, Feed, TypeOK
  <2>5. After(f.pos) \ f.batch \subseteq After(feed[c].pos) \ feed[c].batch
    BY <2>3, <2>4 DEF After
  <2>6. Needs(f) => Needs(feed[c])
    BY <2>3, <2>5 DEF Needs
  <2> HIDE DEF f
  <2> QED
    BY <1>6, <2>2, <2>3, <2>6, ClientWakes DEF Yield, fanout
<1>7. CASE EndBatch(c)
  <2> DEFINE f == [feed[c] EXCEPT !.at = IF feed[c].full THEN "read" ELSE "wait"]
  <2>1. feed' = [feed EXCEPT ![c] = f] /\ Following(c) /\ feed[c].at = "yield"
    BY <1>7 DEF EndBatch, Following
  <2>2. /\ f.at = IF feed[c].full THEN "read" ELSE "wait"
        /\ f.pos = feed[c].pos /\ f.changed = feed[c].changed
    BY <1>1 DEF Feed
  <2>3. Needs(f) => Needs(feed[c])
    BY <1>7, <2>1, <2>2 DEF EndBatch, Needs
  <2> HIDE DEF f
  <2> QED
    BY <1>7, <2>1, <2>2, <2>3, ClientWakes DEF EndBatch, fanout
<1>8. CASE Wake(c) \/ Timeout(c)
  <2> DEFINE f == [feed[c] EXCEPT !.at = "loop"]
  <2>1. feed' = [feed EXCEPT ![c] = f] /\ Following(c)
    BY <1>8 DEF Wake, Timeout, Following
  <2>2. ~Needs(f)
    BY <1>1 DEF Feed, Needs
  <2> HIDE DEF f
  <2> QED
    BY <1>8, <2>1, <2>2, ClientWakes DEF Wake, Timeout, fanout
<1>9. CASE Receive(c)
  <2>1. PICK s \in feed[c].sent : feed' = [feed EXCEPT ![c].sent = @ \ {s}]
    BY <1>9 DEF Receive
  <2> DEFINE f == [feed[c] EXCEPT !.sent = @ \ {s}]
  <2>2. feed' = [feed EXCEPT ![c] = f]
    BY <2>1
  <2>3. /\ f.at = feed[c].at /\ f.pos = feed[c].pos /\ f.batch = feed[c].batch
        /\ f.full = feed[c].full /\ f.changed = feed[c].changed
    BY <1>1 DEF Feed
  <2>4. Needs(f) => Needs(feed[c]) /\ Following(c)
    BY <2>3 DEF Needs, Following
  <2>5. f.at \in {"closed", "off"} \/ Following(c)
    BY <2>3 DEF Following
  <2> HIDE DEF f
  <2> QED
    BY <1>9, <2>2, <2>3, <2>4, <2>5, ClientWakes DEF Receive, fanout
<1>10. CASE Break(c)
  <2> DEFINE f == [Closed EXCEPT !.at = "off"]
  <2>1. f.at = "off" /\ ~Needs(f)
    BY DEF Closed, Needs
  <2>2. feed' = [feed EXCEPT ![c] = f]
    BY <1>10 DEF Break
  <2> HIDE DEF f
  <2> QED
    BY <1>10, <2>1, <2>2, ClientWakes DEF Break, fanout
<1> QED
  BY <1>2, <1>3, <1>4, <1>5, <1>6, <1>7, <1>8, <1>9, <1>10 DEF Client, Follower

\* A follower that waits with something unread has been notified or will be, unless the
\* last notification was lost - for any writers, clients and batch size.
THEOREM NeverSleepsThrough == Spec => []NoLostWakeup
<1>1. ASSUME FeedInv, WakeInv, [Next]_vars
      PROVE  WakeInv'
  <2>1. CASE UNCHANGED vars
    BY <1>1, <2>1 DEF vars, writing, fanout, WakeInv, FollowersConnect, BatchIsLast,
       NoLostWakeup, Subscribers, Following, Signalled, After
  <2>2. CASE Next
    BY <1>1, <2>2, WriterWakes, FanoutWakes, ClientStepWakes DEF Next
  <2> QED
    BY <1>1, <2>1, <2>2
<1>2. WakeInv => NoLostWakeup
  BY DEF WakeInv
<1> QED
  BY <1>1, <1>2, InitWake, FeedInvHolds, PTL DEF Spec
=============================================================================
