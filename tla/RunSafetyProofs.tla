-------------------------- MODULE RunSafetyProofs --------------------------
(***************************************************************************)
(* Proofs of the safety of a run: one invocation at a time holds it, it is *)
(* settled once and by one attempt, and what its thread holds of it is     *)
(* what the user may rely on.  All rest on the invariant FencesAndLocks of *)
(* RunLifecycle; attempts and history have one of their own (AttemptsOwned *)
(* and ThreadsGuarded).                                                    *)
(* At the end, each run is shown to keep the promise of HeldRun.           *)
(*                                                                         *)
(* A step is first reduced to what it does to the status of each run       *)
(* (StatusMove), to the runs' fences and leases (FenceMove) and to the     *)
(* invocations (ExecMove); the invariant is then preserved whatever the    *)
(* step was.  Only the step that leases a run needs an argument of its own.*)
(***************************************************************************)
EXTENDS RunLifecycleProofs

-----------------------------------------------------------------------------
(* What a step may do to the status of a run *)

StatusMove(r) ==
  LET s == row[r].status  n == row'[r].status IN
  \/ n = s
  \/ s \in Active /\ n \in Active \cup {"cancelled"}
  \/ s \in LeasedOut /\ n \in Outcome /\ Unlocked(r) /\ txn' = txn
  \/ s = "failed" /\ n = "queued" /\ txn' = txn
  \/ /\ s = "absent" /\ n = "queued"
     /\ txn[ThreadOf[r]].kind = "send" /\ txn[ThreadOf[r]].run = r
     /\ txn' = [txn EXCEPT ![ThreadOf[r]] = Free]

LEMMA ActiveStatuses ==
  /\ LeasedOut \subseteq Active
  /\ {"queued", "leased", "running", "waiting_input", "waiting_takeover"} = Active
  /\ "cancelled" \notin Active /\ "absent" \notin Active
  /\ Outcome \cap Active = {} /\ Outcome = {"completed", "failed"}
BY DEF LeasedOut, Active, Outcome

LEMMA UserStatus ==
  TypeOK /\ LockedRunsStay /\ User => \A r \in Runs : StatusMove(r)
<1> SUFFICES ASSUME TypeOK, LockedRunsStay, User, NEW q \in Runs PROVE StatusMove(q)
  OBVIOUS
<1> USE ConstantsOK, ActiveStatuses
<1>0. row \in [Runs -> Row]
  BY DEF TypeOK
<1>1. ASSUME row' = row PROVE StatusMove(q)
  BY <1>1 DEF StatusMove
<1>2. ASSUME NEW t \in Threads, CommitSend(t) PROVE StatusMove(q)
  <2>1. /\ txn[t].kind = "send" /\ txn[t].run \in Runs
        /\ ThreadOf[txn[t].run] = t /\ row[txn[t].run].status = "absent"
        /\ \A r \in txn[t].runs : row[r].status \notin {"absent", "completed", "failed"}
    BY <1>2 DEF CommitSend, LockedRunsStay, TypeOK
  <2>2. CASE q = txn[t].run
    <3>1. row'[q].status = "queued"
      <4>1. row[q] \in Row
        BY <1>0
      <4>2. row'[q] = [row[q] EXCEPT !.status = "queued"]
        BY <1>2, <2>2 DEF CommitSend
      <4> QED
        BY <4>1, <4>2 DEF Row
    <3>2. txn' = [txn EXCEPT ![t] = Free]
      BY <1>2 DEF CommitSend
    <3> QED
      BY <2>1, <2>2, <3>1, <3>2 DEF StatusMove
  <2>3. CASE q # txn[t].run /\ q \in txn[t].runs
    <3>1. row'[q].status = "cancelled"
      BY <1>0, <1>2, <2>3 DEF CommitSend, Row
    <3>2. row[q].status \in Active \cup {"cancelled"}
      BY <1>0, <2>1, <2>3 DEF Row, Status, Terminal
    <3> QED
      BY <3>1, <3>2 DEF StatusMove
  <2>4. CASE q # txn[t].run /\ q \notin txn[t].runs
    BY <1>0, <1>2, <2>4 DEF CommitSend, StatusMove
  <2> QED
    BY <2>2, <2>3, <2>4
<1>3. ASSUME NEW r \in Runs, Answer(r) PROVE StatusMove(q)
  BY <1>0, <1>3 DEF Answer, StatusMove, Row
<1>4. ASSUME NEW r \in Runs, Retry(r) PROVE StatusMove(q)
  BY <1>0, <1>4 DEF Retry, Released, StatusMove, Row
<1>5. ASSUME NEW r \in Runs, ReleaseControl(r) PROVE StatusMove(q)
  BY <1>0, <1>5 DEF ReleaseControl, StatusMove, Row
<1>6. ASSUME NEW t \in Threads, StopRuns(t) PROVE StatusMove(q)
  <2>1. \/ row'[q] = row[q]
        \/ row[q].status \in Active /\ row'[q].status = "cancelled"
    BY <1>0, <1>6 DEF StopRuns, ActiveOn, Row
  <2> QED
    BY <2>1 DEF StatusMove
<1>7. ASSUME CommitClear PROVE StatusMove(q)
  <2>1. \/ row'[q] = row[q]
        \/ q \in txn[BotThread].runs /\ row'[q].status = "cancelled"
    BY <1>0, <1>7 DEF CommitClear, Row
  <2>2. q \in txn[BotThread].runs => row[q].status \in Active \cup {"cancelled"}
    <3>1. row[q].status \in Status
      BY <1>0 DEF Row
    <3>2. txn[BotThread].kind = "clear"
      BY <1>7 DEF CommitClear
    <3>3. q \in txn[BotThread].runs
          => row[q].status \notin {"absent", "completed", "failed"}
      BY <3>2 DEF LockedRunsStay
    <3> QED
      BY <3>1, <3>3 DEF Status, Terminal
  <2> QED
    BY <2>1, <2>2 DEF StatusMove
<1>8. ASSUME NEW r \in Runs, BeginSend(r) \/ GrantControl(r) PROVE StatusMove(q)
  BY <1>1, <1>8 DEF BeginSend, GrantControl
<1>9. ASSUME NEW t \in Threads, DropLease(t) \/ ReadActive(t) \/ ApiFails(t)
      PROVE  StatusMove(q)
  BY <1>1, <1>9 DEF DropLease, ReadActive, ApiFails
<1>10. ASSUME BeginClear PROVE StatusMove(q)
  BY <1>1, <1>10 DEF BeginClear
<1> QED
  BY <1>2, <1>3, <1>4, <1>5, <1>6, <1>7, <1>8, <1>9, <1>10 DEF User

LEMMA ClaimingStatus ==
  ASSUME TypeOK, NEW e \in Execs, Claiming(e)
  PROVE  \A r \in Runs : StatusMove(r)
<1> SUFFICES ASSUME NEW q \in Runs PROVE StatusMove(q)
  OBVIOUS
<1> USE ConstantsOK, ActiveStatuses, Statuses
<1>0. row \in [Runs -> Row] /\ (exec[e].pc # "idle" => exec[e].run \in Runs)
  BY DEF TypeOK
<1>1. ASSUME row' = row PROVE StatusMove(q)
  BY <1>1 DEF StatusMove
<1>2. ASSUME NEW r \in Runs, Claim(e, r) PROVE StatusMove(q)
  BY <1>1, <1>2 DEF Claim
<1>3. ASSUME LeaseRun(e) PROVE StatusMove(q)
  <2>1. \/ row' = row
        \/ /\ row[exec[e].run].status \in Active /\ row'[exec[e].run].status = "leased"
           /\ \A r \in Runs : r # exec[e].run => row'[r] = row[r]
    <3>1. exec[e].run \in Runs /\ row[exec[e].run] \in Row
      BY <1>0, <1>3 DEF LeaseRun
    <3>2. \/ row' = row
          \/ /\ Leasable(exec[e].run)
             /\ row' = [row EXCEPT ![exec[e].run] =
                  [row[exec[e].run] EXCEPT !.status = "leased", !.owner = WorkerOf[e],
                     !.fence = exec[e].fence, !.live = TRUE, !.handback = FALSE]]
      BY <1>3 DEF LeaseRun
    <3>3. Leasable(exec[e].run) => row[exec[e].run].status \in Active
      BY DEF Leasable
    <3>4. [row[exec[e].run] EXCEPT !.status = "leased", !.owner = WorkerOf[e],
             !.fence = exec[e].fence, !.live = TRUE, !.handback = FALSE].status = "leased"
      BY <3>1 DEF Row
    <3> QED
      BY <1>0, <3>1, <3>2, <3>3, <3>4
  <2> QED
    BY <2>1 DEF StatusMove
<1>4. ASSUME FailBlocked(e) PROVE StatusMove(q)
  <2>1. \/ row' = row
        \/ /\ row[exec[e].run].status \in LeasedOut /\ row'[exec[e].run].status = "failed"
           /\ \A r \in Runs : r # exec[e].run => row'[r] = row[r]
    BY <1>0, <1>4 DEF FailBlocked, Owns, LeasedOut, Released, Row
  <2> QED
    BY <1>4, <2>1 DEF StatusMove, FailBlocked
<1>5. ASSUME ReleasePreflight(e) PROVE StatusMove(q)
  <2>1. \/ row' = row
        \/ /\ row[exec[e].run].status \in Active /\ row'[exec[e].run].status = "queued"
           /\ \A r \in Runs : r # exec[e].run => row'[r] = row[r]
    <3>1. /\ exec[e].run \in Runs /\ row[exec[e].run] \in Row
          /\ "leased" \in Active
      BY <1>0, <1>5 DEF ReleasePreflight, Active
    <3>2. \/ row' = row
          \/ /\ row[exec[e].run].status = "leased"
             /\ row' = [row EXCEPT ![exec[e].run] =
                  [row[exec[e].run] EXCEPT !.status = "queued", !.owner = None, !.live = FALSE]]
      BY <1>5 DEF ReleasePreflight, Owns, Released
    <3>3. [row[exec[e].run] EXCEPT !.status = "queued", !.owner = None, !.live = FALSE].status
            = "queued"
      BY <3>1 DEF Row
    <3> QED
      BY <1>0, <3>1, <3>2, <3>3
  <2> QED
    BY <2>1 DEF StatusMove
<1>6. ASSUME StartRun(e) PROVE StatusMove(q)
  <2>1. \/ row' = row
        \/ /\ row[exec[e].run].status \in Active /\ row'[exec[e].run].status = "running"
           /\ \A r \in Runs : r # exec[e].run => row'[r] = row[r]
    BY <1>0, <1>6 DEF StartRun, Owns, Row
  <2> QED
    BY <2>1 DEF StatusMove
<1>7. ASSUME RequeueComputerRun(e) PROVE StatusMove(q)
  <2>1. \/ row' = row
        \/ /\ row[exec[e].run].status \in Active /\ row'[exec[e].run].status = "queued"
           /\ \A r \in Runs : r # exec[e].run => row'[r] = row[r]
    BY <1>0, <1>7 DEF RequeueComputerRun, Holds, Owns, Released, Row
  <2> QED
    BY <2>1 DEF StatusMove
<1>8. ASSUME AcquireComputer(e) \/ ReturnComputer(e) \/ CreateAttempt(e)
      PROVE  StatusMove(q)
  BY <1>1, <1>8 DEF AcquireComputer, ReturnComputer, CreateAttempt
<1> QED
  BY <1>2, <1>3, <1>4, <1>5, <1>6, <1>7, <1>8 DEF Claiming

LEMMA WorkStatus ==
  ASSUME TypeOK, NEW e \in Execs, Work(e)
  PROVE  \A r \in Runs : StatusMove(r)
<1> SUFFICES ASSUME NEW q \in Runs PROVE StatusMove(q)
  OBVIOUS
<1> USE ConstantsOK, ActiveStatuses, Statuses
<1>0. row \in [Runs -> Row] /\ (exec[e].pc # "idle" => exec[e].run \in Runs)
  BY DEF TypeOK
<1>1. ASSUME row' = row PROVE StatusMove(q)
  BY <1>1 DEF StatusMove
<1>2. ASSUME RenewRun(e) PROVE StatusMove(q)
  BY <1>0, <1>2 DEF RenewRun, StatusMove, Row
<1>3. ASSUME PauseForInput(e) PROVE StatusMove(q)
  <2>1. \/ row' = row
        \/ /\ row[exec[e].run].status \in Active
           /\ row'[exec[e].run].status = "waiting_input"
           /\ \A r \in Runs : r # exec[e].run => row'[r] = row[r]
    BY <1>0, <1>3 DEF PauseForInput, Holds, Owns, Released, Row
  <2> QED
    BY <2>1 DEF StatusMove
<1>4. ASSUME PauseForTakeover(e) PROVE StatusMove(q)
  <2>1. \/ row' = row
        \/ /\ row[exec[e].run].status \in Active
           /\ row'[exec[e].run].status = "waiting_takeover"
           /\ \A r \in Runs : r # exec[e].run => row'[r] = row[r]
    BY <1>0, <1>4 DEF PauseForTakeover, Holds, Owns, Released, Row
  <2> QED
    BY <2>1 DEF StatusMove
<1>5. ASSUME NEW outcome \in Outcome, Finish(e, outcome) PROVE StatusMove(q)
  <2>1. \/ row' = row
        \/ /\ row[exec[e].run].status \in LeasedOut
           /\ row'[exec[e].run].status = outcome
           /\ \A r \in Runs : r # exec[e].run => row'[r] = row[r]
    BY <1>0, <1>5 DEF Finish, Holds, Owns, LeasedOut, Released, Row
  <2> QED
    BY <1>5, <2>1 DEF StatusMove, Finish
<1>6. ASSUME SetupFail(e) PROVE StatusMove(q)
  <2>1. \/ row' = row
        \/ /\ row[exec[e].run].status \in Active /\ row'[exec[e].run].status = "queued"
           /\ \A r \in Runs : r # exec[e].run => row'[r] = row[r]
    BY <1>0, <1>6 DEF SetupFail, Holds, Owns, Released, Row
  <2> QED
    BY <2>1 DEF StatusMove
<1>7. ASSUME \/ RenewScreen(e) \/ BeginPublish(e) \/ CommitPublish(e) \/ TakeComputer(e)
             \/ HoldScreen(e) \/ RecordSetupFailure(e) \/ Abandon(e)
             \/ ReleaseScreen(e) \/ CloseAttempt(e)
      PROVE  StatusMove(q)
  BY <1>1, <1>7
     DEF RenewScreen, BeginPublish, CommitPublish, TakeComputer, HoldScreen,
         RecordSetupFailure, Abandon, ReleaseScreen, CloseAttempt
<1> QED
  BY <1>2, <1>3, <1>4, <1>5, <1>6, <1>7 DEF Work

LEMMA EnvironmentStatus ==
  TypeOK /\ Environment => \A r \in Runs : StatusMove(r)
<1> SUFFICES ASSUME TypeOK, Environment, NEW q \in Runs PROVE StatusMove(q)
  OBVIOUS
<1>0. row \in [Runs -> Row]
  BY DEF TypeOK
<1>1. row'[q].status = row[q].status
  <2>1. row' = row \/ \E r \in Runs : row' = [row EXCEPT ![r].live = FALSE]
    BY DEF Environment, Crash, LeaseExpires, ScreenLeaseExpires, ListRuns, Reconcile
  <2>2. row[q] \in Row
    BY <1>0
  <2>3. [row[q] EXCEPT !.live = FALSE].status = row[q].status
    BY <2>2 DEF Row
  <2> QED
    BY <1>0, <2>1, <2>3
<1> QED
  BY <1>1 DEF StatusMove

LEMMA EveryStatusMove ==
  TypeOK /\ LockedRunsStay /\ Next => \A r \in Runs : StatusMove(r)
BY UserStatus, ClaimingStatus, WorkStatus, EnvironmentStatus DEF Next

-----------------------------------------------------------------------------
(* The runs a transaction has read *)

TxnMove(t) ==
  \/ txn'[t] = txn[t]
  \/ txn'[t].kind \in {"free", "publish"}
  \/ /\ row' = row /\ txn'[t].kind = "clear"
     /\ \A r \in txn'[t].runs : ThreadOf[r] = t /\ row[r].status \in Active
  \/ /\ row' = row /\ txn'[t].kind = "send"
     /\ ThreadOf[txn'[t].run] = t /\ row[txn'[t].run].status = "absent"
     /\ \A r \in txn'[t].runs : ThreadOf[r] = t /\ row[r].status \in Active

LEMMA EveryTxnMove ==
  TypeOK /\ Next => \A t \in Threads : TxnMove(t)
<1> SUFFICES ASSUME TypeOK, Next, NEW t \in Threads PROVE TxnMove(t)
  OBVIOUS
<1> USE ConstantsOK, ActiveStatuses
<1>0. txn \in [Threads -> Txn] /\ Free.kind = "free"
  BY DEF TypeOK, Free
<1>1. ASSUME txn' = txn PROVE TxnMove(t)
  BY <1>1 DEF TxnMove
<1>2. ASSUME NEW u \in Threads, txn' = [txn EXCEPT ![u] = Free] PROVE TxnMove(t)
  BY <1>0, <1>2 DEF TxnMove
<1>3. ASSUME NEW r \in Runs, BeginSend(r) PROVE TxnMove(t)
  <2>1. CASE t = ThreadOf[r]
    <3>1. /\ row' = row /\ row[r].status = "absent"
          /\ txn'[t] = [kind |-> "send", run |-> r,
                        runs |-> {q \in RunsOf(t) : row[q].status = "queued"}]
      BY <1>0, <1>3, <2>1 DEF BeginSend
    <3> QED
      BY <2>1, <3>1 DEF TxnMove, RunsOf
  <2>2. CASE t # ThreadOf[r]
    BY <1>0, <1>3, <2>2 DEF BeginSend, TxnMove
  <2> QED
    BY <2>1, <2>2
<1>4. ASSUME BeginClear PROVE TxnMove(t)
  <2>1. CASE t = BotThread
    <3>1. row' = row /\ txn'[t] = [kind |-> "clear", run |-> None, runs |-> ActiveOn(t)]
      BY <1>0, <1>4, <2>1 DEF BeginClear
    <3> QED
      BY <3>1 DEF TxnMove, ActiveOn, RunsOf
  <2>2. CASE t # BotThread
    BY <1>0, <1>4, <2>2 DEF BeginClear, TxnMove
  <2> QED
    BY <2>1, <2>2
<1>11. ASSUME NEW u \in Threads, ApiFails(u) PROVE TxnMove(t)
  BY <1>1, <1>2, <1>11 DEF ApiFails
<1>5. ASSUME User PROVE TxnMove(t)
  BY <1>1, <1>2, <1>3, <1>4, <1>5, <1>11
     DEF User, CommitSend, Answer, Retry, GrantControl, ReleaseControl, ReadActive,
         StopRuns, DropLease, CommitClear
<1>6. ASSUME NEW e \in Execs, Claiming(e) PROVE TxnMove(t)
  BY <1>1, <1>6
     DEF Claiming, Claim, LeaseRun, FailBlocked, ReleasePreflight, StartRun,
         RequeueComputerRun, AcquireComputer, ReturnComputer, CreateAttempt
<1>7. ASSUME NEW e \in Execs, BeginPublish(e) PROVE TxnMove(t)
  BY <1>0, <1>7 DEF BeginPublish, TxnMove
<1>8. ASSUME NEW e \in Execs, CommitPublish(e) PROVE TxnMove(t)
  BY <1>0, <1>8 DEF CommitPublish, TxnMove
<1>9. ASSUME NEW e \in Execs, Work(e) PROVE TxnMove(t)
  BY <1>1, <1>7, <1>8, <1>9
     DEF Work, RenewRun, RenewScreen, PauseForInput, TakeComputer, HoldScreen,
         PauseForTakeover, Finish, SetupFail, RecordSetupFailure, Abandon, ReleaseScreen,
         CloseAttempt
<1>10. ASSUME Environment PROVE TxnMove(t)
  BY <1>0, <1>10
     DEF Environment, Crash, LeaseExpires, ScreenLeaseExpires, ListRuns, Reconcile, TxnMove
<1> QED
  BY <1>5, <1>6, <1>9, <1>10 DEF Next

LEMMA LockedRunsStep ==
  TypeOK /\ TypeOK' /\ LockedRunsStay /\ Next => LockedRunsStay'
<1> SUFFICES ASSUME TypeOK, TypeOK', LockedRunsStay, Next, NEW t \in Threads
             PROVE  /\ txn'[t].kind = "send" => /\ ThreadOf[txn'[t].run] = t
                                                /\ row'[txn'[t].run].status = "absent"
                    /\ txn'[t].kind \in {"send", "clear"} =>
                         \A r \in txn'[t].runs :
                           /\ ThreadOf[r] = t
                           /\ row'[r].status \notin {"absent", "completed", "failed"}
  BY DEF LockedRunsStay
<1> USE ConstantsOK, ActiveStatuses
<1>1. CASE txn'[t] = txn[t] /\ txn[t].kind \in {"send", "clear"}
  <2>1. ASSUME NEW r \in Runs, ThreadOf[r] = t
        PROVE  /\ row[r].status = "absent" /\ txn[t].run = r => row'[r].status = "absent"
               /\ row[r].status \notin {"absent", "completed", "failed"}
                  => row'[r].status \notin {"absent", "completed", "failed"}
    <3>1. StatusMove(r)
      BY EveryStatusMove
    <3>2. txn' # [txn EXCEPT ![t] = Free]
      BY <1>1 DEF TypeOK, Free
    <3> QED
      BY <1>1, <2>1, <3>1, <3>2 DEF StatusMove, Unlocked
  <2>2. txn[t].runs \subseteq Runs /\ (txn[t].kind = "send" => txn[t].run \in Runs)
    BY DEF TypeOK, Txn
  <2> QED
    BY <1>1, <2>1, <2>2 DEF LockedRunsStay
<1>2. CASE txn'[t].kind \in {"free", "publish"}
  BY <1>2
<1>3. CASE row' = row /\ txn'[t] # txn[t] /\ txn'[t].kind \in {"send", "clear"}
  <2>1. TxnMove(t)
    BY EveryTxnMove
  <2> QED
    BY <1>3, <2>1 DEF TxnMove
<1> QED
  <2>1. TxnMove(t)
    BY EveryTxnMove
  <2>2. txn'[t].kind \in {"free", "send", "clear", "publish"}
    BY DEF TypeOK, Txn
  <2> QED
    BY <1>1, <1>2, <1>3, <2>1, <2>2 DEF TxnMove

-----------------------------------------------------------------------------
(* What a step may do to an invocation *)

ExecMove(e) ==
  \/ exec'[e].pc = "idle"
  \/ /\ exec[e].pc # "idle"
     /\ exec'[e].run = exec[e].run /\ exec'[e].fence = exec[e].fence
     /\ exec'[e].pc = "claiming" => exec[e].pc = "claiming"
     /\ exec'[e].pc \in PastLeasing => exec[e].pc \in PastLeasing \/ LeaseRun(e)
  \/ /\ row' = row
     /\ exec'[e].pc = "claiming" /\ exec'[e].run \in Runs
     /\ row[exec'[e].run].status \in Active
     /\ exec'[e].fence = row[exec'[e].run].fence + 1

LEMMA SameExec == ASSUME NEW e \in Execs, exec'[e] = exec[e] PROVE ExecMove(e)
BY DEF ExecMove

LEMMA OtherExec ==
  ASSUME TypeOK, NEW e \in Execs, NEW f \in Execs, e # f, NEW x,
         exec' = [exec EXCEPT ![f] = x]
  PROVE  ExecMove(e)
BY SameExec DEF TypeOK

LEMMA LeaveMove ==
  ASSUME TypeOK, NEW e \in Execs, NEW f \in Execs, exec' = Leave(f)
  PROVE  ExecMove(e) /\ exec'[f].pc = "idle"
<1>1. exec'[f].pc = "idle"
  BY DEF TypeOK, Leave, Idle
<1>2. e = f => ExecMove(e)
  BY <1>1 DEF ExecMove
<1> QED
  BY <1>1, <1>2, OtherExec DEF Leave

LEMMA GotoMove ==
  ASSUME TypeOK, NEW e \in Execs, NEW f \in Execs, NEW pc \in PC, exec' = Goto(f, pc),
         exec[f].pc # "idle", pc # "claiming",
         pc \in PastLeasing => exec[f].pc \in PastLeasing \/ LeaseRun(f)
  PROVE  ExecMove(e) /\ exec'[f].pc = pc
<1>1. exec' = [exec EXCEPT ![f] = [exec[f] EXCEPT !.pc = pc]]
  BY DEF Goto, TypeOK
<1>2. /\ exec'[f].pc = pc /\ exec'[f].run = exec[f].run
      /\ exec'[f].fence = exec[f].fence
  BY <1>1 DEF TypeOK, Exec
<1>3. CASE e = f
  BY <1>2, <1>3 DEF ExecMove
<1>4. CASE e # f
  <2>1. exec'[e] = exec[e]
    BY <1>1, <1>4 DEF TypeOK
  <2> QED
    BY <1>2, <2>1, SameExec
<1> QED
  BY <1>2, <1>3, <1>4

LEMMA Places ==
  /\ {"idle", "claiming", "leased", "started", "busy", "acquired", "active", "publishing",
      "taking", "handing", "requeued", "cleanup", "closing"} = PC
  /\ {"leased", "started", "busy", "acquired", "active", "publishing", "taking",
      "handing"} = PastLeasing
  /\ {"active", "publishing", "taking", "handing"} = Working
BY DEF PC, Attempting, PastLeasing, Working

LEMMA EveryExecMove ==
  TypeOK /\ Next => \A e \in Execs : ExecMove(e)
<1> SUFFICES ASSUME TypeOK, Next, NEW e \in Execs PROVE ExecMove(e)
  OBVIOUS
<1> USE Places
<1>0. exec \in [Execs -> Exec]
  BY DEF TypeOK
<1>1. ASSUME exec' = exec PROVE ExecMove(e)
  BY <1>1, SameExec
<1>2. ASSUME NEW f \in Execs, NEW r \in Runs, Claim(f, r) PROVE ExecMove(e)
  <2>1. CASE exec' = exec
    BY <1>1, <2>1
  <2>2. CASE exec' # exec
    <3>1. /\ row[r].status \in Active /\ row' = row
          /\ exec' = [exec EXCEPT ![f] =
               [Idle EXCEPT !.pc = "claiming", !.run = r, !.fence = row[r].fence + 1,
                  !.resume = row[r].status = "waiting_takeover" \/ row[r].handback,
                  !.handback = row[r].handback]]
      BY <1>2, <2>2 DEF Claim, NextFence
    <3>2. CASE e = f
      <4>1. /\ exec'[e].pc = "claiming" /\ exec'[e].run = r
            /\ exec'[e].fence = row[r].fence + 1
        BY <1>0, <3>1, <3>2 DEF Idle
      <4> QED
        BY <3>1, <4>1 DEF ExecMove
    <3>3. CASE e # f
      BY <3>1, <3>3, OtherExec
    <3> QED
      BY <3>2, <3>3
  <2> QED
    BY <2>1, <2>2
<1>3. ASSUME NEW f \in Execs, LeaseRun(f) PROVE ExecMove(e)
  BY <1>3, LeaveMove, GotoMove DEF LeaseRun
<1>4. ASSUME NEW f \in Execs, StartRun(f) PROVE ExecMove(e)
  BY <1>4, LeaveMove, GotoMove DEF StartRun
<1>5. ASSUME NEW f \in Execs,
             FailBlocked(f) \/ ReleasePreflight(f) \/ RequeueComputerRun(f) \/ CloseAttempt(f)
      PROVE  ExecMove(e)
  BY <1>5, LeaveMove DEF FailBlocked, ReleasePreflight, RequeueComputerRun, CloseAttempt
<1>6. ASSUME NEW f \in Execs, AcquireComputer(f) PROVE ExecMove(e)
  <2> DEFINE fence == IF lease.run = None THEN 1 ELSE lease.fence + 1
             x == [exec[f] EXCEPT !.pc = "acquired", !.screen = fence]
  <2>1. exec' = [exec EXCEPT ![f] = x] /\ exec[f].pc = "started"
    BY <1>6 DEF AcquireComputer
  <2>2. x.pc = "acquired" /\ x.run = exec[f].run /\ x.fence = exec[f].fence
    BY <1>0 DEF Exec
  <2> HIDE DEF x
  <2>3. CASE e = f
    BY <1>0, <2>1, <2>2, <2>3 DEF ExecMove
  <2> QED
    BY <2>1, <2>3, OtherExec
<1>7. ASSUME NEW f \in Execs, RenewRun(f) \/ RenewScreen(f) PROVE ExecMove(e)
  <2>1. \/ exec' = exec
        \/ /\ exec[f].pc \in Working
           /\ exec' = [exec EXCEPT ![f] = [exec[f] EXCEPT !.valid = FALSE]]
    BY <1>0, <1>7 DEF RenewRun, RenewScreen
  <2> DEFINE x == [exec[f] EXCEPT !.valid = FALSE]
  <2>2. x.pc = exec[f].pc /\ x.run = exec[f].run /\ x.fence = exec[f].fence
    BY <1>0 DEF Exec
  <2>3. exec' = exec \/ exec' = [exec EXCEPT ![f] = x]
    BY <2>1
  <2>4. exec' = exec \/ exec[f].pc \in Working
    BY <2>1
  <2> HIDE DEF x
  <2>5. CASE e = f /\ exec' # exec
    BY <1>0, <2>2, <2>3, <2>4, <2>5 DEF ExecMove
  <2> QED
    BY <1>1, <2>3, <2>5, OtherExec
<1>8. ASSUME NEW f \in Execs, BeginPublish(f) PROVE ExecMove(e)
  BY <1>8, GotoMove DEF BeginPublish
<1>9. ASSUME NEW f \in Execs, CommitPublish(f) PROVE ExecMove(e)
  BY <1>9, GotoMove DEF CommitPublish
<1>10. ASSUME NEW f \in Execs, PauseForInput(f) PROVE ExecMove(e)
  BY <1>10, GotoMove DEF PauseForInput
<1>11. ASSUME NEW f \in Execs, TakeComputer(f) \/ HoldScreen(f) PROVE ExecMove(e)
  BY <1>11, GotoMove DEF TakeComputer, HoldScreen
<1>12. ASSUME NEW f \in Execs, PauseForTakeover(f) PROVE ExecMove(e)
  <2>1. CASE exec' = Goto(f, "cleanup")
    BY <1>12, <2>1, GotoMove DEF PauseForTakeover
  <2>2. CASE exec' = [exec EXCEPT ![f] = [@ EXCEPT !.pc = "cleanup", !.retain = TRUE]]
    <3> DEFINE x == [exec[f] EXCEPT !.pc = "cleanup", !.retain = TRUE]
    <3>1. exec' = [exec EXCEPT ![f] = x] /\ exec[f].pc = "handing"
      BY <1>12, <2>2 DEF PauseForTakeover
    <3>2. x.pc = "cleanup" /\ x.run = exec[f].run /\ x.fence = exec[f].fence
      BY <1>0 DEF Exec
    <3> HIDE DEF x
    <3>3. CASE e = f
      BY <1>0, <3>1, <3>2, <3>3 DEF ExecMove
    <3> QED
      BY <3>1, <3>3, OtherExec
  <2> QED
    BY <1>12, <2>1, <2>2 DEF PauseForTakeover
<1>13. ASSUME NEW f \in Execs, NEW outcome \in Outcome, Finish(f, outcome) PROVE ExecMove(e)
  BY <1>13, GotoMove DEF Finish
<1>14. ASSUME NEW f \in Execs, SetupFail(f) \/ RecordSetupFailure(f) PROVE ExecMove(e)
  BY <1>14, GotoMove DEF SetupFail, RecordSetupFailure
<1>15. ASSUME NEW f \in Execs, Abandon(f) \/ ReleaseScreen(f) PROVE ExecMove(e)
  BY <1>15, GotoMove DEF Abandon, ReleaseScreen
<1>18. ASSUME NEW f \in Execs, ReturnComputer(f) PROVE ExecMove(e)
  BY <1>18, GotoMove, LeaveMove DEF ReturnComputer
<1>19. ASSUME NEW f \in Execs, CreateAttempt(f) PROVE ExecMove(e)
  <2> DEFINE x == [exec[f] EXCEPT !.pc = "active", !.attempt = Len(attempts) + 1]
  <2>1. exec' = [exec EXCEPT ![f] = x] /\ exec[f].pc = "acquired"
    BY <1>19 DEF CreateAttempt
  <2>2. x.pc = "active" /\ x.run = exec[f].run /\ x.fence = exec[f].fence
    BY <1>0 DEF Exec
  <2> HIDE DEF x
  <2>3. CASE e = f
    BY <1>0, <2>1, <2>2, <2>3 DEF ExecMove
  <2> QED
    BY <2>1, <2>3, OtherExec
<1>16. ASSUME User PROVE ExecMove(e)
  BY <1>1, <1>16
     DEF User, BeginSend, CommitSend, Answer, Retry, GrantControl, ReleaseControl, ReadActive,
         StopRuns, DropLease, ApiFails, BeginClear, CommitClear
<1>17. ASSUME Environment PROVE ExecMove(e)
  BY <1>1, <1>17, LeaveMove
     DEF Environment, Crash, LeaseExpires, ScreenLeaseExpires, ListRuns, Reconcile
<1> QED
  BY <1>2, <1>3, <1>4, <1>5, <1>6, <1>7, <1>8, <1>9, <1>10, <1>11, <1>12, <1>13, <1>14,
     <1>15, <1>16, <1>17, <1>18, <1>19
     DEF Next, Claiming, Work

LEMMA InvocationsHaveRunsStep ==
  TypeOK /\ LockedRunsStay /\ InvocationsHaveRuns /\ Next => InvocationsHaveRuns'
<1> SUFFICES ASSUME TypeOK, LockedRunsStay, InvocationsHaveRuns, Next, NEW e \in Execs,
                    exec'[e].pc # "idle"
             PROVE  row'[exec'[e].run].status # "absent"
  BY DEF InvocationsHaveRuns
<1> USE ActiveStatuses
<1>1. /\ exec'[e].run \in Runs
      /\ row[exec'[e].run].status # "absent"
  BY EveryExecMove DEF ExecMove, TypeOK, InvocationsHaveRuns
<1> QED
  BY <1>1, EveryStatusMove DEF StatusMove

-----------------------------------------------------------------------------
(* What a step may do to the lease of a run, unless it leases it *)

\* An invocation that owned the run has left it.
YieldedBy(e, r) ==
  /\ exec[e].pc \in PastLeasing /\ exec[e].run = r /\ exec[e].fence = row[r].fence
  /\ exec'[e].pc \notin PastLeasing

FenceMove(r) ==
  /\ row'[r].fence = row[r].fence
  /\ \/ row'[r] = row[r]
     \/ row'[r].status = "cancelled"
     \/ row[r].status \notin LeasedOut \cup {"cancelled"}
     \/ /\ row[r].status \in LeasedOut /\ row'[r].status \in LeasedOut
        /\ row'[r].live \/ row'[r].live = row[r].live \/ ClaimIsPrompt(r)
     \/ row[r].status \in LeasedOut /\ \E e \in Execs : YieldedBy(e, r)

LEMMA SameRow == ASSUME NEW r \in Runs, row'[r] = row[r] PROVE FenceMove(r)
BY DEF FenceMove

\* new differs from row in r only, and not in the fence of r.
OnlyRun(r, new) ==
  new[r].fence = row[r].fence /\ \A q \in Runs : q # r => new[q] = row[q]

LEMMA ReleasedOnly ==
  ASSUME TypeOK, NEW r \in Runs, NEW s \in Status, NEW w \in TaskStatus, NEW b \in BOOLEAN
  PROVE  /\ OnlyRun(r, Released(r, s))
         /\ OnlyRun(r, [Released(r, s) EXCEPT ![r].task = w])
         /\ OnlyRun(r, [Released(r, s) EXCEPT ![r].handback = b])
         /\ OnlyRun(r, [Released(r, s) EXCEPT ![r].handback = FALSE])
         /\ OnlyRun(r, [Released(r, s) EXCEPT ![r].handback = FALSE, ![r].task = w])
<1>1. row \in [Runs -> Row] /\ Released(r, s) \in [Runs -> Row]
  BY RowReleased DEF TypeOK
<1>2. OnlyRun(r, Released(r, s))
  BY <1>1 DEF OnlyRun, Released, Row
<1> QED
  BY <1>1, <1>2 DEF OnlyRun, Row

\* The executor's guarded update of the run it owns, which it then leaves.
LEMMA OwnerYields ==
  ASSUME TypeOK, NEW r \in Runs, NEW e \in Execs, NEW s \in LeasedOut, Owns(e, s),
         exec[e].pc \in PastLeasing, exec'[e].pc \notin PastLeasing,
         OnlyRun(exec[e].run, row')
  PROVE  FenceMove(r)
BY SameRow DEF FenceMove, YieldedBy, Owns, OnlyRun

LEMMA UserFence ==
  TypeOK /\ LockedRunsStay /\ User => \A r \in Runs : FenceMove(r)
<1> SUFFICES ASSUME TypeOK, LockedRunsStay, User, NEW q \in Runs PROVE FenceMove(q)
  OBVIOUS
<1> USE ConstantsOK, ActiveStatuses
<1>0. row \in [Runs -> Row]
  BY DEF TypeOK
<1>1. ASSUME row' = row PROVE FenceMove(q)
  BY <1>1, SameRow
<1>2. ASSUME NEW t \in Threads, CommitSend(t) PROVE FenceMove(q)
  <2>1. CASE q = txn[t].run
    <3>1. row[q].status = "absent"
      BY <1>2, <2>1 DEF CommitSend, LockedRunsStay
    <3>2. row'[q].fence = row[q].fence
      <4>1. row[q] \in Row
        BY <1>0
      <4>2. row'[q] = [row[q] EXCEPT !.status = "queued"]
        BY <1>2, <2>1 DEF CommitSend
      <4> QED
        BY <4>1, <4>2 DEF Row
    <3> QED
      BY <3>1, <3>2 DEF FenceMove, LeasedOut
  <2>2. CASE q # txn[t].run /\ q \in txn[t].runs
    <3>1. row'[q].fence = row[q].fence /\ row'[q].status = "cancelled"
      BY <1>0, <1>2, <2>2 DEF CommitSend, Row
    <3> QED
      BY <3>1 DEF FenceMove
  <2>3. CASE q # txn[t].run /\ q \notin txn[t].runs
    BY <1>0, <1>2, <2>3, SameRow DEF CommitSend
  <2> QED
    BY <2>1, <2>2, <2>3
<1>3. ASSUME NEW r \in Runs, Answer(r) PROVE FenceMove(q)
  <2>1. /\ row[r].status = "waiting_input" /\ row'[r].fence = row[r].fence
        /\ q # r => row'[q] = row[q]
    BY <1>0, <1>3 DEF Answer, Row
  <2> QED
    BY <2>1, SameRow DEF FenceMove, LeasedOut
<1>4. ASSUME NEW r \in Runs, Retry(r) PROVE FenceMove(q)
  <2>1. /\ row[r].status = "failed" /\ row'[r].fence = row[r].fence
        /\ q # r => row'[q] = row[q]
    <3>1. OnlyRun(r, [Released(r, "queued") EXCEPT ![r].handback = FALSE, ![r].task = "queued"])
      BY ReleasedOnly, Statuses
    <3> QED
      BY <1>4, <3>1 DEF Retry, OnlyRun
  <2> QED
    BY <2>1, SameRow DEF FenceMove, LeasedOut
<1>5. ASSUME NEW r \in Runs, ReleaseControl(r) PROVE FenceMove(q)
  <2>1. \/ row' = row
        \/ /\ row[r].status = "waiting_takeover" /\ row'[r].fence = row[r].fence
           /\ q # r => row'[q] = row[q]
    BY <1>0, <1>5 DEF ReleaseControl, Row
  <2> QED
    BY <2>1, SameRow DEF FenceMove, LeasedOut
<1>6. ASSUME NEW t \in Threads, StopRuns(t) PROVE FenceMove(q)
  <2>1. \/ row'[q] = row[q]
        \/ row'[q].fence = row[q].fence /\ row'[q].status = "cancelled"
    BY <1>0, <1>6 DEF StopRuns, Row
  <2> QED
    BY <2>1 DEF FenceMove
<1>7. ASSUME CommitClear PROVE FenceMove(q)
  <2>1. \/ row'[q] = row[q]
        \/ row'[q].fence = row[q].fence /\ row'[q].status = "cancelled"
    BY <1>0, <1>7 DEF CommitClear, Row
  <2> QED
    BY <2>1 DEF FenceMove
<1>8. ASSUME NEW r \in Runs, BeginSend(r) \/ GrantControl(r) PROVE FenceMove(q)
  BY <1>1, <1>8 DEF BeginSend, GrantControl
<1>9. ASSUME NEW t \in Threads, DropLease(t) \/ ReadActive(t) \/ ApiFails(t)
      PROVE  FenceMove(q)
  BY <1>1, <1>9 DEF DropLease, ReadActive, ApiFails
<1>10. ASSUME BeginClear PROVE FenceMove(q)
  BY <1>1, <1>10 DEF BeginClear
<1> QED
  BY <1>2, <1>3, <1>4, <1>5, <1>6, <1>7, <1>8, <1>9, <1>10 DEF User

LEMMA ExecFence ==
  ASSUME TypeOK, NEW e \in Execs, Claiming(e) \/ Work(e), ~LeaseRun(e)
  PROVE  \A r \in Runs : FenceMove(r)
<1> SUFFICES ASSUME NEW q \in Runs PROVE FenceMove(q)
  OBVIOUS
<1> USE Places
<1>0. /\ row \in [Runs -> Row] /\ (exec[e].pc # "idle" => exec[e].run \in Runs)
      /\ {"leased", "running"} = LeasedOut
  BY DEF TypeOK, LeasedOut
<1>1. ASSUME row' = row PROVE FenceMove(q)
  BY <1>1, SameRow
<1>2. ASSUME FailBlocked(e) PROVE FenceMove(q)
  <2>1. exec'[e].pc = "idle"
    BY <1>2, LeaveMove DEF FailBlocked
  <2>2. row' # row => /\ Owns(e, "leased")
                      /\ row' = [Released(exec[e].run, "failed") EXCEPT ![exec[e].run].task = "failed"]
    BY <1>2 DEF FailBlocked
  <2>3. row' # row => OnlyRun(exec[e].run, row')
    <3>1. exec[e].run \in Runs
      BY <1>0, <1>2 DEF FailBlocked
    <3>2. OnlyRun(exec[e].run,
                  [Released(exec[e].run, "failed") EXCEPT ![exec[e].run].task = "failed"])
      BY <3>1, ReleasedOnly, Statuses
    <3> QED
      BY <2>2, <3>2
  <2> QED
    BY <1>0, <1>1, <1>2, <2>1, <2>2, <2>3, OwnerYields DEF FailBlocked
<1>3. ASSUME ReleasePreflight(e) PROVE FenceMove(q)
  <2>1. exec'[e].pc = "idle"
    BY <1>3, LeaveMove DEF ReleasePreflight
  <2>2. row' # row => Owns(e, "leased") /\ row' = Released(exec[e].run, "queued")
    BY <1>3 DEF ReleasePreflight
  <2>3. row' # row => OnlyRun(exec[e].run, row')
    BY <1>0, <1>3, <2>2, ReleasedOnly, Statuses DEF ReleasePreflight
  <2> QED
    BY <1>0, <1>1, <1>3, <2>1, <2>2, <2>3, OwnerYields DEF ReleasePreflight
<1>4. ASSUME StartRun(e) PROVE FenceMove(q)
  <2>1. \/ row' = row
        \/ /\ row[exec[e].run].status = "leased"
           /\ row' = [row EXCEPT ![exec[e].run] = [row[exec[e].run] EXCEPT !.status = "running"]]
    BY <1>0, <1>4 DEF StartRun, Owns
  <2>2. \/ row'[q] = row[q]
        \/ /\ row[q].status = "leased" /\ row'[q].status = "running"
           /\ row'[q].fence = row[q].fence /\ row'[q].live = row[q].live
    BY <1>0, <2>1 DEF Row
  <2> QED
    BY <1>0, <2>2 DEF FenceMove
<1>5. ASSUME RequeueComputerRun(e) PROVE FenceMove(q)
  <2>1. exec'[e].pc = "idle"
    BY <1>5, LeaveMove DEF RequeueComputerRun
  <2>2. row' # row =>
          /\ Owns(e, "running")
          /\ row' = [Released(exec[e].run, "queued")
                       EXCEPT ![exec[e].run].handback = exec[e].handback]
    BY <1>5 DEF RequeueComputerRun, Holds
  <2>3. row' # row => OnlyRun(exec[e].run, row')
    <3>1. exec[e].run \in Runs /\ exec[e].handback \in BOOLEAN
      BY <1>0, <1>5 DEF RequeueComputerRun, TypeOK, Exec
    <3>2. OnlyRun(exec[e].run,
                  [Released(exec[e].run, "queued") EXCEPT ![exec[e].run].handback = exec[e].handback])
      BY <3>1, ReleasedOnly, Statuses
    <3> QED
      BY <2>2, <3>2
  <2> QED
    BY <1>0, <1>1, <1>5, <2>1, <2>2, <2>3, OwnerYields DEF RequeueComputerRun
<1>6. ASSUME RenewRun(e) PROVE FenceMove(q)
  <2>1. \/ row' = row
        \/ /\ row[exec[e].run].status = "running"
           /\ row' = [row EXCEPT ![exec[e].run] = [row[exec[e].run] EXCEPT !.live = TRUE]]
    BY <1>0, <1>6 DEF RenewRun, Holds, Owns
  <2>2. \/ row'[q] = row[q]
        \/ /\ row[q].status = "running" /\ row'[q].status = "running"
           /\ row'[q].fence = row[q].fence /\ row'[q].live
    BY <1>0, <2>1 DEF Row
  <2> QED
    BY <1>0, <2>2 DEF FenceMove
<1>7. ASSUME PauseForInput(e) PROVE FenceMove(q)
  <2>1. exec'[e].pc = "cleanup"
    BY <1>7, GotoMove DEF PauseForInput
  <2>2. row' # row => Owns(e, "running") /\ row' = Released(exec[e].run, "waiting_input")
    BY <1>7 DEF PauseForInput, Holds
  <2>3. row' # row => OnlyRun(exec[e].run, row')
    BY <1>0, <1>7, <2>2, ReleasedOnly, Statuses DEF PauseForInput
  <2> QED
    BY <1>0, <1>1, <1>7, <2>1, <2>2, <2>3, OwnerYields DEF PauseForInput
<1>8. ASSUME PauseForTakeover(e) PROVE FenceMove(q)
  <2>1. exec'[e].pc = "cleanup" /\ exec[e].pc = "handing"
    BY <1>8 DEF PauseForTakeover, Goto, TypeOK, Exec
  <2>2. row' # row =>
          /\ Owns(e, "running")
          /\ row' = [Released(exec[e].run, "waiting_takeover")
                       EXCEPT ![exec[e].run].handback = FALSE]
    BY <1>8 DEF PauseForTakeover, Holds
  <2>3. row' # row => OnlyRun(exec[e].run, row')
    BY <1>0, <2>1, <2>2, ReleasedOnly, Statuses
  <2> QED
    BY <1>0, <1>1, <2>1, <2>2, <2>3, OwnerYields
<1>9. ASSUME NEW outcome \in Outcome, Finish(e, outcome) PROVE FenceMove(q)
  <2>1. exec'[e].pc = "cleanup" /\ exec[e].pc \in {"active", "taking", "handing"}
    BY <1>9, GotoMove DEF Finish
  <2>2. row' # row =>
          /\ Owns(e, "running")
          /\ row' = [Released(exec[e].run, outcome) EXCEPT ![exec[e].run].task = outcome]
    BY <1>9 DEF Finish, Holds
  <2>3. row' # row => OnlyRun(exec[e].run, row')
    <3>1. exec[e].run \in Runs
      BY <1>0, <2>1
    <3>2. OnlyRun(exec[e].run,
                  [Released(exec[e].run, outcome) EXCEPT ![exec[e].run].task = outcome])
      BY <3>1, ReleasedOnly, Statuses
    <3> QED
      BY <2>2, <3>2
  <2> QED
    BY <1>0, <1>1, <2>1, <2>2, <2>3, OwnerYields
<1>10. ASSUME SetupFail(e) PROVE FenceMove(q)
  <2>1. exec'[e].pc \in {"requeued", "cleanup"} /\ exec[e].pc = "active"
    BY <1>10, GotoMove DEF SetupFail
  <2>2. row' # row =>
          /\ Owns(e, "running")
          /\ row' = [Released(exec[e].run, "queued")
                       EXCEPT ![exec[e].run].handback = exec[e].handback]
    BY <1>10 DEF SetupFail, Holds
  <2>3. row' # row => OnlyRun(exec[e].run, row')
    <3>1. exec[e].run \in Runs /\ exec[e].handback \in BOOLEAN
      BY <1>0, <2>1 DEF TypeOK, Exec
    <3>2. OnlyRun(exec[e].run,
                  [Released(exec[e].run, "queued") EXCEPT ![exec[e].run].handback = exec[e].handback])
      BY <3>1, ReleasedOnly, Statuses
    <3> QED
      BY <2>2, <3>2
  <2> QED
    BY <1>0, <1>1, <2>1, <2>2, <2>3, OwnerYields
<1>11. ASSUME NEW r \in Runs, Claim(e, r) PROVE FenceMove(q)
  BY <1>1, <1>11 DEF Claim
<1>12. ASSUME \/ AcquireComputer(e) \/ ReturnComputer(e) \/ CreateAttempt(e)
              \/ RenewScreen(e) \/ BeginPublish(e) \/ CommitPublish(e) \/ TakeComputer(e)
              \/ HoldScreen(e) \/ RecordSetupFailure(e) \/ Abandon(e)
              \/ ReleaseScreen(e) \/ CloseAttempt(e)
       PROVE  FenceMove(q)
  BY <1>1, <1>12
     DEF AcquireComputer, ReturnComputer, CreateAttempt, RenewScreen, BeginPublish,
         CommitPublish, TakeComputer, HoldScreen, RecordSetupFailure, Abandon,
         ReleaseScreen, CloseAttempt
<1> QED
  BY <1>2, <1>3, <1>4, <1>5, <1>6, <1>7, <1>8, <1>9, <1>10, <1>11, <1>12
     DEF Claiming, Work

LEMMA EnvironmentFence ==
  TypeOK /\ Environment => \A r \in Runs : FenceMove(r)
<1> SUFFICES ASSUME TypeOK, Environment, NEW q \in Runs PROVE FenceMove(q)
  OBVIOUS
<1>0. row \in [Runs -> Row]
  BY DEF TypeOK
<1>1. ASSUME row' = row PROVE FenceMove(q)
  BY <1>1, SameRow
<1>2. ASSUME NEW r \in Runs, LeaseExpires(r) PROVE FenceMove(q)
  <2>1. /\ row[r].status \in LeasedOut /\ ClaimIsPrompt(r)
        /\ row'[r].status = row[r].status /\ row'[r].fence = row[r].fence
        /\ q # r => row'[q] = row[q]
    BY <1>0, <1>2 DEF LeaseExpires, LeasedOut, Row
  <2> QED
    BY <2>1, SameRow DEF FenceMove
<1> QED
  BY <1>1, <1>2 DEF Environment, Crash, ScreenLeaseExpires, ListRuns, Reconcile

-----------------------------------------------------------------------------
(* Fences order the invocations of a run *)

\* Steps that lease no run.
LEMMA QuietFences ==
  ASSUME TypeOK, TypeOK', FencesOrderInvocations, \A e \in Execs : ~LeaseRun(e),
         \A r \in Runs : FenceMove(r), \A e \in Execs : ExecMove(e)
  PROVE  FencesOrderInvocations'
<1> SUFFICES ASSUME NEW e \in Execs, exec'[e].pc \in PastLeasing
             PROVE  row'[exec'[e].run].status = "cancelled" \/ Superseded(e)' \/ Current(e)'
  BY DEF FencesOrderInvocations
<1> USE Places
<1> DEFINE r == exec[e].run
           fence == exec[e].fence
<1>1. /\ \A f \in Execs : exec'[f].pc \in PastLeasing
                          => /\ exec[f].pc \in PastLeasing
                             /\ exec'[f].run = exec[f].run /\ exec'[f].fence = exec[f].fence
      /\ \A f \in Execs : exec'[f].pc = "claiming"
                          => \/ /\ exec[f].pc = "claiming" /\ exec'[f].run = exec[f].run
                                /\ exec'[f].fence = exec[f].fence
                             \/ exec'[f].fence = row[exec'[f].run].fence + 1
  BY DEF ExecMove
<1>2. /\ r \in Runs /\ fence \in Nat /\ row[r].fence \in Nat
      /\ exec[e].pc \in PastLeasing /\ exec'[e].run = r /\ exec'[e].fence = fence
      /\ \A f \in Execs : exec'[f].fence \in Nat
  BY <1>1 DEF TypeOK, Exec, Row
<1>3. ASSUME ClaimsAbove(r, fence), fence <= row[r].fence
      PROVE  ClaimsAbove(r, fence)'
  BY <1>1, <1>2, <1>3 DEF ClaimsAbove
<1>4. row'[r].fence = row[r].fence
  BY <1>2 DEF FenceMove
<1>5. CASE row[r].status = "cancelled"
  <2>1. row'[r].status = "cancelled"
    BY <1>2, <1>5 DEF FenceMove, LeasedOut
  <2> QED
    BY <1>2, <2>1
<1>6. CASE Superseded(e)
  <2>1. fence < row[r].fence /\ ClaimsAbove(r, fence)
    BY <1>6 DEF Superseded
  <2>2. fence < row'[r].fence /\ ClaimsAbove(r, fence)'
    BY <1>2, <1>3, <1>4, <2>1
  <2> QED
    BY <1>2, <2>2 DEF Superseded, ClaimsAbove
<1>7. CASE Current(e)
  <2>1. /\ row[r].status \in LeasedOut /\ row[r].fence = fence
        /\ row[r].live \/ ClaimsAbove(r, fence)
        /\ \A f \in Execs : exec[f].pc \in PastLeasing /\ exec[f].run = r /\ exec[f].fence = fence
                           => f = e
    BY <1>7 DEF Current
  <2>2. \A f \in Execs : /\ exec'[f].pc \in PastLeasing /\ exec'[f].run = r
                         /\ exec'[f].fence = fence
                         => f = e
    BY <1>1, <2>1
  <2>3. ASSUME NEW f \in Execs PROVE ~YieldedBy(f, r)
    BY <1>2, <2>1, <2>3 DEF YieldedBy
  <2>4. \/ row'[r].status = "cancelled"
        \/ row'[r].status \in LeasedOut /\ (row'[r].live \/ ClaimsAbove(r, fence))
    BY <1>2, <2>1, <2>3 DEF FenceMove, ClaimIsPrompt
  <2>5. row'[r].live \/ ClaimsAbove(r, fence) => row'[r].live \/ ClaimsAbove(r, fence)'
    BY <1>2, <1>3, <2>1
  <2> QED
    BY <1>2, <1>4, <2>1, <2>2, <2>4, <2>5 DEF Current, ClaimsAbove
<1> QED
  BY <1>2, <1>5, <1>6, <1>7 DEF FencesOrderInvocations

\* The step that leases a run: every other invocation of the run is superseded.
LEMMA LeaseFences ==
  ASSUME TypeOK, FencesOrderInvocations, NEW e \in Execs, LeaseRun(e)
  PROVE  FencesOrderInvocations'
<1> USE Places
<1> DEFINE r == exec[e].run
<1>1. /\ row \in [Runs -> Row] /\ exec \in [Execs -> Exec] /\ r \in Runs
      /\ exec[e].pc = "claiming"
  BY DEF TypeOK, LeaseRun
<1>2. \A f \in Execs : f # e => exec'[f] = exec[f]
  BY <1>1 DEF LeaseRun, Goto, Leave
<1>3. CASE ~Leasable(r)
  <2>1. row' = row /\ exec'[e].pc = "idle"
    BY <1>1, <1>3 DEF LeaseRun, Leave, Idle
  <2> SUFFICES ASSUME NEW f \in Execs, exec'[f].pc \in PastLeasing
               PROVE  row'[exec'[f].run].status = "cancelled" \/ Superseded(f)' \/ Current(f)'
    BY DEF FencesOrderInvocations
  <2>2. f # e /\ exec'[f] = exec[f]
    BY <1>2, <2>1
  <2>3. \A n \in Nat : ClaimsAbove(exec[f].run, n) => ClaimsAbove(exec[f].run, n)'
    BY <1>2, <2>1, <2>2 DEF ClaimsAbove
  <2>4. exec[f].fence \in Nat
    BY <1>1 DEF Exec
  <2>5. row[exec[f].run].status = "cancelled" \/ Superseded(f) \/ Current(f)
    BY <2>2 DEF FencesOrderInvocations
  <2> QED
    BY <1>2, <2>1, <2>2, <2>3, <2>4, <2>5 DEF Superseded, Current, ClaimsAbove
<1>4. CASE Leasable(r)
  <2>1. /\ row' = [row EXCEPT ![r] = [row[r] EXCEPT !.status = "leased", !.owner = WorkerOf[e],
                     !.fence = exec[e].fence, !.live = TRUE, !.handback = FALSE]]
        /\ exec' = [exec EXCEPT ![e] = [exec[e] EXCEPT !.pc = "leased"]]
    BY <1>1, <1>4 DEF LeaseRun, Goto
  <2>2. /\ row'[r].status = "leased" /\ row'[r].fence = exec[e].fence /\ row'[r].live
        /\ \A q \in Runs : q # r => row'[q] = row[q]
        /\ exec'[e].pc = "leased" /\ exec'[e].run = r /\ exec'[e].fence = exec[e].fence
    BY <1>1, <2>1 DEF Row, Exec
  <2>3. \A f \in Execs : exec[f].fence \in Nat /\ exec'[f].fence = exec[f].fence
                         /\ exec'[f].run = exec[f].run
    BY <1>1, <1>2, <2>2 DEF Exec
  <2>4. ASSUME NEW f \in Execs, f # e, exec[f].pc \in PastLeasing, exec[f].run = r
        PROVE  exec[f].fence < exec[e].fence /\ ClaimsAbove(r, exec[f].fence)
    <3>1. row[r].status = "cancelled" \/ Superseded(f) \/ Current(f)
      BY <2>4 DEF FencesOrderInvocations
    <3>2. row[r].status # "cancelled"
      BY <1>4 DEF Leasable
    <3>3. Current(f) => ~row[r].live
      BY <1>4, <2>4 DEF Current, Leasable, LeasedOut
    <3>4. ClaimsAbove(r, exec[f].fence)
      BY <2>4, <3>1, <3>2, <3>3 DEF Current, Superseded
    <3> QED
      BY <1>1, <3>4 DEF ClaimsAbove
  <2> SUFFICES ASSUME NEW f \in Execs, exec'[f].pc \in PastLeasing
               PROVE  row'[exec'[f].run].status = "cancelled" \/ Superseded(f)' \/ Current(f)'
    BY DEF FencesOrderInvocations
  <2>5. \A q \in Runs, n \in Nat : ClaimsAbove(q, n) => ClaimsAbove(q, n)'
    BY <1>2, <2>2 DEF ClaimsAbove
  <2>6. CASE f = e
    <3>1. \A g \in Execs : /\ exec'[g].pc \in PastLeasing /\ exec'[g].run = r
                           /\ exec'[g].fence = exec[e].fence
                           => g = e
      BY <1>2, <2>3, <2>4
    <3> QED
      BY <2>2, <2>6, <3>1 DEF Current, LeasedOut
  <2>7. CASE f # e /\ exec[f].run = r
    <3>1. exec[f].fence < exec[e].fence /\ ClaimsAbove(r, exec[f].fence)
      BY <1>2, <2>4, <2>7
    <3>2. row'[r].fence > exec[f].fence /\ ClaimsAbove(r, exec[f].fence)'
      BY <1>1, <2>2, <2>3, <2>5, <3>1
    <3> QED
      BY <2>3, <2>7, <3>2 DEF Superseded, ClaimsAbove
  <2>8. CASE f # e /\ exec[f].run # r
    <3> DEFINE q == exec[f].run
    <3>1. /\ q \in Runs /\ row'[q] = row[q] /\ exec'[f] = exec[f]
          /\ exec[f].pc \in PastLeasing
      BY <1>2, <2>2, <2>8 DEF TypeOK
    <3>2. row[q].status = "cancelled" \/ Superseded(f) \/ Current(f)
      BY <3>1 DEF FencesOrderInvocations
    <3>3. CASE row[q].status = "cancelled"
      BY <3>1, <3>3
    <3>4. CASE Superseded(f)
      <4>1. row'[q].fence > exec[f].fence /\ ClaimsAbove(q, exec[f].fence)'
        BY <2>3, <2>5, <3>1, <3>4 DEF Superseded
      <4> QED
        BY <3>1, <4>1 DEF Superseded, ClaimsAbove
    <3>5. CASE Current(f)
      <4>1. /\ row'[q].status \in LeasedOut /\ row'[q].fence = exec[f].fence
            /\ row'[q].live \/ ClaimsAbove(q, exec[f].fence)'
        BY <2>3, <2>5, <3>1, <3>5 DEF Current
      <4>2. \A g \in Execs : /\ exec'[g].pc \in PastLeasing /\ exec'[g].run = q
                             /\ exec'[g].fence = exec[f].fence
                             => g = f
        BY <1>2, <2>3, <2>8, <3>5 DEF Current
      <4> QED
        BY <3>1, <4>1, <4>2 DEF Current, ClaimsAbove
    <3> QED
      BY <3>2, <3>3, <3>4, <3>5
  <2> QED
    BY <2>6, <2>7, <2>8
<1> QED
  BY <1>3, <1>4

LEMMA FencesStep ==
  TypeOK /\ TypeOK' /\ LockedRunsStay /\ FencesOrderInvocations /\ Next
  => FencesOrderInvocations'
<1> SUFFICES ASSUME TypeOK, TypeOK', LockedRunsStay, FencesOrderInvocations, Next
             PROVE  FencesOrderInvocations'
  OBVIOUS
<1>1. CASE \E e \in Execs : LeaseRun(e)
  BY <1>1, LeaseFences
<1>2. CASE \A e \in Execs : ~LeaseRun(e)
  <2>1. \A r \in Runs : FenceMove(r)
    BY <1>2, UserFence, ExecFence, EnvironmentFence DEF Next
  <2> QED
    BY <1>2, <2>1, EveryExecMove, QuietFences
<1> QED
  BY <1>1, <1>2

-----------------------------------------------------------------------------
(* The invariant, and what follows from it *)

LEMMA FencesAndLocksInit == Init => FencesAndLocks
BY ConstantsOK
   DEF Init, FencesAndLocks, FencesOrderInvocations, InvocationsHaveRuns, LockedRunsStay,
       PastLeasing, Working, Idle, Free

LEMMA FencesAndLocksStep ==
  TypeOK /\ TypeOK' /\ FencesAndLocks /\ [Next]_vars => FencesAndLocks'
<1>1. TypeOK /\ TypeOK' /\ FencesAndLocks /\ Next => FencesAndLocks'
  BY FencesStep, InvocationsHaveRunsStep, LockedRunsStep DEF FencesAndLocks
<1>2. FencesAndLocks /\ UNCHANGED vars => FencesAndLocks'
  BY DEF vars, FencesAndLocks, FencesOrderInvocations, InvocationsHaveRuns, LockedRunsStay,
         Superseded, Current, ClaimsAbove
<1> QED
  BY <1>1, <1>2

\* The fences order the invocations of a run, and what a send or a clear has read under
\* the row lock of its thread stays true until it commits.
THEOREM FencesAndLocksHold == Spec => []FencesAndLocks
BY TypeCorrect, FencesAndLocksInit, FencesAndLocksStep, PTL DEF Spec

LEMMA FencesAndLocksExclude == TypeOK /\ FencesAndLocks => OneHolderPerRun
<1> SUFFICES ASSUME TypeOK, FencesAndLocks, NEW e \in Execs, NEW f \in Execs,
                    Holder(e), Holder(f), exec[e].run = exec[f].run
             PROVE  e = f
  BY DEF OneHolderPerRun
<1>1. \A g \in {e, f} : /\ exec[g].pc \in PastLeasing
                        /\ row[exec[g].run].status \in LeasedOut
                        /\ row[exec[g].run].fence = exec[g].fence
  BY DEF Holder, Holds, Owns, PastLeasing, LeasedOut
<1>2. Current(e)
  <2>1. row[exec[e].run].status = "cancelled" \/ Superseded(e) \/ Current(e)
    BY <1>1 DEF FencesAndLocks, FencesOrderInvocations
  <2>2. exec[e].fence \in Nat
    BY DEF TypeOK, Exec
  <2>3. ~Superseded(e)
    BY <1>1, <2>2 DEF Superseded
  <2> QED
    BY <1>1, <2>1, <2>3 DEF LeasedOut
<1> QED
  BY <1>1, <1>2 DEF Current

\* No two invocations of continueRun hold one run, whatever the number of job slots and
\* however their worker ids are shared.
THEOREM OneHolder == Spec => []OneHolderPerRun
BY TypeCorrect, FencesAndLocksHold, FencesAndLocksExclude, PTL

\* A completed or cancelled run stays so, and a failed one is only put back by a retry.
THEOREM Settled == Spec => SettledIsFinal
<1>1. TypeOK /\ FencesAndLocks /\ [Next]_vars =>
        [\A r \in Runs :
           /\ row[r].status \in {"completed", "cancelled"} => row'[r].status = row[r].status
           /\ row[r].status = "failed" => row'[r].status \in {"failed", "queued"}]_vars
  <2> SUFFICES ASSUME TypeOK, FencesAndLocks, Next, NEW r \in Runs
               PROVE  /\ row[r].status \in {"completed", "cancelled"}
                         => row'[r].status = row[r].status
                      /\ row[r].status = "failed" => row'[r].status \in {"failed", "queued"}
    OBVIOUS
  <2>1. StatusMove(r)
    BY EveryStatusMove DEF FencesAndLocks
  <2> QED
    BY <2>1, ActiveStatuses DEF StatusMove
<1> QED
  BY <1>1, TypeCorrect, FencesAndLocksHold, PTL DEF Spec, SettledIsFinal

-----------------------------------------------------------------------------
(* Attempts *)

\* Before the clean-up: what the invocation does may still decide the run.
Deciding == Working \cup {"requeued"}

\* Every invocation has an attempt of its own, which nothing has completed while the
\* invocation may still complete it or record that its setup failed.
AttemptsOwned ==
  \A e \in Execs : exec[e].pc \in Attempting =>
    /\ attempts[exec[e].attempt].run = exec[e].run
    /\ exec[e].pc \in Deciding => attempts[exec[e].attempt].status # "completed"
    /\ \A f \in Execs : exec[f].pc \in Attempting /\ exec[f].attempt = exec[e].attempt
                        => f = e

Completes(e) == Finish(e, "completed") /\ Holds(e) /\ AttemptRunning(e)

\* What a step may do to the outcome of a run.
OutcomeMove(r) ==
  \/ row'[r].status \notin Outcome
  \/ row'[r].status = row[r].status /\ row'[r].task = row[r].task
  \/ row'[r].status = "failed" /\ row'[r].task = "failed"
  \/ /\ row'[r].status = "completed" /\ row'[r].task = "completed"
     /\ \E e \in Execs : Completes(e) /\ exec[e].run = r

\* Only the run r changes, and it comes to have status s.
Becomes(r, s, new) ==
  new[r].status = s /\ \A q \in Runs : q # r => new[q] = row[q]

Ends(r, s, new) == Becomes(r, s, new) /\ new[r].task = s

LEMMA ReleasedStatus ==
  ASSUME TypeOK, NEW r \in Runs, NEW s \in Status, NEW w \in TaskStatus, NEW b \in BOOLEAN
  PROVE  /\ Becomes(r, s, Released(r, s))
         /\ s \in Outcome => Ends(r, s, [Released(r, s) EXCEPT ![r].task = s])
         /\ Becomes(r, s, [Released(r, s) EXCEPT ![r].handback = b])
         /\ Becomes(r, s, [Released(r, s) EXCEPT ![r].handback = FALSE])
         /\ Becomes(r, s, [Released(r, s) EXCEPT ![r].handback = FALSE, ![r].task = w])
<1>1. row \in [Runs -> Row] /\ Released(r, s) \in [Runs -> Row]
  BY RowReleased DEF TypeOK
<1>2. Becomes(r, s, Released(r, s))
  BY <1>1 DEF Becomes, Released, Row
<1> QED
  BY <1>1, <1>2 DEF Becomes, Ends, Row

LEMMA UserOutcome == TypeOK /\ User => \A r \in Runs : OutcomeMove(r)
<1> SUFFICES ASSUME TypeOK, User, NEW q \in Runs PROVE OutcomeMove(q)
  OBVIOUS
<1> USE ConstantsOK, ActiveStatuses
<1>0. row \in [Runs -> Row]
  BY DEF TypeOK
<1>1. ASSUME row' = row PROVE OutcomeMove(q)
  BY <1>1 DEF OutcomeMove
<1>2. ASSUME NEW t \in Threads, CommitSend(t) PROVE OutcomeMove(q)
  <2>1. row'[q] \in {row[q], [row[q] EXCEPT !.status = "queued"],
                     [row[q] EXCEPT !.status = "cancelled", !.task = "cancelled"]}
    BY <1>2 DEF CommitSend
  <2>2. /\ [row[q] EXCEPT !.status = "queued"].status = "queued"
        /\ [row[q] EXCEPT !.status = "cancelled", !.task = "cancelled"].status = "cancelled"
    BY <1>0 DEF Row
  <2> QED
    BY <2>1, <2>2 DEF OutcomeMove
<1>3. ASSUME NEW r \in Runs, Answer(r) PROVE OutcomeMove(q)
  BY <1>0, <1>3 DEF Answer, OutcomeMove, Row
<1>4. ASSUME NEW r \in Runs, Retry(r) PROVE OutcomeMove(q)
  <2>1. Becomes(r, "queued", row')
    BY <1>4, ReleasedStatus, Statuses DEF Retry
  <2> QED
    BY <2>1 DEF OutcomeMove, Becomes
<1>5. ASSUME NEW r \in Runs, ReleaseControl(r) PROVE OutcomeMove(q)
  BY <1>0, <1>5 DEF ReleaseControl, OutcomeMove, Row
<1>6. ASSUME NEW t \in Threads, StopRuns(t) PROVE OutcomeMove(q)
  <2>1. row'[q] = row[q] \/ row'[q].status = "cancelled"
    BY <1>0, <1>6 DEF StopRuns, Row
  <2> QED
    BY <2>1 DEF OutcomeMove
<1>7. ASSUME CommitClear PROVE OutcomeMove(q)
  <2>1. row'[q] = row[q] \/ row'[q].status = "cancelled"
    BY <1>0, <1>7 DEF CommitClear, Row
  <2> QED
    BY <2>1 DEF OutcomeMove
<1>8. ASSUME NEW r \in Runs, BeginSend(r) \/ GrantControl(r) PROVE OutcomeMove(q)
  BY <1>1, <1>8 DEF BeginSend, GrantControl
<1>9. ASSUME NEW t \in Threads, DropLease(t) \/ ReadActive(t) \/ ApiFails(t)
      PROVE  OutcomeMove(q)
  BY <1>1, <1>9 DEF DropLease, ReadActive, ApiFails
<1>10. ASSUME BeginClear PROVE OutcomeMove(q)
  BY <1>1, <1>10 DEF BeginClear
<1> QED
  BY <1>2, <1>3, <1>4, <1>5, <1>6, <1>7, <1>8, <1>9, <1>10 DEF User

LEMMA ExecOutcome ==
  ASSUME TypeOK, NEW e \in Execs, Claiming(e) \/ Work(e)
  PROVE  \A r \in Runs : OutcomeMove(r)
<1> SUFFICES ASSUME NEW q \in Runs PROVE OutcomeMove(q)
  OBVIOUS
<1> USE ConstantsOK, ActiveStatuses, Statuses
<1>0. row \in [Runs -> Row] /\ (exec[e].pc # "idle" => exec[e].run \in Runs)
  BY DEF TypeOK
<1> DEFINE r == exec[e].run
<1>1. ASSUME row' = row PROVE OutcomeMove(q)
  BY <1>1 DEF OutcomeMove
<1>a. ASSUME exec[e].pc # "idle", NEW s \in Status \ Outcome, Becomes(exec[e].run, s, row')
      PROVE  OutcomeMove(q)
  BY <1>0, <1>a DEF OutcomeMove, Becomes
<1>b. {"queued", "leased", "running", "waiting_input", "waiting_takeover"}
        \subseteq Status \ Outcome
  OBVIOUS
<1>2. ASSUME LeaseRun(e) PROVE OutcomeMove(q)
  <2>1. row' = row \/ Becomes(r, "leased", row')
    <3>1. r \in Runs /\ row[r] \in Row
      BY <1>0, <1>2 DEF LeaseRun
    <3>2. \/ row' = row
          \/ row' = [row EXCEPT ![r] =
                  [row[r] EXCEPT !.status = "leased", !.owner = WorkerOf[e],
                     !.fence = exec[e].fence, !.live = TRUE, !.handback = FALSE]]
      BY <1>2 DEF LeaseRun
    <3>3. [row[r] EXCEPT !.status = "leased", !.owner = WorkerOf[e],
             !.fence = exec[e].fence, !.live = TRUE, !.handback = FALSE].status = "leased"
      BY <3>1 DEF Row
    <3> QED
      BY <1>0, <3>1, <3>2, <3>3 DEF Becomes
  <2> QED
    BY <1>1, <1>2, <1>a, <1>b, <2>1 DEF LeaseRun
<1>3. ASSUME FailBlocked(e) PROVE OutcomeMove(q)
  <2>1. exec[e].run \in Runs
    BY <1>0, <1>3 DEF FailBlocked
  <2>2. \/ row' = row
        \/ row' = [Released(exec[e].run, "failed") EXCEPT ![exec[e].run].task = "failed"]
    BY <1>3 DEF FailBlocked
  <2>3. Ends(exec[e].run, "failed", [Released(exec[e].run, "failed")
                                        EXCEPT ![exec[e].run].task = "failed"])
    BY <2>1, ReleasedStatus, Statuses
  <2> QED
    BY <1>1, <2>1, <2>2, <2>3 DEF OutcomeMove, Becomes, Ends
<1>4. ASSUME ReleasePreflight(e) PROVE OutcomeMove(q)
  <2>1. exec[e].run \in Runs /\ exec[e].handback \in BOOLEAN /\ exec[e].pc # "idle"
    BY <1>0, <1>4 DEF ReleasePreflight, TypeOK, Exec
  <2>2. \/ row' = row
        \/ row' = Released(exec[e].run, "queued")
    BY <1>4 DEF ReleasePreflight
  <2>3. Becomes(exec[e].run, "queued", Released(exec[e].run, "queued"))
    BY <2>1, ReleasedStatus, Statuses
  <2> QED
    BY <1>1, <1>a, <1>b, <2>1, <2>2, <2>3
<1>5. ASSUME StartRun(e) PROVE OutcomeMove(q)
  <2>1. row' = row \/ Becomes(r, "running", row')
    BY <1>0, <1>5 DEF StartRun, Row, Becomes
  <2> QED
    BY <1>1, <1>5, <1>a, <1>b, <2>1 DEF StartRun
<1>6. ASSUME RequeueComputerRun(e) PROVE OutcomeMove(q)
  <2>1. exec[e].run \in Runs /\ exec[e].handback \in BOOLEAN /\ exec[e].pc # "idle"
    BY <1>0, <1>6 DEF RequeueComputerRun, TypeOK, Exec
  <2>2. \/ row' = row
        \/ row' = [Released(exec[e].run, "queued")
                      EXCEPT ![exec[e].run].handback = exec[e].handback]
    BY <1>6 DEF RequeueComputerRun
  <2>3. Becomes(exec[e].run, "queued", [Released(exec[e].run, "queued")
                 EXCEPT ![exec[e].run].handback = exec[e].handback])
    BY <2>1, ReleasedStatus, Statuses
  <2> QED
    BY <1>1, <1>a, <1>b, <2>1, <2>2, <2>3
<1>7. ASSUME RenewRun(e) PROVE OutcomeMove(q)
  <2>1. row'[q].status = row[q].status /\ row'[q].task = row[q].task
    BY <1>0, <1>7 DEF RenewRun, Row
  <2> QED
    BY <2>1 DEF OutcomeMove
<1>8. ASSUME PauseForInput(e) PROVE OutcomeMove(q)
  <2>1. exec[e].run \in Runs /\ exec[e].handback \in BOOLEAN /\ exec[e].pc # "idle"
    BY <1>0, <1>8 DEF PauseForInput, TypeOK, Exec
  <2>2. \/ row' = row
        \/ row' = Released(exec[e].run, "waiting_input")
    BY <1>8 DEF PauseForInput
  <2>3. Becomes(exec[e].run, "waiting_input", Released(exec[e].run, "waiting_input"))
    BY <2>1, ReleasedStatus, Statuses
  <2> QED
    BY <1>1, <1>a, <1>b, <2>1, <2>2, <2>3
<1>9. ASSUME PauseForTakeover(e) PROVE OutcomeMove(q)
  <2>1. exec[e].run \in Runs /\ exec[e].handback \in BOOLEAN /\ exec[e].pc # "idle"
    BY <1>0, <1>9 DEF PauseForTakeover, TypeOK, Exec
  <2>2. \/ row' = row
        \/ row' = [Released(exec[e].run, "waiting_takeover")
                      EXCEPT ![exec[e].run].handback = FALSE]
    BY <1>9 DEF PauseForTakeover
  <2>3. Becomes(exec[e].run, "waiting_takeover", [Released(exec[e].run, "waiting_takeover")
                 EXCEPT ![exec[e].run].handback = FALSE])
    BY <2>1, ReleasedStatus, Statuses
  <2> QED
    BY <1>1, <1>a, <1>b, <2>1, <2>2, <2>3
<1>10. ASSUME NEW outcome \in Outcome, Finish(e, outcome) PROVE OutcomeMove(q)
  <2>1. r \in Runs
    BY <1>0, <1>10 DEF Finish
  <2>2. row' # row => /\ Holds(e) /\ AttemptRunning(e)
                      /\ row' = [Released(r, outcome) EXCEPT ![r].task = outcome]
    BY <1>10 DEF Finish
  <2>3. Ends(r, outcome, [Released(r, outcome) EXCEPT ![r].task = outcome])
    BY <2>1, ReleasedStatus
  <2>4. outcome \in {"failed", "completed"}
    OBVIOUS
  <2>5. outcome = "completed" /\ row' # row => Completes(e)
    BY <1>10, <2>2 DEF Completes
  <2> QED
    BY <1>1, <2>1, <2>2, <2>3, <2>4, <2>5 DEF OutcomeMove, Becomes, Ends
<1>11. ASSUME SetupFail(e) PROVE OutcomeMove(q)
  <2>1. exec[e].run \in Runs /\ exec[e].handback \in BOOLEAN /\ exec[e].pc # "idle"
    BY <1>0, <1>11 DEF SetupFail, TypeOK, Exec
  <2>2. \/ row' = row
        \/ row' = [Released(exec[e].run, "queued")
                      EXCEPT ![exec[e].run].handback = exec[e].handback]
    BY <1>11 DEF SetupFail
  <2>3. Becomes(exec[e].run, "queued", [Released(exec[e].run, "queued")
                 EXCEPT ![exec[e].run].handback = exec[e].handback])
    BY <2>1, ReleasedStatus, Statuses
  <2> QED
    BY <1>1, <1>a, <1>b, <2>1, <2>2, <2>3
<1>12. ASSUME NEW p \in Runs, Claim(e, p) PROVE OutcomeMove(q)
  BY <1>1, <1>12 DEF Claim
<1>13. ASSUME \/ AcquireComputer(e) \/ ReturnComputer(e) \/ CreateAttempt(e)
              \/ RenewScreen(e) \/ BeginPublish(e) \/ CommitPublish(e) \/ TakeComputer(e)
              \/ HoldScreen(e) \/ RecordSetupFailure(e) \/ Abandon(e)
              \/ ReleaseScreen(e) \/ CloseAttempt(e)
       PROVE  OutcomeMove(q)
  BY <1>1, <1>13
     DEF AcquireComputer, ReturnComputer, CreateAttempt, RenewScreen, BeginPublish,
         CommitPublish, TakeComputer, HoldScreen, RecordSetupFailure, Abandon,
         ReleaseScreen, CloseAttempt
<1> QED
  BY <1>2, <1>3, <1>4, <1>5, <1>6, <1>7, <1>8, <1>9, <1>10, <1>11, <1>12, <1>13
     DEF Claiming, Work

LEMMA EveryOutcomeMove == TypeOK /\ Next => \A r \in Runs : OutcomeMove(r)
<1> SUFFICES ASSUME TypeOK, Environment, NEW q \in Runs PROVE OutcomeMove(q)
  BY UserOutcome, ExecOutcome DEF Next
<1>0. row \in [Runs -> Row]
  BY DEF TypeOK
<1>1. row' = row \/ \E r \in Runs : row' = [row EXCEPT ![r].live = FALSE]
  BY DEF Environment, Crash, LeaseExpires, ScreenLeaseExpires, ListRuns, Reconcile
<1>2. row'[q].status = row[q].status /\ row'[q].task = row[q].task
  BY <1>0, <1>1 DEF Row
<1> QED
  BY <1>2 DEF OutcomeMove

\* What a step may do to the attempt an invocation works on, and to its publishing.
PhaseMove(e) ==
  /\ exec'[e].pc = "publishing" => exec[e].pc = "publishing" \/ BeginPublish(e)
  /\ \/ exec'[e].pc \notin Attempting
     \/ /\ exec[e].pc \in Attempting
        /\ exec'[e].run = exec[e].run /\ exec'[e].attempt = exec[e].attempt
        /\ exec'[e].pc \in Deciding => exec[e].pc \in Deciding
     \/ CreateAttempt(e)

LEMMA Phases ==
  /\ {"active", "publishing", "taking", "handing", "requeued"} = Deciding
  /\ {"active", "publishing", "taking", "handing", "requeued", "cleanup", "closing"}
       = Attempting
  /\ {"idle", "claiming", "leased", "started", "busy", "acquired"} = PC \ Attempting
BY DEF Deciding, Attempting, Working, PC

LEMMA SamePhase == ASSUME NEW e \in Execs, exec'[e] = exec[e] PROVE PhaseMove(e)
BY DEF PhaseMove

LEMMA PhaseUpdate ==
  ASSUME TypeOK, NEW e \in Execs, NEW f \in Execs, NEW x, exec' = [exec EXCEPT ![f] = x],
         x.pc = "publishing" => exec[f].pc = "publishing" \/ BeginPublish(f),
         x.pc \in Attempting => /\ exec[f].pc \in Attempting
                                /\ x.run = exec[f].run /\ x.attempt = exec[f].attempt
                                /\ x.pc \in Deciding => exec[f].pc \in Deciding
  PROVE  PhaseMove(e)
<1>1. exec'[f] = x /\ (e # f => exec'[e] = exec[e])
  BY DEF TypeOK
<1> QED
  BY <1>1, SamePhase DEF PhaseMove

LEMMA PhaseGoto ==
  ASSUME TypeOK, NEW e \in Execs, NEW f \in Execs, NEW pc \in PC, exec' = Goto(f, pc),
         pc = "publishing" => BeginPublish(f),
         pc \in Attempting => /\ exec[f].pc \in Attempting
                              /\ pc \in Deciding => exec[f].pc \in Deciding
  PROVE  PhaseMove(e)
<1> DEFINE x == [exec[f] EXCEPT !.pc = pc]
<1>1. exec' = [exec EXCEPT ![f] = x]
  BY DEF Goto, TypeOK
<1>2. x.pc = pc /\ x.run = exec[f].run /\ x.attempt = exec[f].attempt
  BY DEF TypeOK, Exec
<1> HIDE DEF x
<1> QED
  BY <1>1, <1>2, PhaseUpdate

LEMMA PhaseLeave ==
  ASSUME TypeOK, NEW e \in Execs, NEW f \in Execs, exec' = Leave(f)
  PROVE  PhaseMove(e)
<1>1. exec' = [exec EXCEPT ![f] = Idle] /\ Idle.pc = "idle"
  BY DEF Leave, Idle
<1> QED
  BY <1>1, Phases, PhaseUpdate

LEMMA EveryPhaseMove == TypeOK /\ Next => \A e \in Execs : PhaseMove(e)
<1> SUFFICES ASSUME TypeOK, Next, NEW e \in Execs PROVE PhaseMove(e)
  OBVIOUS
<1> USE Places, Phases
<1>0. exec \in [Execs -> Exec]
  BY DEF TypeOK
<1>1. ASSUME exec' = exec PROVE PhaseMove(e)
  BY <1>1, SamePhase
<1>2. ASSUME NEW f \in Execs, NEW r \in Runs, Claim(f, r) PROVE PhaseMove(e)
  <2> DEFINE x == [Idle EXCEPT !.pc = "claiming", !.run = r, !.fence = NextFence(r),
                     !.resume = row[r].status = "waiting_takeover" \/ row[r].handback,
                     !.handback = row[r].handback]
  <2>1. exec' = exec \/ exec' = [exec EXCEPT ![f] = x]
    BY <1>2 DEF Claim
  <2>2. x.pc = "claiming"
    BY DEF Idle
  <2> HIDE DEF x
  <2> QED
    BY <1>1, <2>1, <2>2, PhaseUpdate
<1>3. ASSUME NEW f \in Execs, LeaseRun(f) PROVE PhaseMove(e)
  BY <1>3, PhaseLeave, PhaseGoto DEF LeaseRun
<1>4. ASSUME NEW f \in Execs, StartRun(f) PROVE PhaseMove(e)
  BY <1>4, PhaseLeave, PhaseGoto DEF StartRun
<1>5. ASSUME NEW f \in Execs,
             FailBlocked(f) \/ ReleasePreflight(f) \/ RequeueComputerRun(f) \/ CloseAttempt(f)
      PROVE  PhaseMove(e)
  BY <1>5, PhaseLeave DEF FailBlocked, ReleasePreflight, RequeueComputerRun, CloseAttempt
<1>6. ASSUME NEW f \in Execs, AcquireComputer(f) PROVE PhaseMove(e)
  <2> DEFINE x == [exec[f] EXCEPT !.pc = "acquired",
                     !.screen = IF lease.run = None THEN 1 ELSE lease.fence + 1]
  <2>1. exec' = [exec EXCEPT ![f] = x]
    BY <1>6 DEF AcquireComputer
  <2>2. x.pc = "acquired"
    BY <1>0 DEF Exec
  <2> HIDE DEF x
  <2> QED
    BY <2>1, <2>2, PhaseUpdate
<1>7. ASSUME NEW f \in Execs, RenewRun(f) \/ RenewScreen(f) PROVE PhaseMove(e)
  <2> DEFINE x == [exec[f] EXCEPT !.valid = FALSE]
  <2>1. exec' = exec \/ exec' = [exec EXCEPT ![f] = x]
    BY <1>0, <1>7 DEF RenewRun, RenewScreen
  <2>2. x.pc = exec[f].pc /\ x.run = exec[f].run /\ x.attempt = exec[f].attempt
    BY <1>0 DEF Exec
  <2> HIDE DEF x
  <2> QED
    BY <1>1, <2>1, <2>2, PhaseUpdate
<1>8. ASSUME NEW f \in Execs, BeginPublish(f) PROVE PhaseMove(e)
  <2>1. /\ exec' = Goto(f, "cleanup") \/ exec' = Goto(f, "publishing")
        /\ exec[f].pc = "active"
    BY <1>8 DEF BeginPublish
  <2> QED
    BY <1>8, <2>1, PhaseGoto
<1>9. ASSUME NEW f \in Execs, CommitPublish(f) PROVE PhaseMove(e)
  BY <1>9, PhaseGoto DEF CommitPublish
<1>10. ASSUME NEW f \in Execs, PauseForInput(f) PROVE PhaseMove(e)
  BY <1>10, PhaseGoto DEF PauseForInput
<1>11. ASSUME NEW f \in Execs, TakeComputer(f) \/ HoldScreen(f) PROVE PhaseMove(e)
  BY <1>11, PhaseGoto DEF TakeComputer, HoldScreen
<1>12. ASSUME NEW f \in Execs, PauseForTakeover(f) PROVE PhaseMove(e)
  <2> DEFINE x == [exec[f] EXCEPT !.pc = "cleanup", !.retain = TRUE]
  <2>1. /\ exec' = Goto(f, "cleanup") \/ exec' = [exec EXCEPT ![f] = x]
        /\ exec[f].pc = "handing"
    BY <1>12 DEF PauseForTakeover
  <2>2. x.pc = "cleanup" /\ x.run = exec[f].run /\ x.attempt = exec[f].attempt
    BY <1>0 DEF Exec
  <2> HIDE DEF x
  <2> QED
    BY <2>1, <2>2, PhaseUpdate, PhaseGoto
<1>13. ASSUME NEW f \in Execs, NEW outcome \in Outcome, Finish(f, outcome) PROVE PhaseMove(e)
  BY <1>13, PhaseGoto DEF Finish
<1>14. ASSUME NEW f \in Execs, SetupFail(f) \/ RecordSetupFailure(f) PROVE PhaseMove(e)
  BY <1>14, PhaseGoto DEF SetupFail, RecordSetupFailure
<1>15. ASSUME NEW f \in Execs, Abandon(f) \/ ReleaseScreen(f) PROVE PhaseMove(e)
  BY <1>15, PhaseGoto DEF Abandon, ReleaseScreen
<1>16. ASSUME NEW f \in Execs, ReturnComputer(f) PROVE PhaseMove(e)
  BY <1>16, PhaseGoto, PhaseLeave DEF ReturnComputer
<1>17. ASSUME NEW f \in Execs, CreateAttempt(f) PROVE PhaseMove(e)
  <2> DEFINE x == [exec[f] EXCEPT !.pc = "active", !.attempt = Len(attempts) + 1]
  <2>1. exec' = [exec EXCEPT ![f] = x]
    BY <1>17 DEF CreateAttempt
  <2>2. x.pc = "active"
    BY <1>0 DEF Exec
  <2> HIDE DEF x
  <2>3. exec'[f].pc = "active" /\ (e # f => exec'[e] = exec[e])
    BY <1>0, <2>1, <2>2
  <2> QED
    BY <1>17, <2>3, SamePhase DEF PhaseMove
<1>18. ASSUME User PROVE PhaseMove(e)
  BY <1>1, <1>18
     DEF User, BeginSend, CommitSend, Answer, Retry, GrantControl, ReleaseControl, ReadActive,
         StopRuns, DropLease, ApiFails, BeginClear, CommitClear
<1>19. ASSUME Environment PROVE PhaseMove(e)
  BY <1>1, <1>19, PhaseLeave
     DEF Environment, Crash, LeaseExpires, ScreenLeaseExpires, ListRuns, Reconcile
<1> QED
  BY <1>2, <1>3, <1>4, <1>5, <1>6, <1>7, <1>8, <1>9, <1>10, <1>11, <1>12, <1>13, <1>14,
     <1>15, <1>16, <1>17, <1>18, <1>19
     DEF Next, Claiming, Work

\* What a step may do to the attempts.
AttemptsMove ==
  /\ DOMAIN attempts' = DOMAIN attempts
  /\ \A i \in DOMAIN attempts :
       /\ attempts'[i].run = attempts[i].run
       /\ \/ attempts'[i].status = "completed" <=> attempts[i].status = "completed"
          \/ \E e \in Execs : Completes(e) /\ exec[e].attempt = i

LEMMA EndedAttempt ==
  ASSUME TypeOK, NEW e \in Execs, exec[e].attempt \in DOMAIN attempts, NEW s
  PROVE  /\ DOMAIN EndAttempt(e, s) = DOMAIN attempts
         /\ EndAttempt(e, s)[exec[e].attempt].status = s
         /\ \A i \in DOMAIN attempts :
              /\ EndAttempt(e, s)[i].run = attempts[i].run
              /\ i # exec[e].attempt => EndAttempt(e, s)[i] = attempts[i]
<1>1. \A i \in DOMAIN attempts : attempts[i] \in Attempt
  BY LenProperties, ElementOfSeq DEF TypeOK
<1>2. EndAttempt(e, s) = [attempts EXCEPT ![exec[e].attempt] =
                            [attempts[exec[e].attempt] EXCEPT !.status = s]]
  BY DEF EndAttempt
<1> DEFINE x == [attempts[exec[e].attempt] EXCEPT !.status = s]
<1>3. x.status = s /\ x.run = attempts[exec[e].attempt].run
  BY <1>1 DEF Attempt
<1>4. attempts = [i \in DOMAIN attempts |-> attempts[i]]
  BY LenProperties DEF TypeOK
<1> HIDE DEF x
<1>5. EndAttempt(e, s) = [attempts EXCEPT ![exec[e].attempt] = x]
  BY <1>2 DEF x
<1> QED
  BY <1>3, <1>4, <1>5

LEMMA EveryAttemptsMove ==
  TypeOK /\ AttemptsOwned /\ Next => AttemptsMove \/ \E e \in Execs : CreateAttempt(e)
<1> SUFFICES ASSUME TypeOK, AttemptsOwned, Next, \A e \in Execs : ~CreateAttempt(e)
             PROVE  AttemptsMove
  OBVIOUS
<1> USE Phases
<1>1. ASSUME attempts' = attempts PROVE AttemptsMove
  BY <1>1 DEF AttemptsMove
<1>2. \A i \in DOMAIN attempts : attempts[i] \in Attempt
  BY LenProperties, ElementOfSeq DEF TypeOK
<1>3. ASSUME NEW e \in Execs, NEW s, attempts' = EndAttempt(e, s), exec[e].pc \in Attempting,
             s # "completed", attempts[exec[e].attempt].status # "completed"
      PROVE  AttemptsMove
  BY <1>3, EndedAttempt DEF AttemptsMove, TypeOK
<1>4. ASSUME CommitClear PROVE AttemptsMove
  <2>1. /\ DOMAIN attempts' = DOMAIN attempts
        /\ \A i \in DOMAIN attempts :
             \/ attempts'[i] = attempts[i]
             \/ /\ attempts[i].status = "running"
                /\ attempts'[i] = [attempts[i] EXCEPT !.status = "cancelled"]
    BY <1>4 DEF CommitClear
  <2> QED
    BY <1>2, <2>1 DEF AttemptsMove, Attempt
<1>5. ASSUME NEW e \in Execs, PauseForInput(e) PROVE AttemptsMove
  BY <1>1, <1>3, <1>5 DEF PauseForInput, AttemptRunning
<1>6. ASSUME NEW e \in Execs, PauseForTakeover(e) PROVE AttemptsMove
  BY <1>1, <1>3, <1>6 DEF PauseForTakeover, AttemptRunning
<1>7. ASSUME NEW e \in Execs, NEW outcome \in Outcome, Finish(e, outcome) PROVE AttemptsMove
  <2>1. exec[e].pc \in Attempting
    BY <1>7 DEF Finish
  <2>2. \/ attempts' = attempts
        \/ /\ attempts' = EndAttempt(e, outcome) /\ Holds(e) /\ AttemptRunning(e)
           /\ attempts[exec[e].attempt].status = "running"
    BY <1>7 DEF Finish, AttemptRunning
  <2>3. CASE outcome # "completed"
    BY <1>1, <1>3, <2>1, <2>2, <2>3
  <2>4. CASE outcome = "completed" /\ attempts' # attempts
    <3>1. Completes(e) /\ attempts' = EndAttempt(e, "completed")
      BY <1>7, <2>2, <2>4 DEF Completes
    <3>2. exec[e].attempt \in DOMAIN attempts
      BY <2>1 DEF TypeOK
    <3> QED
      BY <3>1, <3>2, EndedAttempt DEF AttemptsMove
  <2> QED
    BY <1>1, <2>3, <2>4
<1>8. ASSUME NEW e \in Execs, RecordSetupFailure(e) PROVE AttemptsMove
  BY <1>3, <1>8 DEF RecordSetupFailure, AttemptsOwned
<1>9. ASSUME NEW e \in Execs, CloseAttempt(e) PROVE AttemptsMove
  BY <1>1, <1>3, <1>9 DEF CloseAttempt, AttemptRunning
<1>10. ASSUME User PROVE AttemptsMove
  BY <1>1, <1>4, <1>10
     DEF User, BeginSend, CommitSend, Answer, Retry, GrantControl, ReleaseControl, ReadActive,
         StopRuns, DropLease, ApiFails, BeginClear
<1>11. ASSUME NEW e \in Execs, Claiming(e) PROVE AttemptsMove
  BY <1>1, <1>11
     DEF Claiming, Claim, LeaseRun, FailBlocked, ReleasePreflight, StartRun,
         RequeueComputerRun, AcquireComputer, ReturnComputer
<1>12. ASSUME NEW e \in Execs, Work(e) PROVE AttemptsMove
  BY <1>1, <1>5, <1>6, <1>7, <1>8, <1>9, <1>12
     DEF Work, RenewRun, RenewScreen, BeginPublish, CommitPublish, TakeComputer, HoldScreen,
         SetupFail, Abandon, ReleaseScreen
<1>13. ASSUME Environment PROVE AttemptsMove
  BY <1>1, <1>13
     DEF Environment, Crash, LeaseExpires, ScreenLeaseExpires, ListRuns, Reconcile
<1> QED
  BY <1>10, <1>11, <1>12, <1>13 DEF Next

LEMMA NewAttempt ==
  ASSUME TypeOK, NEW e \in Execs, CreateAttempt(e)
  PROVE  /\ DOMAIN attempts' = DOMAIN attempts \cup {Len(attempts) + 1}
         /\ Len(attempts) + 1 \notin DOMAIN attempts
         /\ \A i \in DOMAIN attempts : attempts'[i] = attempts[i]
         /\ attempts'[Len(attempts) + 1].run = exec[e].run
         /\ attempts'[Len(attempts) + 1].status = "running"
         /\ exec'[e].attempt = Len(attempts) + 1 /\ exec'[e].run = exec[e].run
         /\ \A f \in Execs : f # e => exec'[f] = exec[f]
         /\ row' = row
<1> DEFINE a == [run |-> exec[e].run, fence |-> exec[e].fence, status |-> "running"]
           x == [exec[e] EXCEPT !.pc = "active", !.attempt = Len(attempts) + 1]
<1>1. /\ attempts \in Seq(Attempt) /\ Len(attempts) \in Nat
      /\ DOMAIN attempts = 1..Len(attempts)
  BY LenProperties DEF TypeOK
<1>2. a \in Attempt
  <2>1. exec[e].run \in Runs /\ exec[e].fence \in Nat
    BY DEF CreateAttempt, TypeOK, Exec
  <2> QED
    BY <2>1 DEF Attempt, AttemptStatus
<1>3. attempts' = Append(attempts, a) /\ exec' = [exec EXCEPT ![e] = x] /\ row' = row
  BY DEF CreateAttempt
<1>4. /\ x.attempt = Len(attempts) + 1 /\ x.run = exec[e].run
      /\ a.run = exec[e].run /\ a.status = "running"
  BY DEF TypeOK, Exec
<1> HIDE DEF a, x
<1>5. /\ DOMAIN attempts' = 1..Len(attempts) + 1
      /\ \A i \in 1..Len(attempts) : attempts'[i] = attempts[i]
      /\ attempts'[Len(attempts) + 1] = a
  BY <1>1, <1>2, <1>3, AppendProperties
<1>6. exec'[e] = x /\ \A f \in Execs : f # e => exec'[f] = exec[f]
  BY <1>3 DEF TypeOK
<1> QED
  BY <1>1, <1>3, <1>4, <1>5, <1>6

LEMMA AttemptsOwnedStep ==
  TypeOK /\ AttemptsOwned /\ Next => AttemptsOwned'
<1> SUFFICES ASSUME TypeOK, AttemptsOwned, Next, NEW e \in Execs, exec'[e].pc \in Attempting
             PROVE  /\ attempts'[exec'[e].attempt].run = exec'[e].run
                    /\ exec'[e].pc \in Deciding
                       => attempts'[exec'[e].attempt].status # "completed"
                    /\ \A f \in Execs : /\ exec'[f].pc \in Attempting
                                        /\ exec'[f].attempt = exec'[e].attempt
                                        => f = e
  BY DEF AttemptsOwned
<1> USE Phases
<1>1. \A f \in Execs : exec[f].pc \in Attempting => exec[f].attempt \in DOMAIN attempts
  BY DEF TypeOK
<1>2. ASSUME NEW g \in Execs, CreateAttempt(g)
      PROVE  /\ attempts'[exec'[e].attempt].run = exec'[e].run
             /\ exec'[e].pc \in Deciding => attempts'[exec'[e].attempt].status # "completed"
             /\ \A f \in Execs : exec'[f].pc \in Attempting /\ exec'[f].attempt = exec'[e].attempt
                                 => f = e
  <2>1. \A f \in Execs : f # g /\ exec'[f].pc \in Attempting
          => /\ exec'[f] = exec[f] /\ exec'[f].attempt \in DOMAIN attempts
             /\ exec'[f].attempt # exec'[g].attempt
    BY <1>1, <1>2, NewAttempt
  <2>2. CASE e = g
    BY <1>2, <2>1, <2>2, NewAttempt
  <2>3. CASE e # g
    BY <1>2, <2>1, <2>3, NewAttempt DEF AttemptsOwned
  <2> QED
    BY <2>2, <2>3
<1>3. ASSUME \A g \in Execs : ~CreateAttempt(g)
      PROVE  /\ attempts'[exec'[e].attempt].run = exec'[e].run
             /\ exec'[e].pc \in Deciding => attempts'[exec'[e].attempt].status # "completed"
             /\ \A f \in Execs : exec'[f].pc \in Attempting /\ exec'[f].attempt = exec'[e].attempt
                                 => f = e
  <2>1. \A f \in Execs : exec'[f].pc \in Attempting =>
          /\ exec[f].pc \in Attempting
          /\ exec'[f].run = exec[f].run /\ exec'[f].attempt = exec[f].attempt
          /\ exec'[f].pc \in Deciding => exec[f].pc \in Deciding
    BY <1>3, EveryPhaseMove DEF PhaseMove
  <2>2. AttemptsMove
    BY <1>3, EveryAttemptsMove
  <2>3. ASSUME exec'[e].pc \in Deciding, NEW g \in Execs, Completes(g),
               exec[g].attempt = exec[e].attempt
        PROVE  FALSE
    <3>1. exec[g].pc \in Attempting /\ exec'[g].pc = "cleanup"
      BY <2>3, Places, GotoMove DEF Completes, Finish
    <3>2. g = e
      BY <2>1, <2>3, <3>1 DEF AttemptsOwned
    <3> QED
      BY <2>3, <3>1, <3>2
  <2> QED
    BY <1>1, <2>1, <2>2, <2>3 DEF AttemptsMove, AttemptsOwned
<1> QED
  BY <1>2, <1>3

LEMMA CompletedStep ==
  TypeOK /\ AttemptsOwned /\ LockedRunsStay /\ CompletedByOneAttempt /\ Next
    => CompletedByOneAttempt'
<1> DEFINE Done(r) == {i \in DOMAIN attempts :
                         attempts[i].run = r /\ attempts[i].status = "completed"}
<1> SUFFICES ASSUME TypeOK, AttemptsOwned, LockedRunsStay, CompletedByOneAttempt, Next,
                    NEW r \in Runs
             PROVE  /\ \A i, j \in Done(r)' : i = j
                    /\ Done(r)' # {} <=> row'[r].status = "completed"
                    /\ row'[r].status \in Outcome => row'[r].task = row'[r].status
  BY DEF CompletedByOneAttempt
<1> USE Phases, ActiveStatuses
<1>1. /\ \A i, j \in Done(r) : i = j
      /\ Done(r) # {} <=> row[r].status = "completed"
      /\ row[r].status \in Outcome => row[r].task = row[r].status
  BY DEF CompletedByOneAttempt
<1>2. OutcomeMove(r) /\ StatusMove(r)
  BY EveryOutcomeMove, EveryStatusMove
<1>3. ASSUME NEW e \in Execs, Completes(e), exec[e].run = r
      PROVE  /\ \A i, j \in Done(r)' : i = j
             /\ Done(r)' # {} <=> row'[r].status = "completed"
             /\ row'[r].status \in Outcome => row'[r].task = row'[r].status
  <2>1. /\ exec[e].pc \in Attempting /\ exec[e].attempt \in DOMAIN attempts
        /\ row' = [Released(r, "completed") EXCEPT ![r].task = "completed"]
        /\ attempts' = EndAttempt(e, "completed")
        /\ row[r].status = "running" /\ attempts[exec[e].attempt].run = r
    <3>1. exec[e].pc \in Attempting
      BY <1>3 DEF Completes, Finish
    <3> QED
      BY <1>3, <3>1 DEF Completes, Finish, Holds, Owns, TypeOK, AttemptsOwned
  <2>2. Ends(r, "completed", row')
    BY <2>1, ReleasedStatus, Statuses
  <2>3. Done(r) = {}
    BY <1>1, <2>1
  <2>4. Done(r)' = {exec[e].attempt}
    BY <2>1, <2>3, EndedAttempt
  <2> HIDE DEF Done
  <2> QED
    BY <2>2, <2>4 DEF Ends, Becomes
<1>4. ASSUME \A e \in Execs : ~(Completes(e) /\ exec[e].run = r)
      PROVE  /\ \A i, j \in Done(r)' : i = j
             /\ Done(r)' # {} <=> row'[r].status = "completed"
             /\ row'[r].status \in Outcome => row'[r].task = row'[r].status
  <2>1. CASE \E e \in Execs : CreateAttempt(e)
    <3>1. Done(r)' = Done(r)
      BY <2>1, NewAttempt
    <3>2. row' = row
      BY <2>1, NewAttempt
    <3> HIDE DEF Done
    <3> QED
      BY <1>1, <3>1, <3>2
  <2>2. CASE AttemptsMove
    <3>1. ASSUME NEW i \in DOMAIN attempts, attempts[i].run = r
          PROVE  attempts'[i].status = "completed" <=> attempts[i].status = "completed"
      <4>1. ASSUME NEW e \in Execs, Completes(e), exec[e].attempt = i PROVE FALSE
        <5>1. exec[e].pc \in Attempting
          BY <4>1 DEF Completes, Finish
        <5>2. exec[e].run = r
          BY <3>1, <4>1, <5>1 DEF AttemptsOwned
        <5> QED
          BY <1>4, <4>1, <5>2
      <4> QED
        BY <2>2, <4>1 DEF AttemptsMove
    <3>2. Done(r)' = Done(r)
      BY <2>2, <3>1 DEF AttemptsMove
    <3>3. row'[r].status = "completed" <=> row[r].status = "completed"
      BY <1>2, <1>4 DEF OutcomeMove, StatusMove
    <3>4. row'[r].status \in Outcome => row'[r].task = row'[r].status
      BY <1>1, <1>2, <1>4 DEF OutcomeMove
    <3> HIDE DEF Done
    <3> QED
      BY <1>1, <3>2, <3>3, <3>4
  <2> QED
    BY <2>1, <2>2, EveryAttemptsMove
<1> QED
  BY <1>3, <1>4

LEMMA AttemptsOwnedHold == Spec => []AttemptsOwned
<1>1. Init => AttemptsOwned
  BY Phases DEF Init, AttemptsOwned, Idle
<1>2. TypeOK /\ AttemptsOwned /\ [Next]_vars => AttemptsOwned'
  <2>1. AttemptsOwned /\ UNCHANGED vars => AttemptsOwned'
    BY DEF vars, AttemptsOwned
  <2> QED
    BY <2>1, AttemptsOwnedStep
<1> QED
  BY <1>1, <1>2, TypeCorrect, PTL DEF Spec

\* A run is completed by exactly one of its attempts, and the run, the attempt and the
\* task agree, whatever the invocations of the run and their clean-ups do after it.
THEOREM OneAttemptCompletes == Spec => []CompletedByOneAttempt
<1>1. Init => CompletedByOneAttempt
  BY ActiveStatuses DEF Init, CompletedByOneAttempt
<1>2. TypeOK /\ AttemptsOwned /\ FencesAndLocks /\ CompletedByOneAttempt /\ [Next]_vars
        => CompletedByOneAttempt'
  <2>1. CompletedByOneAttempt /\ UNCHANGED vars => CompletedByOneAttempt'
    BY DEF vars, CompletedByOneAttempt
  <2> QED
    BY <2>1, CompletedStep DEF FencesAndLocks
<1> QED
  BY <1>1, <1>2, TypeCorrect, AttemptsOwnedHold, FencesAndLocksHold, PTL DEF Spec

-----------------------------------------------------------------------------
(* History *)

\* What a step may do to what the threads hold of a run, and to its marks.
HistoryMove(r) ==
  /\ marks \subseteq marks'
  /\ <<r, "cleared">> \in marks' =>
       \/ <<r, "cleared">> \in marks
       \/ CommitClear /\ ThreadOf[r] = BotThread /\ row'[r].status = "cancelled"
  /\ row[r].status = "absent" /\ row'[r].status # "absent" => <<r, "user">> \in history'
  /\ row[r].status = "failed" /\ row'[r].status # "failed" => <<r, "retried">> \in marks'
  /\ row'[r].status = "waiting_input" =>
       \/ row[r].status = "waiting_input"
       \/ <<r, "ask">> \in history' /\ Unlocked(r) /\ txn' = txn
  /\ \A kind \in Kind : <<r, kind>> \in history \ history' =>
       \/ kind = "ask" /\ row'[r].status # "waiting_input"
       \/ CommitClear /\ ThreadOf[r] = BotThread
  /\ \A kind \in Kind : <<r, kind>> \in history' \ history =>
       \/ row[r].status # "cancelled"
       \/ \E e \in Execs : CommitPublish(e) /\ exec[e].run = r

\* Steps that only add to the history, and leave the marks alone.
LEMMA GrowingHistory ==
  ASSUME NEW r \in Runs, marks' = marks, history \subseteq history',
         row[r].status # "cancelled" \/ \A kind \in Kind : <<r, kind>> \notin history' \ history,
         \/ row'[r].status = row[r].status
         \/ row[r].status \in Active /\ row'[r].status # "waiting_input"
  PROVE  HistoryMove(r)
BY ActiveStatuses DEF HistoryMove

LEMMA UserHistory ==
  TypeOK /\ LockedRunsStay /\ User => \A r \in Runs : HistoryMove(r)
<1> SUFFICES ASSUME TypeOK, LockedRunsStay, User, NEW q \in Runs PROVE HistoryMove(q)
  OBVIOUS
<1> USE ConstantsOK, ActiveStatuses
<1>0. row \in [Runs -> Row] /\ row[q] \in Row
  BY DEF TypeOK
<1>1. ASSUME row' = row, history' = history, marks' = marks PROVE HistoryMove(q)
  BY <1>1, GrowingHistory
<1>2. ASSUME NEW t \in Threads, CommitSend(t) PROVE HistoryMove(q)
  <2> DEFINE r == txn[t].run
  <2>1. /\ marks' = marks /\ history' = history \cup {<<r, "user">>}
        /\ r \in Runs /\ row[r].status = "absent"
        /\ q \in txn[t].runs => row[q].status \notin {"absent", "completed", "failed"}
    BY <1>2 DEF CommitSend, LockedRunsStay, TypeOK
  <2>2. CASE q = r
    <3>1. row'[q].status = "queued" /\ <<q, "user">> \in history'
      <4>1. row'[q] = [row[q] EXCEPT !.status = "queued"]
        BY <1>2, <2>2 DEF CommitSend
      <4> QED
        BY <1>0, <2>1, <2>2, <4>1 DEF Row
    <3> QED
      BY <2>1, <2>2, <3>1 DEF HistoryMove
  <2>3. CASE q # r
    <3>1. \A kind \in Kind : <<q, kind>> \notin history' \ history
      BY <2>1, <2>3
    <3>2. row'[q] = row[q] \/ (q \in txn[t].runs /\ row'[q].status = "cancelled")
      BY <1>0, <1>2, <2>3 DEF CommitSend, Row
    <3>3. row[q].status \in Status
      BY <1>0 DEF Row
    <3>4. \/ row'[q].status = row[q].status
          \/ row[q].status \in Active /\ row'[q].status # "waiting_input"
      BY <2>1, <3>2, <3>3 DEF Status, Terminal
    <3> QED
      BY <2>1, <3>1, <3>4, GrowingHistory
  <2> QED
    BY <2>2, <2>3
<1>3. ASSUME NEW r \in Runs, Answer(r) PROVE HistoryMove(q)
  <2>1. /\ marks' = marks /\ row[r].status = "waiting_input"
        /\ history' = (history \ {<<r, "ask">>}) \cup {<<r, "bot">>}
        /\ row'[r].status = "queued" /\ (q # r => row'[q] = row[q])
    BY <1>0, <1>3 DEF Answer, Row
  <2> QED
    BY <2>1 DEF HistoryMove
<1>4. ASSUME NEW r \in Runs, Retry(r) PROVE HistoryMove(q)
  <2>1. Becomes(r, "queued", row')
    BY <1>4, ReleasedStatus, Statuses DEF Retry
  <2>2. /\ row[r].status = "failed" /\ history' = history
        /\ marks' = marks \cup {<<r, "retried">>}
    BY <1>4 DEF Retry
  <2> QED
    BY <2>1, <2>2 DEF HistoryMove, Becomes
<1>5. ASSUME NEW r \in Runs, ReleaseControl(r) PROVE HistoryMove(q)
  <2>1. \/ row' = row /\ history' = history
        \/ /\ row[r].status = "waiting_takeover" /\ row'[r].status = "queued"
           /\ q # r => row'[q] = row[q]
           /\ history \subseteq history' /\ history' \subseteq history \cup {<<r, "bot">>}
    BY <1>0, <1>5 DEF ReleaseControl, Row
  <2>2. marks' = marks
    BY <1>5 DEF ReleaseControl
  <2> QED
    BY <1>1, <2>1, <2>2, GrowingHistory
<1>6. ASSUME NEW t \in Threads, StopRuns(t) PROVE HistoryMove(q)
  <2>1. \/ row'[q] = row[q]
        \/ row[q].status \in Active /\ row'[q].status = "cancelled"
    BY <1>0, <1>6 DEF StopRuns, ActiveOn, Row
  <2> QED
    BY <1>6, <2>1, GrowingHistory DEF StopRuns
<1>7. ASSUME CommitClear PROVE HistoryMove(q)
  <2>1. \/ row'[q] = row[q]
        \/ q \in txn[BotThread].runs /\ row'[q].status = "cancelled"
    BY <1>0, <1>7 DEF CommitClear, Row
  <2>2. q \in txn[BotThread].runs => row[q].status \notin {"absent", "completed", "failed"}
    BY <1>7 DEF LockedRunsStay, CommitClear
  <2>3. /\ history' = {h \in history : ThreadOf[h[1]] # BotThread}
        /\ marks \subseteq marks'
        /\ <<q, "cleared">> \in marks' =>
             \/ <<q, "cleared">> \in marks
             \/ ThreadOf[q] = BotThread /\ row'[q].status = "cancelled"
    BY <1>7 DEF CommitClear, RunsOf
  <2> QED
    BY <1>7, <2>1, <2>2, <2>3 DEF HistoryMove
<1>8. ASSUME NEW r \in Runs, BeginSend(r) \/ GrantControl(r) PROVE HistoryMove(q)
  BY <1>1, <1>8 DEF BeginSend, GrantControl
<1>9. ASSUME NEW t \in Threads, DropLease(t) \/ ReadActive(t) \/ ApiFails(t)
      PROVE  HistoryMove(q)
  BY <1>1, <1>9 DEF DropLease, ReadActive, ApiFails
<1>10. ASSUME BeginClear PROVE HistoryMove(q)
  BY <1>1, <1>10 DEF BeginClear
<1> QED
  BY <1>2, <1>3, <1>4, <1>5, <1>6, <1>7, <1>8, <1>9, <1>10 DEF User

LEMMA ExecHistory ==
  ASSUME TypeOK, NEW e \in Execs, Claiming(e) \/ Work(e)
  PROVE  \A r \in Runs : HistoryMove(r)
<1> SUFFICES ASSUME NEW q \in Runs PROVE HistoryMove(q)
  OBVIOUS
<1> USE ConstantsOK, ActiveStatuses, Statuses
<1> DEFINE r == exec[e].run
<1>0. /\ row \in [Runs -> Row] /\ (exec[e].pc # "idle" => r \in Runs)
      /\ exec[e].handback \in BOOLEAN
  BY DEF TypeOK, Exec
<1>1. ASSUME row' = row, history' = history, marks' = marks PROVE HistoryMove(q)
  BY <1>1, GrowingHistory
<1>a. ASSUME NEW s \in Status, s # "waiting_input", Becomes(r, s, row'), row[r].status \in Active,
             marks' = marks, history \subseteq history',
             \A p \in Runs, kind \in Kind : <<p, kind>> \in history' \ history => p = r
      PROVE  HistoryMove(q)
  BY <1>a, GrowingHistory DEF Becomes
<1>2. ASSUME LeaseRun(e) PROVE HistoryMove(q)
  <2>1. r \in Runs /\ row[r] \in Row
    BY <1>0, <1>2 DEF LeaseRun
  <2>2. \/ row' = row
        \/ /\ row[r].status \in Active
           /\ row' = [row EXCEPT ![r] =
                [row[r] EXCEPT !.status = "leased", !.owner = WorkerOf[e],
                   !.fence = exec[e].fence, !.live = TRUE, !.handback = FALSE]]
    BY <1>2 DEF LeaseRun, Leasable
  <2>3. [row[r] EXCEPT !.status = "leased", !.owner = WorkerOf[e],
           !.fence = exec[e].fence, !.live = TRUE, !.handback = FALSE].status = "leased"
    BY <2>1 DEF Row
  <2>4. row' = row \/ Becomes(r, "leased", row')
    BY <1>0, <2>1, <2>2, <2>3 DEF Becomes
  <2> QED
    BY <1>1, <1>2, <1>a, <2>2, <2>4 DEF LeaseRun
<1>3. ASSUME FailBlocked(e) PROVE HistoryMove(q)
  <2>1. /\ r \in Runs /\ marks' = marks
        /\ \/ row' = row /\ history' = history
           \/ /\ row' = [Released(r, "failed") EXCEPT ![r].task = "failed"]
              /\ row[r].status = "leased" /\ history' = history \cup {<<r, "bot">>}
    BY <1>0, <1>3 DEF FailBlocked, Owns
  <2>2. Ends(r, "failed", [Released(r, "failed") EXCEPT ![r].task = "failed"])
    BY <2>1, ReleasedStatus
  <2> QED
    BY <1>1, <1>a, <2>1, <2>2 DEF Ends
<1>4. ASSUME ReleasePreflight(e) PROVE HistoryMove(q)
  <2>1. /\ r \in Runs /\ marks' = marks /\ history' = history
        /\ row' = row \/ (row' = Released(r, "queued") /\ row[r].status = "leased")
    BY <1>0, <1>4 DEF ReleasePreflight, Owns
  <2>2. Becomes(r, "queued", Released(r, "queued"))
    BY <2>1, ReleasedStatus
  <2> QED
    BY <1>1, <1>a, <2>1, <2>2
<1>5. ASSUME StartRun(e) PROVE HistoryMove(q)
  <2>1. row' = row \/ (Becomes(r, "running", row') /\ row[r].status = "leased")
    BY <1>0, <1>5 DEF StartRun, Row, Becomes, Owns
  <2> QED
    BY <1>1, <1>5, <1>a, <2>1 DEF StartRun
<1>6. ASSUME RequeueComputerRun(e) \/ SetupFail(e) PROVE HistoryMove(q)
  <2>1. /\ r \in Runs /\ marks' = marks /\ history' = history
        /\ \/ row' = row
           \/ /\ row' = [Released(r, "queued") EXCEPT ![r].handback = exec[e].handback]
              /\ row[r].status = "running"
    BY <1>0, <1>6 DEF RequeueComputerRun, SetupFail, Holds, Owns
  <2>2. Becomes(r, "queued", [Released(r, "queued") EXCEPT ![r].handback = exec[e].handback])
    BY <1>0, <2>1, ReleasedStatus
  <2> QED
    BY <1>1, <1>a, <2>1, <2>2
<1>7. ASSUME RenewRun(e) PROVE HistoryMove(q)
  <2>1. row'[q].status = row[q].status
    BY <1>0, <1>7 DEF RenewRun, Row
  <2> QED
    BY <1>7, <2>1, GrowingHistory DEF RenewRun
<1>8. ASSUME PauseForInput(e) PROVE HistoryMove(q)
  <2>1. /\ r \in Runs /\ marks' = marks
        /\ \/ row' = row /\ history' = history
           \/ /\ row' = Released(r, "waiting_input") /\ row[r].status = "running"
              /\ history' = history \cup {<<r, "ask">>, <<r, "bot">>}
              /\ Unlocked(r) /\ txn' = txn
    BY <1>0, <1>8 DEF PauseForInput, Holds, Owns
  <2>2. Becomes(r, "waiting_input", Released(r, "waiting_input"))
    BY <2>1, ReleasedStatus
  <2>3. CASE q = r
    BY <1>1, <2>1, <2>2, <2>3 DEF HistoryMove, Becomes
  <2>4. CASE q # r /\ history' # history
    BY <2>1, <2>2, <2>4, GrowingHistory DEF Becomes
  <2>5. CASE q # r /\ history' = history
    BY <2>1, <2>2, <2>5, GrowingHistory DEF Becomes
  <2> QED
    BY <2>3, <2>4, <2>5
<1>9. ASSUME PauseForTakeover(e) PROVE HistoryMove(q)
  <2>1. /\ r \in Runs /\ marks' = marks
        /\ \/ row' = row /\ history' = history
           \/ /\ row' = [Released(r, "waiting_takeover") EXCEPT ![r].handback = FALSE]
              /\ row[r].status = "running" /\ history' = history \cup {<<r, "bot">>}
    BY <1>0, <1>9 DEF PauseForTakeover, Holds, Owns
  <2>2. Becomes(r, "waiting_takeover",
                [Released(r, "waiting_takeover") EXCEPT ![r].handback = FALSE])
    BY <2>1, ReleasedStatus
  <2> QED
    BY <1>1, <1>a, <2>1, <2>2
<1>10. ASSUME NEW outcome \in Outcome, Finish(e, outcome) PROVE HistoryMove(q)
  <2>1. /\ r \in Runs /\ marks' = marks
        /\ \/ row' = row /\ history' = history
           \/ /\ row' = [Released(r, outcome) EXCEPT ![r].task = outcome]
              /\ row[r].status = "running" /\ history' = history \cup {<<r, "bot">>}
    BY <1>0, <1>10 DEF Finish, Holds, Owns
  <2>2. Ends(r, outcome, [Released(r, outcome) EXCEPT ![r].task = outcome])
    BY <2>1, ReleasedStatus
  <2> QED
    BY <1>1, <1>a, <2>1, <2>2 DEF Ends
<1>11. ASSUME CommitPublish(e) PROVE HistoryMove(q)
  <2>1. /\ row' = row /\ marks' = marks /\ history' = history \cup {<<r, "bot">>}
    BY <1>11 DEF CommitPublish
  <2> QED
    BY <1>11, <2>1 DEF HistoryMove
<1>12. ASSUME NEW p \in Runs, Claim(e, p) PROVE HistoryMove(q)
  BY <1>1, <1>12 DEF Claim
<1>13. ASSUME \/ AcquireComputer(e) \/ ReturnComputer(e) \/ CreateAttempt(e)
              \/ RenewScreen(e) \/ BeginPublish(e) \/ TakeComputer(e)
              \/ HoldScreen(e) \/ RecordSetupFailure(e) \/ Abandon(e)
              \/ ReleaseScreen(e) \/ CloseAttempt(e)
       PROVE  HistoryMove(q)
  BY <1>1, <1>13
     DEF AcquireComputer, ReturnComputer, CreateAttempt, RenewScreen, BeginPublish,
         TakeComputer, HoldScreen, RecordSetupFailure, Abandon, ReleaseScreen, CloseAttempt
<1> QED
  BY <1>2, <1>3, <1>4, <1>5, <1>6, <1>7, <1>8, <1>9, <1>10, <1>11, <1>12, <1>13
     DEF Claiming, Work

LEMMA EveryHistoryMove ==
  TypeOK /\ LockedRunsStay /\ Next => \A r \in Runs : HistoryMove(r)
<1> SUFFICES ASSUME TypeOK, Environment, NEW q \in Runs PROVE HistoryMove(q)
  BY UserHistory, ExecHistory DEF Next
<1>1. /\ row' = row \/ \E r \in Runs : row' = [row EXCEPT ![r].live = FALSE]
      /\ history' = history /\ marks' = marks
  BY DEF Environment, Crash, LeaseExpires, ScreenLeaseExpires, ListRuns, Reconcile
<1>2. row'[q].status = row[q].status
  <2>1. row \in [Runs -> Row]
    BY DEF TypeOK
  <2> QED
    BY <1>1, <2>1 DEF Row
<1> QED
  BY <1>1, <1>2, GrowingHistory

\* What a step may do to the row lock of a thread.
LockMove(t) ==
  \/ txn'[t] = txn[t]
  \/ txn[t].kind = "free" /\ (txn'[t].kind = "clear" => BeginClear)
  \/ txn[t].kind \in {"send", "clear"} /\ txn'[t].kind = "free"
  \/ /\ txn'[t].kind = "free"
     /\ \E e \in Execs : /\ exec[e].pc = "publishing" /\ exec'[e].pc # "publishing"
                         /\ ThreadOf[exec[e].run] = t

LEMMA EveryLockMove ==
  TypeOK /\ LockedRunsStay /\ Next => \A t \in Threads : LockMove(t)
<1> SUFFICES ASSUME TypeOK, LockedRunsStay, Next, NEW t \in Threads PROVE LockMove(t)
  OBVIOUS
<1> USE ConstantsOK
<1>0. txn \in [Threads -> Txn] /\ Free.kind = "free"
  BY DEF TypeOK, Free
<1>1. ASSUME txn' = txn PROVE LockMove(t)
  BY <1>1 DEF LockMove
<1>2. ASSUME NEW u \in Threads, txn' = [txn EXCEPT ![u] = Free],
             txn[u].kind \in {"send", "clear"}
      PROVE  LockMove(t)
  BY <1>0, <1>2 DEF LockMove
<1>3. ASSUME NEW r \in Runs, BeginSend(r) PROVE LockMove(t)
  BY <1>0, <1>3 DEF BeginSend, LockMove, Unlocked
<1>4. ASSUME BeginClear PROVE LockMove(t)
  BY <1>0, <1>4 DEF BeginClear, LockMove
<1>5. ASSUME NEW u \in Threads, ApiFails(u) PROVE LockMove(t)
  BY <1>1, <1>2, <1>5 DEF ApiFails
<1>6. ASSUME NEW u \in Threads, CommitSend(u) PROVE LockMove(t)
  BY <1>2, <1>6 DEF CommitSend
<1>7. ASSUME CommitClear PROVE LockMove(t)
  BY <1>2, <1>7 DEF CommitClear
<1>8. ASSUME User PROVE LockMove(t)
  BY <1>1, <1>3, <1>4, <1>5, <1>6, <1>7, <1>8
     DEF User, Answer, Retry, GrantControl, ReleaseControl, ReadActive, StopRuns, DropLease
<1>9. ASSUME NEW e \in Execs, Claiming(e) PROVE LockMove(t)
  BY <1>1, <1>9
     DEF Claiming, Claim, LeaseRun, FailBlocked, ReleasePreflight, StartRun,
         RequeueComputerRun, AcquireComputer, ReturnComputer, CreateAttempt
<1>10. ASSUME NEW e \in Execs, BeginPublish(e) PROVE LockMove(t)
  BY <1>0, <1>10 DEF BeginPublish, LockMove, Unlocked
<1>11. ASSUME NEW e \in Execs, exec[e].pc = "publishing", exec'[e].pc # "publishing",
              txn' = [txn EXCEPT ![ThreadOf[exec[e].run]] = Free]
       PROVE  LockMove(t)
  BY <1>0, <1>11 DEF LockMove
<1>12. ASSUME NEW e \in Execs, CommitPublish(e) PROVE LockMove(t)
  <2>1. exec'[e].pc = "active"
    BY <1>12, Places, GotoMove DEF CommitPublish
  <2> QED
    BY <1>11, <1>12, <2>1 DEF CommitPublish
<1>13. ASSUME NEW e \in Execs, Crash(e) PROVE LockMove(t)
  <2>1. exec'[e].pc = "idle"
    BY <1>13, LeaveMove DEF Crash
  <2> QED
    BY <1>1, <1>11, <1>13, <2>1 DEF Crash
<1>14. ASSUME NEW e \in Execs, Work(e) PROVE LockMove(t)
  BY <1>1, <1>10, <1>12, <1>14
     DEF Work, RenewRun, RenewScreen, PauseForInput, TakeComputer, HoldScreen,
         PauseForTakeover, Finish, SetupFail, RecordSetupFailure, Abandon, ReleaseScreen,
         CloseAttempt
<1>15. ASSUME Environment PROVE LockMove(t)
  BY <1>1, <1>13, <1>15 DEF Environment, LeaseExpires, ScreenLeaseExpires, ListRuns, Reconcile
<1> QED
  BY <1>8, <1>9, <1>14, <1>15 DEF Next

\* A clear that holds the row lock of the bot's thread has read every run that waits for
\* an answer there, and every active one but those an operator has put back since.
ClearHasSeen ==
  txn[BotThread].kind = "clear" =>
    \A r \in RunsOf(BotThread) :
      /\ row[r].status = "waiting_input" => r \in txn[BotThread].runs
      /\ row[r].status \in Active => r \in txn[BotThread].runs \/ <<r, "retried">> \in marks

\* An invocation that publishes holds the row lock of its thread, alone, and its run was
\* not cancelled by a clear.
PublishersLock ==
  \A e \in Execs : exec[e].pc = "publishing" =>
    /\ txn[ThreadOf[exec[e].run]].kind = "publish"
    /\ <<exec[e].run, "cleared">> \notin marks
    /\ \A f \in Execs : /\ exec[f].pc = "publishing"
                        /\ ThreadOf[exec[f].run] = ThreadOf[exec[e].run]
                        => f = e

ClearedAreCancelled ==
  \A r \in Runs : <<r, "cleared">> \in marks => row[r].status = "cancelled"

ThreadsGuarded == ClearHasSeen /\ PublishersLock /\ ClearedAreCancelled

LEMMA ClearHasSeenStep ==
  TypeOK /\ LockedRunsStay /\ ClearHasSeen /\ Next => ClearHasSeen'
<1> SUFFICES ASSUME TypeOK, LockedRunsStay, ClearHasSeen, Next,
                    txn'[BotThread].kind = "clear", NEW r \in RunsOf(BotThread)
             PROVE  /\ row'[r].status = "waiting_input" => r \in txn'[BotThread].runs
                    /\ row'[r].status \in Active
                       => r \in txn'[BotThread].runs \/ <<r, "retried">> \in marks'
  BY DEF ClearHasSeen, RunsOf
<1> USE ConstantsOK, ActiveStatuses
<1>1. r \in Runs /\ ThreadOf[r] = BotThread
  BY DEF RunsOf
<1>2. /\ LockMove(BotThread) /\ HistoryMove(r) /\ StatusMove(r)
      /\ txn \in [Threads -> Txn] /\ Free.kind = "free"
  BY <1>1, EveryLockMove, EveryHistoryMove, EveryStatusMove DEF TypeOK, Free
<1>3. CASE txn'[BotThread] = txn[BotThread]
  <2>1. txn[BotThread].kind = "clear" /\ txn' # [txn EXCEPT ![BotThread] = Free]
    BY <1>2, <1>3
  <2>2. row'[r].status = "waiting_input" => row[r].status = "waiting_input"
    BY <1>1, <1>2, <2>1 DEF HistoryMove, Unlocked
  <2>3. row'[r].status \in Active => row[r].status \in Active \/ row[r].status = "failed"
    BY <1>1, <1>2, <2>1 DEF StatusMove
  <2>4. row[r].status = "failed" /\ row'[r].status \in Active => <<r, "retried">> \in marks'
    BY <1>2 DEF HistoryMove
  <2>5. /\ row[r].status = "waiting_input" => r \in txn[BotThread].runs
        /\ row[r].status \in Active
           => r \in txn[BotThread].runs \/ <<r, "retried">> \in marks
    BY <2>1 DEF ClearHasSeen
  <2>6. marks \subseteq marks'
    BY <1>2 DEF HistoryMove
  <2> QED
    BY <1>3, <2>2, <2>3, <2>4, <2>5, <2>6
<1>4. CASE txn'[BotThread] # txn[BotThread]
  <2>1. BeginClear
    BY <1>2, <1>4 DEF LockMove
  <2>2. row' = row /\ txn'[BotThread].runs = ActiveOn(BotThread)
    BY <1>2, <2>1 DEF BeginClear
  <2> QED
    BY <2>2 DEF ActiveOn
<1> QED
  BY <1>3, <1>4

LEMMA ClearedAreCancelledStep ==
  TypeOK /\ LockedRunsStay /\ ClearedAreCancelled /\ Next => ClearedAreCancelled'
<1> SUFFICES ASSUME TypeOK, LockedRunsStay, ClearedAreCancelled, Next, NEW r \in Runs,
                    <<r, "cleared">> \in marks'
             PROVE  row'[r].status = "cancelled"
  BY DEF ClearedAreCancelled
<1>1. HistoryMove(r) /\ StatusMove(r)
  BY EveryHistoryMove, EveryStatusMove
<1>2. row[r].status = "cancelled" => row'[r].status = "cancelled"
  BY <1>1, ActiveStatuses DEF StatusMove, LeasedOut
<1> QED
  BY <1>1, <1>2 DEF HistoryMove, ClearedAreCancelled

LEMMA PublishersLockStep ==
  TypeOK /\ LockedRunsStay /\ PublishersLock /\ ClearedAreCancelled /\ Next => PublishersLock'
<1> SUFFICES ASSUME TypeOK, LockedRunsStay, PublishersLock, ClearedAreCancelled, Next,
                    NEW e \in Execs, exec'[e].pc = "publishing"
             PROVE  /\ txn'[ThreadOf[exec'[e].run]].kind = "publish"
                    /\ <<exec'[e].run, "cleared">> \notin marks'
                    /\ \A f \in Execs : /\ exec'[f].pc = "publishing"
                                        /\ ThreadOf[exec'[f].run] = ThreadOf[exec'[e].run]
                                        => f = e
  BY DEF PublishersLock
<1> USE ConstantsOK
\* An invocation that publishes by now did so before, for the same run, or begins to.
<1>1. \A f \in Execs : exec'[f].pc = "publishing" =>
        /\ exec[f].pc # "idle" /\ exec[f].run \in Runs /\ exec'[f].run = exec[f].run
        /\ exec[f].pc = "publishing" \/ BeginPublish(f)
  BY EveryPhaseMove, EveryExecMove, Places DEF PhaseMove, ExecMove, BeginPublish, TypeOK
<1>2. ASSUME NEW f \in Execs, exec'[f].pc = "publishing", BeginPublish(f)
      PROVE  /\ Unlocked(exec[f].run) /\ row[exec[f].run].status # "cancelled"
             /\ txn'[ThreadOf[exec[f].run]].kind = "publish" /\ marks' = marks
             /\ \A g \in Execs : g # f => exec'[g] = exec[g]
  <2>1. exec[f].pc = "active"
    BY <1>2 DEF BeginPublish
  <2>2. row[exec[f].run].status # "cancelled"
    BY <1>2, Places, GotoMove DEF BeginPublish
  <2> QED
    BY <1>1, <1>2, <2>2 DEF BeginPublish, Goto, TypeOK
<1>3. CASE exec[e].pc = "publishing"
  <2> DEFINE t == ThreadOf[exec[e].run]
  <2>1. /\ txn[t].kind = "publish" /\ t \in Threads
        /\ <<exec[e].run, "cleared">> \notin marks
        /\ \A f \in Execs : exec[f].pc = "publishing" /\ ThreadOf[exec[f].run] = t => f = e
    BY <1>1, <1>3 DEF PublishersLock
  <2>2. txn'[t] = txn[t]
    BY <2>1, EveryLockMove DEF LockMove
  <2>3. <<exec[e].run, "cleared">> \notin marks'
    <3>1. HistoryMove(exec[e].run)
      BY <1>1, EveryHistoryMove
    <3>2. CommitClear => txn[BotThread].kind = "clear"
      BY DEF CommitClear
    <3> QED
      BY <2>1, <3>1, <3>2 DEF HistoryMove
  <2>4. ASSUME NEW f \in Execs, exec'[f].pc = "publishing", ThreadOf[exec'[f].run] = t
        PROVE  f = e
    BY <1>1, <1>2, <2>1, <2>4 DEF Unlocked
  <2> QED
    BY <1>1, <2>1, <2>2, <2>3, <2>4
<1>4. CASE BeginPublish(e)
  <2>1. <<exec[e].run, "cleared">> \notin marks'
    BY <1>1, <1>2, <1>4 DEF ClearedAreCancelled
  <2>2. ASSUME NEW f \in Execs, exec'[f].pc = "publishing",
               ThreadOf[exec'[f].run] = ThreadOf[exec'[e].run], f # e
        PROVE  FALSE
    <3>1. exec[f].pc = "publishing" /\ exec'[f].run = exec[f].run
      BY <1>1, <1>2, <1>4, <2>2
    <3> QED
      BY <1>1, <1>2, <1>4, <2>2, <3>1 DEF PublishersLock, Unlocked
  <2> QED
    BY <1>1, <1>2, <1>4, <2>1, <2>2
<1> QED
  BY <1>1, <1>3, <1>4

LEMMA ThreadsGuardedHold == Spec => []ThreadsGuarded
<1>1. Init => ThreadsGuarded
  BY ConstantsOK
     DEF Init, ThreadsGuarded, ClearHasSeen, PublishersLock, ClearedAreCancelled, Free, Idle
<1>2. TypeOK /\ FencesAndLocks /\ ThreadsGuarded /\ [Next]_vars => ThreadsGuarded'
  <2>1. ThreadsGuarded /\ UNCHANGED vars => ThreadsGuarded'
    BY DEF vars, ThreadsGuarded, ClearHasSeen, PublishersLock, ClearedAreCancelled, RunsOf
  <2> QED
    BY <2>1, ClearHasSeenStep, PublishersLockStep, ClearedAreCancelledStep
       DEF FencesAndLocks, ThreadsGuarded
<1> QED
  BY <1>1, <1>2, TypeCorrect, FencesAndLocksHold, PTL DEF Spec

\* What the commit of a clear does to a run it has read.
LEMMA ClearCancels ==
  ASSUME TypeOK, CommitClear, NEW r \in Runs, r \in txn[BotThread].runs
  PROVE  row'[r].status = "cancelled"
<1>1. row[r] \in Row
  BY DEF TypeOK
<1> QED
  BY <1>1 DEF CommitClear, Row

LEMMA MessageStep ==
  TypeOK /\ LockedRunsStay /\ ClearHasSeen /\ ActiveRunHasItsMessage /\ Next
    => ActiveRunHasItsMessage'
<1> SUFFICES ASSUME TypeOK, LockedRunsStay, ClearHasSeen, ActiveRunHasItsMessage, Next,
                    NEW r \in Runs, row'[r].status \in Active
             PROVE  <<r, "user">> \in history' \/ <<r, "retried">> \in marks'
  BY DEF ActiveRunHasItsMessage
<1> USE ActiveStatuses
<1>1. HistoryMove(r) /\ StatusMove(r) /\ "user" \in Kind
  BY EveryHistoryMove, EveryStatusMove DEF Kind
<1>2. row[r].status \in Active \/ row[r].status \in {"absent", "failed"}
  BY <1>1 DEF StatusMove
<1>3. CASE row[r].status \in {"absent", "failed"}
  BY <1>1, <1>3 DEF HistoryMove
<1>4. CASE row[r].status \in Active
  <2>1. <<r, "user">> \in history \/ <<r, "retried">> \in marks
    BY <1>4 DEF ActiveRunHasItsMessage
  <2>2. CommitClear /\ ThreadOf[r] = BotThread => <<r, "retried">> \in marks
    BY <1>4, ClearCancels DEF ClearHasSeen, RunsOf, CommitClear
  <2> QED
    BY <1>1, <2>1, <2>2 DEF HistoryMove
<1> QED
  BY <1>2, <1>3, <1>4

LEMMA PausedStep ==
  TypeOK /\ LockedRunsStay /\ ClearHasSeen /\ PausedRunIsAnswerable /\ Next
    => PausedRunIsAnswerable'
<1> SUFFICES ASSUME TypeOK, LockedRunsStay, ClearHasSeen, PausedRunIsAnswerable, Next,
                    NEW r \in Runs, row'[r].status = "waiting_input"
             PROVE  <<r, "ask">> \in history'
  BY DEF PausedRunIsAnswerable
<1>1. HistoryMove(r) /\ "ask" \in Kind
  BY EveryHistoryMove DEF Kind
<1>2. CASE row[r].status = "waiting_input"
  <2>1. <<r, "ask">> \in history
    BY <1>2 DEF PausedRunIsAnswerable
  <2>2. ~(CommitClear /\ ThreadOf[r] = BotThread)
    BY <1>2, ClearCancels DEF ClearHasSeen, RunsOf, CommitClear
  <2> QED
    BY <1>1, <2>1, <2>2 DEF HistoryMove
<1> QED
  BY <1>1, <1>2 DEF HistoryMove

LEMMA SilentStep ==
  TypeOK /\ LockedRunsStay /\ PublishersLock /\ ClearedAreCancelled
    /\ ClearedRunsStaySilent /\ Next => ClearedRunsStaySilent'
<1> SUFFICES ASSUME TypeOK, LockedRunsStay, PublishersLock, ClearedAreCancelled,
                    ClearedRunsStaySilent, Next, NEW r \in Runs, <<r, "cleared">> \in marks',
                    NEW kind \in Kind
             PROVE  <<r, kind>> \notin history'
  BY DEF ClearedRunsStaySilent
<1>1. HistoryMove(r)
  BY EveryHistoryMove
<1>2. CASE <<r, "cleared">> \in marks
  <2>1. <<r, kind>> \notin history /\ row[r].status = "cancelled"
    BY <1>2 DEF ClearedRunsStaySilent, ClearedAreCancelled
  <2>2. ASSUME NEW e \in Execs, CommitPublish(e), exec[e].run = r PROVE FALSE
    BY <1>2, <2>2 DEF CommitPublish, PublishersLock
  <2> QED
    BY <1>1, <2>1, <2>2 DEF HistoryMove
<1>3. CASE <<r, "cleared">> \notin marks
  <2>1. CommitClear /\ ThreadOf[r] = BotThread
    BY <1>1, <1>3 DEF HistoryMove
  <2>2. \A h \in history' : ThreadOf[h[1]] # BotThread
    BY <2>1 DEF CommitClear
  <2>3. <<r, kind>>[1] = r
    OBVIOUS
  <2> QED
    BY <2>1, <2>2, <2>3
<1> QED
  BY <1>2, <1>3

\* A run that can still produce history has its source message in the thread, unless an
\* operator has put it back.
THEOREM MessagesStay == Spec => []ActiveRunHasItsMessage
<1>1. Init => ActiveRunHasItsMessage
  BY ActiveStatuses DEF Init, ActiveRunHasItsMessage
<1>2. TypeOK /\ FencesAndLocks /\ ThreadsGuarded /\ ActiveRunHasItsMessage /\ [Next]_vars
        => ActiveRunHasItsMessage'
  <2>1. ActiveRunHasItsMessage /\ UNCHANGED vars => ActiveRunHasItsMessage'
    BY DEF vars, ActiveRunHasItsMessage
  <2> QED
    BY <2>1, MessageStep DEF FencesAndLocks, ThreadsGuarded
<1> QED
  BY <1>1, <1>2, TypeCorrect, FencesAndLocksHold, ThreadsGuardedHold, PTL DEF Spec

\* A run that waits for an answer has a pending card in its thread.
THEOREM PausedAreAnswerable == Spec => []PausedRunIsAnswerable
<1>1. Init => PausedRunIsAnswerable
  BY DEF Init, PausedRunIsAnswerable
<1>2. TypeOK /\ FencesAndLocks /\ ThreadsGuarded /\ PausedRunIsAnswerable /\ [Next]_vars
        => PausedRunIsAnswerable'
  <2>1. PausedRunIsAnswerable /\ UNCHANGED vars => PausedRunIsAnswerable'
    BY DEF vars, PausedRunIsAnswerable
  <2> QED
    BY <2>1, PausedStep DEF FencesAndLocks, ThreadsGuarded
<1> QED
  BY <1>1, <1>2, TypeCorrect, FencesAndLocksHold, ThreadsGuardedHold, PTL DEF Spec

\* Nothing of a run that a clear cancelled shows up in its thread again.
THEOREM ClearedAreSilent == Spec => []ClearedRunsStaySilent
<1>1. Init => ClearedRunsStaySilent
  BY DEF Init, ClearedRunsStaySilent
<1>2. TypeOK /\ FencesAndLocks /\ ThreadsGuarded /\ ClearedRunsStaySilent /\ [Next]_vars
        => ClearedRunsStaySilent'
  <2>1. ClearedRunsStaySilent /\ UNCHANGED vars => ClearedRunsStaySilent'
    BY DEF vars, ClearedRunsStaySilent
  <2> QED
    BY <2>1, SilentStep DEF FencesAndLocks, ThreadsGuarded
<1> QED
  BY <1>1, <1>2, TypeCorrect, FencesAndLocksHold, ThreadsGuardedHold, PTL DEF Spec

-----------------------------------------------------------------------------
(* The promise of HeldRun is kept *)

Others(f) == \A e \in Execs \ {f} : exec'[e] = exec[e]

\* f leaves, or goes on under the same lease.
Stays(f) ==
  \/ exec'[f].pc \notin PastLeasing
  \/ /\ exec[f].pc \in PastLeasing
     /\ exec'[f].run = exec[f].run /\ exec'[f].fence = exec[f].fence
     /\ exec'[f].pc = "leased" <=> exec[f].pc = "leased"

Yielded == {"queued", "waiting_input", "waiting_takeover"} \cup Outcome

Yields(f) ==
  /\ Holder(f) /\ exec'[f].pc \notin PastLeasing
  /\ \E s \in Yielded : Becomes(exec[f].run, s, row')

Takes(f) ==
  LET r == exec[f].run IN
  /\ Leasable(r) /\ exec[f].pc = "claiming"
  /\ exec'[f].pc = "leased" /\ exec'[f].run = r
  /\ Becomes(r, "leased", row') /\ row'[r].live
  /\ row'[r].owner = WorkerOf[f] /\ row'[r].fence = exec'[f].fence

\* The row r changes to status s, under the lease it has.
Keeps(r, s, new) ==
  Becomes(r, s, new) /\ new[r].owner = row[r].owner /\ new[r].fence = row[r].fence

Starts(f) ==
  LET r == exec[f].run IN
  /\ Holder(f) /\ row[r].status = "leased"
  /\ exec'[f].pc = "started" /\ exec'[f].run = r /\ exec'[f].fence = exec[f].fence
  /\ Keeps(r, "running", row') /\ row'[r].live = row[r].live

Renews(f) ==
  LET r == exec[f].run IN
  /\ Holder(f) /\ exec' = exec /\ row[r].status = "running"
  /\ Keeps(r, "running", row') /\ row'[r].live /\ ~row[r].live

\* What a step of an invocation does to the leases of the runs.
Turn(f) ==
  /\ Others(f)
  /\ (row' = row /\ Stays(f)) \/ Yields(f) \/ Takes(f) \/ Starts(f) \/ Renews(f)

LEMMA TurnUpdate ==
  ASSUME TypeOK, NEW f \in Execs, NEW x, exec' = [exec EXCEPT ![f] = x]
  PROVE  Others(f) /\ exec'[f] = x
BY DEF Others, TypeOK

LEMMA TurnGoto ==
  ASSUME TypeOK, NEW f \in Execs, NEW pc \in PC, exec' = Goto(f, pc)
  PROVE  /\ Others(f) /\ exec'[f].pc = pc
         /\ exec'[f].run = exec[f].run /\ exec'[f].fence = exec[f].fence
<1> DEFINE x == [exec[f] EXCEPT !.pc = pc]
<1>1. exec' = [exec EXCEPT ![f] = x]
  BY DEF Goto, TypeOK
<1>2. x.pc = pc /\ x.run = exec[f].run /\ x.fence = exec[f].fence
  BY DEF TypeOK, Exec
<1> HIDE DEF x
<1> QED
  BY <1>1, <1>2, TurnUpdate

LEMMA TurnLeave ==
  ASSUME TypeOK, NEW f \in Execs, exec' = Leave(f)
  PROVE  Others(f) /\ Stays(f) /\ exec'[f].pc \notin PastLeasing
<1>1. exec' = [exec EXCEPT ![f] = Idle] /\ Idle.pc = "idle"
  BY DEF Leave, Idle
<1> QED
  BY <1>1, TurnUpdate, Places DEF Stays

LEMMA TurnStutter == ASSUME TypeOK, NEW f \in Execs, exec' = exec PROVE Others(f) /\ Stays(f)
BY DEF Others, Stays

LEMMA ClaimingTurns ==
  ASSUME TypeOK, NEW f \in Execs, Claiming(f)
  PROVE  Turn(f)
<1> USE Places
<1>0. /\ row \in [Runs -> Row] /\ (exec[f].pc # "idle" => exec[f].run \in Runs)
      /\ exec[f] \in Exec
  BY DEF TypeOK
<1> DEFINE r == exec[f].run
<1>1. ASSUME row' = row, exec' = Leave(f) PROVE Turn(f)
  BY <1>1, TurnLeave DEF Turn
<1>2. ASSUME NEW q \in Runs, Claim(f, q) PROVE Turn(f)
  <2>1. CASE exec' = exec
    BY <1>2, <2>1, TurnStutter DEF Claim, Turn
  <2>2. CASE exec' # exec
    <3> DEFINE x == [Idle EXCEPT !.pc = "claiming", !.run = q, !.fence = NextFence(q),
                       !.resume = row[q].status = "waiting_takeover" \/ row[q].handback,
                       !.handback = row[q].handback]
    <3>1. exec' = [exec EXCEPT ![f] = x] /\ row' = row
      BY <1>2, <2>2 DEF Claim
    <3>2. x.pc = "claiming"
      BY DEF Idle
    <3> HIDE DEF x
    <3>3. Others(f) /\ exec'[f].pc = "claiming"
      BY <3>1, <3>2, TurnUpdate
    <3> QED
      BY <3>1, <3>3 DEF Turn, Stays
  <2> QED
    BY <2>1, <2>2
<1>3. ASSUME LeaseRun(f) PROVE Turn(f)
  <2>1. CASE ~Leasable(r)
    BY <1>1, <1>3, <2>1 DEF LeaseRun
  <2>2. CASE Leasable(r)
    <3>1. /\ exec[f].pc = "claiming" /\ exec' = Goto(f, "leased") /\ r \in Runs
          /\ row' = [row EXCEPT ![r] =
               [row[r] EXCEPT !.status = "leased", !.owner = WorkerOf[f],
                  !.fence = exec[f].fence, !.live = TRUE, !.handback = FALSE]]
      BY <1>0, <1>3, <2>2 DEF LeaseRun
    <3>2. Others(f) /\ exec'[f].pc = "leased" /\ exec'[f].run = r
          /\ exec'[f].fence = exec[f].fence
      BY <3>1, TurnGoto
    <3>3. /\ Becomes(r, "leased", row') /\ row'[r].live
          /\ row'[r].owner = WorkerOf[f] /\ row'[r].fence = exec[f].fence
      BY <1>0, <3>1 DEF Becomes, Row
    <3>4. Takes(f)
      BY <2>2, <3>1, <3>2, <3>3 DEF Takes
    <3> QED
      BY <3>2, <3>4 DEF Turn
  <2> QED
    BY <2>1, <2>2
<1>4. ASSUME FailBlocked(f) PROVE Turn(f)
  <2>1. Others(f) /\ Stays(f) /\ exec'[f].pc \notin PastLeasing /\ r \in Runs
    BY <1>0, <1>4, TurnLeave DEF FailBlocked
  <2>2. CASE Owns(f, "leased")
    <3>1. Ends(r, "failed", [Released(r, "failed") EXCEPT ![r].task = "failed"])
      BY <2>1, ReleasedStatus, Statuses DEF Outcome
    <3>2. Becomes(r, "failed", row') /\ Holder(f)
      BY <1>4, <2>2, <3>1 DEF FailBlocked, Ends, Becomes, Holder
    <3> QED
      BY <2>1, <3>2 DEF Turn, Yields, Yielded, Outcome
  <2>3. CASE ~Owns(f, "leased")
    BY <1>1, <1>4, <2>3 DEF FailBlocked
  <2> QED
    BY <2>2, <2>3
<1>5. ASSUME ReleasePreflight(f) PROVE Turn(f)
  <2>1. Others(f) /\ Stays(f) /\ exec'[f].pc \notin PastLeasing /\ r \in Runs
    BY <1>0, <1>5, TurnLeave DEF ReleasePreflight
  <2>2. CASE Owns(f, "leased")
    <3>1. Becomes(r, "queued", row') /\ Holder(f)
      BY <1>5, <2>1, <2>2, ReleasedStatus, Statuses DEF ReleasePreflight, Holder
    <3> QED
      BY <2>1, <3>1 DEF Turn, Yields, Yielded
  <2>3. CASE ~Owns(f, "leased")
    BY <1>1, <1>5, <2>3 DEF ReleasePreflight
  <2> QED
    BY <2>2, <2>3
<1>6. ASSUME StartRun(f) PROVE Turn(f)
  <2>1. CASE ~Owns(f, "leased")
    BY <1>1, <1>6, <2>1 DEF StartRun
  <2>2. CASE Owns(f, "leased")
    <3>1. /\ exec[f].pc = "leased" /\ exec' = Goto(f, "started") /\ r \in Runs
          /\ row' = [row EXCEPT ![r] = [row[r] EXCEPT !.status = "running"]]
          /\ row[r].status = "leased" /\ Holder(f)
      BY <1>0, <1>6, <2>2 DEF StartRun, Owns, Holder
    <3>2. Others(f) /\ exec'[f].pc = "started" /\ exec'[f].run = r
          /\ exec'[f].fence = exec[f].fence
      BY <3>1, TurnGoto
    <3>3. Keeps(r, "running", row') /\ row'[r].live = row[r].live
      BY <1>0, <3>1 DEF Keeps, Becomes, Row
    <3>4. Starts(f)
      BY <3>1, <3>2, <3>3 DEF Starts
    <3> QED
      BY <3>2, <3>4 DEF Turn
  <2> QED
    BY <2>1, <2>2
<1>7. ASSUME RequeueComputerRun(f) PROVE Turn(f)
  <2>1. /\ Others(f) /\ Stays(f) /\ exec'[f].pc \notin PastLeasing
        /\ r \in Runs /\ exec[f].handback \in BOOLEAN /\ exec[f].pc \in {"started", "busy"}
    BY <1>0, <1>7, TurnLeave DEF RequeueComputerRun, Exec
  <2>2. CASE Holds(f)
    <3>1. Becomes(r, "queued", [Released(r, "queued") EXCEPT ![r].handback = exec[f].handback])
      BY <2>1, ReleasedStatus, Statuses
    <3>2. Becomes(r, "queued", row') /\ Holder(f)
      BY <1>7, <2>1, <2>2, <3>1 DEF RequeueComputerRun, Holder
    <3> QED
      BY <2>1, <3>2 DEF Turn, Yields, Yielded
  <2>3. CASE ~Holds(f)
    BY <1>1, <1>7, <2>3 DEF RequeueComputerRun
  <2> QED
    BY <2>2, <2>3
<1>8. ASSUME AcquireComputer(f) PROVE Turn(f)
  <2> DEFINE fence == IF lease.run = None THEN 1 ELSE lease.fence + 1
             x == [exec[f] EXCEPT !.pc = "acquired", !.screen = fence]
  <2>1. exec' = [exec EXCEPT ![f] = x] /\ row' = row /\ exec[f].pc = "started"
    BY <1>8 DEF AcquireComputer, TypeOK
  <2>2. x.pc = "acquired" /\ x.run = r /\ x.fence = exec[f].fence
    BY <1>0 DEF Exec
  <2> HIDE DEF x
  <2>3. Others(f) /\ Stays(f)
    BY <2>1, <2>2, TurnUpdate DEF Stays
  <2> QED
    BY <2>1, <2>3 DEF Turn
<1>9. ASSUME ReturnComputer(f) PROVE Turn(f)
  <2>1. CASE exec' = Goto(f, "busy")
    BY <1>9, <2>1, TurnGoto DEF ReturnComputer, Turn, Stays
  <2> QED
    BY <1>1, <1>9, <2>1 DEF ReturnComputer
<1>10. ASSUME CreateAttempt(f) PROVE Turn(f)
  <2> DEFINE x == [exec[f] EXCEPT !.pc = "active", !.attempt = Len(attempts) + 1]
  <2>1. exec' = [exec EXCEPT ![f] = x] /\ row' = row /\ exec[f].pc = "acquired"
    BY <1>10 DEF CreateAttempt, TypeOK
  <2>2. x.pc = "active" /\ x.run = r /\ x.fence = exec[f].fence
    BY <1>0 DEF Exec
  <2> HIDE DEF x
  <2>3. Others(f) /\ Stays(f)
    BY <2>1, <2>2, TurnUpdate DEF Stays
  <2> QED
    BY <2>1, <2>3 DEF Turn
<1> QED
  BY <1>2, <1>3, <1>4, <1>5, <1>6, <1>7, <1>8, <1>9, <1>10 DEF Claiming

LEMMA WorkTurns ==
  ASSUME TypeOK, NEW f \in Execs, Work(f)
  PROVE  Turn(f)
<1> USE Places
<1>0. /\ row \in [Runs -> Row] /\ (exec[f].pc # "idle" => exec[f].run \in Runs)
      /\ exec[f] \in Exec
  BY DEF TypeOK
<1> DEFINE r == exec[f].run
<1>1. ASSUME row' = row, exec' = Leave(f) PROVE Turn(f)
  BY <1>1, TurnLeave DEF Turn
<1>2. ASSUME row' = row, exec' = exec PROVE Turn(f)
  BY <1>2, TurnStutter DEF Turn
<1>3. ASSUME row' = row, NEW pc \in PC \ PastLeasing, exec' = Goto(f, pc) PROVE Turn(f)
  BY <1>3, TurnGoto DEF Turn, Stays
<1>4. ASSUME row' = row, exec[f].pc \in Working, NEW pc \in Working, exec' = Goto(f, pc)
      PROVE  Turn(f)
  BY <1>4, TurnGoto DEF Turn, Stays
<1>5. ASSUME row' = row, exec' = [exec EXCEPT ![f].valid = FALSE], exec[f].pc \in Working
      PROVE  Turn(f)
  <2> DEFINE x == [exec[f] EXCEPT !.valid = FALSE]
  <2>1. exec' = [exec EXCEPT ![f] = x]
    BY <1>5 DEF TypeOK
  <2>2. x.pc = exec[f].pc /\ x.run = r /\ x.fence = exec[f].fence
    BY <1>0 DEF Exec
  <2> HIDE DEF x
  <2>3. Others(f) /\ Stays(f)
    BY <1>5, <2>1, <2>2, TurnUpdate DEF Stays
  <2> QED
    BY <1>5, <2>3 DEF Turn
<1>6. ASSUME NEW s \in Yielded, NEW new, Becomes(r, s, new), Holds(f), row' = new,
             exec[f].pc \in Working, Others(f), exec'[f].pc \notin PastLeasing
      PROVE  Turn(f)
  BY <1>6 DEF Turn, Yields, Holder
<1>7. ASSUME RenewRun(f) PROVE Turn(f)
  <2>1. CASE Holds(f)
    <3>1. /\ exec' = exec /\ r \in Runs /\ ~row[r].live /\ row[r].status = "running"
          /\ row' = [row EXCEPT ![r] = [row[r] EXCEPT !.live = TRUE]] /\ Holder(f)
      BY <1>0, <1>7, <2>1 DEF RenewRun, Holds, Owns, Holder
    <3>2. Keeps(r, "running", row') /\ row'[r].live
      BY <1>0, <3>1 DEF Keeps, Becomes, Row
    <3>3. Renews(f)
      BY <3>1, <3>2 DEF Renews
    <3> QED
      BY <3>1, <3>3, TurnStutter DEF Turn
  <2>2. CASE ~Holds(f)
    BY <1>5, <1>7, <2>2 DEF RenewRun
  <2> QED
    BY <2>1, <2>2
<1>8. ASSUME RenewScreen(f) PROVE Turn(f)
  BY <1>2, <1>5, <1>8 DEF RenewScreen
<1>9. ASSUME BeginPublish(f) \/ CommitPublish(f) PROVE Turn(f)
  BY <1>3, <1>4, <1>9 DEF BeginPublish, CommitPublish
<1>10. ASSUME TakeComputer(f) \/ HoldScreen(f) PROVE Turn(f)
  BY <1>4, <1>10 DEF TakeComputer, HoldScreen
<1>11. ASSUME RecordSetupFailure(f) \/ Abandon(f) \/ ReleaseScreen(f) PROVE Turn(f)
  BY <1>3, <1>11 DEF RecordSetupFailure, Abandon, ReleaseScreen
<1>12. ASSUME CloseAttempt(f) PROVE Turn(f)
  BY <1>1, <1>12 DEF CloseAttempt
<1>13. ASSUME PauseForInput(f) PROVE Turn(f)
  <2>1. /\ exec[f].pc = "active" /\ exec' = Goto(f, "cleanup") /\ r \in Runs
        /\ Others(f) /\ exec'[f].pc \notin PastLeasing
    BY <1>0, <1>13, TurnGoto DEF PauseForInput
  <2>2. CASE row' = row
    BY <1>3, <2>1, <2>2
  <2>3. CASE row' # row
    <3>1. Holds(f) /\ row' = Released(r, "waiting_input")
      BY <1>13, <2>3 DEF PauseForInput
    <3>2. Becomes(r, "waiting_input", Released(r, "waiting_input"))
      BY <2>1, ReleasedStatus, Statuses
    <3> QED
      BY <1>6, <2>1, <3>1, <3>2 DEF Yielded
  <2> QED
    BY <2>2, <2>3
<1>14. ASSUME PauseForTakeover(f) PROVE Turn(f)
  <2> DEFINE x == [exec[f] EXCEPT !.pc = "cleanup", !.retain = TRUE]
  <2>1. /\ exec[f].pc = "handing" /\ r \in Runs
        /\ \/ exec' = [exec EXCEPT ![f] = x]
           \/ row' = row /\ exec' = Goto(f, "cleanup")
    BY <1>0, <1>14 DEF PauseForTakeover, TypeOK
  <2>2. x.pc = "cleanup"
    BY <1>0 DEF Exec
  <2> HIDE DEF x
  <2>3. Others(f) /\ exec'[f].pc = "cleanup"
    BY <2>1, <2>2, TurnUpdate, TurnGoto
  <2>4. CASE row' = row
    BY <2>3, <2>4 DEF Turn, Stays
  <2>5. CASE row' # row
    <3>1. /\ Holds(f)
          /\ row' = [Released(r, "waiting_takeover") EXCEPT ![r].handback = FALSE]
      BY <1>14, <2>5 DEF PauseForTakeover
    <3>2. Becomes(r, "waiting_takeover",
                  [Released(r, "waiting_takeover") EXCEPT ![r].handback = FALSE])
      BY <2>1, ReleasedStatus, Statuses
    <3> QED
      BY <1>6, <2>1, <2>3, <3>1, <3>2 DEF Yielded
  <2> QED
    BY <2>4, <2>5
<1>15. ASSUME NEW outcome \in Outcome, Finish(f, outcome) PROVE Turn(f)
  <2>1. /\ exec[f].pc \in {"active", "taking", "handing"} /\ exec' = Goto(f, "cleanup")
        /\ r \in Runs
    BY <1>0, <1>15 DEF Finish
  <2>2. Others(f) /\ exec'[f].pc \notin PastLeasing
    BY <2>1, TurnGoto
  <2>3. CASE row' = row
    BY <1>3, <2>1, <2>3
  <2>4. CASE row' # row
    <3>1. Holds(f) /\ row' = [Released(r, outcome) EXCEPT ![r].task = outcome]
      BY <1>15, <2>4 DEF Finish
    <3>2. Becomes(r, outcome, [Released(r, outcome) EXCEPT ![r].task = outcome])
      BY <2>1, ReleasedStatus, Statuses DEF Ends
    <3> QED
      BY <1>6, <2>1, <2>2, <3>1, <3>2 DEF Yielded
  <2> QED
    BY <2>3, <2>4
<1>16. ASSUME SetupFail(f) PROVE Turn(f)
  <2>1. /\ exec[f].pc = "active" /\ r \in Runs /\ exec[f].handback \in BOOLEAN
        /\ exec' = Goto(f, "requeued") \/ (row' = row /\ exec' = Goto(f, "cleanup"))
    BY <1>0, <1>16 DEF SetupFail, Exec
  <2>2. Others(f) /\ exec'[f].pc \notin PastLeasing
    BY <2>1, TurnGoto
  <2>3. CASE row' = row
    BY <2>2, <2>3 DEF Turn, Stays
  <2>4. CASE row' # row
    <3>1. /\ Holds(f)
          /\ row' = [Released(r, "queued") EXCEPT ![r].handback = exec[f].handback]
      BY <1>16, <2>4 DEF SetupFail
    <3>2. Becomes(r, "queued",
                  [Released(r, "queued") EXCEPT ![r].handback = exec[f].handback])
      BY <2>1, ReleasedStatus, Statuses
    <3> QED
      BY <1>6, <2>1, <2>2, <3>1, <3>2 DEF Yielded
  <2> QED
    BY <2>3, <2>4
<1> QED
  BY <1>7, <1>8, <1>9, <1>10, <1>11, <1>12, <1>13, <1>14, <1>15, <1>16 DEF Work

\* What the user may do to a run, whoever holds it.
UserLease(r) ==
  LET s == row[r].status  n == row'[r].status IN
  \/ row'[r] = row[r]
  \/ n = "cancelled" /\ s \in Active \cup {"cancelled"}
  \/ n = "queued" /\ s \in (Active \ LeasedOut) \cup {"absent", "failed"}

LEMMA UserLeaves == User => exec' = exec
<1>1. ASSUME NEW t \in Threads, \/ CommitSend(t) \/ ReadActive(t) \/ StopRuns(t)
                                \/ DropLease(t) \/ ApiFails(t)
      PROVE  exec' = exec
  BY <1>1 DEF CommitSend, ReadActive, StopRuns, DropLease, ApiFails
<1>2. ASSUME NEW r \in Runs, \/ BeginSend(r) \/ Answer(r) \/ Retry(r)
                             \/ GrantControl(r) \/ ReleaseControl(r)
      PROVE  exec' = exec
  BY <1>2 DEF BeginSend, Answer, Retry, GrantControl, ReleaseControl
<1>3. BeginClear \/ CommitClear => exec' = exec
  BY DEF BeginClear, CommitClear
<1> QED
  BY <1>1, <1>2, <1>3 DEF User

LEMMA UserLeases ==
  TypeOK /\ LockedRunsStay /\ User => \A r \in Runs : UserLease(r)
<1> SUFFICES ASSUME TypeOK, LockedRunsStay, User, NEW q \in Runs PROVE UserLease(q)
  OBVIOUS
<1> USE ConstantsOK, ActiveStatuses
<1>0. row \in [Runs -> Row]
  BY DEF TypeOK
<1>2. ASSUME row' = row PROVE UserLease(q)
  BY <1>2 DEF UserLease
<1>3. ASSUME NEW t \in Threads, CommitSend(t) PROVE UserLease(q)
  <2>1. /\ txn[t].kind = "send" /\ row[txn[t].run].status = "absent"
        /\ \A r \in txn[t].runs : row[r].status \notin {"absent", "completed", "failed"}
    BY <1>3 DEF CommitSend, LockedRunsStay
  <2>2. CASE q = txn[t].run
    <3>1. row[q] \in Row /\ row'[q] = [row[q] EXCEPT !.status = "queued"]
      BY <1>0, <1>3, <2>2 DEF CommitSend
    <3>2. row'[q].status = "queued"
      BY <3>1 DEF Row
    <3> QED
      BY <2>1, <2>2, <3>2 DEF UserLease
  <2>3. CASE q # txn[t].run /\ q \in txn[t].runs
    <3>1. row'[q].status = "cancelled"
      BY <1>0, <1>3, <2>3 DEF CommitSend, Row
    <3>2. row[q].status \in Active \cup {"cancelled"}
      BY <1>0, <2>1, <2>3 DEF Row, Status, Terminal
    <3> QED
      BY <3>1, <3>2 DEF UserLease
  <2>4. CASE q # txn[t].run /\ q \notin txn[t].runs
    BY <1>0, <1>3, <2>4 DEF CommitSend, UserLease
  <2> QED
    BY <2>2, <2>3, <2>4
<1>4. ASSUME CommitClear PROVE UserLease(q)
  <2>1. CASE q \in txn[BotThread].runs
    <3>1. row'[q].status = "cancelled"
      BY <1>0, <1>4, <2>1 DEF CommitClear, Row
    <3>2. row[q].status \notin {"absent", "completed", "failed"}
      <4>1. txn[BotThread].kind = "clear"
        BY <1>4 DEF CommitClear
      <4> QED
        BY <2>1, <4>1 DEF LockedRunsStay
    <3>3. row[q].status \in Active \cup {"cancelled"}
      BY <1>0, <3>2 DEF Row, Status, Terminal
    <3> QED
      BY <3>1, <3>3 DEF UserLease
  <2>2. CASE q \notin txn[BotThread].runs
    BY <1>4, <2>2 DEF CommitClear, UserLease
  <2> QED
    BY <2>1, <2>2
<1>5. ASSUME NEW t \in Threads, StopRuns(t) PROVE UserLease(q)
  <2>1. CASE q \in ActiveOn(t)
    <3>1. row'[q].status = "cancelled"
      BY <1>0, <1>5, <2>1 DEF StopRuns, Row
    <3> QED
      BY <2>1, <3>1 DEF UserLease, ActiveOn
  <2>2. CASE q \notin ActiveOn(t)
    BY <1>5, <2>2 DEF StopRuns, UserLease
  <2> QED
    BY <2>1, <2>2
<1>6. ASSUME NEW r \in Runs, Answer(r) \/ ReleaseControl(r) PROVE UserLease(q)
  <2>1. \/ row' = row
        \/ /\ row[r].status \in Active \ LeasedOut /\ row'[r].status = "queued"
           /\ q # r => row'[q] = row[q]
    BY <1>0, <1>6 DEF Answer, ReleaseControl, Row, LeasedOut
  <2> QED
    BY <2>1 DEF UserLease
<1>7. ASSUME NEW r \in Runs, Retry(r) PROVE UserLease(q)
  <2>1. Becomes(r, "queued", row') /\ row[r].status = "failed"
    BY <1>7, ReleasedStatus, Statuses DEF Retry
  <2> QED
    BY <2>1 DEF UserLease, Becomes
<1> QED
  BY <1>2, <1>3, <1>4, <1>5, <1>6, <1>7
     DEF User, BeginSend, GrantControl, ReadActive, DropLease, ApiFails, BeginClear

\* A lease runs out, or an invocation dies.
Lapses(r) ==
  /\ exec' = exec /\ row[r].status \in LeasedOut /\ row[r].live /\ ~row'[r].live
  /\ Keeps(r, row[r].status, row')

LEMMA EnvironmentTurns ==
  ASSUME TypeOK, Environment
  PROVE  \/ row' = row /\ exec' = exec
         \/ \E f \in Execs : Turn(f)
         \/ \E r \in Runs : Lapses(r)
<1>1. ASSUME NEW f \in Execs, Crash(f) PROVE Turn(f)
  BY <1>1, TurnLeave DEF Crash, Turn
<1>2. ASSUME NEW r \in Runs, LeaseExpires(r) PROVE Lapses(r)
  <2>1. row \in [Runs -> Row] /\ row' = [row EXCEPT ![r] = [row[r] EXCEPT !.live = FALSE]]
    BY <1>2 DEF LeaseExpires, TypeOK
  <2> QED
    BY <1>2, <2>1 DEF LeaseExpires, Lapses, Keeps, Becomes, Row, LeasedOut
<1> QED
  BY <1>1, <1>2 DEF Environment, ScreenLeaseExpires, ListRuns, Reconcile

\* The attempts that have completed a run change only when the run is completed.
LEMMA CompletedByStays ==
  ASSUME TypeOK, AttemptsOwned, Next, NEW r \in Runs,
         row'[r].status # "completed" \/ row[r].status = "completed"
  PROVE  CompletedBy(r)' = CompletedBy(r)
<1> USE Phases
<1>1. ASSUME NEW e \in Execs, Completes(e), exec[e].run = r PROVE FALSE
  <2>1. /\ exec[e].pc \in Attempting /\ row[r].status = "running"
        /\ row' = [Released(r, "completed") EXCEPT ![r].task = "completed"]
    BY <1>1 DEF Completes, Finish, Holds, Owns
  <2>2. Ends(r, "completed", row')
    BY <2>1, ReleasedStatus, Statuses, ActiveStatuses
  <2> QED
    BY <2>1, <2>2 DEF Ends, Becomes
<1>2. CASE \E e \in Execs : CreateAttempt(e)
  BY <1>2, NewAttempt DEF CompletedBy
<1>3. CASE AttemptsMove
  <2>1. ASSUME NEW i \in DOMAIN attempts, attempts[i].run = r
        PROVE  attempts'[i].status = "completed" <=> attempts[i].status = "completed"
    <3>1. ASSUME NEW e \in Execs, Completes(e), exec[e].attempt = i PROVE FALSE
      <4>1. exec[e].pc \in Attempting
        BY <3>1 DEF Completes, Finish
      <4>2. exec[e].run = r
        BY <2>1, <3>1, <4>1 DEF AttemptsOwned
      <4> QED
        BY <1>1, <3>1, <4>2
    <3> QED
      BY <1>3, <3>1 DEF AttemptsMove
  <2> QED
    BY <1>3, <2>1 DEF AttemptsMove, CompletedBy
<1> QED
  BY <1>2, <1>3, EveryAttemptsMove

\* How the parts of a promise follow from the run and its invocations.
PhaseFacts ==
  \A r \in Runs :
    /\ Phase(r) = "none" <=> row[r].status = "absent"
    /\ Phase(r) = "open" <=> row[r].status \in Active \ LeasedOut
    /\ Phase(r) = "out" <=> row[r].status \in LeasedOut
    /\ \A s \in Terminal : Phase(r) = s <=> row[r].status = s
    /\ Phase(r) \in {"none", "open", "out"} \cup Terminal

HolderFacts ==
  \A r \in Runs :
    /\ \A e \in Execs : e \in HoldersOf(r) <=> Holder(e) /\ exec[e].run = r
    /\ \A e \in HoldersOf(r) : HoldersOf(r) = {e} /\ e \in BelieversOf(r)
    /\ row[r].status \notin LeasedOut => HoldersOf(r) = {}

LEMMA PhaseIs == TypeOK => PhaseFacts
BY DEF PhaseFacts, Phase, TypeOK, Row, Status, Active, LeasedOut, Terminal

LEMMA HoldersAre == OneHolderPerRun => HolderFacts
<1> SUFFICES ASSUME OneHolderPerRun, NEW r \in Runs
             PROVE  /\ \A e \in Execs : e \in HoldersOf(r) <=> Holder(e) /\ exec[e].run = r
                    /\ \A e \in HoldersOf(r) : HoldersOf(r) = {e} /\ e \in BelieversOf(r)
                    /\ row[r].status \notin LeasedOut => HoldersOf(r) = {}
  BY DEF HolderFacts
<1>1. ASSUME NEW e \in Execs, Holder(e) PROVE exec[e].pc \in PastLeasing
  BY <1>1, Places DEF Holder, Working
<1>2. \A e \in Execs : e \in HoldersOf(r) <=> Holder(e) /\ exec[e].run = r
  BY <1>1 DEF HoldersOf, BelieversOf
<1>3. \A e \in HoldersOf(r) : e \in Execs /\ e \in BelieversOf(r)
  BY DEF HoldersOf, BelieversOf
<1>4. \A e \in HoldersOf(r) : HoldersOf(r) = {e}
  BY <1>2, <1>3 DEF OneHolderPerRun
<1>5. ASSUME NEW e \in Execs, Holder(e), exec[e].run = r PROVE row[r].status \in LeasedOut
  BY <1>5 DEF Holder, Holds, Owns, LeasedOut
<1> QED
  BY <1>2, <1>3, <1>4, <1>5

LEMMA PhaseNext == TypeOK' => PhaseFacts'
BY PhaseIs, PTL

LEMMA HoldersNext == OneHolderPerRun' => HolderFacts'
BY HoldersAre, PTL

\* What every case below may assume of the step.
LeaseStep ==
  /\ TypeOK /\ OneHolderPerRun /\ CompletedByOneAttempt /\ AttemptsOwned
  /\ TypeOK' /\ OneHolderPerRun' /\ CompletedByOneAttempt'
  /\ Next

\* The same run, the same believers and the same lease: the promise stays as it is.
SameLease(r) ==
  /\ row'[r].status = row[r].status
  /\ row[r].status \in LeasedOut =>
       row'[r].owner = row[r].owner /\ row'[r].fence = row[r].fence

LEMMA PhaseStays ==
  ASSUME LeaseStep, NEW r \in Runs, row'[r].status = row[r].status
  PROVE  Phase(r)' = Phase(r) /\ CompletedBy(r)' = CompletedBy(r)
<1>1. CompletedBy(r)' = CompletedBy(r)
  BY CompletedByStays, Zenon DEF LeaseStep
<1>2. Phase(r)' = Phase(r)
  BY PhaseIs, PhaseNext DEF LeaseStep, PhaseFacts, Terminal
<1> QED
  BY <1>1, <1>2

\* An invocation that stays with the same run and fence under the same lease holds it as
\* before.
LEMMA HolderStays ==
  ASSUME LeaseStep, NEW r \in Runs, NEW e \in Execs, SameLease(r), exec'[e].run = r,
         exec[e].run = r, exec'[e].fence = exec[e].fence,
         exec'[e].pc \in PastLeasing, exec[e].pc \in PastLeasing,
         exec'[e].pc = "leased" <=> exec[e].pc = "leased"
  PROVE  Holder(e)' <=> Holder(e)
BY Places DEF SameLease, Holder, Holds, Owns, LeasedOut

LEMMA LeaveKeeps ==
  ASSUME LeaseStep, NEW r \in Runs, NEW f \in Execs, Others(f),
         SameLease(r), row'[r].live = row[r].live,
         Stays(f) \/ (exec[f].run # r /\ exec'[f].run # r)
  PROVE  [Promise(r)!Next]_(Promise(r)!vars)
<1> DEFINE B == BelieversOf(r)  H == HoldersOf(r)
<1>1. Phase(r)' = Phase(r) /\ CompletedBy(r)' = CompletedBy(r) /\ Lapsed(r)' = Lapsed(r)
  BY PhaseStays DEF SameLease, Lapsed
<1>2. \A e \in Execs : /\ e \in B <=> exec[e].pc \in PastLeasing /\ exec[e].run = r
                       /\ e \in B' <=> exec'[e].pc \in PastLeasing /\ exec'[e].run = r
                       /\ e \in H <=> e \in B /\ Holder(e)
                       /\ e \in H' <=> e \in B' /\ Holder(e)'
  BY DEF BelieversOf, HoldersOf
<1>3. B \subseteq Execs /\ B' \subseteq Execs /\ H \subseteq Execs /\ H' \subseteq Execs
  BY DEF BelieversOf, HoldersOf
<1>4. ASSUME NEW e \in Execs, e # f
      PROVE  (e \in B' <=> e \in B) /\ (e \in H' <=> e \in H)
  <2>1. exec'[e] = exec[e]
    BY <1>4 DEF Others
  <2>2. e \in B' <=> e \in B
    BY <1>2, <2>1
  <2>3. CASE e \in B
    <3>1. Holder(e)' <=> Holder(e)
      BY <1>2, <2>1, <2>3, HolderStays
    <3> QED
      BY <1>2, <2>2, <3>1
  <2> QED
    BY <1>2, <2>2, <2>3
<1>5. f \in B' => f \in B /\ (f \in H' <=> f \in H)
  <2>1. ASSUME f \in B' PROVE f \in B /\ (f \in H' <=> f \in H)
    <3>1. /\ exec'[f].pc \in PastLeasing /\ exec'[f].run = r
          /\ exec[f].pc \in PastLeasing /\ exec[f].run = r /\ exec'[f].fence = exec[f].fence
          /\ exec'[f].pc = "leased" <=> exec[f].pc = "leased"
      BY <1>2, <2>1 DEF Stays
    <3>2. Holder(f)' <=> Holder(f)
      BY <3>1, HolderStays
    <3> QED
      BY <1>2, <3>1, <3>2
  <2> QED
    BY <2>1
<1> HIDE DEF B, H
<1>6. CASE f \in B' \/ f \notin B
  <2>1. B' = B
    BY <1>3, <1>4, <1>5, <1>6
  <2>2. H' = H
    <3>1. f \in H' <=> f \in H
      BY <1>2, <1>5, <1>6
    <3> QED
      BY <1>3, <1>4, <3>1
  <2> QED
    BY <1>1, <2>1, <2>2 DEF B, H, Promise!vars
<1>7. CASE f \in B /\ f \notin B'
  <2>1. B' = B \ {f}
    BY <1>3, <1>4, <1>7
  <2>2. H' = H \ {f}
    BY <1>2, <1>3, <1>4, <1>7
  <2>3. Promise(r)!Vanish
    BY <1>1, <1>7, <2>1, <2>2 DEF B, H, Promise!Vanish
  <2> QED
    BY <2>3 DEF Promise!Next
<1> QED
  BY <1>6, <1>7

LEMMA YieldKeeps ==
  ASSUME LeaseStep, NEW f \in Execs, NEW r \in Runs, exec[f].run = r, Others(f), Yields(f)
  PROVE  [Promise(r)!Next]_(Promise(r)!vars)
<1> USE Places
<1>1. PICK s \in Yielded : Becomes(r, s, row')
  BY DEF Yields
<1>2. HoldersOf(r) = {f} /\ f \in BelieversOf(r) /\ Phase(r) = "out"
  <2>1. Holder(f) /\ HolderFacts /\ PhaseFacts
    BY HoldersAre, PhaseIs DEF LeaseStep, Yields
  <2>2. f \in HoldersOf(r)
    BY <2>1 DEF HolderFacts
  <2> QED
    BY <2>1, <2>2 DEF HolderFacts, PhaseFacts
<1>3. BelieversOf(r)' = BelieversOf(r) \ {f}
  <2>1. exec'[f].pc \notin PastLeasing
    BY DEF Yields
  <2> QED
    BY <2>1 DEF BelieversOf, Others
<1>4. row'[r].status = s /\ s \notin LeasedOut
  BY <1>1 DEF Becomes, Yielded, Outcome, LeasedOut
<1>5. HoldersOf(r)' = {} /\ ~Lapsed(r)'
  BY <1>4, HoldersNext DEF LeaseStep, HolderFacts, Lapsed
<1>6. row[r].status \in LeasedOut
  BY <1>2, PhaseIs DEF LeaseStep, PhaseFacts
<1>7. Promise(r)!HolderLeaves /\ Promise(r)!Unheld
  BY <1>2, <1>3, <1>5 DEF Promise!HolderLeaves, Promise!Unheld
<1>8. /\ s \in {"queued", "waiting_input", "waiting_takeover"} => Phase(r)' = "open"
      /\ s \in Outcome => Phase(r)' = s
  BY <1>4, PhaseNext DEF LeaseStep, PhaseFacts, LeasedOut, Active, Outcome, Terminal
<1>9. CASE s # "completed"
  <2>1. CompletedBy(r)' = CompletedBy(r)
    BY <1>4, <1>9, CompletedByStays DEF LeaseStep
  <2>2. Phase(r)' \in {"open", "failed"}
    BY <1>8, <1>9 DEF Yielded, Outcome
  <2>3. Promise(r)!PutBack \/ Promise(r)!Fail
    BY <1>2, <1>7, <2>1, <2>2 DEF Promise!PutBack, Promise!Fail, Promise!Moves
  <2> QED
    BY <2>3 DEF Promise!Next
<1>10. CASE s = "completed"
  <2>1. row[r].status # "completed" /\ row'[r].status = "completed"
    BY <1>4, <1>6, <1>10 DEF LeasedOut
  <2>2. CompletedBy(r) = {} /\ CompletedBy(r)' # {}
        /\ \A i, j \in CompletedBy(r)' : i = j
    BY <2>1 DEF LeaseStep, CompletedByOneAttempt, CompletedBy
  <2>3. Promise(r)!One(CompletedBy(r)')
    BY <2>2 DEF Promise!One
  <2>4. Phase(r)' = "completed"
    BY <1>8, <1>10 DEF Outcome
  <2>5. Promise(r)!Complete
    BY <1>2, <1>7, <2>2, <2>3, <2>4 DEF Promise!Complete, Promise!Moves
  <2> QED
    BY <2>5 DEF Promise!Next
<1> QED
  BY <1>9, <1>10

LEMMA TakeKeeps ==
  ASSUME LeaseStep, NEW f \in Execs, NEW r \in Runs, exec[f].run = r, Others(f), Takes(f)
  PROVE  [Promise(r)!Next]_(Promise(r)!vars)
<1> USE Places
<1>1. /\ Leasable(r) /\ exec[f].pc = "claiming"
      /\ exec'[f].pc = "leased" /\ exec'[f].run = r
      /\ row'[r].status = "leased" /\ row'[r].live
      /\ row'[r].owner = WorkerOf[f] /\ row'[r].fence = exec'[f].fence
  BY DEF Takes, Becomes
<1>2. /\ f \notin BelieversOf(r) /\ f \in BelieversOf(r)'
      /\ BelieversOf(r)' = BelieversOf(r) \cup {f}
  BY <1>1 DEF BelieversOf, Others
<1>3. HoldersOf(r)' = {f}
  <2>1. Holder(f)'
    BY <1>1 DEF Holder, Owns
  <2>2. HolderFacts'
    BY HoldersNext DEF LeaseStep
  <2>3. f \in HoldersOf(r)'
    BY <1>1, <2>1, <2>2 DEF HolderFacts
  <2> QED
    BY <2>2, <2>3 DEF HolderFacts
<1>4. Phase(r) = "open" \/ Lapsed(r)
  BY <1>1, PhaseIs DEF LeaseStep, PhaseFacts, Leasable, Lapsed, LeasedOut, Active
<1>5. Phase(r)' = "out" /\ ~Lapsed(r)'
  BY <1>1, PhaseNext DEF LeaseStep, PhaseFacts, Lapsed, LeasedOut
<1>6. CompletedBy(r)' = CompletedBy(r)
  BY <1>1, CompletedByStays DEF LeaseStep
<1>7. Promise(r)!Take
  BY <1>2, <1>3, <1>4, <1>5, <1>6 DEF Promise!Take
<1> QED
  BY <1>7 DEF Promise!Next

LEMMA StartKeeps ==
  ASSUME LeaseStep, NEW f \in Execs, NEW r \in Runs, exec[f].run = r, Others(f), Starts(f)
  PROVE  [Promise(r)!Next]_(Promise(r)!vars)
<1> USE Places
<1>1. /\ Holder(f) /\ row[r].status = "leased" /\ row'[r].status = "running"
      /\ exec'[f].pc = "started" /\ exec'[f].run = r /\ exec'[f].fence = exec[f].fence
      /\ row'[r].owner = row[r].owner /\ row'[r].fence = row[r].fence
      /\ row'[r].live = row[r].live
  BY DEF Starts, Keeps, Becomes
<1>2. HoldersOf(r) = {f} /\ f \in BelieversOf(r)
  <2>1. HolderFacts
    BY HoldersAre DEF LeaseStep
  <2>2. f \in HoldersOf(r)
    BY <1>1, <2>1 DEF HolderFacts
  <2> QED
    BY <2>1, <2>2 DEF HolderFacts
<1>3. BelieversOf(r)' = BelieversOf(r)
  <2>1. exec[f].pc \in PastLeasing
    BY <1>2 DEF BelieversOf
  <2> QED
    BY <1>1, <2>1 DEF BelieversOf, Others
<1>4. HoldersOf(r)' = {f}
  <2>1. Holder(f)'
    BY <1>1 DEF Holder, Holds, Owns
  <2>2. HolderFacts'
    BY HoldersNext DEF LeaseStep
  <2>3. f \in HoldersOf(r)'
    BY <1>1, <2>1, <2>2 DEF HolderFacts
  <2> QED
    BY <2>2, <2>3 DEF HolderFacts
<1>5. Phase(r) = "out" /\ Phase(r)' = "out" /\ Lapsed(r)' = Lapsed(r)
  BY <1>1, PhaseIs, PhaseNext DEF LeaseStep, PhaseFacts, Lapsed, LeasedOut
<1>6. CompletedBy(r)' = CompletedBy(r)
  BY <1>1, CompletedByStays DEF LeaseStep
<1> QED
  BY <1>2, <1>3, <1>4, <1>5, <1>6 DEF Promise!vars

\* Only the expiry of the run changes.
LEMMA ExpiryChanges ==
  ASSUME LeaseStep, NEW r \in Runs, exec' = exec, row[r].status \in LeasedOut,
         SameLease(r)
  PROVE  /\ BelieversOf(r)' = BelieversOf(r) /\ HoldersOf(r)' = HoldersOf(r)
         /\ Phase(r) = "out" /\ Phase(r)' = "out" /\ CompletedBy(r)' = CompletedBy(r)
<1>1. BelieversOf(r)' = BelieversOf(r)
  BY DEF BelieversOf
<1>2. \A e \in BelieversOf(r) : Holder(e)' <=> Holder(e)
  BY HolderStays DEF BelieversOf
<1>3. HoldersOf(r)' = HoldersOf(r)
  BY <1>1, <1>2 DEF HoldersOf
<1>4. Phase(r)' = Phase(r) /\ CompletedBy(r)' = CompletedBy(r)
  BY PhaseStays DEF SameLease
<1>5. Phase(r) = "out"
  BY PhaseIs DEF LeaseStep, PhaseFacts
<1> QED
  BY <1>1, <1>3, <1>4, <1>5

LEMMA RenewKeeps ==
  ASSUME LeaseStep, NEW f \in Execs, NEW r \in Runs, exec[f].run = r, Renews(f)
  PROVE  [Promise(r)!Next]_(Promise(r)!vars)
<1>1. /\ Holder(f) /\ exec' = exec /\ row[r].status = "running"
      /\ SameLease(r) /\ row'[r].live /\ ~row[r].live
  BY DEF Renews, Keeps, Becomes, SameLease
<1>2. row[r].status \in LeasedOut /\ row'[r].status \in LeasedOut
  BY <1>1 DEF SameLease, LeasedOut
<1>3. HoldersOf(r) = {f}
  <2>1. HolderFacts
    BY HoldersAre DEF LeaseStep
  <2>2. f \in HoldersOf(r)
    BY <1>1, <2>1 DEF HolderFacts
  <2> QED
    BY <2>1, <2>2 DEF HolderFacts
<1>4. Lapsed(r) /\ ~Lapsed(r)'
  BY <1>1, <1>2 DEF Lapsed
<1>5. Promise(r)!Renew
  BY <1>1, <1>2, <1>3, <1>4, ExpiryChanges DEF Promise!Renew, Promise!One
<1> QED
  BY <1>5 DEF Promise!Next

LEMMA LapseKeeps ==
  ASSUME LeaseStep, NEW r \in Runs, Lapses(r)
  PROVE  [Promise(r)!Next]_(Promise(r)!vars)
<1>1. /\ exec' = exec /\ row[r].status \in LeasedOut /\ row'[r].status \in LeasedOut
      /\ SameLease(r) /\ row[r].live /\ ~row'[r].live
  BY DEF Lapses, Keeps, Becomes, SameLease
<1>2. ~Lapsed(r) /\ Lapsed(r)'
  BY <1>1 DEF Lapsed
<1>3. Promise(r)!Lapse
  BY <1>1, <1>2, ExpiryChanges DEF Promise!Lapse
<1> QED
  BY <1>3 DEF Promise!Next

LEMMA UserKeeps ==
  ASSUME LeaseStep, NEW r \in Runs, exec' = exec, UserLease(r)
  PROVE  [Promise(r)!Next]_(Promise(r)!vars)
<1> USE ActiveStatuses
<1>1. BelieversOf(r)' = BelieversOf(r)
  BY DEF BelieversOf
<1>2. PhaseFacts /\ PhaseFacts' /\ HolderFacts /\ HolderFacts'
  BY PhaseIs, PhaseNext, HoldersAre, HoldersNext DEF LeaseStep
<1>3. ASSUME row'[r].status \notin LeasedOut
      PROVE  HoldersOf(r)' = {} /\ ~Lapsed(r)'
  BY <1>2, <1>3 DEF HolderFacts, Lapsed
<1>4. ASSUME row[r].status \notin LeasedOut
      PROVE  HoldersOf(r) = {} /\ ~Lapsed(r)
  BY <1>2, <1>4 DEF HolderFacts, Lapsed
<1>5. row'[r].status # "completed" => CompletedBy(r)' = CompletedBy(r)
  BY CompletedByStays DEF LeaseStep
<1>6. CASE row'[r] = row[r]
  <2>1. SameLease(r) /\ row'[r].live = row[r].live
    BY <1>6 DEF SameLease
  <2>2. \A e \in BelieversOf(r) : Holder(e)' <=> Holder(e)
    BY <2>1, HolderStays DEF BelieversOf
  <2>3. HoldersOf(r)' = HoldersOf(r)
    BY <1>1, <2>2 DEF HoldersOf
  <2>4. /\ Phase(r)' = Phase(r) /\ CompletedBy(r)' = CompletedBy(r)
        /\ Lapsed(r)' = Lapsed(r)
    BY <2>1, PhaseStays DEF SameLease, Lapsed
  <2> QED
    BY <1>1, <2>3, <2>4 DEF Promise!vars
<1>7. CASE row'[r].status = "cancelled" /\ row[r].status = "cancelled"
  <2>1. Phase(r)' = Phase(r) /\ CompletedBy(r)' = CompletedBy(r)
    BY <1>7, PhaseStays
  <2>2. row[r].status \notin LeasedOut /\ row'[r].status \notin LeasedOut
    BY <1>7 DEF LeasedOut
  <2>3. HoldersOf(r)' = HoldersOf(r) /\ Lapsed(r)' = Lapsed(r)
    <3>1. Lapsed(r) = FALSE /\ Lapsed(r)' = FALSE
      BY <2>2 DEF Lapsed
    <3> QED
      BY <1>3, <1>4, <2>2, <3>1
  <2> QED
    BY <1>1, <2>1, <2>3 DEF Promise!vars
<1>8. CASE row'[r].status = "cancelled" /\ row[r].status \in Active
  <2>1. Phase(r)' = "cancelled" /\ Phase(r) \in {"open", "out"}
    BY <1>2, <1>8 DEF PhaseFacts, Terminal
  <2>2. HoldersOf(r)' = {} /\ ~Lapsed(r)'
    BY <1>3, <1>8
  <2>3. Promise(r)!Cancel
    BY <1>1, <1>5, <1>8, <2>1, <2>2 DEF Promise!Cancel, Promise!Moves, Promise!Unheld
  <2> QED
    BY <2>3 DEF Promise!Next
<1>9. CASE row'[r].status = "queued" /\ row[r].status \in Active \ LeasedOut
  <2>1. "queued" \in Active \ LeasedOut /\ row'[r].status \notin LeasedOut
    BY <1>9 DEF LeasedOut
  <2>2. Phase(r)' = "open" /\ Phase(r) = "open"
    BY <1>2, <1>9, <2>1 DEF PhaseFacts
  <2>3. HoldersOf(r)' = HoldersOf(r) /\ Lapsed(r)' = Lapsed(r)
    <3>1. Lapsed(r) = FALSE /\ Lapsed(r)' = FALSE
      BY <1>9, <2>1 DEF Lapsed
    <3> QED
      BY <1>3, <1>4, <1>9, <2>1, <3>1
  <2> QED
    BY <1>1, <1>5, <1>9, <2>2, <2>3 DEF Promise!vars
<1>10. CASE row'[r].status = "queued" /\ row[r].status \in {"absent", "failed"}
  <2>1. "queued" \in Active \ LeasedOut /\ row'[r].status \notin LeasedOut
    BY <1>10 DEF LeasedOut
  <2>2. Phase(r)' = "open" /\ Phase(r) \in {"none", "failed"}
    BY <1>2, <1>10, <2>1 DEF PhaseFacts, Terminal
  <2>3. HoldersOf(r)' = {} /\ ~Lapsed(r)'
    BY <1>3, <2>1
  <2>4. Promise(r)!Open
    BY <1>1, <1>5, <1>10, <2>2, <2>3 DEF Promise!Open, Promise!Moves, Promise!Unheld
  <2> QED
    BY <2>4 DEF Promise!Next
<1> QED
  BY <1>6, <1>7, <1>8, <1>9, <1>10 DEF UserLease

LEMMA TurnKeeps ==
  ASSUME LeaseStep, NEW r \in Runs, NEW f \in Execs, Turn(f)
  PROVE  [Promise(r)!Next]_(Promise(r)!vars)
<1>1. Others(f)
  BY DEF Turn
<1>2. CASE row' = row /\ Stays(f)
  BY <1>1, <1>2, LeaveKeeps DEF SameLease
<1>3. CASE (Yields(f) \/ Takes(f) \/ Starts(f) \/ Renews(f)) /\ exec[f].run = r
  BY <1>1, <1>3, YieldKeeps, TakeKeeps, StartKeeps, RenewKeeps
<1>4. CASE (Yields(f) \/ Takes(f) \/ Starts(f) \/ Renews(f)) /\ exec[f].run # r
  <2>1. row'[r] = row[r]
    BY <1>4 DEF Yields, Takes, Starts, Renews, Keeps, Becomes
  <2>2. Stays(f) \/ exec'[f].run # r
    BY <1>4 DEF Yields, Takes, Starts, Renews, Stays
  <2> QED
    BY <1>1, <1>4, <2>1, <2>2, LeaveKeeps DEF SameLease
<1> QED
  BY <1>2, <1>3, <1>4 DEF Turn

LEMMA StepKeepsPromise ==
  ASSUME LeaseStep, LockedRunsStay, NEW r \in Runs
  PROVE  [Promise(r)!Next]_(Promise(r)!vars)
<1> USE DEF LeaseStep
<1>1. CASE User
  BY <1>1, UserLeaves, UserLeases, UserKeeps
<1>2. ASSUME NEW f \in Execs, Claiming(f) \/ Work(f)
      PROVE  [Promise(r)!Next]_(Promise(r)!vars)
  BY <1>2, ClaimingTurns, WorkTurns, TurnKeeps
<1>3. CASE row' = row /\ exec' = exec
  BY <1>3, UserKeeps DEF UserLease
<1>4. ASSUME NEW q \in Runs, Lapses(q)
      PROVE  [Promise(r)!Next]_(Promise(r)!vars)
  <2>1. CASE q = r
    BY <1>4, <2>1, LapseKeeps
  <2>2. CASE q # r
    BY <1>4, <2>2, UserKeeps DEF Lapses, Keeps, Becomes, UserLease
  <2> QED
    BY <2>1, <2>2
<1>5. CASE Environment
  BY <1>3, <1>4, <1>5, EnvironmentTurns, TurnKeeps
<1> QED
  BY <1>1, <1>2, <1>5 DEF Next

LEMMA PromiseInit == Init => \A r \in Runs : Promise(r)!Init
<1> SUFFICES ASSUME Init, NEW r \in Runs PROVE Promise(r)!Init
  OBVIOUS
<1>1. /\ row[r].status = "absent" /\ attempts = << >>
      /\ \A e \in Execs : exec[e].pc = "idle"
  BY DEF Init, Idle
<1>2. BelieversOf(r) = {} /\ HoldersOf(r) = {}
  BY <1>1, Places DEF BelieversOf, HoldersOf
<1>3. CompletedBy(r) = {}
  BY <1>1 DEF CompletedBy
<1>4. Phase(r) = "none" /\ ~Lapsed(r)
  BY <1>1, TypeInit, PhaseIs DEF PhaseFacts, Lapsed, LeasedOut
<1> QED
  BY <1>2, <1>3, <1>4 DEF Promise!Init

\* Every step of the invocations, of the user and of the failures is a step of the
\* promise of each run, or leaves it as it is.
THEOREM LeasesKept == Spec => KeepsPromise
<1> DEFINE Inits == \A r \in Runs : Promise(r)!Init
           Kept == \/ UNCHANGED <<row, attempts, exec>>
                   \/ \A r \in Runs : [Promise(r)!Next]_(Promise(r)!vars)
           Sound == TypeOK /\ FencesAndLocks /\ OneHolderPerRun /\ CompletedByOneAttempt
                    /\ AttemptsOwned
<1>1. Init => Inits
  BY PromiseInit
<1>2. Sound /\ Sound' /\ [Next]_vars => [Kept]_vars
  <2>1. ASSUME Sound, Sound', Next, NEW r \in Runs
        PROVE  [Promise(r)!Next]_(Promise(r)!vars)
    BY <2>1, StepKeepsPromise DEF LeaseStep, FencesAndLocks
  <2> QED
    BY <2>1
<1>3. Spec => []Sound
  BY TypeCorrect, FencesAndLocksHold, OneHolder, OneAttemptCompletes, AttemptsOwnedHold, PTL
<1> HIDE DEF Kept, Inits, Sound
<1>4. Spec => Inits /\ [][Kept]_vars
  BY <1>1, <1>2, <1>3, PTL DEF Spec
<1> QED
  BY <1>4 DEF KeepsPromise, Kept, Inits

\* The life of each run is a behaviour of HeldRun.
THEOREM EachRunIsHeld ==
  ASSUME NEW r \in Runs
  PROVE  Spec => Promise(r)!Spec
<1> DEFINE Sound == TypeOK /\ FencesAndLocks /\ OneHolderPerRun /\ CompletedByOneAttempt
                    /\ AttemptsOwned
<1>1. Init => Promise(r)!Init
  BY PromiseInit
<1>2. Sound /\ Sound' /\ [Next]_vars => [Promise(r)!Next]_(Promise(r)!vars)
  <2>1. CASE Sound /\ Sound' /\ Next
    BY <2>1, StepKeepsPromise DEF LeaseStep, FencesAndLocks
  <2>2. CASE UNCHANGED vars
    BY <2>2 DEF vars, Promise!vars, Phase, BelieversOf, HoldersOf, Holder, Holds, Owns,
                Lapsed, CompletedBy
  <2> QED
    BY <2>1, <2>2
<1>3. Spec => []Sound
  BY TypeCorrect, FencesAndLocksHold, OneHolder, OneAttemptCompletes, AttemptsOwnedHold, PTL
<1> HIDE DEF Sound
<1> QED
  BY <1>1, <1>2, <1>3, PTL DEF Spec, Promise!Spec

=============================================================================
