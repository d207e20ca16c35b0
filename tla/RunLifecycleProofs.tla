------------------------- MODULE RunLifecycleProofs -------------------------
(***************************************************************************)
(* Proofs about RunLifecycle, for any runs, threads, job slots and workers *)
(* and any number of detours.                                              *)
(***************************************************************************)
EXTENDS RunLifecycle, SequenceTheorems, TLAPS

-----------------------------------------------------------------------------
(* Types *)

LEMMA TypeInit == Init => TypeOK
BY ConstantsOK
   DEF Init, TypeOK, Row, Status, TaskStatus, Active, Terminal, Outcome, Attempt,
       ScreenLease, NoLease, Exec, Idle, PC, Attempting, Working, Txn, Free, Kind, StopStage

\* The two shapes of an update of one row.
LEMMA RowUpdate ==
  ASSUME TypeOK, NEW r \in Runs, NEW s \in Status
  PROVE  /\ [row EXCEPT ![r].status = s] \in [Runs -> Row]
         /\ [row EXCEPT ![r].live = TRUE] \in [Runs -> Row]
         /\ [row EXCEPT ![r].live = FALSE] \in [Runs -> Row]
         /\ [row EXCEPT ![r].status = s, ![r].handback = TRUE] \in [Runs -> Row]
<1>1. row \in [Runs -> Row] /\ row[r] \in Row
  BY DEF TypeOK
<1>2. /\ [row[r] EXCEPT !.status = s] \in Row
      /\ [row[r] EXCEPT !.live = TRUE] \in Row
      /\ [row[r] EXCEPT !.live = FALSE] \in Row
  BY <1>1 DEF Row
<1>3. [row[r] EXCEPT !.status = s, !.handback = TRUE] \in Row
  BY <1>1 DEF Row
<1> QED
  BY <1>1, <1>2, <1>3

LEMMA RowReleased ==
  ASSUME TypeOK, NEW r \in Runs, NEW s \in Status, NEW w \in TaskStatus, NEW b \in BOOLEAN
  PROVE  /\ Released(r, s) \in [Runs -> Row]
         /\ [Released(r, s) EXCEPT ![r].task = w] \in [Runs -> Row]
         /\ [Released(r, s) EXCEPT ![r].handback = b] \in [Runs -> Row]
         /\ [Released(r, s) EXCEPT ![r].handback = FALSE] \in [Runs -> Row]
         /\ [Released(r, s) EXCEPT ![r].handback = FALSE, ![r].task = w] \in [Runs -> Row]
<1>1. Released(r, s) \in [Runs -> Row]
  <2>1. row \in [Runs -> Row] /\ row[r] \in Row
    BY DEF TypeOK
  <2>2. [row[r] EXCEPT !.status = s, !.owner = None, !.live = FALSE] \in Row
    BY <2>1 DEF Row
  <2> QED
    BY <2>1, <2>2 DEF Released
<1> QED
  BY <1>1 DEF Row

LEMMA HistoryGrows ==
  ASSUME TypeOK, NEW r \in Runs
  PROVE  \A kind \in Kind : /\ <<r, kind>> \in Runs \X Kind
                            /\ history \cup {<<r, kind>>} \subseteq Runs \X Kind
BY DEF TypeOK

LEMMA Statuses ==
  /\ {"queued", "leased", "running", "waiting_input", "waiting_takeover",
      "completed", "failed", "cancelled"} \subseteq Status
  /\ {"queued", "cancelled", "completed", "failed"} \subseteq TaskStatus
  /\ Outcome \subseteq Status \cap TaskStatus
  /\ {"user", "ask", "bot"} \subseteq Kind
BY DEF Kind, Status, Active, Terminal, TaskStatus, Outcome

\* What the user and the operator do keeps the types.
LEMMA TypeUser == TypeOK /\ User => TypeOK'
<1> SUFFICES ASSUME TypeOK, User PROVE TypeOK'
  OBVIOUS
<1> USE ConstantsOK, Statuses
<1>1. ASSUME NEW r \in Runs, BeginSend(r) PROVE TypeOK'
  BY <1>1 DEF TypeOK, BeginSend, Txn, RunsOf, Unlocked
<1>2. ASSUME NEW t \in Threads, CommitSend(t) PROVE TypeOK'
  <2>2. row' \in [Runs -> Row]
    <3>1. \A q \in Runs : row[q] \in Row
      BY DEF TypeOK
    <3>2. \A q \in Runs :
            /\ [row[q] EXCEPT !.status = "queued"] \in Row
            /\ [row[q] EXCEPT !.status = "cancelled", !.task = "cancelled"] \in Row
      BY <3>1 DEF Row
    <3> QED
      BY <1>2, <3>1, <3>2 DEF CommitSend
  <2>3. txn[t].run \in Runs
    BY <1>2 DEF TypeOK, CommitSend
  <2>4. history' \subseteq Runs \X Kind
    BY <1>2, <2>3, HistoryGrows DEF CommitSend
  <2>5. txn' \in [Threads -> Txn]
    BY <1>2 DEF TypeOK, CommitSend, Txn, Free
  <2> QED
    <3>1. jobs' \subseteq Runs
      BY <1>2, <2>3 DEF TypeOK, CommitSend, MayEnqueue
    <3>2. \A u \in Threads : txn'[u].kind = "send" => txn'[u].run \in Runs
      BY <1>2 DEF TypeOK, CommitSend, Free
    <3> QED
      BY <1>2, <2>2, <2>4, <2>5, <3>1, <3>2 DEF TypeOK, CommitSend
<1>3. ASSUME NEW r \in Runs, Answer(r) PROVE TypeOK'
  <2>1. row' \in [Runs -> Row]
    BY <1>3, RowUpdate DEF Answer
  <2>2. history' \subseteq Runs \X Kind
    BY <1>3 DEF Answer, TypeOK, Kind
  <2> QED
    BY <1>3, <2>1, <2>2 DEF TypeOK, Answer, MayEnqueue
<1>4. ASSUME NEW r \in Runs, Retry(r) PROVE TypeOK'
  <2>1. row' \in [Runs -> Row]
    BY <1>4, RowReleased DEF Retry
  <2> QED
    BY <1>4, <2>1 DEF TypeOK, Retry, Detour, MayEnqueue
<1>5. ASSUME NEW r \in Runs, GrantControl(r) PROVE TypeOK'
  BY <1>5 DEF TypeOK, GrantControl
<1>6. ASSUME NEW r \in Runs, ReleaseControl(r) PROVE TypeOK'
  <2>1. row' \in [Runs -> Row]
    <3>1. row \in [Runs -> Row]
      BY DEF TypeOK
    <3>2. [row EXCEPT ![r].status = "queued", ![r].handback = TRUE] \in [Runs -> Row]
      BY RowUpdate
    <3>3. row' = row \/ row' = [row EXCEPT ![r].status = "queued", ![r].handback = TRUE]
      BY <1>6 DEF ReleaseControl
    <3> QED
      BY <3>1, <3>2, <3>3
  <2>2. history' \subseteq Runs \X Kind
    BY <1>6 DEF ReleaseControl, TypeOK, Kind
  <2>3. jobs' \subseteq Runs
    BY <1>6 DEF ReleaseControl, TypeOK, MayEnqueue
  <2> QED
    BY <1>6, <2>1, <2>2, <2>3 DEF TypeOK, ReleaseControl
<1>7. ASSUME NEW t \in Threads, StopRuns(t) PROVE TypeOK'
  <2>1. row' \in [Runs -> Row]
    <3>1. \A r \in Runs : row[r] \in Row
      BY DEF TypeOK
    <3>2. \A r \in Runs : [row[r] EXCEPT !.status = "cancelled"] \in Row
      BY <3>1 DEF Row
    <3> QED
      BY <1>7, <3>1, <3>2 DEF StopRuns
  <2> QED
    BY <1>7, <2>1 DEF TypeOK, StopRuns, StopStage
<1>8. ASSUME NEW t \in Threads, DropLease(t) PROVE TypeOK'
  BY <1>8 DEF TypeOK, DropLease, ScreenLease, NoLease, StopStage
<1>9. ASSUME BeginClear PROVE TypeOK'
  BY <1>9 DEF TypeOK, BeginClear, Txn, ActiveOn, RunsOf, Detour
<1>10. ASSUME CommitClear PROVE TypeOK'
  <2>1. row' \in [Runs -> Row]
    <3>1. \A r \in Runs : row[r] \in Row
      BY DEF TypeOK
    <3>2. \A r \in Runs :
            [row[r] EXCEPT !.status = "cancelled", !.owner = None, !.live = FALSE,
                           !.task = "cancelled"] \in Row
      BY <3>1 DEF Row
    <3> QED
      BY <1>10, <3>1, <3>2 DEF CommitClear
  <2>2. attempts' \in Seq(Attempt) /\ DOMAIN attempts' = DOMAIN attempts
    <3>1. /\ Len(attempts) \in Nat
          /\ DOMAIN attempts = 1..Len(attempts)
          /\ \A i \in DOMAIN attempts : attempts[i] \in Attempt
      BY LenProperties, ElementOfSeq DEF TypeOK
    <3>2. DOMAIN attempts' = DOMAIN attempts
      BY <1>10 DEF CommitClear
    <3>3. \A i \in DOMAIN attempts : attempts'[i] \in Attempt
      BY <1>10, <3>1 DEF CommitClear, Attempt, AttemptStatus
    <3>4. attempts' \in [1..Len(attempts) -> Attempt]
      BY <1>10, <3>1, <3>3 DEF CommitClear
    <3> QED
      BY <3>1, <3>2, <3>4, SeqDef
  <2>3. history' \subseteq Runs \X Kind /\ lease' \in ScreenLease
    BY <1>10 DEF CommitClear, TypeOK, ScreenLease, NoLease
  <2>4. txn' \in [Threads -> Txn]
    BY <1>10 DEF TypeOK, CommitClear, Txn, Free
  <2>5. marks' \subseteq Runs \X {"cleared", "retried"}
    <3>1. /\ marks \subseteq Runs \X {"cleared", "retried"}
          /\ marks' = marks \cup {<<r, "cleared">> :
                                    r \in {q \in RunsOf(BotThread) : row'[q].status = "cancelled"}}
      BY <1>10 DEF TypeOK, CommitClear
    <3>2. \A r \in RunsOf(BotThread) : <<r, "cleared">> \in Runs \X {"cleared", "retried"}
      BY DEF RunsOf
    <3> QED
      BY <3>1, <3>2
  <2> QED
    <3>1. \A u \in Threads : txn'[u].kind = "send" => txn'[u].run \in Runs
      BY <1>10 DEF TypeOK, CommitClear, Free
    <3> QED
      BY <1>10, <2>1, <2>2, <2>3, <2>4, <2>5, <3>1 DEF TypeOK, CommitClear
<1>11. ASSUME NEW t \in Threads, ReadActive(t) PROVE TypeOK'
  BY <1>11 DEF TypeOK, ReadActive, Detour, StopStage
<1>12. ASSUME NEW t \in Threads, ApiFails(t) PROVE TypeOK'
  <2>1. /\ txn' \in [Threads -> Txn]
        /\ \A u \in Threads : txn'[u].kind = "send" => txn'[u].run \in Runs
    <3>1. CASE txn' = txn
      BY <3>1 DEF TypeOK
    <3>2. CASE txn' = [txn EXCEPT ![t] = Free]
      BY <3>2 DEF TypeOK, Txn, Free
    <3> QED
      BY <1>12, <3>1, <3>2 DEF ApiFails
  <2>2. stopping' \in [Threads -> StopStage]
    BY <1>12 DEF TypeOK, ApiFails, StopStage
  <2> QED
    BY <1>12, <2>1, <2>2 DEF TypeOK, ApiFails, Detour
<1> QED
  BY <1>1, <1>2, <1>3, <1>4, <1>5, <1>6, <1>7, <1>8, <1>9, <1>10, <1>11, <1>12 DEF User

\* What TypeOK says of the invocations, of any functions of their type.
ExecsOK(x, atts) ==
  /\ x \in [Execs -> Exec]
  /\ \A e \in Execs : x[e].pc # "idle" => x[e].run \in Runs
  /\ \A e \in Execs : x[e].pc \in Attempting => x[e].attempt \in DOMAIN atts

LEMMA ExecsTyped == TypeOK => ExecsOK(exec, attempts) /\ row \in [Runs -> Row]
BY DEF TypeOK, ExecsOK

\* The two shapes of an update of one invocation.
LEMMA GotoOK ==
  ASSUME TypeOK, NEW e \in Execs, NEW pc \in PC, exec[e].pc # "idle",
         pc \in Attempting => exec[e].attempt \in DOMAIN attempts
  PROVE  ExecsOK(Goto(e, pc), attempts)
<1>1. exec[e] \in Exec /\ [exec[e] EXCEPT !.pc = pc] \in Exec
  BY DEF TypeOK, Exec, PC
<1>2. Goto(e, pc) = [exec EXCEPT ![e] = [exec[e] EXCEPT !.pc = pc]]
  BY DEF Goto, TypeOK
<1>3. Goto(e, pc) \in [Execs -> Exec]
  BY <1>1, <1>2 DEF TypeOK
<1>4. /\ [exec[e] EXCEPT !.pc = pc].pc = pc
      /\ [exec[e] EXCEPT !.pc = pc].run = exec[e].run
      /\ [exec[e] EXCEPT !.pc = pc].attempt = exec[e].attempt
  BY <1>1 DEF Exec
<1> QED
  BY <1>1, <1>2, <1>3, <1>4 DEF TypeOK, ExecsOK

LEMMA LeaveOK ==
  ASSUME TypeOK, NEW e \in Execs
  PROVE  ExecsOK(Leave(e), attempts)
<1>1. Leave(e) \in [Execs -> Exec]
  BY DEF TypeOK, Leave, Idle, Exec, PC
<1> QED
  BY <1>1 DEF TypeOK, ExecsOK, Leave, Idle, Attempting, Working

LEMMA InvalidOK ==
  ASSUME TypeOK, NEW e \in Execs
  PROVE  ExecsOK([exec EXCEPT ![e].valid = FALSE], attempts)
<1>1. /\ [exec[e] EXCEPT !.valid = FALSE] \in Exec
      /\ [exec[e] EXCEPT !.valid = FALSE].pc = exec[e].pc
      /\ [exec[e] EXCEPT !.valid = FALSE].run = exec[e].run
      /\ [exec[e] EXCEPT !.valid = FALSE].attempt = exec[e].attempt
  <2>1. exec[e] \in Exec
    BY DEF TypeOK
  <2> QED
    BY <2>1 DEF Exec
<1>2. [exec EXCEPT ![e].valid = FALSE] = [exec EXCEPT ![e] = [exec[e] EXCEPT !.valid = FALSE]]
  BY DEF TypeOK
<1> DEFINE x == [exec[e] EXCEPT !.valid = FALSE]
<1> HIDE DEF x
<1>3. ExecsOK([exec EXCEPT ![e] = x], attempts)
  BY <1>1 DEF TypeOK, ExecsOK, x
<1> QED
  BY <1>2, <1>3 DEF x

LEMMA ClaimTyped ==
  ASSUME NEW r \in Runs, NEW fence \in Nat, NEW resume \in BOOLEAN, NEW handback \in BOOLEAN
  PROVE  [Idle EXCEPT !.pc = "claiming", !.run = r, !.fence = fence, !.resume = resume,
                      !.handback = handback] \in Exec
<1>1. Idle \in Exec
  BY DEF Idle, Exec, PC
<1>2. "claiming" \in PC /\ r \in Runs \cup {None}
  BY DEF PC
<1> QED
  BY <1>1, <1>2 DEF Exec

\* Claiming a run keeps the types.
LEMMA TypeClaiming == ASSUME TypeOK, NEW e \in Execs, Claiming(e) PROVE TypeOK'
<1> USE ConstantsOK, Statuses, ExecsTyped
<1>0. exec[e] \in Exec /\ WorkerOf[e] \in Workers
  BY DEF TypeOK
<1>1. ASSUME NEW r \in Runs, Claim(e, r) PROVE TypeOK'
  <2>1. row[r].fence + 1 \in Nat /\ row[r].handback \in BOOLEAN
    BY DEF TypeOK, Row
  <2>2. exec' \in [Execs -> Exec]
    <3> DEFINE resume == row[r].status = "waiting_takeover" \/ row[r].handback
               x == [Idle EXCEPT !.pc = "claiming", !.run = r, !.fence = NextFence(r),
                                 !.resume = resume, !.handback = row[r].handback]
    <3>1. resume \in BOOLEAN
      BY <2>1
    <3>2. NextFence(r) \in Nat
      BY <2>1 DEF NextFence
    <3>3. x \in Exec
      <4> HIDE DEF resume
      <4> QED
        BY <2>1, <3>1, <3>2, ClaimTyped
    <3>4. exec' = exec \/ exec' = [exec EXCEPT ![e] = x]
      BY <1>1 DEF Claim
    <3> HIDE DEF x
    <3> QED
      BY <3>3, <3>4 DEF TypeOK
  <2>3. \A f \in Execs : /\ exec'[f].pc # "idle" => exec'[f].run \in Runs
                         /\ exec'[f].pc \in Attempting
                            => exec'[f].attempt \in DOMAIN attempts
    BY <1>1 DEF Claim, TypeOK, Idle, Attempting, Working
  <2> QED
    BY <1>1, <2>2, <2>3 DEF Claim, TypeOK
<1>2. ASSUME LeaseRun(e) PROVE TypeOK'
  <2>1. exec[e].run \in Runs /\ exec[e].fence \in Nat
    <3>1. exec[e].run \in Runs
      BY <1>2 DEF LeaseRun, TypeOK
    <3>2. exec[e].fence \in Nat
      BY <1>0 DEF Exec
    <3> QED
      BY <3>1, <3>2
  <2>2. row' \in [Runs -> Row]
    <3>1. [row[exec[e].run] EXCEPT !.status = "leased", !.owner = WorkerOf[e],
             !.fence = exec[e].fence, !.live = TRUE, !.handback = FALSE] \in Row
      <4>1. row[exec[e].run] \in Row
        BY <2>1 DEF TypeOK
      <4> QED
        BY <1>0, <2>1, <4>1 DEF Row
    <3>2. \/ row' = row
          \/ row' = [row EXCEPT ![exec[e].run] =
               [row[exec[e].run] EXCEPT !.status = "leased", !.owner = WorkerOf[e],
                  !.fence = exec[e].fence, !.live = TRUE, !.handback = FALSE]]
      BY <1>2, <2>1 DEF LeaseRun
    <3> QED
      BY <2>1, <3>1, <3>2
  <2>3. ExecsOK(exec', attempts)
    <3>1. exec[e].pc # "idle"
      BY <1>2 DEF LeaseRun
    <3>2. "leased" \in PC /\ "leased" \notin Attempting /\ "leased" # "idle"
      BY DEF PC, Attempting, Working
    <3>3. exec' = Goto(e, "leased") \/ exec' = Leave(e)
      BY <1>2 DEF LeaseRun
    <3> QED
      BY <3>1, <3>2, <3>3, GotoOK, LeaveOK
  <2> QED
    BY <1>2, <2>2, <2>3 DEF LeaseRun, TypeOK, ExecsOK
<1>3. ASSUME FailBlocked(e) PROVE TypeOK'
  <2>1. exec[e].run \in Runs
    BY <1>3 DEF FailBlocked, TypeOK
  <2>2. row' \in [Runs -> Row]
    <3>1. [Released(exec[e].run, "failed") EXCEPT ![exec[e].run].task = "failed"]
          \in [Runs -> Row]
      BY <2>1, RowReleased
    <3> QED
      BY <1>3, <3>1 DEF FailBlocked
  <2>3. ExecsOK(exec', attempts)
    BY <1>3, LeaveOK DEF FailBlocked
  <2>4. history' \subseteq Runs \X Kind
    BY <1>3, <2>1, HistoryGrows DEF FailBlocked, TypeOK
  <2> QED
    BY <1>3, <2>2, <2>3, <2>4 DEF FailBlocked, TypeOK, ExecsOK
<1>4. ASSUME ReleasePreflight(e) PROVE TypeOK'
  <2>1. exec[e].run \in Runs
    BY <1>4 DEF ReleasePreflight, TypeOK
  <2>2. row' \in [Runs -> Row]
    <3>1. Released(exec[e].run, "queued") \in [Runs -> Row]
      BY <2>1, RowReleased
    <3> QED
      BY <1>4, <3>1 DEF ReleasePreflight
  <2>3. ExecsOK(exec', attempts)
    BY <1>4, LeaveOK DEF ReleasePreflight
  <2> QED
    BY <1>4, <2>1, <2>2, <2>3 DEF ReleasePreflight, TypeOK, ExecsOK, Detour, MayEnqueue
<1>5. ASSUME StartRun(e) PROVE TypeOK'
  <2>1. exec[e].run \in Runs
    BY <1>5 DEF StartRun, TypeOK
  <2>2. row' \in [Runs -> Row]
    <3>1. [row EXCEPT ![exec[e].run].status = "running"] \in [Runs -> Row]
      BY <2>1, RowUpdate
    <3> QED
      BY <1>5, <3>1 DEF StartRun
  <2>3. ExecsOK(exec', attempts)
    BY <1>5, GotoOK, LeaveOK DEF StartRun, PC, Attempting, Working
  <2> QED
    BY <1>5, <2>1, <2>2, <2>3 DEF StartRun, TypeOK, ExecsOK
<1>6. ASSUME RequeueComputerRun(e) PROVE TypeOK'
  <2>1. exec[e].run \in Runs /\ exec[e].handback \in BOOLEAN
    BY <1>6, <1>0 DEF RequeueComputerRun, TypeOK, Exec
  <2>2. row' \in [Runs -> Row]
    <3>1. [Released(exec[e].run, "queued") EXCEPT ![exec[e].run].handback = exec[e].handback]
          \in [Runs -> Row]
      BY <2>1, RowReleased
    <3> QED
      BY <1>6, <3>1 DEF RequeueComputerRun
  <2>3. ExecsOK(exec', attempts)
    BY <1>6, LeaveOK DEF RequeueComputerRun
  <2>4. jobs' \subseteq Runs
    BY <1>6, <2>1 DEF RequeueComputerRun, TypeOK, MayEnqueue
  <2> QED
    BY <1>6, <2>2, <2>3, <2>4 DEF RequeueComputerRun, TypeOK, ExecsOK, Detour
<1>7. ASSUME AcquireComputer(e) PROVE TypeOK'
  <2>1. exec[e].run \in Runs /\ lease.fence \in Nat
    BY <1>7, <1>0 DEF AcquireComputer, TypeOK, ScreenLease
  <2> DEFINE fence == IF lease.run = None THEN 1 ELSE lease.fence + 1
             x == [exec[e] EXCEPT !.pc = "acquired", !.screen = fence]
  <2>2. fence \in Nat
    BY <2>1
  <2>3. /\ lease' = [run |-> exec[e].run, fence |-> fence, live |-> TRUE]
        /\ exec' = [exec EXCEPT ![e] = x]
    BY <1>7 DEF AcquireComputer, TypeOK
  <2> HIDE DEF fence
  <2>4. x \in Exec /\ x.run = exec[e].run /\ x.pc = "acquired"
    BY <1>0, <2>2 DEF Exec, PC
  <2> HIDE DEF x
  <2>5. exec' \in [Execs -> Exec] /\ lease' \in ScreenLease
    BY <2>1, <2>2, <2>3, <2>4 DEF TypeOK, ScreenLease
  <2>6. \A f \in Execs : /\ exec'[f].pc # "idle" => exec'[f].run \in Runs
                         /\ exec'[f].pc \in Attempting
                            => exec'[f].attempt \in DOMAIN attempts
    BY <2>1, <2>3, <2>4 DEF TypeOK, Attempting, Working
  <2> QED
    BY <1>7, <2>5, <2>6 DEF AcquireComputer, TypeOK
<1>8. ASSUME ReturnComputer(e) PROVE TypeOK'
  <2>1. exec[e].run \in Runs
    BY <1>8 DEF ReturnComputer, TypeOK
  <2>2. ExecsOK(exec', attempts)
    BY <1>8, GotoOK, LeaveOK DEF ReturnComputer, PC, Attempting, Working
  <2>3. lease' \in ScreenLease
    BY <1>8 DEF ReturnComputer, ScreenReleased, TypeOK, ScreenLease, NoLease
  <2>4. jobs' \subseteq Runs
    BY <1>8, <2>1 DEF ReturnComputer, MayEnqueue, TypeOK
  <2> QED
    BY <1>8, <2>2, <2>3, <2>4 DEF ReturnComputer, TypeOK, ExecsOK, Detour
<1>9. ASSUME CreateAttempt(e) PROVE TypeOK'
  <2>1. exec[e].run \in Runs /\ exec[e].fence \in Nat
    BY <1>9, <1>0 DEF CreateAttempt, TypeOK, Exec
  <2>2. /\ attempts' \in Seq(Attempt)
        /\ Len(attempts') = Len(attempts) + 1
        /\ Len(attempts) \in Nat
        /\ DOMAIN attempts = 1..Len(attempts)
        /\ DOMAIN attempts' = 1..Len(attempts')
    BY <1>9, <2>1, LenProperties, AppendProperties
       DEF CreateAttempt, TypeOK, Attempt, AttemptStatus
  <2> DEFINE x == [exec[e] EXCEPT !.pc = "active", !.attempt = Len(attempts) + 1]
  <2>3. exec' = [exec EXCEPT ![e] = x]
    BY <1>9 DEF CreateAttempt, TypeOK
  <2>4. x \in Exec /\ x.run = exec[e].run /\ x.attempt = Len(attempts) + 1
    <3>1. Len(attempts) + 1 \in Nat
      BY <2>2
    <3> QED
      BY <1>0, <3>1 DEF Exec, PC, Attempting, Working
  <2> HIDE DEF x
  <2>5. exec' \in [Execs -> Exec]
    BY <2>3, <2>4 DEF TypeOK
  <2>6. \A f \in Execs : /\ exec'[f].pc # "idle" => exec'[f].run \in Runs
                         /\ exec'[f].pc \in Attempting
                            => exec'[f].attempt \in DOMAIN attempts'
    BY <2>1, <2>2, <2>3, <2>4 DEF TypeOK
  <2> QED
    BY <1>9, <2>2, <2>5, <2>6 DEF CreateAttempt, TypeOK
<1> QED
  BY <1>1, <1>2, <1>3, <1>4, <1>5, <1>6, <1>7, <1>8, <1>9 DEF Claiming

LEMMA EndAttemptOK ==
  ASSUME TypeOK, NEW e \in Execs, exec[e].attempt \in DOMAIN attempts,
         NEW s \in AttemptStatus
  PROVE  /\ EndAttempt(e, s) \in Seq(Attempt)
         /\ DOMAIN EndAttempt(e, s) = DOMAIN attempts
<1>1. exec[e].attempt \in 1..Len(attempts) /\ attempts \in Seq(Attempt)
  BY LenProperties DEF TypeOK
<1>2. [attempts[exec[e].attempt] EXCEPT !.status = s] \in Attempt
  <2>1. attempts[exec[e].attempt] \in Attempt
    BY <1>1, ElementOfSeq
  <2> QED
    BY <2>1 DEF Attempt
<1>3. EndAttempt(e, s) = [attempts EXCEPT ![exec[e].attempt] =
                            [attempts[exec[e].attempt] EXCEPT !.status = s]]
  BY <1>1 DEF EndAttempt
<1> QED
  BY <1>1, <1>2, <1>3, ExceptSeq

\* An invocation's work keeps the types.
LEMMA TypeWork == ASSUME TypeOK, NEW e \in Execs, Work(e) PROVE TypeOK'
<1> USE ConstantsOK, Statuses, ExecsTyped
<1>0. /\ exec[e] \in Exec
      /\ exec[e].pc \in Attempting
         => exec[e].run \in Runs /\ exec[e].attempt \in DOMAIN attempts
  BY DEF TypeOK, Attempting, Working
<1>a. /\ Outcome \subseteq AttemptStatus
      /\ {"waiting_input", "waiting_takeover", "setup_failed", "interrupted"}
         \subseteq AttemptStatus
      /\ {"active", "publishing", "taking", "handing"} = Working
      /\ Working \cup {"requeued", "cleanup", "closing"} = Attempting
      /\ Attempting \subseteq PC
      /\ "idle" \notin Attempting
  BY DEF AttemptStatus, Attempting, Working, PC
<1>1. ASSUME RenewRun(e) PROVE TypeOK'
  <2>1. exec[e].run \in Runs
    BY <1>0, <1>1, <1>a DEF RenewRun
  <2>2. row' \in [Runs -> Row]
    <3>1. [row EXCEPT ![exec[e].run].live = TRUE] \in [Runs -> Row]
      BY <2>1, RowUpdate
    <3> QED
      BY <1>1, <3>1 DEF RenewRun
  <2>3. ExecsOK(exec', attempts)
    BY <1>1, InvalidOK DEF RenewRun
  <2> QED
    BY <1>1, <2>2, <2>3 DEF RenewRun, TypeOK, ExecsOK
<1>2. ASSUME RenewScreen(e) PROVE TypeOK'
  <2>1. lease' \in ScreenLease
    BY <1>2 DEF RenewScreen, TypeOK, ScreenLease
  <2>2. ExecsOK(exec', attempts)
    BY <1>2, InvalidOK DEF RenewScreen
  <2> QED
    BY <1>2, <2>1, <2>2 DEF RenewScreen, TypeOK, ExecsOK
<1>3. ASSUME BeginPublish(e) PROVE TypeOK'
  <2>1. exec[e].run \in Runs
    BY <1>0, <1>3, <1>a DEF BeginPublish
  <2>2. ExecsOK(exec', attempts)
    BY <1>3, <1>0, <1>a, GotoOK DEF BeginPublish
  <2>3. /\ txn' \in [Threads -> Txn]
        /\ \A t \in Threads : txn'[t].kind = "send" => txn'[t].run \in Runs
    <3>1. CASE txn' = txn
      BY <3>1 DEF TypeOK
    <3>2. CASE txn' = [txn EXCEPT ![ThreadOf[exec[e].run]] =
                         [kind |-> "publish", run |-> exec[e].run, runs |-> {}]]
      BY <3>2, <2>1 DEF TypeOK, Txn
    <3> QED
      BY <1>3, <3>1, <3>2 DEF BeginPublish
  <2> QED
    BY <1>3, <2>2, <2>3 DEF BeginPublish, TypeOK, ExecsOK
<1>4. ASSUME CommitPublish(e) PROVE TypeOK'
  <2>1. exec[e].run \in Runs
    BY <1>0, <1>4, <1>a DEF CommitPublish
  <2>2. ExecsOK(exec', attempts)
    BY <1>4, <1>0, <1>a, GotoOK DEF CommitPublish
  <2>3. /\ txn' \in [Threads -> Txn]
        /\ \A t \in Threads : txn'[t].kind = "send" => txn'[t].run \in Runs
    BY <1>4, <2>1 DEF CommitPublish, TypeOK, Txn, Free
  <2>4. history' \subseteq Runs \X Kind
    BY <1>4, <2>1, HistoryGrows DEF CommitPublish
  <2> QED
    BY <1>4, <2>2, <2>3, <2>4 DEF CommitPublish, TypeOK, ExecsOK
<1>5. ASSUME PauseForInput(e) PROVE TypeOK'
  <2>1. exec[e].run \in Runs /\ exec[e].attempt \in DOMAIN attempts
    BY <1>0, <1>5, <1>a DEF PauseForInput
  <2>2. row' \in [Runs -> Row]
    <3>1. Released(exec[e].run, "waiting_input") \in [Runs -> Row]
      BY <2>1, RowReleased
    <3> QED
      BY <1>5, <3>1 DEF PauseForInput
  <2>3. attempts' \in Seq(Attempt) /\ DOMAIN attempts' = DOMAIN attempts
    BY <1>5, <2>1, <1>a, EndAttemptOK DEF PauseForInput, TypeOK
  <2>4. ExecsOK(exec', attempts)
    BY <1>5, <1>0, <1>a, GotoOK DEF PauseForInput
  <2>5. history' \subseteq Runs \X Kind
    BY <1>5, <2>1, HistoryGrows DEF PauseForInput, TypeOK
  <2> QED
    BY <1>5, <2>2, <2>3, <2>4, <2>5 DEF PauseForInput, TypeOK, ExecsOK, Detour
<1>6. ASSUME HoldScreen(e) PROVE TypeOK'
  <2>1. lease' \in ScreenLease
    BY <1>6 DEF HoldScreen, TypeOK, ScreenLease
  <2>2. ExecsOK(exec', attempts)
    BY <1>6, <1>0, <1>a, GotoOK DEF HoldScreen
  <2> QED
    BY <1>6, <2>1, <2>2 DEF HoldScreen, TypeOK, ExecsOK
<1>7. ASSUME PauseForTakeover(e) PROVE TypeOK'
  <2>1. exec[e].run \in Runs /\ exec[e].attempt \in DOMAIN attempts
    BY <1>0, <1>7, <1>a DEF PauseForTakeover
  <2>2. row' \in [Runs -> Row]
    <3>1. [Released(exec[e].run, "waiting_takeover") EXCEPT ![exec[e].run].handback = FALSE]
          \in [Runs -> Row]
      BY <2>1, RowReleased
    <3> QED
      BY <1>7, <3>1 DEF PauseForTakeover
  <2>3. attempts' \in Seq(Attempt) /\ DOMAIN attempts' = DOMAIN attempts
    BY <1>7, <2>1, <1>a, EndAttemptOK DEF PauseForTakeover, TypeOK
  <2>4. ExecsOK(exec', attempts)
    <3>1. CASE exec' = Goto(e, "cleanup")
      BY <3>1, <1>7, <1>0, <1>a, GotoOK DEF PauseForTakeover
    <3>2. CASE exec' = [exec EXCEPT ![e] = [@ EXCEPT !.pc = "cleanup", !.retain = TRUE]]
      BY <3>2, <1>0, <2>1, <1>a DEF ExecsOK, Exec
    <3> QED
      BY <1>7, <3>1, <3>2 DEF PauseForTakeover
  <2>5. history' \subseteq Runs \X Kind
    BY <1>7, <2>1, HistoryGrows DEF PauseForTakeover, TypeOK
  <2> QED
    BY <1>7, <2>2, <2>3, <2>4, <2>5 DEF PauseForTakeover, TypeOK, ExecsOK
<1>8. ASSUME NEW outcome \in Outcome, Finish(e, outcome) PROVE TypeOK'
  <2>1. exec[e].run \in Runs /\ exec[e].attempt \in DOMAIN attempts
    BY <1>0, <1>8, <1>a DEF Finish
  <2>2. row' \in [Runs -> Row]
    <3>1. [Released(exec[e].run, outcome) EXCEPT ![exec[e].run].task = outcome]
          \in [Runs -> Row]
      BY <2>1, RowReleased
    <3> QED
      BY <1>8, <3>1 DEF Finish
  <2>3. attempts' \in Seq(Attempt) /\ DOMAIN attempts' = DOMAIN attempts
    BY <1>8, <2>1, <1>a, EndAttemptOK DEF Finish, TypeOK
  <2>4. ExecsOK(exec', attempts)
    BY <1>8, <1>0, <1>a, GotoOK DEF Finish
  <2>5. history' \subseteq Runs \X Kind
    BY <1>8, <2>1, HistoryGrows DEF Finish, TypeOK
  <2> QED
    BY <1>8, <2>2, <2>3, <2>4, <2>5 DEF Finish, TypeOK, ExecsOK
<1>9. ASSUME SetupFail(e) PROVE TypeOK'
  <2>1. exec[e].run \in Runs /\ exec[e].handback \in BOOLEAN
    BY <1>0, <1>9, <1>a DEF SetupFail, Exec
  <2>2. row' \in [Runs -> Row]
    <3>1. [Released(exec[e].run, "queued") EXCEPT ![exec[e].run].handback = exec[e].handback]
          \in [Runs -> Row]
      BY <2>1, RowReleased
    <3> QED
      BY <1>9, <3>1 DEF SetupFail
  <2>3. ExecsOK(exec', attempts)
    BY <1>9, <1>0, <1>a, GotoOK DEF SetupFail
  <2> QED
    BY <1>9, <2>2, <2>3 DEF SetupFail, TypeOK, ExecsOK, Detour
<1>12. ASSUME RecordSetupFailure(e) PROVE TypeOK'
  <2>1. exec[e].run \in Runs /\ exec[e].attempt \in DOMAIN attempts
    BY <1>0, <1>12, <1>a DEF RecordSetupFailure
  <2>2. attempts' \in Seq(Attempt) /\ DOMAIN attempts' = DOMAIN attempts
    BY <1>12, <2>1, <1>a, EndAttemptOK DEF RecordSetupFailure
  <2>3. ExecsOK(exec', attempts)
    BY <1>12, <1>0, <1>a, GotoOK DEF RecordSetupFailure
  <2>4. jobs' \subseteq Runs
    BY <1>12, <2>1 DEF RecordSetupFailure, TypeOK, MayEnqueue
  <2> QED
    BY <1>12, <2>2, <2>3, <2>4 DEF RecordSetupFailure, TypeOK, ExecsOK
<1>10. ASSUME Abandon(e) PROVE TypeOK'
  <2>1. ExecsOK(exec', attempts)
    BY <1>10, <1>0, <1>a, GotoOK DEF Abandon
  <2> QED
    BY <1>10, <2>1 DEF Abandon, TypeOK, ExecsOK
<1>11. ASSUME ReleaseScreen(e) PROVE TypeOK'
  <2>1. ExecsOK(exec', attempts)
    BY <1>11, <1>0, <1>a, GotoOK DEF ReleaseScreen
  <2>2. lease' \in ScreenLease
    BY <1>11 DEF ReleaseScreen, ScreenReleased, TypeOK, ScreenLease, NoLease
  <2> QED
    BY <1>11, <2>1, <2>2 DEF ReleaseScreen, TypeOK, ExecsOK
<1>13. ASSUME CloseAttempt(e) PROVE TypeOK'
  <2>1. exec[e].attempt \in DOMAIN attempts
    BY <1>0, <1>13, <1>a DEF CloseAttempt
  <2>2. attempts' \in Seq(Attempt) /\ DOMAIN attempts' = DOMAIN attempts
    BY <1>13, <2>1, <1>a, EndAttemptOK DEF CloseAttempt, TypeOK
  <2>3. ExecsOK(exec', attempts)
    BY <1>13, LeaveOK DEF CloseAttempt
  <2> QED
    BY <1>13, <2>2, <2>3 DEF CloseAttempt, TypeOK, ExecsOK
<1>14. ASSUME TakeComputer(e) PROVE TypeOK'
  <2>1. ExecsOK(exec', attempts)
    BY <1>14, <1>0, <1>a, GotoOK DEF TakeComputer
  <2> QED
    BY <1>14, <2>1 DEF TakeComputer, TypeOK, ExecsOK, Detour
<1> QED
  BY <1>1, <1>2, <1>3, <1>4, <1>5, <1>6, <1>7, <1>8, <1>9, <1>10, <1>11, <1>12, <1>13, <1>14
     DEF Work

\* Failures, expiry and the reconciler keep the types.
LEMMA TypeEnvironment == TypeOK /\ Environment => TypeOK'
<1> SUFFICES ASSUME TypeOK, Environment PROVE TypeOK'
  OBVIOUS
<1> USE ConstantsOK, Statuses, ExecsTyped
<1>1. ASSUME NEW e \in Execs, Crash(e) PROVE TypeOK'
  <2>1. ExecsOK(exec', attempts)
    BY <1>1, LeaveOK DEF Crash
  <2>2. /\ txn' \in [Threads -> Txn]
        /\ \A t \in Threads : txn'[t].kind = "send" => txn'[t].run \in Runs
    BY <1>1 DEF Crash, TypeOK, Txn, Free
  <2> QED
    BY <1>1, <2>1, <2>2 DEF Crash, TypeOK, ExecsOK, Detour
<1>2. ASSUME NEW r \in Runs, LeaseExpires(r) PROVE TypeOK'
  <2>1. row' \in [Runs -> Row]
    BY <1>2, RowUpdate DEF LeaseExpires
  <2>2. detours' \in 0..MaxDetours
    BY <1>2 DEF LeaseExpires, TypeOK, Expire, Detour
  <2> QED
    BY <1>2, <2>1, <2>2 DEF LeaseExpires, TypeOK
<1>3. ASSUME ScreenLeaseExpires PROVE TypeOK'
  <2>1. lease' \in ScreenLease
    BY <1>3 DEF ScreenLeaseExpires, TypeOK, ScreenLease
  <2>2. detours' \in 0..MaxDetours
    BY <1>3 DEF ScreenLeaseExpires, TypeOK, Expire, Detour
  <2> QED
    BY <1>3, <2>1, <2>2 DEF ScreenLeaseExpires, TypeOK
<1>4. ASSUME ListRuns PROVE TypeOK'
  BY <1>4 DEF ListRuns, TypeOK, Lost
<1>5. ASSUME NEW r \in Runs, Reconcile(r) PROVE TypeOK'
  BY <1>5 DEF Reconcile, TypeOK
<1> QED
  BY <1>1, <1>2, <1>3, <1>4, <1>5 DEF Environment

LEMMA TypeStep == TypeOK /\ [Next]_vars => TypeOK'
<1>1. TypeOK /\ UNCHANGED vars => TypeOK'
  BY DEF TypeOK, vars
<1> QED
  BY <1>1, TypeUser, TypeClaiming, TypeWork, TypeEnvironment DEF Next

\* Every variable keeps its type, and an invocation that works has a run and an attempt.
THEOREM TypeCorrect == Spec => []TypeOK
BY TypeInit, TypeStep, PTL DEF Spec
=============================================================================
