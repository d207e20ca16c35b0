---------------------------- MODULE RunLifecycle ----------------------------
(***************************************************************************)
(* The life of the runs of one bot on a Team Computer: how a run is        *)
(* created, leased by a worker, paused, answered, handed over, finished,   *)
(* stopped or cleared, and how it survives workers that die.               *)
(*                                                                         *)
(* Every row of the database the code touches with one statement, or under *)
(* one row lock, is one step here.  Statements the code separates by an    *)
(* await are separate steps, so everything may happen between them.        *)
(***************************************************************************)
EXTENDS Naturals, Sequences, FiniteSets

CONSTANTS
  Runs,        \* the runs that may be created
  Threads,     \* the bot's own thread and the group threads it is a member of
  BotThread,   \* the bot's own thread
  ThreadOf,    \* the thread of each run
  Execs,       \* concurrent invocations of continueRun (the worker's job slots)
  Workers,     \* worker ids: process ids, so slots of one process share theirs
  WorkerOf,    \* the worker id each slot passes to continueRun
  None,        \* SQL NULL
  MaxDetours   \* bound on pauses, retries, crashes, missed heartbeats, stops, clears

ASSUME ConstantsOK ==
  /\ BotThread \in Threads
  /\ ThreadOf \in [Runs -> Threads]
  /\ WorkerOf \in [Execs -> Workers]
  /\ None \notin Runs \cup Workers
  /\ MaxDetours \in Nat

VARIABLES
  row,       \* the runs table, with the status of the run's task
  attempts,  \* the attempts table, in order of creation
  lease,     \* the bot's computer_execution_leases row
  control,   \* the run whose takeover the user's control lease was granted for
  jobs,      \* runs with a run.continue job waiting (one per job key)
  listed,    \* runs the reconciler has read and not yet enqueued
  exec,      \* the local state of every invocation of continueRun
  txn,       \* the transaction holding each thread's row lock
  stopping,  \* how far the stop of each thread has come
  history,   \* what the thread holds of each run: <<run, kind>>
  detours,   \* detours taken so far
  marks      \* only for checking: runs cancelled when their thread was cleared, and
             \* failed runs an operator put back

vars == <<row, attempts, lease, control, jobs, listed, exec, txn, stopping,
          history, detours, marks>>

-----------------------------------------------------------------------------
(* Types *)

Active == {"queued", "leased", "running", "waiting_input", "waiting_takeover"}
Terminal == {"completed", "failed", "cancelled"}
Outcome == {"completed", "failed"}

Status == {"absent"} \cup Active \cup Terminal
TaskStatus == {"queued", "cancelled"} \cup Outcome

Row == [status   : Status,
        owner    : Workers \cup {None},
        fence    : Nat,
        live     : BOOLEAN,     \* leaseExpiresAt is in the future
        handback : BOOLEAN,     \* checkpoint is "takeover" or "takeover-skipped"
        task     : TaskStatus]

AttemptStatus == Outcome \cup {"running", "waiting_input", "waiting_takeover",
                               "cancelled", "setup_failed", "interrupted"}
Attempt == [run : Runs, fence : Nat, status : AttemptStatus]

ScreenLease == [run : Runs \cup {None}, fence : Nat, live : BOOLEAN]
NoLease == [run |-> None, fence |-> 0, live |-> FALSE]

Working == {"active", "publishing", "taking", "handing"}   \* the heartbeat is running
Attempting == Working \cup {"requeued", "cleanup", "closing"}   \* it has an attempt
PC == {"idle", "claiming", "leased", "started", "busy", "acquired"} \cup Attempting
Exec == [pc       : PC,
         run      : Runs \cup {None},
         fence    : Nat,
         resume   : BOOLEAN,    \* resumeFromTakeover
         handback : BOOLEAN,    \* resumeCheckpoint is not null
         attempt  : Nat,        \* 0: none created yet
         screen   : Nat,        \* fence of its computer lease, 0: none
         valid    : BOOLEAN,    \* leaseValid
         retain   : BOOLEAN]    \* retainComputerLease
Idle == [pc |-> "idle", run |-> None, fence |-> 0, resume |-> FALSE,
         handback |-> FALSE, attempt |-> 0, screen |-> 0, valid |-> TRUE,
         retain |-> FALSE]

Txn == [kind : {"free", "send", "clear", "publish"},
        run  : Runs \cup {None},   \* the run a send creates
        runs : SUBSET Runs]        \* the runs it read and is about to cancel
Free == [kind |-> "free", run |-> None, runs |-> {}]

StopStage == {"no", "empty", "found", "drop"}   \* "found" and "empty": what it has read

Kind == {"user", "ask", "bot"}   \* source message, pending ask card, anything else

TypeOK ==
  /\ row \in [Runs -> Row]
  /\ attempts \in Seq(Attempt)
  /\ lease \in ScreenLease
  /\ control \in Runs \cup {None}
  /\ jobs \subseteq Runs
  /\ listed \subseteq Runs
  /\ exec \in [Execs -> Exec]
  /\ \A e \in Execs : exec[e].pc # "idle" => exec[e].run \in Runs
  /\ \A e \in Execs :
       exec[e].pc \in Attempting => exec[e].attempt \in DOMAIN attempts
  /\ txn \in [Threads -> Txn]
  /\ \A t \in Threads : txn[t].kind = "send" => txn[t].run \in Runs
  /\ stopping \in [Threads -> StopStage]
  /\ history \subseteq Runs \X Kind
  /\ detours \in 0..MaxDetours
  /\ marks \subseteq Runs \X {"cleared", "retried"}

-----------------------------------------------------------------------------
(* Helpers *)

RunsOf(t) == {r \in Runs : ThreadOf[r] = t}
ActiveOnExceptWaiting(t) ==
  {r \in RunsOf(t) : row[r].status \in {"queued", "leased", "running"}}
ActiveOnExceptLeased(t) ==
  {r \in RunsOf(t) : row[r].status \in Active \ {"leased"}}
AllOn(t) == {r \in RunsOf(t) : row[r].status # "absent"}
ActiveOn(t) == {r \in RunsOf(t) : row[r].status \in Active}

\* A transaction that needs the row lock of r's thread can take it.
Unlocked(r) == txn[ThreadOf[r]].kind = "free"

\* The where clause of every write an executor makes to its running run.
Owns(e, status) ==
  LET r == row[exec[e].run]
  IN  r.status = status /\ r.owner = WorkerOf[e] /\ r.fence = exec[e].fence
Holds(e) == Owns(e, "running")

AttemptExists(e) == exec[e].attempt # 0
AttemptRunning(e) == attempts[exec[e].attempt].status = "running"

Detour == detours < MaxDetours /\ detours' = detours + 1

\* The enqueue that follows a commit: the process may die before it, or it may fail.
MayEnqueue(r) == jobs' \in {jobs, jobs \cup {r}}

\* row without the lease columns, in a new status.
Released(r, status) ==
  [row EXCEPT ![r].status = status, ![r].owner = None, ![r].live = FALSE]

\* The where clause of every write to the computer lease an invocation acquired.
HasScreen(e) == lease.run = exec[e].run /\ lease.fence = exec[e].screen
ScreenReleased(e) == IF HasScreen(e) THEN NoLease ELSE lease

Goto(e, pc) == [exec EXCEPT ![e].pc = pc]
Leave(e) == [exec EXCEPT ![e] = Idle]

Init ==
  /\ row = [r \in Runs |-> [status |-> "absent", owner |-> None, fence |-> 0,
                            live |-> FALSE, handback |-> FALSE, task |-> "queued"]]
  /\ attempts = <<>>
  /\ lease = NoLease
  /\ control = None
  /\ jobs = {}
  /\ listed = {}
  /\ exec = [e \in Execs |-> Idle]
  /\ txn = [t \in Threads |-> Free]
  /\ stopping = [t \in Threads |-> "no"]
  /\ history = {}
  /\ detours = 0
  /\ marks = {}

-----------------------------------------------------------------------------
(* The user, through the API *)

\* sendThreadMessage takes the thread's row lock with its first statement, then
\* reads the queued runs the new one supersedes.
BeginSend(r) ==
  LET t == ThreadOf[r] IN
  /\ row[r].status = "absent" /\ Unlocked(r)
  /\ txn' = [txn EXCEPT ![t] =
       [kind |-> "send", run |-> r,
        runs |-> {q \in RunsOf(t) : row[q].status = "queued"}]]
  /\ UNCHANGED <<row, attempts, lease, control, jobs, listed, exec, stopping,
                 history, detours, marks>>

\* It cancels them by id, whatever their status has become, and commits the run
\* with its message and its event; the enqueue is outside the transaction.
CommitSend(t) ==
  LET r == txn[t].run IN
  /\ txn[t].kind = "send"
  /\ row' = [q \in Runs |->
       IF q = r THEN [row[q] EXCEPT !.status = "queued"]
       ELSE IF q \in txn[t].runs
            THEN [row[q] EXCEPT !.status = "cancelled", !.task = "cancelled"]
            ELSE row[q]]
  /\ history' = history \cup {<<r, "user">>}
  /\ MayEnqueue(r)
  /\ txn' = [txn EXCEPT ![t] = Free]
  /\ UNCHANGED <<attempts, lease, control, listed, exec, stopping, detours, marks>>

\* answerRunInput: the run is queued again only if its card is still pending.
Answer(r) ==
  /\ Unlocked(r)
  /\ row[r].status = "waiting_input"
  /\ <<r, "ask">> \in history
  /\ row' = [row EXCEPT ![r].status = "queued"]
  /\ history' = (history \ {<<r, "ask">>}) \cup {<<r, "bot">>}
  /\ MayEnqueue(r)
  /\ UNCHANGED <<attempts, lease, control, listed, exec, txn, stopping, detours, marks>>

\* The operator's retry of a failed run.
Retry(r) ==
  /\ row[r].status = "failed" /\ Detour
  /\ row' = [Released(r, "queued") EXCEPT ![r].handback = FALSE, ![r].task = "queued"]
  /\ MayEnqueue(r)
  /\ marks' = marks \cup {<<r, "retried">>}
  /\ UNCHANGED <<attempts, lease, control, listed, exec, txn, stopping, history>>

\* computer.takeover while the run named by the lease row waits for its user.
GrantControl(r) ==
  /\ control = None
  /\ lease.run = r
  /\ row[r].status = "waiting_takeover"
  /\ control' = r
  /\ UNCHANGED <<row, attempts, lease, jobs, listed, exec, txn, stopping, history,
                 detours, marks>>

\* finalizeComputerControlRelease, on release or on expiry of the control lease.
\* Its event goes to the bot's own thread, whichever thread the run belongs to.
ReleaseControl(r) ==
  /\ control = r
  /\ txn[BotThread].kind = "free"
  /\ control' = None
  /\ IF row[r].status = "waiting_takeover"
     THEN /\ row' = [row EXCEPT ![r].status = "queued", ![r].handback = TRUE]
          /\ history' = history \cup {h \in {<<r, "bot">>} : ThreadOf[r] = BotThread}
          /\ MayEnqueue(r)
     ELSE UNCHANGED <<row, history, jobs>>
  /\ UNCHANGED <<attempts, lease, listed, exec, txn, stopping, detours, marks>>

\* stopThreadRuns reads the thread's active runs, without a lock, ...
ReadActive(t) ==
  /\ stopping[t] = "no" /\ Detour
  /\ stopping' = [stopping EXCEPT ![t] = IF ActiveOn(t) = {} THEN "empty" ELSE "found"]
  /\ UNCHANGED <<row, attempts, lease, control, jobs, listed, exec, txn, history, marks>>

\* ... cancels those that are active by now, owner and expiry left as they are, ...
StopRuns(t) ==
  /\ stopping[t] \in {"empty", "found"}
  /\ row' = [r \in Runs |-> IF r \in ActiveOn(t)
                            THEN [row[r] EXCEPT !.status = "cancelled"] ELSE row[r]]
  /\ stopping' = [stopping EXCEPT
       ![t] = IF t = BotThread \/ stopping[t] = "found" THEN "drop" ELSE "no"]
  /\ UNCHANGED <<attempts, lease, control, jobs, listed, exec, txn, history, detours,
                 marks>>

\* ... and deletes the bot's lease, whichever run holds it.
DropLease(t) ==
  /\ stopping[t] = "drop"
  /\ lease' = NoLease
  /\ stopping' = [stopping EXCEPT ![t] = "no"]
  /\ UNCHANGED <<row, attempts, control, jobs, listed, exec, txn, history, detours,
                 marks>>

\* clearThread locks the bot's thread row and reads the active runs ...
BeginClear ==
  /\ txn[BotThread].kind = "free"
  /\ Detour
  /\ txn' = [txn EXCEPT ![BotThread] =
       [kind |-> "clear", run |-> None, runs |-> ActiveOn(BotThread)]]
  /\ UNCHANGED <<row, attempts, lease, control, jobs, listed, exec, stopping,
                 history, marks>>

\* ... then cancels them by id, drops the bot's lease and empties the thread.
CommitClear ==
  LET gone == txn[BotThread].runs IN
  /\ txn[BotThread].kind = "clear"
  /\ row' = [r \in Runs |->
       IF r \in gone
       THEN [row[r] EXCEPT !.status = "cancelled", !.owner = None, !.live = FALSE,
                           !.task = "cancelled"]
       ELSE row[r]]
  /\ attempts' = [i \in DOMAIN attempts |->
       IF attempts[i].run \in gone /\ attempts[i].status = "running"
       THEN [attempts[i] EXCEPT !.status = "cancelled"] ELSE attempts[i]]
  /\ lease' = NoLease
  /\ history' = {h \in history : ThreadOf[h[1]] # BotThread}
  /\ marks' = marks \cup {<<r, "cleared">> :
                            r \in {q \in RunsOf(BotThread) : row'[q].status = "cancelled"}}
  /\ txn' = [txn EXCEPT ![BotThread] = Free]
  /\ UNCHANGED <<control, jobs, listed, exec, stopping, detours>>

\* The API process dies, or the database aborts the transaction (two of them may take
\* a thread's and a run's row in opposite orders).
ApiFails(t) ==
  /\ Detour
  /\ \/ /\ txn[t].kind \in {"send", "clear"}
        /\ txn' = [txn EXCEPT ![t] = Free] /\ stopping' = stopping
     \/ /\ stopping[t] # "no"
        /\ stopping' = [stopping EXCEPT ![t] = "no"] /\ txn' = txn
  /\ UNCHANGED <<row, attempts, lease, control, jobs, listed, exec, history, marks>>

-----------------------------------------------------------------------------
(* continueRun: claiming the run *)

SameFence(r) == row[r].fence
NextFence(r) == row[r].fence + 1

\* A job starts: the invocation reads the run and computes the next fence.
Claim(e, r) ==
  /\ exec[e].pc = "idle" /\ r \in jobs
  /\ jobs' = jobs \ {r}
  /\ exec' = IF row[r].status \notin Active THEN exec
             ELSE [exec EXCEPT ![e] =
                    [Idle EXCEPT !.pc = "claiming", !.run = r, !.fence = NextFence(r),
                       !.resume = row[r].status = "waiting_takeover" \/ row[r].handback,
                       !.handback = row[r].handback]]
  /\ UNCHANGED <<row, attempts, lease, control, listed, txn, stopping, history,
                 detours, marks>>

Leasable(r) ==
  \/ row[r].status \in {"queued", "waiting_input", "waiting_takeover"}
  \/ row[r].status \in {"leased", "running"} /\ ~row[r].live

\* The update that leases the run: its condition does not mention the fence read.
LeaseRun(e) ==
  LET r == exec[e].run IN
  /\ exec[e].pc = "claiming"
  /\ IF Leasable(r)
     THEN /\ row' = [row EXCEPT ![r].status = "leased", ![r].owner = WorkerOf[e],
                       ![r].fence = exec[e].fence, ![r].live = TRUE, ![r].handback = FALSE]
          /\ exec' = Goto(e, "leased")
     ELSE row' = row /\ exec' = Leave(e)
  /\ UNCHANGED <<attempts, lease, control, jobs, listed, txn, stopping, history,
                 detours, marks>>

\* The managed model is blocked: failBlockedManagedRun.
FailBlocked(e) ==
  LET r == exec[e].run IN
  /\ exec[e].pc = "leased" /\ Unlocked(r)
  /\ IF Owns(e, "leased")
     THEN /\ row' = [Released(r, "failed") EXCEPT ![r].task = "failed"]
          /\ history' = history \cup {<<r, "bot">>}
     ELSE UNCHANGED <<row, history>>
  /\ exec' = Leave(e)
  /\ UNCHANGED <<attempts, lease, control, jobs, listed, txn, stopping, detours, marks>>

\* The model cannot be resolved: releaseManagedModelPreflightLease, then the job
\* throws and is retried.
ReleasePreflight(e) ==
  LET r == exec[e].run IN
  /\ exec[e].pc = "leased" /\ Detour
  /\ row' = IF Owns(e, "leased") THEN Released(r, "queued") ELSE row
  /\ MayEnqueue(r)
  /\ exec' = Leave(e)
  /\ UNCHANGED <<attempts, lease, control, listed, txn, stopping, history, marks>>

StartRun(e) ==
  LET r == exec[e].run IN
  /\ exec[e].pc = "leased"
  /\ IF Owns(e, "leased")
     THEN row' = [row EXCEPT ![r].status = "running"] /\ exec' = Goto(e, "started")
     ELSE row' = row /\ exec' = Leave(e)
  /\ UNCHANGED <<attempts, lease, control, jobs, listed, txn, stopping, history,
                 detours, marks>>

\* The computer is being switched or suspended, or its lease is taken:
\* requeueComputerRun.
RequeueComputerRun(e) ==
  LET r == exec[e].run IN
  /\ \/ exec[e].pc = "started" /\ Detour
     \/ exec[e].pc = "busy" /\ UNCHANGED detours
  /\ IF Holds(e)
     THEN /\ row' = [Released(r, "queued") EXCEPT ![r].handback = exec[e].handback]
          /\ MayEnqueue(r)
     ELSE UNCHANGED <<row, jobs>>
  /\ exec' = Leave(e)
  /\ UNCHANGED <<attempts, lease, control, listed, txn, stopping, history, marks>>

ScreenFree(e) ==
  \/ lease.run = None
  \/ ~lease.live
  \/ exec[e].resume /\ lease.run = exec[e].run

\* acquireComputerExecutionLease takes an expired lease, or the run's own when it
\* resumes from a takeover, or creates the row.  It does not look at the run again.
AcquireComputer(e) ==
  LET fence == IF lease.run = None THEN 1 ELSE lease.fence + 1 IN
  /\ exec[e].pc = "started" /\ ScreenFree(e)
  /\ lease' = [run |-> exec[e].run, fence |-> fence, live |-> TRUE]
  /\ exec' = [exec EXCEPT ![e] = [@ EXCEPT !.pc = "acquired", !.screen = fence]]
  /\ UNCHANGED <<row, attempts, control, jobs, listed, txn, stopping, history, detours,
                 marks>>

\* It gives the lease back if the computer is being suspended by now, and so does
\* continueRun if it cannot create the attempt; the job is then retried.
ReturnComputer(e) ==
  /\ exec[e].pc = "acquired" /\ Detour
  /\ lease' = ScreenReleased(e)
  /\ \/ exec' = Goto(e, "busy") /\ jobs' = jobs
     \/ exec' = Leave(e) /\ MayEnqueue(exec[e].run)
  /\ UNCHANGED <<row, attempts, control, listed, txn, stopping, history, marks>>

WorkWithoutAttempt(e) ==
  /\ exec[e].pc = "acquired"
  /\ exec' = Goto(e, "active")
  /\ UNCHANGED <<row, attempts, lease, control, jobs, listed, txn, stopping, history,
                 detours, marks>>

CreateAttempt(e) ==
  /\ exec[e].pc = "acquired"
  /\ attempts' = Append(attempts, [run |-> exec[e].run, fence |-> exec[e].fence,
                                   status |-> "running"])
  /\ exec' = [exec EXCEPT ![e] = [@ EXCEPT !.pc = "active", !.attempt = Len(attempts) + 1]]
  /\ UNCHANGED <<row, lease, control, jobs, listed, txn, stopping, history, detours, marks>>

-----------------------------------------------------------------------------
(* continueRun: working *)

\* The heartbeat and the checks before a pause: renewRunLease.
RenewRun(e) ==
  LET r == exec[e].run IN
  /\ exec[e].pc \in Working
  /\ IF Holds(e)
     THEN /\ ~row[r].live
          /\ row' = [row EXCEPT ![r].live = TRUE]
          /\ exec' = exec
     ELSE /\ exec[e].valid
          /\ exec' = [exec EXCEPT ![e].valid = FALSE]
          /\ row' = row
  /\ UNCHANGED <<attempts, lease, control, jobs, listed, txn, stopping, history,
                 detours, marks>>

\* The other half of the heartbeat: renewComputerExecutionLease.
RenewScreen(e) ==
  /\ exec[e].pc \in Working
  /\ IF HasScreen(e)
     THEN /\ ~lease.live
          /\ lease' = [lease EXCEPT !.live = TRUE]
          /\ exec' = exec
     ELSE /\ exec[e].valid
          /\ exec' = [exec EXCEPT ![e].valid = FALSE]
          /\ lease' = lease
  /\ UNCHANGED <<row, attempts, control, jobs, listed, txn, stopping, history,
                 detours, marks>>

BeginPublishUnchecked(e) ==
  LET r == exec[e].run IN
  /\ exec[e].pc = "active" /\ Unlocked(r)
  /\ <<r, "bot">> \notin history
  /\ txn' = [txn EXCEPT ![ThreadOf[r]] = [kind |-> "publish", run |-> r, runs |-> {}]]
  /\ exec' = Goto(e, "publishing")
  /\ UNCHANGED <<row, attempts, lease, control, jobs, listed, stopping, history,
                 detours, marks>>

\* publishMessage takes the thread's row lock and then asserts that the run may still
\* write; the assertion does not lock the run, so a stop can slip in before the commit.
\* A refused message ends the invocation.  (One message per run: what a second one
\* would add, the properties do not see.)
BeginPublish(e) ==
  LET r == exec[e].run IN
  /\ exec[e].pc = "active" /\ Unlocked(r)
  /\ <<r, "bot">> \notin history
  /\ IF row[r].status = "cancelled"
     THEN txn' = txn /\ exec' = Goto(e, "cleanup")
     ELSE /\ txn' = [txn EXCEPT
               ![ThreadOf[r]] = [kind |-> "publish", run |-> r, runs |-> {}]]
          /\ exec' = Goto(e, "publishing")
  /\ UNCHANGED <<row, attempts, lease, control, jobs, listed, stopping, history,
                 detours, marks>>

CommitPublish(e) ==
  LET r == exec[e].run IN
  /\ exec[e].pc = "publishing"
  /\ history' = history \cup {<<r, "bot">>}
  /\ txn' = [txn EXCEPT ![ThreadOf[r]] = Free]
  /\ exec' = Goto(e, "active")
  /\ UNCHANGED <<row, attempts, lease, control, jobs, listed, stopping, detours, marks>>

EndAttempt(e, status) == [attempts EXCEPT ![exec[e].attempt].status = status]

\* pauseRunForInput; a pause the run or the attempt refuses ends the invocation.
PauseForInput(e) ==
  LET r == exec[e].run IN
  /\ exec[e].pc = "active" /\ Unlocked(r) /\ Detour
  /\ IF Holds(e) /\ AttemptRunning(e)
     THEN /\ row' = Released(r, "waiting_input")
          /\ attempts' = EndAttempt(e, "waiting_input")
          /\ history' = history \cup {<<r, "ask">>, <<r, "bot">>}
     ELSE UNCHANGED <<row, attempts, history>>
  /\ exec' = Goto(e, "cleanup")
  /\ UNCHANGED <<lease, control, jobs, listed, txn, stopping, marks>>

\* The takeover event takes the computer from any user.  (It renews the run's lease
\* first, but much may happen in between.)
TakeComputer(e) ==
  /\ exec[e].pc = "active" /\ Detour
  /\ control' = None
  /\ exec' = Goto(e, "taking")
  /\ UNCHANGED <<row, attempts, lease, jobs, listed, txn, stopping, history, marks>>

\* Then it keeps the computer lease for a day (holdComputerExecutionLeaseForTakeover).
\* Without a lease to keep it throws, and the run fails (Finish).
HoldScreen(e) ==
  /\ exec[e].pc = "taking" /\ HasScreen(e)
  /\ lease' = [lease EXCEPT !.live = TRUE]
  /\ exec' = Goto(e, "handing")
  /\ UNCHANGED <<row, attempts, control, jobs, listed, txn, stopping, history, detours,
                 marks>>

\* Only a committed pause sets retainComputerLease.
PauseForTakeover(e) ==
  LET r == exec[e].run IN
  /\ exec[e].pc = "handing" /\ Unlocked(r)
  /\ IF Holds(e) /\ AttemptRunning(e)
     THEN /\ row' = [Released(r, "waiting_takeover") EXCEPT ![r].handback = FALSE]
          /\ attempts' = EndAttempt(e, "waiting_takeover")
          /\ history' = history \cup {<<r, "bot">>}
          /\ exec' = [exec EXCEPT ![e] = [@ EXCEPT !.pc = "cleanup", !.retain = TRUE]]
     ELSE /\ UNCHANGED <<row, attempts, history>>
          /\ exec' = Goto(e, "cleanup")
  /\ UNCHANGED <<lease, control, jobs, listed, txn, stopping, detours, marks>>

\* finalizeRun, from the end of the work, the loop guard or the catch block.
Finish(e, outcome) ==
  LET r == exec[e].run IN
  /\ \/ exec[e].pc = "active"
     \/ exec[e].pc \in {"taking", "handing"} /\ outcome = "failed"
  /\ Unlocked(r)
  /\ IF Holds(e) /\ AttemptRunning(e)
     THEN /\ row' = [Released(r, outcome) EXCEPT ![r].task = outcome]
          /\ attempts' = EndAttempt(e, outcome)
          /\ history' = history \cup {<<r, "bot">>}
     ELSE UNCHANGED <<row, attempts, history>>
  /\ exec' = Goto(e, "cleanup")
  /\ UNCHANGED <<lease, control, jobs, listed, txn, stopping, detours, marks>>

SetupFailUnchecked(e) ==
  LET r == exec[e].run IN
  /\ exec[e].pc = "active" /\ Detour
  /\ IF row[r].status = "running"
     THEN /\ row' = [Released(r, "queued") EXCEPT ![r].handback = exec[e].handback]
          /\ exec' = Goto(e, "requeued")
     ELSE row' = row /\ exec' = Goto(e, "cleanup")
  /\ UNCHANGED <<attempts, lease, control, jobs, listed, txn, stopping, history, marks>>

\* The outer catch puts the run back in the queue when anything fails before or
\* beside the model's work ...
SetupFail(e) ==
  LET r == exec[e].run IN
  /\ exec[e].pc = "active" /\ Detour
  /\ IF Holds(e)
     THEN /\ row' = [Released(r, "queued") EXCEPT ![r].handback = exec[e].handback]
          /\ exec' = Goto(e, "requeued")
     ELSE row' = row /\ exec' = Goto(e, "cleanup")
  /\ UNCHANGED <<attempts, lease, control, jobs, listed, txn, stopping, history, marks>>

\* ... then ends the attempt, whatever became of the two since, and has the job run
\* again, by an enqueue or by throwing.
RecordSetupFailure(e) ==
  /\ exec[e].pc = "requeued"
  /\ attempts' = EndAttempt(e, "setup_failed")
  /\ MayEnqueue(exec[e].run)
  /\ exec' = Goto(e, "cleanup")
  /\ UNCHANGED <<row, lease, control, listed, txn, stopping, history, detours, marks>>

\* The event loop leaves once the heartbeat or its own look at the row says the run
\* is no longer this invocation's.
Abandon(e) ==
  /\ exec[e].pc = "active"
  /\ ~exec[e].valid \/ ~Holds(e)
  /\ exec' = Goto(e, "cleanup")
  /\ UNCHANGED <<row, attempts, lease, control, jobs, listed, txn, stopping, history,
                 detours, marks>>

\* The finally block releases the computer lease ...
ReleaseScreen(e) ==
  /\ exec[e].pc = "cleanup"
  /\ lease' = IF exec[e].retain THEN lease ELSE ScreenReleased(e)
  /\ exec' = Goto(e, "closing")
  /\ UNCHANGED <<row, attempts, control, jobs, listed, txn, stopping, history, detours,
                 marks>>

\* ... and closes an attempt nothing has ended.
CloseAttempt(e) ==
  /\ exec[e].pc = "closing"
  /\ attempts' = IF AttemptRunning(e) THEN EndAttempt(e, "interrupted") ELSE attempts
  /\ exec' = Leave(e)
  /\ UNCHANGED <<row, lease, control, jobs, listed, txn, stopping, history, detours, marks>>

-----------------------------------------------------------------------------
(* Failures, time and repair *)

\* The process dies, or throws outside the try block: its open transaction rolls
\* back and nothing else is cleaned up.
Crash(e) ==
  LET t == ThreadOf[exec[e].run] IN
  /\ exec[e].pc # "idle" /\ Detour
  /\ exec' = Leave(e)
  /\ txn' = IF exec[e].pc = "publishing" THEN [txn EXCEPT ![t] = Free] ELSE txn
  /\ UNCHANGED <<row, attempts, lease, control, jobs, listed, stopping, history, marks>>

\* Timing assumption: an invocation's read of the run and its leasing update, two
\* consecutive statements, are less than a lease (five minutes) apart, so a lease
\* granted after the read does not expire before the update.
ClaimsAbove(r, fence) ==
  \A e \in Execs : exec[e].pc = "claiming" /\ exec[e].run = r => exec[e].fence > fence
ClaimIsPrompt(r) == ClaimsAbove(r, row[r].fence)

\* The lease of an invocation that is gone expires by itself; that of a live one only
\* if its heartbeats, or its last statements, are late, which is a detour.
Expire(held) == IF held THEN Detour ELSE UNCHANGED detours

LeaseExpires(r) ==
  /\ row[r].status \in {"leased", "running"} /\ row[r].live
  /\ ClaimIsPrompt(r)
  /\ Expire(\E e \in Execs : /\ exec[e].pc \notin {"idle", "claiming"}
                              /\ exec[e].run = r /\ exec[e].fence = row[r].fence)
  /\ row' = [row EXCEPT ![r].live = FALSE]
  /\ UNCHANGED <<attempts, lease, control, jobs, listed, exec, txn, stopping, history,
                 marks>>

ScreenLeaseExpires ==
  /\ lease.run # None /\ lease.live
  /\ Expire(\E e \in Execs : exec[e].screen # 0 /\ HasScreen(e))
  /\ lease' = [lease EXCEPT !.live = FALSE]
  /\ UNCHANGED <<row, attempts, control, jobs, listed, exec, txn, stopping, history,
                 marks>>

LostQueued == {r \in Runs : row[r].status = "queued"}

\* The reconciler reads the runs that need a worker, and enqueues them later.
Lost == {r \in Runs : \/ row[r].status = "queued"
                      \/ row[r].status \in {"leased", "running"} /\ ~row[r].live}

ListRuns ==
  /\ listed = {} /\ Lost # {}
  /\ listed' = Lost
  /\ UNCHANGED <<row, attempts, lease, control, jobs, exec, txn, stopping, history,
                 detours, marks>>

Reconcile(r) ==
  /\ r \in listed
  /\ listed' = listed \ {r}
  /\ jobs' = jobs \cup {r}
  /\ UNCHANGED <<row, attempts, lease, control, exec, txn, stopping, history, detours,
                 marks>>

-----------------------------------------------------------------------------
(* The specification *)

User ==
  \/ BeginClear \/ CommitClear
  \/ \E t \in Threads : \/ CommitSend(t) \/ ReadActive(t) \/ StopRuns(t) \/ DropLease(t)
                        \/ ApiFails(t)
  \/ \E r \in Runs : \/ BeginSend(r) \/ Answer(r) \/ Retry(r)
                     \/ GrantControl(r) \/ ReleaseControl(r)

Claiming(e) ==
  \/ \E r \in Runs : Claim(e, r)
  \/ LeaseRun(e) \/ FailBlocked(e) \/ ReleasePreflight(e) \/ StartRun(e)
  \/ RequeueComputerRun(e) \/ AcquireComputer(e) \/ ReturnComputer(e) \/ CreateAttempt(e)

Work(e) ==
  \/ RenewRun(e) \/ RenewScreen(e)
  \/ BeginPublish(e) \/ CommitPublish(e)
  \/ PauseForInput(e) \/ TakeComputer(e) \/ HoldScreen(e) \/ PauseForTakeover(e)
  \/ \E outcome \in Outcome : Finish(e, outcome)
  \/ SetupFail(e) \/ RecordSetupFailure(e) \/ Abandon(e)
  \/ ReleaseScreen(e) \/ CloseAttempt(e)

Environment ==
  \/ \E e \in Execs : Crash(e)
  \/ \E r \in Runs : LeaseExpires(r) \/ Reconcile(r)
  \/ ScreenLeaseExpires \/ ListRuns

Next == User \/ (\E e \in Execs : Claiming(e) \/ Work(e)) \/ Environment

Spec == Init /\ [][Next]_vars

\* The invocation's next step, when it does not fail.
Step(e) ==
  \/ LeaseRun(e) \/ StartRun(e) \/ AcquireComputer(e) \/ CreateAttempt(e)
  \/ exec[e].pc = "busy" /\ RequeueComputerRun(e)
  \/ CommitPublish(e) \/ HoldScreen(e) \/ PauseForTakeover(e) \/ Abandon(e)
  \/ \E outcome \in Outcome : Finish(e, outcome)
  \/ RecordSetupFailure(e) \/ ReleaseScreen(e) \/ CloseAttempt(e)

\* Transactions end, started invocations go on, queued jobs find a slot (the queue is
\* first in, first out), leases run out, the reconciler polls.  Nothing is assumed of
\* the user, except that a control lease is released or expires.
Fairness ==
  /\ \A e \in Execs : WF_vars(Step(e))
  /\ \A t \in Threads : WF_vars(CommitSend(t))
  /\ WF_vars(CommitClear)
  /\ \A r \in Runs : /\ WF_vars(\E e \in Execs : Claim(e, r))
                     /\ WF_vars(LeaseExpires(r))
                     /\ WF_vars(Reconcile(r))
                     /\ WF_vars(ReleaseControl(r))
  /\ WF_vars(ScreenLeaseExpires)
  /\ WF_vars(ListRuns)

FairSpec == Spec /\ Fairness

-----------------------------------------------------------------------------
(* Properties *)

\* A run is completed by exactly one of its attempts: two workers never both complete
\* it, the clean-up of one never overwrites what the other recorded, and the run, its
\* attempt and its task agree.  (finalizeRun and the finally block of continueRun;
\* failures are not counted, a blocked run fails before it has an attempt and a failed
\* one may be retried.)
CompletedByOneAttempt ==
  \A r \in Runs :
    LET done == {i \in DOMAIN attempts :
                   attempts[i].run = r /\ attempts[i].status = "completed"}
    IN  /\ \A i, j \in done : i = j
        /\ done # {} <=> row[r].status = "completed"
        /\ row[r].status \in Outcome => row[r].task = row[r].status

\* The invocation believes it holds the run, and the database agrees.
Holder(e) ==
  \/ exec[e].pc = "leased" /\ Owns(e, "leased")
  \/ exec[e].pc \in {"started", "busy", "acquired"} \cup Working /\ Holds(e)

\* No two invocations hold one run, although the slots of a process share its worker
\* id, jobs are duplicated, and the fence an invocation leases with comes from a read
\* that others may have overtaken (continueRun, nextFence).
OneHolderPerRun ==
  \A e, f \in Execs : Holder(e) /\ Holder(f) /\ exec[e].run = exec[f].run => e = f

\* A run that can still produce history has its source message in the thread: a send
\* and a clear of one thread come one after the other (the order of the thread's row
\* lock, clearThread and sendThreadMessage).  Only a run an operator has put back may
\* have lost it: the retry neither asks whether its thread was cleared nor takes its lock.
ActiveRunHasItsMessage ==
  \A r \in Runs : row[r].status \in Active
                => <<r, "user">> \in history \/ <<r, "retried">> \in marks

\* Once a thread is cleared, nothing of the runs cancelled by then shows up in it
\* again, however long their workers go on (assertRunCanWriteHistory, under the row
\* lock; events.test.ts "does not persist output from a cancelled run after history
\* was cleared").
ClearedRunsStaySilent ==
  \A r \in Runs : <<r, "cleared">> \in marks
                => \A kind \in Kind : <<r, kind>> \notin history

\* A run that waits for an answer has a pending card the user can answer
\* (pauseRunForInput against answerRunInput, clearThread and stopThreadRuns).
PausedRunIsAnswerable ==
  \A r \in Runs : row[r].status = "waiting_input" => <<r, "ask">> \in history

\* Nothing brings a completed or cancelled run back, and only a retry a failed one:
\* not a job that read it earlier, not a worker that still believes it holds it, not
\* the reconciler, and no send that read it as queued (cancelSupersededQueuedRuns has
\* no status filter).  run-state.test.ts: "never leaves a terminal state except failed
\* retry".
SettledIsFinal ==
  [][\A r \in Runs :
       /\ row[r].status \in {"completed", "cancelled"} => row'[r].status = row[r].status
       /\ row[r].status = "failed" => row'[r].status \in {"failed", "queued"}]_vars

\* A run that is queued, leased or running is not left so: whatever crashed, and
\* whether or not its job was enqueued, it is settled or comes to wait for its user
\* (job-reconciler.ts, and the expiry of the leases a dead worker leaves).
Unfinished(r) == row[r].status \in {"queued", "leased", "running"}
UnfinishedRunIsServed == \A r \in Runs : Unfinished(r) ~> ~Unfinished(r)

-----------------------------------------------------------------------------
(* Why: the invariant the proofs rest on *)

LeasedOut == {"leased", "running"}
PastLeasing == {"leased", "started", "busy", "acquired"} \cup Working

\* A later invocation has leased the run, with a greater fence, and so will the next.
Superseded(e) ==
  LET r == exec[e].run IN
  row[r].fence > exec[e].fence /\ ClaimsAbove(r, exec[e].fence)

\* The row carries the fence of e and of no other invocation; once the lease has
\* expired, whoever takes it over comes with a greater one.
Current(e) ==
  LET r == exec[e].run IN
  /\ row[r].status \in LeasedOut /\ row[r].fence = exec[e].fence
  /\ row[r].live \/ ClaimsAbove(r, exec[e].fence)
  /\ \A f \in Execs : /\ exec[f].pc \in PastLeasing /\ exec[f].run = r
                       /\ exec[f].fence = exec[e].fence
                       => f = e

FencesOrderInvocations ==
  \A e \in Execs : exec[e].pc \in PastLeasing
                  => \/ row[exec[e].run].status = "cancelled"
                     \/ Superseded(e)
                     \/ Current(e)

InvocationsHaveRuns ==
  \A e \in Execs : exec[e].pc # "idle" => row[exec[e].run].status # "absent"

\* What a transaction read under its thread's row lock still holds when it commits: the
\* run it sends is new, and nothing has finished or failed a run it is to cancel.
LockedRunsStay ==
  \A t \in Threads :
    /\ txn[t].kind = "send" => /\ ThreadOf[txn[t].run] = t
                               /\ row[txn[t].run].status = "absent"
    /\ txn[t].kind \in {"send", "clear"} =>
         \A r \in txn[t].runs : /\ ThreadOf[r] = t
                                /\ row[r].status \notin {"absent", "completed", "failed"}

\* The fence decides which invocation holds a run and the thread's row lock decides
\* which runs a send or a clear may cancel (continueRun; sendThreadMessage, clearThread).
FencesAndLocks == FencesOrderInvocations /\ InvocationsHaveRuns /\ LockedRunsStay

-----------------------------------------------------------------------------
(* What the sources say, and the code does not do *)

\* docs/computer-runtime.md: "One bot still runs only one computer-use task on its own
\* screen."  A stop or a clear of one thread deletes the bot's lease even while a run
\* of another thread works under it, and the next run gets a new one.  (The fences are
\* compared to leave out a lease that ran out: its successor has a higher fence.)
OneTaskPerScreen ==
  \A e, f \in Execs :
    /\ exec[e].pc \in Working /\ Holds(e)
    /\ exec[f].pc \in Working /\ Holds(f)
    /\ exec[e].screen = exec[f].screen
    => e = f

-----------------------------------------------------------------------------
(* What the lease on a run promises *)

\* A run that waits for a worker or for its user is open.
Phase(r) ==
  CASE row[r].status = "absent"               -> "none"
    [] row[r].status \in Active \ LeasedOut   -> "open"
    [] row[r].status \in LeasedOut            -> "out"
    [] row[r].status \in Terminal             -> row[r].status

BelieversOf(r) == {e \in Execs : exec[e].pc \in PastLeasing /\ exec[e].run = r}
HoldersOf(r) == {e \in BelieversOf(r) : Holder(e)}
Lapsed(r) == row[r].status \in LeasedOut /\ ~row[r].live
CompletedBy(r) ==
  {i \in DOMAIN attempts : attempts[i].run = r /\ attempts[i].status = "completed"}

\* Every run keeps what HeldRun promises of it: of all the invocations that believe
\* they hold it one at most does, that one alone pauses, requeues, fails or completes
\* it, and a stale one leaves no trace (the conditional updates of continueRun,
\* finalizeRun, the two pauses and requeueComputerRun, which name owner and fence).
Promise(r) == INSTANCE HeldRun WITH
                phase     <- Phase(r),
                believers <- BelieversOf(r),
                holders   <- HoldersOf(r),
                lapsed    <- Lapsed(r),
                by        <- CompletedBy(r)

\* (The first disjunct spares TLC the steps of others.)
KeepsPromise ==
  /\ \A r \in Runs : Promise(r)!Init
  /\ [][\/ UNCHANGED <<row, attempts, exec>>
        \/ \A r \in Runs : [Promise(r)!Next]_(Promise(r)!vars)]_vars
=============================================================================
