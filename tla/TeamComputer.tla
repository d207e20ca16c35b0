----------------------------- MODULE TeamComputer -----------------------------
(***************************************************************************)
(* The Team Computer that several bots share: how it is booted, slept,     *)
(* stopped and replaced, by the workers of the bots' runs, by the requests *)
(* of the API and by the idle job, and what becomes of the workspace on    *)
(* it.  RunLifecycle has the runs of one bot in full; here a run is active *)
(* or it is not, and the leases and the machine are in full.               *)
(*                                                                         *)
(* Every statement on the database, and every call of the sandbox provider *)
(* or of the home store, is a step of its own.                             *)
(***************************************************************************)
EXTENDS Naturals, FiniteSets

CONSTANTS
  Bots,        \* the bots of the Team Computer
  Machines,    \* the machines the provider may create
  Scribes,     \* the bots whose work the model follows from disk to disk
  None,        \* SQL NULL
  MaxRequests, \* bound on the requests the API takes
  MaxFaults    \* bound on crashes, lost machines and failed provider calls

ASSUME ComputerConstantsOK ==
  /\ None \notin Machines
  /\ Scribes \subseteq Bots
  /\ MaxRequests \in Nat
  /\ MaxFaults \in Nat

VARIABLES
  row,      \* the computers row: its state and its providerRef
  touched,  \* the row was written since the idle job read it: updatedAt has moved
  lease,    \* each bot's computer_execution_leases row
  run,      \* each bot's run in one of ACTIVE_RUN_STATUSES, if it has one
  power,    \* the provider's machines
  disk,     \* the workspace on each machine: the bots whose work is on it
  home,     \* the workspace in the AgentHomeStore
  op,       \* the local state of every worker and every request
  sleep,    \* the local state of the idle job
  requests, \* requests taken so far
  faults    \* faults so far, and whether a worker or a request has died

vars == <<row, touched, lease, run, power, disk, home, op, sleep, requests, faults>>
machinery == <<power, disk, home>>

-----------------------------------------------------------------------------
(* Types *)

State == {"stopped", "booting", "running", "suspending", "suspended", "error"}
Row == [state : State, ref : Machines \cup {None}]

Lease == [by : {"none", "worker", "api"}, live : BOOLEAN]
NoLease == [by |-> "none", live |-> FALSE]

Run == {"none", "waiting", "held"}   \* held: a worker has leased it, or had

Callers == {"worker", "api"} \X Bots
Worker(b) == <<"worker", b>>
Api(b) == <<"api", b>>

Replacing == {"recover", "reset", "update"}
Mode == {"run", "boot", "stop"} \cup Replacing

Provisioning == {"looking", "waiting", "claiming", "starting", "preparing",
                 "activating", "undoing", "failing", "keeping", "reconnecting"}
Stopping == {"stop checking", "stop exporting", "stop saving", "stop powering",
             "stop failing", "stop ending"}
Taking == {"take checking", "take exporting", "take saving", "destroying",
           "clearing", "take failing"}
Using == {"working", "saving"}
Slow == {"starting", "preparing", "undoing", "take exporting", "take saving",
         "destroying", "reconnecting"}   \* calls of the provider a request may be in
PC == {"idle", "leasing", "checking", "stop claiming", "replacing", "take claiming",
       "saved", "leaving"} \cup Provisioning \cup Stopping \cup Taking \cup Using

Op == [pc    : PC,
       mode  : Mode,
       was   : State,                   \* the state a teardown has read
       old   : Machines \cup {None},    \* the providerRef it has read
       ref   : Machines \cup {None},    \* the machine it was given
       fresh : BOOLEAN,                 \* the provider created that machine for it
       snap  : SUBSET Scribes]             \* the workspace it has exported
Quiet == [pc |-> "idle", mode |-> "run", was |-> "stopped", old |-> None,
          ref |-> None, fresh |-> FALSE, snap |-> {}]

Sleeping == {"sleep checking", "sleep powering", "sleep ending"}
Sleep == [pc   : {"idle", "sleep exporting", "sleep saving", "sleep claiming"}
                   \cup Sleeping,
          ref  : Machines \cup {None},
          snap : SUBSET Scribes]
Awake == [pc |-> "idle", ref |-> None, snap |-> {}]

Given == {"preparing", "activating", "undoing", "keeping"} \cup Using
Named == {"stop exporting", "stop saving", "stop powering", "take exporting",
          "take saving", "destroying"}

\* Everything a variable may hold, and which steps have a machine to work on.
TypeOK ==
  /\ row \in Row
  /\ touched \in BOOLEAN
  /\ lease \in [Bots -> Lease]
  /\ run \in [Bots -> Run]
  /\ power \in [Machines -> {"on", "off", "gone"}]
  /\ disk \in [Machines -> SUBSET Scribes]
  /\ home \subseteq Scribes
  /\ op \in [Callers -> Op]
  /\ \A c \in Callers : op[c].pc \in Given => op[c].ref \in Machines
  /\ \A c \in Callers : op[c].pc \in Named => op[c].old \in Machines
  /\ sleep \in Sleep
  /\ sleep.pc # "idle" => sleep.ref \in Machines
  /\ requests \in 0..MaxRequests
  /\ faults \in [count : 0..MaxFaults, died : BOOLEAN]

-----------------------------------------------------------------------------
(* Helpers *)

Fault == faults.count < MaxFaults /\ faults' = [faults EXCEPT !.count = @ + 1]
Death == faults.count < MaxFaults /\ faults' = [count |-> faults.count + 1, died |-> TRUE]

Touch == touched' = (sleep.pc # "idle")   \* only the idle job ever looks
Set(r) == row' = r /\ Touch
SetState(s) == Set([row EXCEPT !.state = s])
SetStateIf(old, s) ==
  IF row.state = old THEN SetState(s) ELSE UNCHANGED <<row, touched>>
KeepRow == UNCHANGED <<row, touched>>

Go(c, pc) == op' = [op EXCEPT ![c].pc = pc]
At(c, pc) == op[c].pc = pc
Done(c) == op' = [op EXCEPT ![c] = Quiet]
\* It goes on, through with what it has read.
Turn(c, pc) == op' = [op EXCEPT ![c] = [Quiet EXCEPT !.pc = pc]]
Through(c) == Turn(c, "leaving")

Exists(m) == m # None /\ power[m] # "gone"
Running == row.state = "running" /\ row.ref # None

LeasesIgnored == TRUE
NoOtherLease(b) == \A o \in Bots \ {b} : ~lease[o].live
NoLeases == \A b \in Bots : ~lease[b].live
HasRun(b) == run[b] # "none"
NoRuns == \A b \in Bots : ~HasRun(b)

\* What an acquisition refuses, before it takes the lease and again after, and a stop.
NotLooking == FALSE
Suspending == row.state = "suspending"

Mine(c) == lease[c[2]].by = c[1]
NotDropped(c) == lease
Dropped(c) == IF Mine(c) THEN [lease EXCEPT ![c[2]] = NoLease] ELSE lease

\* Every call of the provider connects to the machine, which wakes it.
Wake(m) == power' = [power EXCEPT ![m] = "on"]
\* What stopping it comes to.
Off(m) == power' = [power EXCEPT ![m] = IF @ = "gone" THEN @ ELSE "off"]

\* A machine nothing refers to any more: what the provider creates is a new one.
Spare(m) ==
  /\ power[m] = "gone"
  /\ m # row.ref /\ m # sleep.ref
  /\ \A c \in Callers : m # op[c].ref /\ m # op[c].old

\* sandbox.provision: it wakes the machine it is asked for, or creates one.
Provisioned(c, m) ==
  LET old == op[c].old
  IN  /\ \/ Exists(old) /\ m = old /\ UNCHANGED disk
         \/ ~Exists(old) /\ Spare(m) /\ disk' = [disk EXCEPT ![m] = {}]
      /\ Wake(m)

ReadyAsRead(c, m) ==
  IF c[1] = "worker"
  THEN op' = [op EXCEPT ![c] = [Quiet EXCEPT !.pc = "working", !.ref = op[c].old]]
  ELSE Through(c)

\* The computer is there: a worker goes to work on it, a request has what it wanted.
Ready(c, m) ==
  IF c[1] = "worker"
  THEN op' = [op EXCEPT ![c] = [Quiet EXCEPT !.pc = "working", !.ref = m]]
  ELSE Through(c)

-----------------------------------------------------------------------------
(* Runs *)

Message(b) ==
  /\ ~HasRun(b)
  /\ run' = [run EXCEPT ![b] = "waiting"]
  /\ UNCHANGED <<row, touched, lease, machinery, op, sleep, requests, faults>>

\* The user stops the run; its worker goes on until it notices.
Cancel(b) ==
  /\ HasRun(b)
  /\ run' = [run EXCEPT ![b] = "none"]
  /\ UNCHANGED <<row, touched, lease, machinery, op, sleep, requests, faults>>

\* A worker has leased the run and starts; the first thing it reads is the state.
Begin(b) ==
  /\ At(Worker(b), "idle")
  /\ HasRun(b)
  /\ ~Suspending
  /\ run' = [run EXCEPT ![b] = "held"]
  /\ Go(Worker(b), "leasing")
  /\ UNCHANGED <<row, touched, lease, machinery, sleep, requests, faults>>

-----------------------------------------------------------------------------
(* Requests *)

Request(b, mode) ==
  /\ At(Api(b), "idle")
  /\ requests < MaxRequests
  /\ requests' = requests + 1
  /\ mode = "boot" => ~Running
  /\ mode # "stop" => ~Suspending
  /\ op' = [op EXCEPT ![Api(b)] =
              IF mode = "stop"
              THEN [Quiet EXCEPT !.pc = "stop claiming", !.mode = mode,
                                 !.was = row.state, !.old = row.ref]
              ELSE [Quiet EXCEPT !.pc = "leasing", !.mode = mode]]
  /\ UNCHANGED <<row, touched, lease, run, machinery, sleep, faults>>

-----------------------------------------------------------------------------
(* acquireComputerExecutionLease *)

TakeLease(c) ==
  /\ At(c, "leasing")
  /\ IF lease[c[2]].live
     THEN Done(c) /\ UNCHANGED lease
     ELSE /\ lease' = [lease EXCEPT ![c[2]] = [by |-> c[1], live |-> TRUE]]
          /\ Go(c, "checking")
  /\ UNCHANGED <<row, touched, run, machinery, sleep, requests, faults>>

CheckLease(c) ==
  /\ At(c, "checking")
  /\ IF Suspending
     THEN lease' = Dropped(c) /\ Done(c)
     ELSE /\ IF op[c].mode \in Replacing THEN Go(c, "replacing") ELSE Turn(c, "looking")
          /\ UNCHANGED lease
  /\ UNCHANGED <<row, touched, run, machinery, sleep, requests, faults>>

\* Five minutes pass and nobody has renewed it: its holder is dead, or it is the lease
\* of a request, which is never renewed, and the request is in a call of the provider.
Expire(b) ==
  /\ lease[b].live
  /\ \/ At(<<lease[b].by, b>>, "idle")
     \/ lease[b].by = "api" /\ op[Api(b)].pc \in Slow
  /\ lease' = [lease EXCEPT ![b].live = FALSE]
  /\ UNCHANGED <<row, touched, run, machinery, op, sleep, requests, faults>>

\* The finally of a run and of a request.  A run that has not ended is queued again.
Leave(c) ==
  /\ At(c, "leaving")
  /\ lease' = Dropped(c)
  /\ Done(c)
  /\ UNCHANGED <<row, touched, run, machinery, sleep, requests, faults>>

-----------------------------------------------------------------------------
(* provisionComputer *)

Proceed(c) ==
  op' = [op EXCEPT ![c].old = row.ref,
                   ![c].pc = IF Running THEN "reconnecting" ELSE "claiming"]

Look(c) ==
  /\ At(c, "looking")
  /\ IF ~Running /\ row.state \in {"booting", "suspending"}
     THEN Go(c, "waiting") ELSE Proceed(c)
  /\ UNCHANGED <<row, touched, lease, run, machinery, sleep, requests, faults>>

\* The computer is ready, or it has changed, or the patience of 10 seconds is over.
Wait(c) ==
  /\ At(c, "waiting")
  /\ Proceed(c)
  /\ UNCHANGED <<row, touched, lease, run, machinery, sleep, requests, faults>>

Claim(c) ==
  /\ At(c, "claiming")
  /\ IF row.state \in {"stopped", "suspended", "error"}
     THEN SetState("booting") /\ Go(c, "starting")
     ELSE Through(c) /\ KeepRow
  /\ UNCHANGED <<lease, run, machinery, sleep, requests, faults>>

Start(c) ==
  /\ At(c, "starting")
  /\ \E m \in Machines :
       /\ Provisioned(c, m)
       /\ op' = [op EXCEPT ![c].pc = "preparing", ![c].ref = m,
                           ![c].fresh = ~Exists(op[c].old)]
  /\ UNCHANGED <<row, touched, lease, run, home, sleep, requests, faults>>

\* Prepare the machine and, when it is not the one the row named, import the workspace.
Prepare(c) ==
  /\ At(c, "preparing")
  /\ Exists(op[c].ref)
  /\ disk' = IF op[c].fresh \/ op[c].old # op[c].ref
             THEN [disk EXCEPT ![op[c].ref] = home] ELSE disk
  /\ Go(c, "activating")
  /\ UNCHANGED <<row, touched, lease, run, power, home, sleep, requests, faults>>

Activate(c) ==
  /\ At(c, "activating")
  /\ IF row.state = "booting"
     THEN Set([state |-> "running", ref |-> op[c].ref]) /\ Ready(c, op[c].ref)
     ELSE Go(c, "undoing") /\ KeepRow
  /\ UNCHANGED <<lease, run, machinery, sleep, requests, faults>>

BootFails(c) ==
  /\ \/ At(c, "starting") /\ Go(c, "failing")
     \/ At(c, "preparing") /\ Go(c, "undoing")
  /\ \/ Fault
     \/ At(c, "preparing") /\ ~Exists(op[c].ref) /\ UNCHANGED faults
  /\ UNCHANGED <<row, touched, lease, run, machinery, sleep, requests>>

\* rollbackProvisionedComputer.  The destroy that follows a stop that failed, when the
\* boot was refused, comes to a machine that gets lost (Lose) and then a stop.
Undo(c) ==
  /\ At(c, "undoing")
  /\ \/ /\ IF op[c].fresh THEN power' = [power EXCEPT ![op[c].ref] = "gone"]
                           ELSE Off(op[c].ref)
        /\ Go(c, "failing")
        /\ UNCHANGED faults
     \/ Fault /\ Go(c, "keeping") /\ UNCHANGED power
  /\ UNCHANGED <<row, touched, lease, run, disk, home, sleep, requests>>

Fail(c) ==
  /\ op[c].pc \in {"failing", "keeping"}
  /\ IF row.state # "booting" THEN KeepRow
     ELSE IF At(c, "keeping") THEN Set([state |-> "error", ref |-> op[c].ref])
     ELSE SetState("error")
  /\ Through(c)
  /\ UNCHANGED <<lease, run, machinery, sleep, requests, faults>>

\* reconnectComputer: the row says the computer is running, so nothing is imported
\* and the row keeps its providerRef.
Reconnect(c) ==
  /\ At(c, "reconnecting")
  /\ \E m \in Machines : Provisioned(c, m) /\ Ready(c, m)
  /\ UNCHANGED <<row, touched, lease, run, home, sleep, requests, faults>>

-----------------------------------------------------------------------------
(* The worker uses the machine, checkpoints it and ends the run *)

Work(b) ==
  LET c == Worker(b)
  IN  /\ At(c, "working")
      /\ Exists(op[c].ref)
      /\ Wake(op[c].ref)
      /\ disk' = [disk EXCEPT ![op[c].ref] = @ \cup ({b} \cap Scribes)]
      /\ UNCHANGED <<row, touched, lease, run, home, op, sleep, requests, faults>>

Export(b) ==
  LET c == Worker(b)
  IN  /\ At(c, "working")
      /\ Exists(op[c].ref)
      /\ Wake(op[c].ref)
      /\ op' = [op EXCEPT ![c].pc = "saving", ![c].snap = disk[op[c].ref]]
      /\ UNCHANGED <<row, touched, lease, run, disk, home, sleep, requests, faults>>

\* AgentHomeStore.commit puts the exported copy in the place of the stored one.
Save(b) ==
  LET c == Worker(b)
  IN  /\ At(c, "saving")
      /\ home' = op[c].snap
      /\ Touch
      /\ Turn(c, "saved")
      /\ UNCHANGED <<row, lease, run, power, disk, sleep, requests, faults>>

\* The run fails and its checkpoint with it, which the code swallows.
Falter(b) ==
  LET c == Worker(b)
  IN  /\ At(c, "working")
      /\ \/ ~Exists(op[c].ref) /\ UNCHANGED faults
         \/ Fault
      /\ Turn(c, "saved")
      /\ UNCHANGED <<row, touched, lease, run, machinery, sleep, requests>>

Finish(b) ==
  LET c == Worker(b)
  IN  /\ At(c, "saved")
      /\ run' = [run EXCEPT ![b] = IF @ = "held" THEN "none" ELSE @]
      /\ Through(c)
      /\ UNCHANGED <<row, touched, lease, machinery, sleep, requests, faults>>

-----------------------------------------------------------------------------
(* computer.stop *)

StopClaim(b) ==
  LET c == Api(b)
  IN  /\ At(c, "stop claiming")
      /\ IF ~Suspending /\ NoOtherLease(b)
         THEN SetState("suspending") /\ Go(c, "stop checking")
         ELSE Done(c) /\ KeepRow
      /\ UNCHANGED <<lease, run, machinery, sleep, requests, faults>>

StopCheck(b) ==
  LET c == Api(b)
  IN  /\ At(c, "stop checking")
      /\ IF \E o \in Bots \ {b} : HasRun(o)
         THEN SetStateIf("suspending", op[c].was) /\ Done(c) /\ UNCHANGED lease
         ELSE /\ lease' = [lease EXCEPT ![b] = NoLease]
              /\ Go(c, IF op[c].old = None THEN "stop ending" ELSE "stop exporting")
              /\ KeepRow
      /\ UNCHANGED <<run, machinery, sleep, requests, faults>>

StopExport(b) ==
  LET c == Api(b)
  IN  /\ At(c, "stop exporting")
      /\ Exists(op[c].old)
      /\ Wake(op[c].old)
      /\ op' = [op EXCEPT ![c].pc = "stop saving", ![c].snap = disk[op[c].old]]
      /\ UNCHANGED <<row, touched, lease, run, disk, home, sleep, requests, faults>>

StopSave(b) ==
  LET c == Api(b)
  IN  /\ At(c, "stop saving")
      /\ home' = op[c].snap
      /\ Touch
      /\ op' = [op EXCEPT ![c].pc = "stop powering", ![c].snap = {}]
      /\ UNCHANGED <<row, lease, run, power, disk, sleep, requests, faults>>

StopPower(b) ==
  LET c == Api(b)
  IN  /\ At(c, "stop powering")
      /\ Off(op[c].old)
      /\ Go(c, "stop ending")
      /\ UNCHANGED <<row, touched, lease, run, disk, home, sleep, requests, faults>>

StopBreaks(b) ==
  LET c == Api(b)
  IN  /\ op[c].pc \in {"stop exporting", "stop powering"}
      /\ \/ ~Exists(op[c].old) /\ UNCHANGED faults
         \/ Fault
      /\ Go(c, "stop failing")
      /\ UNCHANGED <<row, touched, lease, run, machinery, sleep, requests>>

StopEnd(b) ==
  LET c == Api(b)
  IN  /\ \/ At(c, "stop ending") /\ SetState("stopped")
         \/ At(c, "stop failing") /\ SetStateIf("suspending", "error")
      /\ Done(c)
      /\ UNCHANGED <<lease, run, machinery, sleep, requests, faults>>

-----------------------------------------------------------------------------
(* replaceComputer: recover, reset and update *)

TakeLook(b) ==
  LET c == Api(b)
  IN  /\ At(c, "replacing")
      /\ IF row.state \in {"booting", "suspending"} THEN Through(c)
         ELSE op' = [op EXCEPT ![c].pc = "take claiming", ![c].was = row.state,
                               ![c].old = row.ref]
      /\ UNCHANGED <<row, touched, lease, run, machinery, sleep, requests, faults>>

TakeClaim(b) ==
  LET c == Api(b)
  IN  /\ At(c, "take claiming")
      /\ IF row.state = op[c].was /\ NoOtherLease(b)
         THEN SetState("suspending") /\ Go(c, "take checking")
         ELSE Through(c) /\ KeepRow
      /\ UNCHANGED <<lease, run, machinery, sleep, requests, faults>>

\* Only a computer that was running is checkpointed, and only when the home is kept.
TakeCheck(b) ==
  LET c == Api(b)
  IN  /\ At(c, "take checking")
      /\ IF ~NoRuns
         THEN SetStateIf("suspending", op[c].was) /\ Through(c)
         ELSE /\ Go(c, IF op[c].old = None THEN "clearing"
                       ELSE IF op[c].was = "running" /\ op[c].mode # "reset"
                       THEN "take exporting" ELSE "destroying")
              /\ KeepRow
      /\ UNCHANGED <<lease, run, machinery, sleep, requests, faults>>

TakeExport(b) ==
  LET c == Api(b)
  IN  /\ At(c, "take exporting")
      /\ Exists(op[c].old)
      /\ Wake(op[c].old)
      /\ op' = [op EXCEPT ![c].pc = "take saving", ![c].snap = disk[op[c].old]]
      /\ UNCHANGED <<row, touched, lease, run, disk, home, sleep, requests, faults>>

TakeSave(b) ==
  LET c == Api(b)
  IN  /\ At(c, "take saving")
      /\ home' = op[c].snap
      /\ Touch
      /\ op' = [op EXCEPT ![c].pc = "destroying", ![c].snap = {}]
      /\ UNCHANGED <<row, lease, run, power, disk, sleep, requests, faults>>

Destroy(b) ==
  LET c == Api(b)
  IN  /\ At(c, "destroying")
      /\ power' = [power EXCEPT ![op[c].old] = "gone"]
      /\ Go(c, "clearing")
      /\ UNCHANGED <<row, touched, lease, run, disk, home, sleep, requests, faults>>

\* A missing machine cannot be checkpointed and need not be; any other failure of the
\* provider is ignored when recovering and otherwise ends the replacement.
TakeBreaks(b) ==
  LET c == Api(b)
      next == IF At(c, "take exporting") THEN "destroying" ELSE "clearing"
  IN  /\ op[c].pc \in {"take exporting", "destroying"}
      /\ \/ /\ At(c, "take exporting") /\ ~Exists(op[c].old)
            /\ Go(c, next)
            /\ UNCHANGED faults
         \/ /\ Exists(op[c].old)
            /\ Fault
            /\ Go(c, IF op[c].mode = "recover" THEN next ELSE "take failing")
      /\ UNCHANGED <<row, touched, lease, run, machinery, sleep, requests>>

TakeEnd(b) ==
  LET c == Api(b)
  IN  /\ \/ /\ At(c, "clearing")
            /\ Set([state |-> "stopped", ref |-> None])
            /\ Turn(c, "looking")
         \/ At(c, "take failing") /\ SetState("error") /\ Through(c)
      /\ UNCHANGED <<lease, run, machinery, sleep, requests, faults>>

-----------------------------------------------------------------------------
(* sleepComputerIfIdle *)

SleepLook ==
  /\ sleep.pc = "idle"
  /\ Running
  /\ NoRuns
  /\ sleep' = [Awake EXCEPT !.pc = "sleep exporting", !.ref = row.ref]
  /\ touched' = FALSE
  /\ UNCHANGED <<row, lease, run, machinery, op, requests, faults>>

SleepExport ==
  /\ sleep.pc = "sleep exporting"
  /\ IF Exists(sleep.ref)
     THEN /\ Wake(sleep.ref)
          /\ sleep' = [sleep EXCEPT !.pc = "sleep saving", !.snap = disk[sleep.ref]]
     ELSE sleep' = Awake /\ UNCHANGED power
  /\ UNCHANGED <<row, touched, lease, run, disk, home, op, requests, faults>>

SleepSave ==
  /\ sleep.pc = "sleep saving"
  /\ home' = sleep.snap
  /\ sleep' = [sleep EXCEPT !.pc = "sleep claiming", !.snap = {}]
  /\ UNCHANGED <<row, touched, lease, run, power, disk, op, requests, faults>>

SleepClaim ==
  /\ sleep.pc = "sleep claiming"
  /\ IF Running /\ row.ref = sleep.ref /\ ~touched /\ NoLeases
     THEN /\ row' = [row EXCEPT !.state = "suspending"]
          /\ sleep' = [sleep EXCEPT !.pc = "sleep checking"]
     ELSE sleep' = Awake /\ UNCHANGED row
  /\ UNCHANGED <<touched, lease, run, machinery, op, requests, faults>>

SleepCheck ==
  /\ sleep.pc = "sleep checking"
  /\ IF ~NoRuns \/ row # [state |-> "suspending", ref |-> sleep.ref] \/ touched
     THEN SetStateIf("suspending", "running") /\ sleep' = Awake
     ELSE sleep' = [sleep EXCEPT !.pc = "sleep powering"] /\ KeepRow
  /\ UNCHANGED <<lease, run, machinery, op, requests, faults>>

SleepPower ==
  /\ sleep.pc = "sleep powering"
  /\ Off(sleep.ref)
  /\ sleep' = [sleep EXCEPT !.pc = "sleep ending"]
  /\ UNCHANGED <<row, touched, lease, run, disk, home, op, requests, faults>>

SleepBreaks ==
  /\ sleep.pc = "sleep powering"
  /\ \/ ~Exists(sleep.ref) /\ UNCHANGED faults
     \/ Fault
  /\ SetStateIf("suspending", "running")
  /\ sleep' = Awake
  /\ UNCHANGED <<lease, run, machinery, op, requests>>

SleepEnd ==
  /\ sleep.pc = "sleep ending"
  /\ SetState("suspended")
  /\ sleep' = Awake
  /\ UNCHANGED <<lease, run, machinery, op, requests, faults>>

-----------------------------------------------------------------------------
(* Faults *)

\* The process of a worker, of a request or of the idle job dies.
Crash(c) ==
  /\ ~At(c, "idle")
  /\ Death
  /\ Done(c)
  /\ UNCHANGED <<row, touched, lease, run, machinery, sleep, requests>>

SleepCrash ==
  /\ sleep.pc # "idle"
  /\ Fault
  /\ sleep' = Awake
  /\ UNCHANGED <<row, touched, lease, run, machinery, op, requests>>

\* The provider loses a machine.
Lose(m) ==
  /\ power[m] # "gone"
  /\ Fault
  /\ power' = [power EXCEPT ![m] = "gone"]
  /\ UNCHANGED <<row, touched, lease, run, disk, home, op, sleep, requests>>

-----------------------------------------------------------------------------

Init ==
  /\ row = [state |-> "stopped", ref |-> None]
  /\ touched = FALSE
  /\ lease = [b \in Bots |-> NoLease]
  /\ run = [b \in Bots |-> "none"]
  /\ power = [m \in Machines |-> "gone"]
  /\ disk = [m \in Machines |-> {}]
  /\ home = {}
  /\ op = [c \in Callers |-> Quiet]
  /\ sleep = Awake
  /\ requests = 0
  /\ faults = [count |-> 0, died |-> FALSE]

BootStep(c) ==
  \/ Look(c) \/ Wait(c) \/ Claim(c) \/ Start(c) \/ Prepare(c) \/ Activate(c)
  \/ BootFails(c) \/ Undo(c) \/ Fail(c) \/ Reconnect(c)
LeaseStep(c) == TakeLease(c) \/ CheckLease(c) \/ Leave(c)
WorkStep(b) == Work(b) \/ Export(b) \/ Save(b) \/ Falter(b) \/ Finish(b)
StopStep(b) ==
  StopClaim(b) \/ StopCheck(b) \/ StopExport(b) \/ StopSave(b) \/ StopPower(b)
    \/ StopBreaks(b) \/ StopEnd(b)
TakeStep(b) ==
  TakeLook(b) \/ TakeClaim(b) \/ TakeCheck(b) \/ TakeExport(b) \/ TakeSave(b)
    \/ Destroy(b) \/ TakeBreaks(b) \/ TakeEnd(b)
SleepStep ==
  SleepLook \/ SleepExport \/ SleepSave \/ SleepClaim \/ SleepCheck \/ SleepPower
    \/ SleepBreaks \/ SleepEnd \/ SleepCrash

Next ==
  \/ \E c \in Callers : LeaseStep(c) \/ BootStep(c) \/ Crash(c)
  \/ \E b \in Bots :
       \/ Message(b) \/ Cancel(b) \/ Begin(b) \/ Expire(b)
       \/ \E mode \in Mode \ {"run"} : Request(b, mode)
       \/ WorkStep(b) \/ StopStep(b) \/ TakeStep(b)
  \/ SleepStep
  \/ \E m \in Machines : Lose(m)

Spec == Init /\ [][Next]_vars

-----------------------------------------------------------------------------
(* Properties *)

Tearing(c) == op[c].pc \in Stopping \cup Taking
Holds(b) ==
  op[Worker(b)].pc \in Using /\ lease[b] = [by |-> "worker", live |-> TRUE]
TurnedOff(m) == power[m] = "on" /\ power'[m] # "on" /\ UNCHANGED faults

\* Teardowns serialize: of all stops, replacements and sleeps at most one is past its
\* claim, and the row says "suspending" for as long as it is, whatever the boots and
\* the other claims that run into it write.
OneTeardown ==
  /\ \A c, d \in Callers : Tearing(c) /\ Tearing(d) => c = d
  /\ sleep.pc \in Sleeping => \A c \in Callers : ~Tearing(c)
  /\ (sleep.pc \in Sleeping \/ \E c \in Callers : Tearing(c)) => row.state = "suspending"

\* A lease that is live has a holder that lives: whatever way a run or a request
\* ends, refused by a teardown it raced with, failed by the provider or rolled back,
\* it returns its lease, unless its process has died.
LeasesAreReturned ==
  \A b \in Bots : lease[b].live /\ At(<<lease[b].by, b>>, "idle") => faults.died

\* No sleep, stop or replacement ever turns off the machine that a bot works on under
\* its computer lease, although each of them looks at leases and runs only once, before
\* long calls of the provider.  The exception is the roll-back of a boot.
SparesWorkers ==
  [][\A b \in Bots :
       Holds(b) /\ TurnedOff(op[Worker(b)].ref) =>
         \E c \in Callers : At(c, "undoing") /\ op'[c] # op[c]]_vars

\* What docs/computer-runtime.md says of new and replacement machines: they import the
\* latest stored workspace before a bot uses them.
WorkspaceBeforeUse ==
  [][\A b \in Bots : LET c == Worker(b) IN
       ~At(c, "working") /\ op'[c].pc = "working" => home \subseteq disk'[op'[c].ref]]_vars

\* What the same document says of checkpoints, that they are serialized per computer:
\* none puts an older copy of the workspace in the place of a newer one.
StoredWorkKept == [][home \subseteq home']_vars

=============================================================================
