---------------------- MODULE WorkspaceCancellation ----------------------
(***************************************************************************)
(* The cancellation of one managed BrandWell workspace                     *)
(* (packages/brandwell/src/cancellation.ts, prisma-cancellation.ts).       *)
(*                                                                         *)
(* An operator's request runs the immediate actions in order and then      *)
(* schedules the retention clean-up; the maintenance loop of each worker   *)
(* finds the clean-up once it is due and runs the destructive actions.     *)
(* Every action, and the clean-up as a whole, has a row of                 *)
(* brandwell_cancellation_events that is claimed under a lease of five     *)
(* minutes, completed, or failed and claimed again.                        *)
(*                                                                         *)
(* Requests and workers interleave between any two calls of the database   *)
(* or of a provider; each may fail at any of them or die.  A lease runs    *)
(* out when its holder is dead, or (overran) while it still works.  Days   *)
(* of retention are ticks of a clock.                                      *)
(***************************************************************************)
EXTENDS Integers, FiniteSets, Sequences

CONSTANTS
    Requests,       \* operators' requests to cancel, in the API
    Workers,        \* the worker processes' maintenance loops
    Retention,      \* the policy's retention period
    MaxClock,       \* bound on time
    MaxCancels,     \* bound on the requests to cancel
    MaxFaults,      \* bound on failed calls and deaths
    MaxOverruns     \* bound on leases that run out under a living holder

ASSUME ConstantsOK ==
    /\ Requests \cap Workers = {}
    /\ {Retention, MaxClock, MaxCancels, MaxFaults, MaxOverruns} \subseteq Nat

Actors == Requests \cup Workers

\* buildCancellationLifecycle, for a policy that deletes after retention.
Immediate == << "mark_canceling", "pause_routines", "block_new_runs",
                "disable_openrouter", "suspend_computer" >>
SecretsFirst == << "delete_secrets", "delete_openrouter",
                   "revoke_connectors", "destroy_computer",
                   "archive_workspace" >>
AfterRetention == << "delete_openrouter", "revoke_connectors",
                     "destroy_computer", "delete_secrets",
                     "archive_workspace" >>

First == {Immediate[i] : i \in 1..5}
Destructive == {AfterRetention[i] : i \in 1..5}
Actions == First \cup Destructive
Cleanup == "retention_cleanup"
Stages == Actions \cup {Cleanup}

\* The actions that also call a provider, before they write the database.
AtProvider == {"disable_openrouter", "suspend_computer",
               "delete_openrouter", "destroy_computer"}
---------------------------------------------------------------------------
VARIABLES
    clock,
    status,     \* of the event of every stage
    executed,   \* stages whose executedAt is set
    lapsed,     \* running stages whose lease has run out
    deadline,   \* scheduledAt of the clean-up
    job,        \* what each request or worker is doing
    called,     \* actions the provider has carried out
    stored,     \* actions whose effect the database has
    cancels, faults,
    overran,    \* stages whose lease ran out under a living holder
    promised    \* every deadline that was ever scheduled

rows == <<status, executed, lapsed>>
world == <<called, stored>>
bounds == <<clock, cancels, faults, overran>>
vars == <<rows, deadline, job, world, bounds, promised>>

Steps == {"idle", "open", "claim", "reread", "call", "store", "finish",
          "schedule", "take", "close", "give_up"}
Acting == {"call", "store", "finish"}
Idle == [pc |-> "idle", at |-> 0, next |-> 1]

Init ==
    /\ clock = 0
    /\ status = [s \in Stages |-> "none"] /\ executed = {} /\ lapsed = {}
    /\ deadline = 0
    /\ job = [p \in Actors |-> Idle]
    /\ called = {} /\ stored = {}
    /\ cancels = 0 /\ faults = 0
    /\ overran = {} /\ promised = {}

\* The list an actor goes through, and the action it has reached.
Todo(p) == IF p \in Workers THEN AfterRetention ELSE Immediate
Action(p) == Todo(p)[job[p].next]

\* completed(action): the status alone is not enough.
Completed(s) == status[s] = "completed" /\ s \in executed

ClaimableRunning(s) ==
    s \notin executed /\ status[s] \in {"pending", "failed", "running"}

ClaimableOnce(s) ==
    /\ s \notin executed
    /\ \/ status[s] = "pending"
       \/ status[s] = "running" /\ s \in lapsed

\* The condition under which claimCancellationEvent's update matches.
Claimable(s) ==
    /\ s \notin executed
    /\ \/ status[s] \in {"pending", "failed"}
       \/ status[s] = "running" /\ s \in lapsed

\* A row's new status; a lease ends or begins with each of them.
Becomes(s, new) ==
    /\ status' = [status EXCEPT ![s] = new]
    /\ lapsed' = lapsed \ {s}

Claimed(s) == Becomes(s, "running") /\ UNCHANGED executed

\* The update that completes a stage does not look at who holds it.
Done(s) == Becomes(s, "completed") /\ executed' = executed \cup {s}

\* failCancellationEvent does not either, and leaves executedAt as it is.
Failed(s) == Becomes(s, "failed") /\ UNCHANGED executed

Goto(p, pc) == job' = [job EXCEPT ![p].pc = pc]

AdvancePastEnd(p) ==
    job' = [job EXCEPT ![p] =
        IF @.next <= Len(Todo(p))
        THEN [@ EXCEPT !.pc = "open", !.next = job[p].next + 1]
        ELSE [@ EXCEPT !.pc = IF p \in Workers THEN "close" ELSE "schedule"]]

\* The next action of the list, or what follows the last one.
Advance(p) ==
    job' = [job EXCEPT ![p] =
        IF @.next < Len(Todo(p))
        THEN [@ EXCEPT !.pc = "open", !.next = job[p].next + 1]
        ELSE [@ EXCEPT !.pc = IF p \in Workers THEN "close" ELSE "schedule"]]

\* An error leaves the request; the worker's loop catches it.
Throw(p) ==
    job' = [job EXCEPT ![p] =
        IF p \in Workers THEN [@ EXCEPT !.pc = "give_up"] ELSE Idle]

(***************************************************************************)
(* A request and the actions it shares with the clean-up.                  *)
(***************************************************************************)

\* cancelBrandwellWorkspaceWithPrisma: the time is read once, at the start.
Cancel(p) ==
    /\ p \in Requests /\ job[p].pc = "idle"
    /\ cancels < MaxCancels
    /\ cancels' = cancels + 1
    /\ job' = [job EXCEPT ![p] = [pc |-> "open", at |-> clock, next |-> 1]]
    /\ UNCHANGED <<clock, rows, deadline, world, faults, overran, promised>>

\* completed(), and then execute()'s upsert of the row, which looks again.
Open(p) ==
    /\ job[p].pc = "open"
    /\ \/ /\ Completed(Action(p))
          /\ Advance(p)
          /\ UNCHANGED rows
       \/ /\ ~Completed(Action(p))
          /\ IF status[Action(p)] = "none"
             THEN Becomes(Action(p), "pending") /\ UNCHANGED executed
             ELSE UNCHANGED rows
          /\ Goto(p, "claim")
    /\ UNCHANGED <<deadline, world, bounds, promised>>

ClaimAction(p) ==
    /\ job[p].pc = "claim"
    /\ \/ /\ Claimable(Action(p))
          /\ Claimed(Action(p))
          /\ Goto(p, IF Action(p) \in AtProvider THEN "call" ELSE "store")
       \/ /\ ~Claimable(Action(p))
          /\ Goto(p, "reread")
          /\ UNCHANGED rows
    /\ UNCHANGED <<deadline, world, bounds, promised>>

RereadTrusting(p) ==
    /\ job[p].pc = "reread"
    /\ Advance(p)
    /\ UNCHANGED <<rows, deadline, world, bounds, promised>>

RereadFailing(p) ==
    /\ job[p].pc = "reread"
    /\ IF status[Action(p)] = "completed"
       THEN Advance(p) /\ UNCHANGED rows ELSE Throw(p) /\ Failed(Action(p))
    /\ UNCHANGED <<deadline, world, bounds, promised>>

\* The claim matched nothing: done by somebody else, or an error.  This look
\* reads the status alone.
Reread(p) ==
    /\ job[p].pc = "reread"
    /\ IF status[Action(p)] = "completed" THEN Advance(p) ELSE Throw(p)
    /\ UNCHANGED <<rows, deadline, world, bounds, promised>>

\* What the database still names: the keys until delete_secrets, the machine
\* until destroy_computer.
Named(a) ==
    IF a \in {"disable_openrouter", "delete_openrouter"}
    THEN "delete_secrets" \notin stored ELSE "destroy_computer" \notin stored

\* executePrismaCancellationAction: the provider is asked about each key or
\* machine the database names.
Call(p) ==
    /\ job[p].pc = "call"
    /\ called' = called \cup {a \in {Action(p)} : Named(a)}
    /\ Goto(p, "store")
    /\ UNCHANGED <<rows, deadline, stored, bounds, promised>>

\* ...and then the database is written; delete_openrouter writes nothing.
Store(p) ==
    /\ job[p].pc = "store"
    /\ stored' = stored \cup ({Action(p)} \ {"delete_openrouter"})
    /\ Goto(p, "finish")
    /\ UNCHANGED <<rows, deadline, called, bounds, promised>>

Finish(p) ==
    /\ job[p].pc = "finish"
    /\ Done(Action(p))
    /\ Advance(p)
    /\ UNCHANGED <<deadline, world, bounds, promised>>

\* scheduleRetentionCleanup starts the clean-up's row afresh, whatever it is.
Schedule(p) ==
    /\ job[p].pc = "schedule"
    /\ Becomes(Cleanup, "pending") /\ executed' = executed \ {Cleanup}
    /\ deadline' = job[p].at + Retention
    /\ promised' = promised \cup {deadline'}
    /\ job' = [job EXCEPT ![p] = Idle]
    /\ UNCHANGED <<world, bounds>>

(***************************************************************************)
(* The clean-up: reconcileBrandwellRetentionCleanupWithPrisma.             *)
(***************************************************************************)

\* The query for clean-ups that are due.
Look(p) ==
    /\ p \in Workers /\ job[p].pc = "idle"
    /\ Claimable(Cleanup) /\ deadline <= clock
    /\ job' = [job EXCEPT ![p].pc = "take"]
    /\ UNCHANGED <<rows, deadline, world, bounds, promised>>

\* The claim does not look at the deadline again.
Take(p) ==
    /\ job[p].pc = "take"
    /\ \/ /\ Claimable(Cleanup)
          /\ Claimed(Cleanup)
          /\ Goto(p, "open")
       \/ /\ ~Claimable(Cleanup)
          /\ job' = [job EXCEPT ![p] = Idle]
          /\ UNCHANGED rows
    /\ UNCHANGED <<deadline, world, bounds, promised>>

Close(p) ==
    /\ job[p].pc = "close"
    /\ Done(Cleanup)
    /\ job' = [job EXCEPT ![p] = Idle]
    /\ UNCHANGED <<deadline, world, bounds, promised>>

GiveUp(p) ==
    /\ job[p].pc = "give_up"
    /\ Failed(Cleanup)
    /\ job' = [job EXCEPT ![p] = Idle]
    /\ UNCHANGED <<deadline, world, bounds, promised>>

(***************************************************************************)
(* Failures, deaths and time.                                              *)
(***************************************************************************)

\* A call of an action fails: its row is failed and the error goes on.
Fail(p) ==
    /\ job[p].pc \in Acting
    /\ faults < MaxFaults
    /\ faults' = faults + 1
    /\ Failed(Action(p))
    /\ Throw(p)
    /\ UNCHANGED <<clock, deadline, world, cancels, overran, promised>>

\* A process dies, or the database does not answer it any more.
Die(p) ==
    /\ job[p].pc # "idle"
    /\ faults < MaxFaults
    /\ faults' = faults + 1
    /\ job' = [job EXCEPT ![p] = Idle]
    /\ UNCHANGED <<clock, rows, deadline, world, cancels, overran, promised>>

\* The actor works under the stage's lease.
Holds(p, s) ==
    IF s = Cleanup
    THEN p \in Workers /\ job[p].pc \notin {"idle", "take"}
    ELSE job[p].pc \in Acting /\ Action(p) = s

Live(s) == \E p \in Actors : Holds(p, s)

Expire(s) ==
    /\ status[s] = "running" /\ s \notin lapsed
    /\ \/ ~Live(s) /\ UNCHANGED overran
       \/ /\ Live(s)
          /\ overran' = overran \cup {s}
          /\ Cardinality(overran') <= MaxOverruns
    /\ lapsed' = lapsed \cup {s}
    /\ UNCHANGED <<clock, status, executed, deadline, job, world, cancels,
                   faults, promised>>

Tick ==
    /\ clock < MaxClock
    /\ clock' = clock + 1
    /\ UNCHANGED <<rows, deadline, job, world, cancels, faults, overran,
                   promised>>

Step(p) ==
    \/ Open(p) \/ ClaimAction(p) \/ Reread(p) \/ Call(p) \/ Store(p)
    \/ Finish(p) \/ Schedule(p) \/ Take(p) \/ Close(p) \/ GiveUp(p)

Next ==
    \/ \E p \in Actors : Cancel(p) \/ Step(p) \/ Look(p) \/ Fail(p) \/ Die(p)
    \/ \E s \in Stages : Expire(s)
    \/ Tick

Spec == Init /\ [][Next]_vars

\* A process that lives goes on, a worker looks at every interval, and time
\* passes, for leases too.
Fairness ==
    /\ \A p \in Actors : WF_vars(Step(p)) /\ WF_vars(Look(p))
    /\ \A s \in Stages : WF_vars(~Live(s) /\ Expire(s))
    /\ WF_vars(Tick)

FairSpec == Spec /\ Fairness
---------------------------------------------------------------------------
\* Every variable keeps its type.
TypeOK ==
    /\ clock \in 0..MaxClock
    /\ status \in [Stages -> {"none", "pending", "running", "completed",
                             "failed"}]
    /\ executed \subseteq Stages /\ lapsed \subseteq Stages
    /\ deadline \in Nat
    /\ job \in [Actors -> [pc: Steps, at: Nat, next: 1..5]]
    /\ called \subseteq AtProvider /\ stored \subseteq Actions
    /\ cancels \in 0..MaxCancels /\ faults \in 0..MaxFaults
    /\ overran \subseteq Stages
    /\ promised \subseteq Nat

\* A row that can never be claimed nor counts as completed: an attempt that
\* outlived its lease failed after the next attempt had completed the action.
Stuck(s) == status[s] = "failed" /\ s \in executed

\* The effect of an action is in place, at the provider and in the database.
InPlace(a) ==
    /\ a \in AtProvider => a \in called
    /\ a # "delete_openrouter" => a \in stored

\* Retention is only promised for a workspace that is closed: routines, runs,
\* keys and computers have all been stopped before the deadline is set.
ClosedBeforeScheduled == promised # {} => \A a \in First : InPlace(a)

\* Nothing is revoked, destroyed or deleted until a deadline has passed.
NothingDestroyedEarly ==
    (called \cup stored) \cap Destructive # {} =>
        \E d \in promised : d <= clock

\* No key and no machine outlives the record that names it: the credentials
\* go only after the provider has deleted the keys, a machine's reference
\* only after the provider has destroyed the machine.
NothingOrphaned ==
    /\ "delete_secrets" \in stored => "delete_openrouter" \in called
    /\ "destroy_computer" \in stored => "destroy_computer" \in called

\* A clean-up that counts as completed has left nothing undone, whichever of
\* the workers did it.
CleanedUpForGood == Completed(Cleanup) => \A a \in Destructive : InPlace(a)

\* Two actors are inside the same action only after its lease has run out
\* under the first of them.
ActionsExclude ==
    \A p, q \in Actors :
        (p # q /\ {job[p].pc, job[q].pc} \subseteq Acting
               /\ Action(p) = Action(q)) => Action(p) \in overran

\* What is completed stays completed, unless a lease ran out under the one
\* that was doing it.
CompletedStays ==
    [][\A s \in Actions :
        Completed(s) /\ s \notin overran => Completed(s)']_vars

\* A clean-up that is scheduled is carried out in the end, or an action is
\* stuck: requests, workers and leases find no other way to stop it.
CleanupEnds ==
    promised # {} ~>
        \/ \A a \in Destructive : InPlace(a)
        \/ deadline > MaxClock
        \/ \E a \in Destructive : Stuck(a)

\* The effects of a set of actions, at the providers and in the database.
EffectsOf(actions) ==
    ({"provider"} \X (actions \cap AtProvider))
        \cup ({"database"} \X (actions \ {"delete_openrouter"}))

\* Requests, workers and their failures keep the promise of RetentionPeriod:
\* whoever carries an action out, and however often, a deadline is set for a closed
\* workspace, nothing is destroyed before one has passed, keys and machines go
\* before the records that name them, and a clean-up that counts as completed has
\* left nothing (cancelBrandwellWorkspace, reconcileRetentionCleanup).
Promise == INSTANCE RetentionPeriod WITH
               Period     <- Retention,
               Closing    <- EffectsOf(First),
               Destroying <- EffectsOf(Destructive),
               FoundBy    <- {<< <<"provider", "delete_openrouter">>,
                                 <<"database", "delete_secrets">> >>,
                              << <<"provider", "destroy_computer">>,
                                 <<"database", "destroy_computer">> >>},
               today      <- clock,
               inPlace    <- ({"provider"} \X called) \cup ({"database"} \X stored),
               deadlines  <- promised,
               over       <- Completed(Cleanup)

KeepsPromise == Promise!Spec
===========================================================================
