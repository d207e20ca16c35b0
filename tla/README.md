# Verification of AIMEE's run coordination

AIMEE lets a person hand work to bots. A bot runs an agent on a cloud computer; the person
watches the thread, answers questions, takes the computer over, stops or clears. What makes
this hard is not any single operation but that nearly everything is a row in PostgreSQL
changed by several processes (API, workers, reconciler, the tabs of the user) in statements
that an `await` separates. This directory holds TLA+ models of that coordination, TLC
configurations that check them, and TLAPS proofs of what matters most.

Paths are relative to the repository's `src/`; `executor.ts`, `computer-lifecycle.ts`,
`realtime.ts`, `job-reconciler.ts` are in `packages/adapters/src`, `events.ts` and
`messages.ts` in `packages/db/src`, `thread-target.ts` and `router.ts` in `apps/api/src`,
`cancellation.ts`, `provisioning.ts` and their `prisma-` halves in `packages/brandwell/src`.

## Inventory

| Component | State it keeps | Operations | What is hard | What makes it correct |
|---|---|---|---|---|
| Run executor (`executor.ts`, `continueRun`) | `runs` (status, lease owner, fence, expiry, checkpoint), `attempts`, locals of each invocation | lease, preflight, start, acquire computer, attempt, heartbeat, publish, pause, hand over, finish, fail, clean up | a lease taken over while its holder still works; duplicate jobs; slots of a process that share one worker id; crashes anywhere | one holder per run, one completion, finished runs stay finished, no run is stranded |
| Thread transactions (`events.ts`, `messages.ts`) | `threads` (row lock, sequence counters), `messages`, `events` | send, answer, pause, finalize, clear, publish, release of a takeover | which reads the row lock covers and which it does not | messages and runs agree; nothing returns to a cleared thread; a waiting run can be answered |
| Send and stop API (`thread-target.ts`) | the same rows | send with supersession, stop in three statements, snapshot | ids read earlier, cancelled later | settled runs are not cancelled; a stop does not lose a pause |
| Computer execution lease (`computer-lifecycle.ts`) | one lease row per bot: run, fence, expiry | acquire, validate, renew, hold, release | the row is deleted by stop and clear | one task per screen |
| Takeover control (`computer-control.ts`, `router.ts`) | control lease on the computer | grant, release, expire | release races the run's end | a run that waits for its user gets back to work |
| Job queue and reconciler (`job-reconciler.ts`, `wakeup.ts`) | jobs by key, worker slots | enqueue, run, list and repair | lost enqueues, stale lists | every run is served |
| Event log and followers (`events.ts`, `realtime.ts`) | `events`, the listening connection, a latch per follower, a cursor per client | append, delete, notify, listen, reconnect, follow, resume | lost notifications, broken streams, deletion under readers | no event is passed over, none is slept through, all arrive |
| Web client (`thread-events.ts`, `Shell.tsx`) | snapshot, stream cursor, epochs | load, apply event, refresh, optimistic stop | a snapshot and a stream that tell of different moments | the view converges to the thread |
| External effects (`executor.ts`, `approval-effect.ts`) | `external_effects` by idempotency key | record, approve, execute, complete | crash between execution and record | at most once, never without approval |
| Computer life (`computer-lifecycle.ts`, `computer-idle.ts`, `computer-workspace.ts`, `router.ts`) | the computer's state and machine, the leases of its bots, the stored workspace | boot, reconnect, roll back, sleep, stop, recover, reset, update, checkpoint | checks apart from writes, calls of a provider that take minutes, crashes in between, exports that overlap | one teardown at a time, none under a bot at work, leases come back, no work is lost |
| Child bots, groups, archival (`child-bots.ts`, `groups.ts`) | bots, memberships | spawn, archive, remove | cancellation by ids read earlier | archival does not undo what finished |
| Handoff and bot messages (`group-handoff.ts`, `bot-messages.ts`) | runs created by runs | hand over, deliver once | two threads' rows locked in one transaction | delivery once per key |
| Routines (`executor.ts`, `schedule-tools.ts`) | next firing | claim, fire, roll back | failed enqueue after the claim | one run per firing |
| History compaction (`history-compaction.ts`) | cursor, summary, generation | summarize | a clear during a summary | cleared history never returns |
| BrandWell cancellation (`cancellation.ts`, `prisma-cancellation.ts`) | one event row per action and one for the clean-up: status, executedAt, lease, deadline | cancel, claim, carry out, schedule, clean up, fail, retry | requests and workers on the same rows, leases that run out, a clean-up weeks later | nothing is destroyed early, nothing is orphaned, the clean-up is carried out |
| BrandWell provisioning (`provisioning.ts`, `prisma-provisioning.ts`) | a checkpoint per customer, the workspace's resources, a key at the provider | load, step, save, roll back; the contact's sign-up | a failure after any step, a save that fails, two calls at once, a crash | a complete workspace is whole, a failed one leaves nothing, a key stays known |
| BrandWell management (`brandwell-management.ts`, the rest of `packages/brandwell`) | sidekicks, policies, usage, audit | launch, retry, report | provisioning in steps | retries do not duplicate |
| Updater (`infra/updater`) | releases on disk | switch, roll back | crash between steps | a working release stays |
| Teaching, skills, secrets, connections, memory, sandboxes, clients | – | – | mostly I/O with providers | – |

How they interact: the API and the workers meet only in the database, in the job queue and
through NOTIFY. A send commits a queued run and its message, then enqueues a job; a worker
leases the run, acquires the bot's computer, works, and ends the run in a transaction that
also writes messages and events; each commit is followed by a notification, which wakes the
followers that serve the users' tabs. The reconciler repairs what a lost enqueue or a dead
worker leaves. `PROJECT.json` lists each part with its status and each hazard at its line.

## Modules

| Module | Models | Instances |
|---|---|---|
| `HeldRun` | abstract: what the lease on a run promises | – |
| `RunLifecycle` | the life of the runs of one bot on a Team Computer; each implements `HeldRun` | `MCRunLifecycle` |
| `RunLifecycleProofs`, `RunSafetyProofs` | type correctness; every safety property of the runs, the refinement | – |
| `ThreadFeed` | abstract: what the event log promises its clients | – |
| `ThreadEvents` | the event log of one thread, the realtime fan-out, the followers and the clients' cursors; implements `ThreadFeed` | `MCThreadEvents` |
| `ThreadEventsProofs` | the refinement; no lost wake-up | – |
| `ThreadView` | what one page shows of a bot's thread: snapshot, stream, refreshes, its own calls | `MCThreadView` |
| `ThreadViewProofs` | type correctness, and every property of the page | – |
| `TeamComputer` | the computer several bots share: boots, sleeps, stops and replacements against leases and runs, and the workspace between machine and store | `MCTeamComputer` |
| `TeamComputerProofs` | type correctness, teardowns serialize, leases come back, workers are spared | – |
| `RetentionPeriod` | abstract: what the cancellation of a workspace promises | – |
| `WorkspaceCancellation` | the cancellation of a managed workspace and its retention clean-up; implements `RetentionPeriod` | `MCWorkspaceCancellation` |
| `WorkspaceCancellationProofs` | type correctness, every safety property of the cancellation, the refinement | – |
| `WorkspaceProvisioning` | the provisioning of a managed workspace and its roll-back | `MCWorkspaceProvisioning` |
| `WorkspaceProvisioningProofs` | type correctness, and every property of the provisioning | – |
| `OneEffect` | abstract: what the record of external effects promises of each | – |
| `ExternalEffects` | the approval and the execution of one run's external effects; each implements `OneEffect` | `MCExternalEffects` |
| `ExternalEffectsProofs` | type correctness, every property of the effects, the refinement | – |

The modules meet in the rows they share and are kept apart by what each assumes of the others:
`ThreadView` reads the log as `ThreadFeed` promises it; `RunLifecycle` has one bot's lease with its
fence and takes the computer's state as given, `TeamComputer` has the state and the leases of all
bots and takes a run as active or not. `ExternalEffects` takes the life of a run as
`RunLifecycle` has it, down to one holder and invocations that outlive their lease.

### HeldRun and RunLifecycle

`HeldRun` is the promise about one run, without fences, expiry dates, slots or rows of other tables. Invocations
that took the run and have not left it are its *believers*; its *holders* are those that really hold it. `Take`
makes a new believer the only holder, and comes when the run is open or its lease has lapsed; the old believer
stays one, and does not know. Only the holder puts the run back, fails or completes it, and it leaves with that;
it completes a run at most once, ever. Everybody else `Vanish`es without a trace. The user may `Cancel` at any
time before the end, which leaves believers and no holder, and an operator may `Open` a failed run again.

In `RunLifecycle`, `Phase(r)` reads the phase off the row's status ("queued" and the two waiting statuses are
open, "leased" and "running" out); the believers are the invocations past the leasing update, the holders those
whose owner and fence the row names (`Holder`), `Lapsed(r)` is an expiry in the past, and `CompletedBy(r)` the
completed rows of `attempts`. A pause, a requeue and the handling of a failed setup are `PutBack` for the
holder, and `Vanish` for an invocation that is none any more.


One statement, or one transaction under one row lock whose reads are all protected by it, is
one action; statements separated by an `await` are separate actions.

State. `row` is the `runs` table with the status of the run's task, `attempts` the table of
that name, `lease` the bot's `computer_execution_leases` row, `control` the run a control lease
was granted for. `live` stands for an expiry in the future: time only turns it to false.
`jobs` holds the waiting `run.continue` jobs (the queue keeps one per key), `listed` what the
reconciler has read and not yet enqueued. `exec` has the locals of each invocation of
`continueRun` (`pc`, the fence it computed, its attempt, the fence of its computer lease,
`leaseValid`, `retainComputerLease`). `txn` is the transaction that holds a thread's row lock
together with what it has read, `stopping` the progress of the three statements of
`stopThreadRuns`, `history` the messages a property can tell apart: the run's source message,
its pending ask card, and anything else the run wrote.

Actions. The user's: `BeginSend`/`CommitSend` (read the queued runs under the lock; cancel them
by id), `Answer`, `Retry`, `GrantControl`, `ReleaseControl`, `ReadActive`/`StopRuns`/`DropLease`,
`BeginClear`/`CommitClear`, `ApiFails`. The worker's, in the order of `continueRun`: `Claim`
(read the run, compute the next fence), `LeaseRun`, `FailBlocked` or `ReleasePreflight`,
`StartRun`, `RequeueComputerRun` or `AcquireComputer`, `ReturnComputer` or `CreateAttempt`; then,
in any order, `RenewRun`, `RenewScreen`, `BeginPublish`/`CommitPublish`, `PauseForInput`,
`TakeComputer`/`HoldScreen`/`PauseForTakeover`, `Finish`, `SetupFail`/`RecordSetupFailure`,
`Abandon`; and the finally block, `ReleaseScreen` and `CloseAttempt`. The environment's:
`Crash`, `LeaseExpires`, `ScreenLeaseExpires`, `ListRuns`, `Reconcile`.

Abstractions to know of:

- *Timing.* Between `Claim` and `LeaseRun`, two consecutive statements, less than a lease (five
  minutes) passes (`ClaimIsPrompt`): a lease granted after the read does not expire before the
  update. Without it the fence alone would not separate two invocations, because the leasing
  update does not compare the fence that was read.
- One message per run is published through `BeginPublish`; a second one changes nothing the
  properties see. A second heartbeat failure while a failed setup is recorded is left out.
- A busy computer is a detour (bounded); otherwise an invocation waits at "started" for the
  lease. The code requeues the run and comes back through the queue, which is the same run
  again.
- The statements of the finally block are not assumed to fail on their own; a crash there is
  `Crash`.
- A pause, a retry, a stop, a clear, a crash, a failed transaction and a late heartbeat are
  *detours*; `MaxDetours` bounds them.

### ThreadFeed and ThreadEvents

`ThreadFeed` is the promise: a thread's events are numbered as they are committed, some are
deleted later, and a client goes from one to the next, passing over deleted ones only.

`ThreadEvents` is the code. `Begin` is the increment of `nextEventSeq` in
`appendEventInTransaction`, whose row lock lasts to the end of the transaction; `Commit` makes
its events visible together with the deletions of its kind (a pause or the end of a run deletes
progress, a clear everything); `Abort` rolls the counter back. `Notify` and `LoseNotification`
follow the commit. `DeleteProgress` is the deletion at the end of `stopThreadRuns`, which takes
no lock and emits no event. The connection of `PostgresRealtimeFanout` is `off`, waiting for its
reconnect timer (`retry`), `connecting`, `listening` (LISTEN has taken effect, its subscribers
not yet told) or `up`: `Listen`, `Establish` (adopt and wake everyone, or dispose without
subscribers), `HandleNotification`, `Disconnect`, `Reconnect`. `followThreadEvents` is `Follow`
(subscribe before anything is read), `Observe` (the latch's generation), `Read` (a batch),
`Yield`, `EndBatch`, `Wake` or `Timeout`. The page is `Open` (the snapshot's cursor, read under a
share lock of the thread's row, or nothing if the fetch failed), `Receive` and `Break`: a broken
stream loses what is in flight, and the page subscribes again from its own cursor.

Sequence numbers start at 1 here and at 0 in the code. A follower's `changed` says that the
latch's generation differs from the one it observed. `lost` is a history variable: the last
notification sent was lost. Events of several runs are told apart only by whether they are
progress; a settling transaction deletes the thread's progress as a whole. The fan-out of a
single process (`InMemoryRealtimeFanout`) delivers in the publisher's own call and is not
modelled; nor is closing the fan-out at shutdown.

### ThreadView

The page of a bot (`Shell.tsx`, `thread-events.ts`) and the transactions of the thread it
watches. It starts where `ThreadEvents` ends: `Read` takes what the log has beyond the stream's
cursor, in order, which is what `ThreadFeed` promises.

State. `nextSeq`, `log` and `run` are the thread: its counter, its events, the status of each run
in the order of creation. `view` is `snapshotRef.current` as far as its cursor, its run, the
messages it shows and the runs with a progress bubble. `loop` is the loop that subscribes and the
cursor it keeps apart from the snapshot's; `buffer` holds events of its stream the page has not
received. `request` is the latest `threads.get`: `threadRefreshEpoch` and `historyEpoch` make the
page ignore the answers to earlier ones, so they are not kept. `call` is the page's own call.

Actions. The thread's: `Send`, `Start` and `StartLate` (`run.started`, from the invocation whose turn it is
and from one that has outlived its lease: `executor.ts:785` appends it without a look at lease or fence,
and only a cancelled run is refused), `Progress`, `Requeue`, `PauseForInput`,
`PauseForTakeover`, `AnswerInput`, `ReleaseControl`, `Complete`, `Fail`, `Clear`, and a stop in its
two steps, `Stop` and `StopDeletesProgress`. The page's: `Answer` (`threadSnapshot` under its share
lock), `Refresh` (`reconcileRefreshedThread`), `RefreshFails`, `Look` (a panel opens and asks),
`Read`, `Receive` (`reduceThreadSnapshot`, and the refresh that some events ask for), `Break`,
`SubscribeAnyway`, `AnswerObsolete` and `ObsoleteFails` (the loop's own request after a later one has
made it obsolete), `Return`, `StopReturns` and `ClearReturns`.

Four history variables. `dead` holds the runs this page has stopped. `alone` says that no run was
started beside another: a page shows one run, so with two the invariants on the run's status could
not hold. `stale` holds the runs announced late, when they had ended or waited for their user, and not
started anew since; `AgreesWhenCaughtUp` excepts their status, for the page takes the announcement at its
word. `whole` turns false when the page has gone one of the ways in which a message can be
lost from view until a later refresh:

- an event arrives while the view is null, after a failed first load; the reducer drops it and
  the cursor of the stream moves on (`Receive`);
- the first `threads.get` is made obsolete by a later one; the page ignores its snapshot, but the
  loop subscribes from its cursor (`SubscribeAnyway`);
- the page's own clear returns late and empties a view that has newer messages (`ClearReturns`);
- the page's own stop returns late and clears a run it has not stopped (`StopReturns`).

The properties except these ways and no others; the hazards list the first two at their lines.

Abstractions to know of: a message is the number of its first event; "queued" stands for queued,
leased, and running but not announced; one page call at a time; a batch of the stream is all the
log has; the status a worker reads before it appends an event and its commit are one step, so no
event follows the cancellation of its run; a stop's read and its update are one step. Older
history pages, tool and subagent bubbles, and the computer's status are left out.

### TeamComputer

State. `row` is the `computers` row (state and `providerRef`), `touched` that its `updatedAt` has
moved since the idle job read it, `lease` each bot's execution lease (of a worker or of a request),
`run` whether each bot has an active run. `power` and `disk` are the provider's machines and what is
on them, `home` the `AgentHomeStore`; work is told apart by the bot that did it. `op` holds the
locals of a worker and of a request for each bot, `sleep` those of the idle job.

Actions. `Message`, `Cancel` and `Begin` are runs; `Request` is computer.boot, stop, recover, reset
or update. `TakeLease`, `CheckLease` and `Leave` are the lease; `Look`, `Wait`, `Claim`, `Start`,
`Prepare`, `Activate`, and on failure `BootFails`, `Undo`, `Fail`, are `provisionComputer`, with
`Reconnect` for a computer the row says is running. `Work`, `Export`, `Save`, `Falter`, `Finish` are
what a worker does on it. The requests are `StopClaim` to `StopEnd` and `TakeLook` to `TakeEnd`
(`replaceComputer`), the idle job `SleepLook` to `SleepEnd`. Faults are `Crash`, `SleepCrash` and
`Lose` (a machine is gone), and the `...Breaks` actions, a provider's call that fails.

Abstractions to know of:

- One request per bot at a time, and no takeover control, so no control lease delays a boot.
- The reads of one statement after another that nothing can change in between, or whose order
  no property sees, are one step (`SleepLook`, `Wait`); so are the commit of a workspace and the
  update of `homeRevision` that follows it.
- A worker's lease is renewed in time while its process lives. A request never renews: its lease may
  run out while the request is in a call of the provider (`Slow`), or after its process has died.
- Every call of the provider wakes the machine it is for (`box` in `e2b-sandbox.ts` connects). To stop
  a machine that is gone may succeed or fail, as providers differ.
- Only Team Computers, and bots that stay active: the condition `bots: { some: ... }` of a boot's
  updates, which refuses an archived bot, is left out.

### RetentionPeriod and WorkspaceCancellation

`RetentionPeriod` is the promise, without actors, rows or leases: days pass, effects are put in place,
deadlines are set. A deadline is set only once every closing effect is in place, and lies at least the
retention after the first day and at most the retention after today; a destructive effect comes only after a
deadline has passed, and the deletion of a record that names a key or a machine only after the provider has
deleted that; the clean-up is reported over only when all of them are in place. The report can be taken back
(`Retract`), because `failCancellationEvent` writes over a completed row.

`WorkspaceCancellation` maps to it through its history: an effect is a pair of a place ("provider",
"database") and an action, `inPlace` is what `called` and `stored` hold, `deadlines` is `promised`, and `over`
says that the clean-up counts as completed. An effect that is put in place a second time changes nothing and
so is a stutter, whichever actor repeats it.


State. `status`, `executed` and `lapsed` are the columns status, executedAt and leaseExpiresAt of each
stage's row of `brandwell_cancellation_events`; `leaseOwner` is written but never read, and is left
out. `deadline` is the clean-up's scheduledAt. `job` has each request's and each worker's place in the
list of actions. `called` and `stored` are the effects of the actions at the providers and in the
database. `overran` and `promised` are history variables: the stages whose lease ran out under a
living holder, and the deadlines ever scheduled.

Actions. `Cancel` starts a request; `Open` (completed? else the row is made), `ClaimAction`, `Reread`,
`Call`, `Store`, `Finish` and `Fail` carry out one action for a request and for a worker alike;
`Schedule` is `scheduleRetentionCleanup`; `Look`, `Take`, `Close` and `GiveUp` are the maintenance
loop of a worker. `Expire`, `Tick` and `Die` are leases, days and deaths. The policy is the default
one that deletes after retention; the other list is a part of it. An action's provider calls are one
step and its database writes another.

### WorkspaceProvisioning

State. `status` is the checkpoint's status in the mapping ("none": there is no mapping), `boot` the
run that made the organization, `user` whether the contact has an account, `rows` which runs' resources
exist (0: made by the contact's sign-up), `lone` those of them that a step no longer finds, `keys` the
provider's keys. `job` is each call: its step, what that step has read (`org`, `saw`, `user`), and what
the call has made. `flaws` is a history variable of what went wrong besides failing steps:

- "died", a process died; "thrown", a save outside a step failed and its exception ended the call;
- "overlap", two calls were at work at once;
- "undo", an undoing failed; "kept", a run failed in its first step, and so keeps its organization;
- "lost", the provider made a key and its answer was lost; "unsaved", the credential's step was done and
  could not be saved as completed.

Actions. `Load`, `Begin` and `BeginFails` start a run. `Find` is the save of "running" with the lookups of
`execute(step)`. After it come, by the step, `MakeWorkspace`, `Reuse` (found, or there is nothing to make),
`Make`, `MakeComputer`, or `MakeKey` with `StoreKey` or `DropKey`, each with the save of "completed". What
tells the steps apart is in a few operators:

- `Needs` and `Missing`: what a step looks up and fails without;
- `Found`: a row that `Current` finds; nothing, for a step that makes none; and for the preferences a
  contact without an account (`prisma-provisioning.ts:534`), for whom the step completes with no row;
- `Usable` and `Insertable`: when the writes that follow succeed, given the foreign and unique keys of
  the schema; an identity may be made once, an invitation any number of times;
- `lone`: connections are looked up by the current identity, which a deleted identity takes from them
  (`SetNull`); an invitation is no longer looked for once the contact has an account;
- `MakeComputer`: the record is an upsert, so a call counts another's computer as its own;
- `Owned` and `Delete`: with an identity goes its credential, with a bot its routines (`onDelete: Cascade`).

The failures. `Fail` is a step that fails without a row, `FailLate` one that fails after its row is written,
also because `runner.save` throws at `provisioning.ts:183`: the step then counts as failed and is never
undone, and a credential's key stays. `LoseKey` is a lost answer of the provider. `SaveFails` is a save that
throws outside the `try` (lines 166, 173, 188, 206, 233, 240), done or not done: the call ends and the
checkpoint stays what it says. `Undo`, `UndoWorkspace`, `UndoFails` and `RolledBack` are the roll-back,
`Complete` the end, `Die` the end of the process. `SignUp` is `claimBrandwellInvitation`.

Abstractions to know of:

- Of a checkpoint only the status is kept, since nothing else of it is read by a later call.
- The save of "running" and the look are one step; so are creating a resource and saving "completed", and
  the save of a failure, or of an undoing, and the undoing that follows.
- A step that makes several rows (routines and skills, one for each template) makes them all or none.
- `Steps` are the steps an instance has, in the code's order, with the workspace and its service
  identity among them (`StepsOK`).

### OneEffect and ExternalEffects

`OneEffect` is the promise about one effect: its *fate* is open, allowed, refused, claimed, done or disputed, and
`times` counts how often it was carried out. No step leads back to a fate in which it could be claimed, a
refused one is never claimed, and only a claimed one is carried out, once. (An effect whose key belongs to
one tool call alone is not claimed: it goes from open to done.) The one exception is in the promise by name: an
answer that is written over what the effect has become turns it into *disputed*, about which nothing is said.

In `ExternalEffects`, `Fate(k)` reads the fate off the row's status, `performed` and `overwritten`: "intended" and no
row are open, "executing", "uncertain" and a "completed" that nobody performed are claimed.


State. `effect` is the status of each row of `external_effects` by its idempotency key, `created` the
rank of its creation, by which `continueRun` orders the approved ones for their replay. A key is either
the request's own (`approvalEffectKey`, `Lasting`), the same for every invocation, or that of one tool
call. `run` is the run's status and holder, `rules` the user's `action_approval_rules`, `asked` the effects with a card in
the thread, `answer` the transaction of `answerRunInput` with what it has read. `exec` has the locals of
each invocation: the rules as `loadApprovalRules` has cached them, the replay queue, the call at work.
History variables: `performed`, `consent`, `swallowed`, the effects whose call threw an error that
went to the model as the result of its call, and `overwritten`, those that were no longer "intended" when
an answer about them was written.

Actions. `Begin` and `Prepare` are the lease and the replay queue; `Replay` is the call that takes
the oldest approved request from it, `Call` any other; `Find`, `Create`, `LookAtRun`, `Renew`, `Pause`, `Claim`, `Reread`, `Settle`, `Perform` and `Complete` are the statements of `applyTool`
in their order; `Finish` is the end of the turn with `assertDrained`. The user's are `ReadAnswer`,
`CommitAnswer`, `EditRules` and `Retry`; the failures `Die`, `ToolThrows` and `RunThrows`.

Abstractions to know of: "queued" and "leased" are one; a run that waits for its user is leased whenever
a job for it comes, as in the code. A rule for a connector or a category is one for every tool it names
(`broad`). Tool calls come one at a time. The deletion of a thread, a stop and a clear end a run and are
`RunLifecycle`'s.

## Runs

| Run | Shows | Bounds |
|---|---|---|
| `run_races` | `TypeOK`, `FencesAndLocks` (the inductive invariant), `OneHolderPerRun`, `CompletedByOneAttempt`, `ActiveRunHasItsMessage`, `ClearedRunsStaySilent`, `PausedRunIsAnswerable`, `SettledIsFinal`, that every run of `RunLifecycle` is one of `HeldRun` (`KeepsPromise`) | 1 run, 3 slots of one process, 2 detours |
| `run_recovery` | `UnfinishedRunIsServed` under fairness | 2 runs in 2 threads, 1 slot, 1 detour |
| `thread_feed` | `FeedInv`, `NoLostWakeup`, that `ThreadEvents` implements `ThreadFeed` (`KeepsPromise`), and `EveryEventArrives` under fairness | 2 writers, 1 client, batches of 1, 2 events, 2 detours |
| `thread_view` | `ViewInv` (the inductive invariant), `AgreesWhenCaughtUp`, `NothingMissing`, `RefreshKeepsMessages`, `RefreshNeverRevives` | 1 run, 6 events, 1 detour |
| `computer` | `TypeOK`, `OneTeardown`, `LeasesAreReturned`, `SparesWorkers` | 2 bots, 2 machines, 1 request, 1 fault |
| `cancellation` | `TypeOK`, `CleanedUpForGood`, `ActionsExclude`, `CompletedStays`, that `WorkspaceCancellation` implements `RetentionPeriod` (`KeepsPromise`), and `CleanupEnds` under fairness | 1 request made twice, 2 workers, 1 day of retention, 1 fault, 1 lease that runs out early |
| `provisioning` | `TypeOK`, `CompleteIsWhole`, `KeysAreKnown`, `FailureLeavesNothing`, `RunningIsLive`, `UndoesItsOwn` | 2 calls, 10 steps; one at a time: 3 runs, 3 faults; two at once: 2 runs, no fault |
| `effects` | `TypeOK`, `PerformedOnce`, `ApprovedIsReplayed`, `AsTheUserSays`, that every effect of `ExternalEffects` is one of `OneEffect` (`KeepsPromise`) | 2 slots, 3 invocations of 2 calls, a request of each of 2 tools, 1 fault, 1 change of the rules |
| `run_screen` | violated: one task per screen | 2 runs in 2 threads, 2 slots, 1 detour |
| `view_stop` | violated: a stopped run stays stopped on its page | 1 run, 3 events, no detour |
| `computer_restore` | violated: a new machine has the stored workspace before it is used | 2 bots, no request, 1 fault |
| `computer_saves` | violated: a checkpoint never replaces a newer one | 2 bots, no request, no fault |

Why the bounds are enough to be interesting. Races over one run need two invocations of it and
a reason for the second to exist (an expired lease, a duplicate job, a retry), and a third party
that changes the run meanwhile: a stale invocation, the holder, one that claims next, and two detours, as a
lease also runs out without one. Two slots and three detours have passed as well, but take too long to be
repeated at every change. All slots are given one worker id, because that is
the harder case: owner columns do not tell slots of a process apart, only fences do. Supersession
needs two runs of a thread. Recovery needs a second run that waits for the computer of the first.
In the log, two writers show whether commits can overtake each other; two events with batches of
one give a full batch with something behind it and one that is the last; two detours are a lost
signal and a lost connection, or a break and a deletion. The followers of two clients share nothing
but the connection, and the proofs below hold for any number of events, clients, and any batch size.

For the page, one run and six events give a whole turn: message, start, question, answer, start
again, and a message, a start and a clear besides. The detour is a broken stream, a failed refresh,
one more refresh, or an event of an invocation without its lease (`StartLate`, `Progress`). That is enough for a refresh to overtake the stream, the stream a refresh, and a
reconnect both. Fewer events would never let a page catch up in the middle of a turn.

For the computer, two bots are one whose run a teardown must spare and one whose request or idle
computer starts it; two machines are an old and a new one. A teardown is a race of three: the request
or the idle job, the other bot's worker, and a boot that may be between them. With workers there need
only be one request, and one fault of any kind; the proofs hold for any number of each.

For a cancellation, two workers race each other for the clean-up, and one operator who cancels a
second time races both, with the same request's actions done again. The fault is a failed action or a
death, at any point; with two of them the invariants have held as well, but the run takes too long to be repeated at every
change. One lease that runs out early puts two actors into one action. One
day of retention and one of time tell "before the deadline" from "after".

For provisioning, the ten steps are all that can meet another. Of the five that are left out, two are made as
the connection that is there, the skills are a unique resource that needs nothing, and two make nothing.
Calls that come one at a time have three runs and three faults: a failed step, save or undoing, or a death,
and two more for the retries; that is enough for a connection to outlive its identity and a second one to be
made, and for a key to be orphaned. Calls that meet have two runs and no fault of their own (`Bounded` in
`MCWorkspaceProvisioning`): a lookup, a unique key or a foreign key then fails because of the other call, and
so does a roll-back under it. A call whose organization has been replaced by a third run is met only in the proofs,
which hold for any number of calls, runs and faults.

For the effects, three invocations are the one that asks, the one that replays, and one beside either;
two calls are a replay and something after it. Of the two requests one is of a consequential tool, the
other of one that is not; with a broad rule both ask, and both can be waiting for their replay. Several
requests of one tool have been left to the proofs, which hold for any number. One fault is a crash between a claim and its completion
or a lease that runs out under a living holder; without a fault a second job for a waiting run is enough
for two to overlap.

Symmetry is used only where safety is checked: slots of one process, runs of one thread,
writers, and provisioning calls are interchangeable. Deadlock checking is off because every bounded
instance stops: runs are settled, the detours are used up, and the program has nothing left to do.

Each property has a mutant in `PROJECT.json`: a change of one mapped definition that a plausible
bug would make (the fence not advanced, a status left out of the list a clear cancels, the catch-up after a
reconnect forgotten, a lease not looked at before a sleep, secrets deleted before the keys they
name, a roll-back that deletes what it found), under which the property fails in its own run. The
operators `SameFence`, `AttemptExists`, `BeginUnlocked`, `LeasesIgnored`, `SecretsFirst`,
`MadeByAnyone` and the like exist for that only.

### Fairness

`RunLifecycle`: invocations go on (`Step`, weak fairness per slot), transactions that hold a lock
end, queued jobs find a slot (the queue is first in, first out and the worker retries), leases
run out with time, the reconciler polls on a timer, and a control lease is released or expires
(`computer-control.ts` expires it). Nothing is assumed of users: a run that waits for an answer
may wait for ever, and the property says no more.

`ThreadEvents`: followers go on (their timer is `Timeout`), streams deliver, and a page subscribes
again for as long as it is open (the loop in `Shell.tsx`). Nothing is assumed of writers,
notifications or connections; in particular the property holds if the listener never connects.

`WorkspaceCancellation`: a process that lives goes on, a worker looks at every interval of its
maintenance loop, and time passes: days, and the leases of processes that have died. A lease that
runs out under a living holder is never assumed. Faults are bounded, so in the end some attempt is
left alone; that is the usual reading of "retried until it works".

`TeamComputer`, `WorkspaceProvisioning` and `ExternalEffects` state no liveness. A computer whose teardown dies stays
"suspending", and a provisioning whose process dies, or whose save fails outside a step, stays "running", for ever; the code has nothing
that repairs either, which the hazards say at their lines.

## Proofs

TLAPS proves the following for every value of the constants, from the assumptions `ConstantsOK` (of
`RunLifecycle` and of `WorkspaceCancellation`), `FeedConstantsOK`, `ViewConstantsOK`,
`ComputerConstantsOK`, `EffectConstantsOK`, and `StepsOK` and `BoundsOK` of `WorkspaceProvisioning`; TLC
evaluates them in the runs of their modules.

- `RunLifecycleProofs!TypeCorrect`: `Spec => []TypeOK`.
- `RunSafetyProofs!FencesAndLocksHold`, `OneHolder`, `Settled`. `OneHolderPerRun` is not inductive:
  that two invocations do not hold a run says nothing of an invocation that has read the run and
  not leased it yet. `FencesAndLocks` adds what is needed. Each invocation past its leasing update
  is *superseded* (the row has a greater fence, and so has every claim still to come), or
  *current* (the row has its fence, no other invocation has, and whoever could still take it over
  computes a greater one), or its run is cancelled. For sends and clears it says that what a
  transaction has read under the row lock still holds when it commits: nothing it is about to
  cancel has finished. The proof looks at how an action can change a row's status (`StatusMove`),
  its fence (`FenceMove`) and an invocation's position (`ExecMove`), shows each action to be such
  a move, and then reasons about moves alone. `SettledIsFinal` follows from the locked runs
  staying unfinished.
- `RunSafetyProofs!OneAttemptCompletes`. `finalizeRun` looks at its own attempt only, and the record of
  a failed setup at nothing. `AttemptsOwned` adds what they rely on: every invocation has an attempt of
  its own, of its run, and nothing has completed it while the invocation may still complete it or
  record the failure (`PhaseMove`, `AttemptsMove`, `OutcomeMove`).
- `RunSafetyProofs!MessagesStay`, `PausedAreAnswerable`, `ClearedAreSilent`, from `ThreadsGuarded`: a
  clear that holds the row lock has read every run that waits for an answer, and every active one but
  those an operator has put back since (`ClearHasSeen`); who publishes holds the row lock of its thread
  alone, for a run no clear has cancelled (`PublishersLock`); a run a clear has cancelled stays
  cancelled. A pause takes the same lock, so no run comes to wait under a clear that has not read it.
  `HistoryMove` is what a step may do to the history of a run, `LockMove` to the lock of a thread.
- `RunSafetyProofs!LeasesKept` and `EachRunIsHeld`: `Spec => KeepsPromise`, and for every run the refinement of
  `HeldRun` by itself. `OneHolderPerRun` before and after a step says who holds a run, `CompletedByOneAttempt`
  and `AttemptsOwned` that a completion is the first (`CompletedByStays`). A step is the turn of one invocation,
  which changes no other's run, place or fence (`Turn`, `TurnKeeps`), one of the user that only opens or cancels
  runs (`UserLeases`, `UserKeeps`), or the end of a lease (`LapseKeeps`). The turns are what is to be shown: one
  that takes the run comes with a greater fence, so that the old believer holds it no more (`TakeKeeps`), and
  one that leaves writes the row only if it is the holder (`LeaveKeeps`, `YieldKeeps`).
- `ThreadEventsProofs!FeedInvHolds`. Its parts: only the holder of the row lock has increments that
  are not committed (`LockGuardsLog`), and what lies between a client's cursor and its follower's
  position is in flight or deleted, what lies inside a batch's range is in the batch or deleted
  (`NothingPassedOver`). A batch has no gaps because counting is monotone (`BatchHasNoGaps`).
- `ThreadEventsProofs!PromiseKept`: `Spec => KeepsPromise`, the refinement of `ThreadFeed`: a commit
  or a deletion is `Commit`, `Open` and `Receive` are themselves, and every other step stutters.
- `ThreadEventsProofs!NeverSleepsThrough`: `Spec => []NoLostWakeup`. The strengthening adds that a
  fan-out with subscribers is never left unconnected, and that a follower about to wait after a
  partial batch has been signalled if anything lies beyond the batch. For that, a batch that
  leaves something is full (`BatchIsFull`, by the least element left out and the greatest taken).

- `ThreadViewProofs!ViewInvHolds` and `NothingIsMissing`. That the view has every message its cursor
  has passed is not inductive, because two cursors move: the snapshot's, also backwards when the
  stream replays what a refresh has brought, and the stream's. `ViewInv` adds that the log is in
  order and a clear leaves nothing older (`LogInOrder`), that the stream has no gaps
  (`StreamInOrder`), that the view also has what the stream's cursor has passed
  (`NothingSkipped`), and that no message lies between the cursor of an answer under way and that
  of the stream unless the view's cursor has passed it too, in which case the page will refuse
  the answer (`AnswerIsComplete`). Every transaction of the thread is shown to be a growth of the log
  (`Grows`), most steps of the page to neither show nor receive anything (`Asks`); an answer, a
  refresh, an event and a returning clear are proved one by one.
- `ThreadViewProofs!RefreshesDoNotRevive`, from `DeadStayDead`: a run the page has stopped is cancelled
  for good, and no answer under way shows it as active, for the stop that returned made those obsolete.
- `ThreadViewProofs!RefreshesKeepMessages` and the first half of `CaughtUpAgrees`, from `Told`, which
  relates what is shown to what the stream has still to tell: a message the thread no longer has will be
  cleared (`GoneIsCleared`); a run shown as active is, or was cancelled, or was announced late, or its end is
  still to come (`ShownIsAlive`), since no transaction ends a run or deletes an event without telling (`Tells`); and
  what the page shows beyond an answer under way has moved the view's cursor beyond it (`NewerIsKept`).
- `ThreadViewProofs!CaughtUpAgrees`: the last half, that the only run at work is shown with its status,
  unless it was announced late while it waited (`stale`), needs the history of that run. `Sole` follows it from its last start (`LastStart`): since then nothing
  but its progress, its messages and one pause was appended, as any other run would be listed beside it.
  The page shows it from the moment the stream has brought the start (`ViewFollows`), and so does
  every answer that has read the start (`AnswerFollows`); one that has not is older than the view and
  is refused. A question on the stream makes the page ask again, so no older answer is under way
  (`QuestionIsAnswered`); a takeover survives an older answer because reconciling keeps its status.
  These strengthenings hold in TLC for 2 runs and 5 events and for 1 run and 6 events.

- `TeamComputerProofs!TypesHold` and `TeardownsSerialize`. The types say which steps have a machine.
  `OneTeardown` is inductive but for one step: a replacement reads the state in one statement and
  claims it in the next. `ClaimsFresh` adds that one about to claim has read a state that is neither
  "booting" nor "suspending", which is what its compare-and-swap needs to lose to another claim.
  Every action is shown to lead its caller from named steps to named steps (`Jump`, `Flow`) and to
  write the state only when its caller has the claim or nobody has (`Moves`).
- `TeamComputerProofs!LeasesComeBack`. `ReturnInv` says that a caller at a step that has no lease has
  no live one of its kind, unless somebody has died; `Returns` is what a step may do to the leases.
- `TeamComputerProofs!WorkersAreSpared`. `ShieldInv` says that a replacement holds its bot's lease
  until it claims, so the bot's worker does not, and that a worker which is past `CheckLease` and holds
  its lease shares the computer with no sleep past its claim and with no teardown past its claim
  but the stop of its own bot, before it has cancelled the run and dropped the lease. `WhoTurnsOff`
  lists the steps that turn a machine off.

- `WorkspaceCancellationProofs`: every safety property of `WorkspaceCancellation`. None is inductive, as
  each speaks of rows or effects that several actors change. `WorkInv` says of each actor that what comes
  before it in its list is in place (`OnTheWay`), and of a worker at work that a deadline has passed
  (`Due`); of each row, that a completed one is in place. `LeaseInv` says that an actor inside an action
  whose lease has not run out under it has the row "running", not lapsed and not executed, which is what
  makes another's claim fail. The proof shows once how a step moves an actor (`Moved`), that an action
  no longer to be done at a provider was done there before (`AskedBefore`), and which rows a step leaves
  alone (`RowsKept`).
- `WorkspaceCancellationProofs!RetentionPromiseKept`: `Spec => KeepsPromise`, the refinement of
  `RetentionPeriod`. From `WorkInv`, which already knows that a deadline is due when a worker is at work and that the
  records come last (`ClosedBeforeScheduled`, `NothingDestroyedEarly` and `NothingOrphaned` are its parts, and
  theorems of their own), and from one thing more: the time a request has read is not later than
  now (`AtInv`), so that a deadline never lies further away than the retention. `Call` and `Store` add one
  effect or none, `Schedule` is `SetDeadline`; whatever else changes rows only can at most report the
  clean-up over or take that back (`RowsKeepPromise`).

- `ExternalEffectsProofs`: every property of `ExternalEffects`. That an effect is performed once is not
  inductive: it must be known who may still perform it. `OnceInv` says that a call has either the lasting
  key of its request, when the rules it has read ask or the tool is consequential, or a key no other call
  has (`KeyOK`, `OwnKeys`); that a call that asks comes to its claim with an approval only (`PlaceOK`);
  that questions and answers are about lasting keys (`AsksOK`); and what a status says of the past: an
  effect that is intended, approved or denied has never been performed, one about to be performed is
  executing, or settled as uncertain by another call, and nobody else is about to perform it
  (`CountOK`, `TurnOK`). `ReplayInv` follows an approved effect through the holder of the run: it is in
  the replay queue, in the call at work, or among the swallowed (`Owed`). The proof says once how a step
  moves a call (`SameCall`, `Rests`) and who may change a status (`EffectMoves`).
- `ExternalEffectsProofs!PromisesKept` and `EachEffectIsOne`: `Spec => KeepsPromise`, and for every key the
  refinement of `OneEffect` by itself. `OnceInv` leaves one thing open, that a key without a lasting place is
  "intended" until it is completed and is never answered (`PlainInv`). A step is then a change of one count
  (`PerformKeepsPromise`), of one status by an invocation (`WriteKeepsPromise`), an answer
  (`AnswerKeepsPromise`), or leaves every fate as it is (`FateStays`).

- `WorkspaceProvisioningProofs`: every property of `WorkspaceProvisioning`, for any subsequence of the
  code's steps that has the workspace and the identity. The strengthening `Inv` has three layers. What
  holds for any number of calls at once: runs differ, nothing is there without the organization, no
  credential without its identity and no routines without their bot (`RowsOK`), what a call has completed
  comes before its step (`MadeBefore`), and what it has made is its own (`MadeItself`; the exception is a
  shared computer). What holds while calls come one at a time: a call that is alone still sees the rows it saw
  when it looked, but for what a sign-up has made (`Looked`), so no step finds two (`AtMostOne`); the steps it
  is past have what they promise (`DoneSoFar`, with `KeyRead` for the configuration that has read the key); and
  a call that made an identity, a bot or the organization is the only one, besides the sign-up, with rows that
  go with it (`OwnRows`), which is why a roll-back that deletes by the parent deletes nobody else's. What holds
  while nothing else goes wrong: the key of a call is about to be recorded, or recorded and still ahead of the
  roll-back (`KeyInHand`; it rests on the credential's place after the identity and before the configuration,
  `CredentialBetween`), and the only organization is that of the call at work (`NewOrganization`). The proof
  says once how a step moves its call (`Carries`, `MadeMoves`) and the rows (`ActsMove`); a sign-up is no
  call's step and is treated by itself (`SignUpKeeps`, `SignUpLeavesDone`). The theorems name their exceptions:
  `CompletesWhole` two calls at once, `KeysStayKnown` the five flaws after which a key may be orphaned,
  `FailuresLeaveNothing` every flaw, `RunningStaysLive` a death and a thrown save, `CallsUndoTheirOwn` the
  shared computer and what goes with another call's identity or bot.

Only model-checked: the liveness properties. Liveness under fairness, ENABLED, and induction over data
are beyond the prover as it is installed, and no module with a theorem uses a recursive operator.

## What the checks found

Four statements of the sources are not what the code does; each has a run that shows it and an
entry under `findings` in `PROJECT.json`.

1. `docs/computer-runtime.md` says a bot runs one computer-use task on its own screen. A stop or a
   clear of one thread deletes the bot's lease under the run of another thread.
2. `Shell.tsx` clears a stopped run at once so that nothing can leave Stop enabled while the thread is
   idle. The reducer applies a `run.started` event whatever its number: if it arrives after the stop's
   refresh, which had already counted it, the page shows the stopped run as running.
3. `docs/computer-runtime.md` says a new or replacement machine imports the latest stored workspace
   before use. A reconnect to a computer the row says is running gets a new machine when the provider
   has lost the old one, and imports nothing.
4. The same document says checkpoints are serialized per computer. The exports are not: the idle job
   can store an older copy over a newer one.

What the other models show without a run of its own:

- `run-state.ts` has a table of legal transitions; the executor puts running runs back in the queue
  (`executor.ts:2776`) and fails leased ones (`executor.ts:2975`), which the table does not have. One
  call site consults it.
- A boot that is rolled back after another one has activated the same machine stops it under a bot that
  works on it; `SparesWorkers` excepts the roll-back by name.
- A stop that arrives while a computer boots for the first time finds no machine to stop and leaves the
  row "stopped" while the boot goes on; the boot then finds its claim gone and destroys its machine.
- After a teardown's process has died the row says "suspending" and every lease is refused, although
  `docs/self-host.md:387` says computers resume on the next message.
- A cancellation's attempt that outlived its lease and fails after the next attempt has completed the
  action leaves a row that is failed with executedAt set. No claim matches it and it does not count as
  completed, so the clean-up fails there for ever (`Stuck` in `CleanupEnds`); the same write after
  `Close` leaves the clean-up's own row so.
- An operator who cancels again moves the deadline; a clean-up that was read as due before that is
  claimed without another look (`prisma-cancellation.ts:67`) and does not wait for the new one
  (`docs/brandwell-deployment.md:110`).
- Two provisioning calls can be at work at once, because the checkpoint is loaded and saved apart, and
  says "failed" during a roll-back. Then one's roll-back can delete the organization of a workspace that
  the other reports complete; `CompleteIsWhole` holds of workspaces no two calls met in. In the same
  case the mapping may be gone when the roll-back reaches the key, which then stays at the provider.
- A process that dies leaves the checkpoint "running", and every later call is refused. So does a save
  that fails outside a step (`provisioning.ts:173`, `:188`, `:206`) with the process alive: nothing is rolled
  back, or no more.
- A credential's step that has made its key and its row and cannot be saved as completed
  (`provisioning.ts:183`) counts as failed. The roll-back passes over it, the row goes with the organization,
  and the key stays at the provider, unknown to everyone; so does a key whose creation was not answered.
- Two calls at once: a roll-back that deletes the bot deletes the other call's routines with it
  (`schema.prisma:550`).
- A connection whose undoing failed loses its identity when that is undone (`schema.prisma:646`). The next run
  looks for one of its own identity (`prisma-provisioning.ts:470`), finds none and makes a second;
  `CompleteIsWhole` counts those that a step still finds.
- A workspace completes without notification preferences as long as its contact has no account
  (`prisma-provisioning.ts:534`); the sign-up makes them, if it finds an invitation that is not out of date.
- `executor.ts:785` announces a run again with no look at lease or fence. When that comes late, a page that
  has caught up shows a run as running that has ended or waits for its user, until its next refresh;
  `AgreesWhenCaughtUp` excepts these runs by name (`stale`).
- `PerformedOnce` and `AsTheUserSays` except the effects in `overwritten`. An invocation that has outlived
  its lease reads the user's new rules (a changed rule, or the "always" given to another request of the
  tool), finds that an effect with a card no longer needs approval, and claims and performs it after
  `answerRunInput` has read it as intended; the answer then writes "approved" by the row's id
  (`events.ts:442`), and the next invocation performs it again.
- `ApprovedIsReplayed` speaks of consequential tools only. A tool that asks by a rule alone loses its
  lasting key once the rule no longer asks, also through the "always" of the very answer: the next
  invocation replays the approved arguments under the key of its own call. The row of the answer stays
  "approved", so that an invocation after it, if there is one, replays the same arguments once more.

## Not modelled

In the modelled parts: control grants without a waiting run (and a takeover that removes a dead
execution lease), control of a shared computer by two bots, group sends that address several bots,
the work of the agent itself (prompts, tools that only read, protected input by `request_secret`,
scripted runtimes, tool calls in parallel), routine wake-ups, the start of a run by
another run; private computers, archived bots at a boot, the provider's own time-out; the policy
that keeps a cancelled workspace's data. An operator's retry between a clear's read and its commit
leaves an active run without its message; `ActiveRunHasItsMessage` names that exception.

Parts with status `not_modelled` are listed in `PROJECT.json` with the reason. Most of the repository
by volume is no state machine: pages and their layout (`apps/web`, `apps/mobile`, `apps/www`,
`apps/desktop`), adapters that translate calls for providers (`daytona-sandbox.ts`, `box-sandbox.ts`,
`pi-runtime.ts`), schemas, reports over queries (`brandwell-management.ts`, `prisma-sidekicks.ts`,
`prisma-alerting.ts`), prompts and tool descriptions. A model of them would restate their text. The
modules here are about the share of the code in which several processes change the same rows, and
that share is small.

## Plan

1. *Done:* `RunLifecycle`, `ThreadFeed`, `ThreadEvents`, `ThreadView`, `TeamComputer`,
   `WorkspaceCancellation`, `WorkspaceProvisioning`, `ExternalEffects`, and proofs of all their
   safety properties.
2. *Done:* the abstract specifications `HeldRun`, `ThreadFeed`, `OneEffect` and `RetentionPeriod`, with proofs that the
   detailed ones implement them.
3. `ComputerControl`: takeovers of a shared computer by two bots, on top of `TeamComputer`.
4. `BotArchival`: archival and group membership against running work, with the rows of
   `RunLifecycle`.
5. `RoutineWakeup` and `HistoryCompaction`: a claim rolled back after a failed enqueue; generations
   against clears.
6. `RowLocks`: the order in which transactions take the rows of threads, runs and computers.
7. The updater.
