--------------------------- MODULE ExternalEffects ---------------------------
(***************************************************************************)
(* The approval and the execution of a run's external effects              *)
(* (packages/adapters/src/executor.ts, approval-effect.ts;                 *)
(* packages/core/src/action-approval.ts; answerRunInput in                 *)
(* packages/db/src/events.ts).                                             *)
(*                                                                         *)
(* One run is worked on by invocations of the executor, one after another  *)
(* and, when a lease runs out under a living one, side by side.  In each,  *)
(* the model makes tool calls one at a time.  A call is recorded, perhaps  *)
(* shown to the user, claimed, performed and completed; what the user has  *)
(* approved is replayed by the next invocation before anything else.       *)
(*                                                                         *)
(* Invocations, answers and changes of the rules interleave between any    *)
(* two statements of the database.  Left out: tools that only read, which  *)
(* record no effect, protected input (request_secret), scripted runtimes,  *)
(* reviews, and a run that is cancelled.                                   *)
(***************************************************************************)
EXTENDS Naturals, FiniteSets

CONSTANTS
    Execs,          \* slots of the executor
    Tools,          \* tools with an outside effect
    Consequential,  \* those that toolRequiresApproval names
    Requests,       \* a tool with its arguments
    ToolOf,         \* the tool of each request
    InitialRules,   \* the rules a user may have when the run is sent
    None,           \* no slot
    MaxStarts,      \* bound on invocations
    MaxCalls,       \* bound on the tool calls of an invocation
    MaxFaults,      \* bound on deaths, errors and leases that run out early
    MaxEdits        \* bound on the user's changes to the rules

ASSUME EffectConstantsOK ==
    /\ Consequential \subseteq Tools /\ ToolOf \in [Requests -> Tools]
    /\ None \notin Execs /\ IsFiniteSet(Requests)
    /\ InitialRules \subseteq [ask : SUBSET Tools, always : SUBSET Tools,
                               broad : SUBSET Tools]
    /\ {MaxStarts, MaxCalls, MaxFaults, MaxEdits} \subseteq Nat

VARIABLES
    run,        \* the row's status, and the slot that has its lease
    effect,     \* the status of every row of external_effects
    created,    \* when each of these rows was created: the how-manieth
    asked,      \* effects for which there is a card in the thread
    rules,      \* the user's approval rules
    answer,     \* the answer whose transaction is under way
    exec,       \* what each slot is doing
    starts, faults, edits,
    performed,  \* how often each effect was carried out
    consent,    \* what the user has allowed and refused
    swallowed,  \* effects whose call failed with an error the model was shown
    overwritten \* effects that had moved on when an answer about them came

counts == <<starts, faults, edits>>
ghosts == <<performed, consent, swallowed, overwritten>>
vars == <<run, effect, created, asked, rules, answer, exec, counts, ghosts>>

\* approvalEffectKey, or the executionId of one tool call.
Lasting(r) == <<r, 0, 0>>
Keys == Requests \X (0..MaxStarts) \X (0..MaxCalls)

Status == {"none", "intended", "approved", "denied", "executing", "completed",
           "uncertain"}
Steps == {"idle", "starting", "ready", "finding", "creating", "looking",
          "renewing", "pausing", "claiming", "rereading", "settling",
          "performing", "completing"}

\* A rule for the tool itself, always_allow for it, and one for its connector
\* or category.
RuleSets == [ask : SUBSET Tools, always : SUBSET Tools, broad : SUBSET Tools]
Unread == [ask |-> {}, always |-> {}, broad |-> Tools \cup {None}]

\* resolveActionApproval: the most specific rule wins, a require_approval
\* among equals.
Asks(set, t) == t \in set.ask \/ t \in set.broad \ set.always

NoCall == [of |-> None, key |-> None, from |-> "intended"]
Idle == [pc |-> "idle", start |-> 0, calls |-> 0, rules |-> Unread,
         queue |-> {}, call |-> NoCall]

Init ==
    /\ run = [status |-> "queued", holder |-> None]
    /\ effect = [k \in Keys |-> "none"] /\ created = [k \in Keys |-> 0] /\ asked = {}
    /\ rules \in InitialRules
    /\ answer = [key |-> None, allow |-> FALSE, always |-> FALSE]
    /\ exec = [e \in Execs |-> Idle]
    /\ starts = 0 /\ faults = 0 /\ edits = 0
    /\ performed = [k \in Keys |-> 0]
    /\ consent = [allowed |-> {}, refused |-> {}] /\ swallowed = {}
    /\ overwritten = {}

At(e, pc) == exec[e].pc = pc
Goto(e, pc) == exec' = [exec EXCEPT ![e].pc = pc]
Key(e) == exec[e].call.key
Holds(e) == run.status = "running" /\ run.holder = e
AskedOf(e) == Asks(exec[e].rules, ToolOf[exec[e].call.of])

ThreadFree == answer.key = None

Becomes(k, status) == effect' = [effect EXCEPT ![k] = status]

\* A tool call ends with a result for the model, whatever it says.
ResultOnly(e) == Goto(e, "ready")

Result(e) == exec' = [exec EXCEPT ![e].pc = "ready", ![e].call = NoCall]

(***************************************************************************)
(* An invocation.                                                          *)
(***************************************************************************)

Fault == faults < MaxFaults /\ faults' = faults + 1

\* run.continue: a run that waits for an answer is leased too, if a job for it
\* comes again.  A running one is leased when its lease has run out, because
\* its holder is dead or (a fault) although it lives.
Begin(e) ==
    /\ At(e, "idle") /\ starts < MaxStarts
    /\ \/ run.status \in {"queued", "waiting_input"} /\ UNCHANGED faults
       \/ run.status = "running" /\ At(run.holder, "idle") /\ UNCHANGED faults
       \/ run.status = "running" /\ ~At(run.holder, "idle") /\ Fault
    /\ starts' = starts + 1
    /\ run' = [status |-> "running", holder |-> e]
    /\ exec' = [exec EXCEPT ![e] = [Idle EXCEPT !.pc = "starting",
                                                !.start = starts + 1]]
    /\ UNCHANGED <<effect, created, asked, rules, answer, edits, ghosts>>

\* createApprovedEffectReplayQueue: the requests that are approved by now.
Prepare(e) ==
    /\ At(e, "starting")
    /\ exec' = [exec EXCEPT ![e].pc = "ready",
                            ![e].queue = {k \in Keys : effect[k] = "approved"}]
    /\ UNCHANGED <<run, effect, created, asked, rules, answer, counts, ghosts>>

\* applyTool, up to its first statement.  The rules are read at the first call.
Apply(e, r, queue) ==
    /\ At(e, "ready") /\ exec[e].calls < MaxCalls
    /\ LET seen == IF exec[e].rules = Unread THEN rules ELSE exec[e].rules
           n    == exec[e].calls + 1
           t    == ToolOf[r]
           key  == IF Asks(seen, t) \/ t \in Consequential
                   THEN Lasting(r) ELSE <<r, exec[e].start, n>>
       IN  exec' = [exec EXCEPT
                      ![e] = [@ EXCEPT !.pc = "finding", !.rules = seen,
                                !.calls = n, !.queue = queue,
                                !.call = [of |-> r, key |-> key,
                                          from |-> "intended"]]]
    /\ UNCHANGED <<run, effect, created, asked, rules, answer, counts, ghosts>>

Call(e, r) == exec[e].queue = {} /\ Apply(e, r, {})

\* The oldest of the approved requests takes the place of the arguments of a
\* call of its own tool; a call of any other is refused until then.
Replay(e) ==
    \E k \in exec[e].queue :
        /\ \A j \in exec[e].queue : created[k] <= created[j]
        /\ Apply(e, k[1], exec[e].queue \ {k})

\* resolveDuplicateEffectGate, and what is made of its verdict: the next step
\* of a call that has found its effect.
GateUnasked(found, asks) ==
    CASE found = "none" -> "creating"
      [] found \in {"completed", "denied", "uncertain"} -> "ready"
      [] found = "executing" -> "settling"
      [] found \in {"approved", "intended"} -> "claiming"

Gate(found, asks) ==
    CASE found = "none" -> "creating"
      [] found \in {"completed", "denied", "uncertain"} -> "ready"
      [] found = "executing" -> "settling"
      [] found = "approved" -> "claiming"
      [] found = "intended" -> IF asks THEN "looking" ELSE "claiming"

\* recordEffect looks for the row...  The event it appends when it has found
\* one waits for the thread; here the call goes on at once, or later.
Find(e) ==
    /\ At(e, "finding")
    /\ LET found == effect[Key(e)]
           next  == Gate(found, AskedOf(e))
       IN  IF next = "ready" THEN Result(e)
           ELSE exec' = [exec EXCEPT
                           ![e].pc = next,
                           ![e].call.from = IF found = "approved" THEN found
                                            ELSE "intended"]
    /\ UNCHANGED <<run, effect, created, asked, rules, answer, counts, ghosts>>

\* ...or creates it, unless another invocation has: the key is unique, and the
\* error goes to the model.  A consequential tool is claimed even when no rule
\* asks for it; any other is performed at once.
Create(e) ==
    /\ At(e, "creating")
    /\ IF effect[Key(e)] # "none"
       THEN /\ Result(e)
            /\ swallowed' = swallowed \cup {Key(e)}
            /\ UNCHANGED <<effect, created>>
       ELSE /\ Becomes(Key(e), "intended")
            /\ created' = [created EXCEPT ![Key(e)] =
                            Cardinality({k \in Keys : effect[k] # "none"}) + 1]
            /\ Goto(e, IF AskedOf(e) THEN "renewing"
                       ELSE IF ToolOf[exec[e].call.of] \in Consequential
                       THEN "claiming" ELSE "performing")
            /\ UNCHANGED swallowed
    /\ UNCHANGED <<run, asked, rules, answer, counts, performed, consent,
                   overwritten>>

\* The request has been recorded before: is the run waiting already?
LookAtRun(e) ==
    /\ At(e, "looking")
    /\ IF run.status = "waiting_input"
       THEN exec' = [exec EXCEPT ![e] = Idle] ELSE Goto(e, "renewing")
    /\ UNCHANGED <<run, effect, created, asked, rules, answer, counts, ghosts>>

\* requestApproval: an invocation that has lost the run leaves quietly.
Renew(e) ==
    /\ At(e, "renewing")
    /\ IF Holds(e) THEN Goto(e, "pausing")
       ELSE exec' = [exec EXCEPT ![e] = Idle]
    /\ UNCHANGED <<run, effect, created, asked, rules, answer, counts, ghosts>>

\* pauseRunForInput puts the card into the thread in the same transaction.  It
\* locks the thread, as answerRunInput and finalizeRun do.
Pause(e) ==
    /\ At(e, "pausing") /\ ThreadFree
    /\ IF Holds(e)
       THEN /\ run' = [status |-> "waiting_input", holder |-> None]
            /\ asked' = asked \cup {Key(e)}
            /\ exec' = [exec EXCEPT ![e] = Idle]
       ELSE Result(e) /\ UNCHANGED <<run, asked>>
    /\ UNCHANGED <<effect, created, rules, answer, counts, ghosts>>

\* claimApprovedEffect, claimIntendedEffect
ClaimAlways(e) ==
    /\ At(e, "claiming")
    /\ Becomes(Key(e), "executing")
    /\ Goto(e, "performing")
    /\ UNCHANGED <<run, created, asked, rules, answer, counts, ghosts>>

Claim(e) ==
    /\ At(e, "claiming")
    /\ IF effect[Key(e)] = exec[e].call.from
       THEN Becomes(Key(e), "executing") /\ Goto(e, "performing")
       ELSE Goto(e, "rereading") /\ UNCHANGED effect
    /\ UNCHANGED <<run, created, asked, rules, answer, counts, ghosts>>

\* claimOrReturn, when the claim has matched nothing.
Reread(e) ==
    /\ At(e, "rereading")
    /\ IF effect[Key(e)] = "executing" THEN Goto(e, "settling") ELSE Result(e)
    /\ swallowed' = swallowed \cup
                      {k \in {Key(e)} : effect[k] \in {"intended", "approved"}}
    /\ UNCHANGED <<run, effect, created, asked, rules, answer, counts,
                   performed, consent, overwritten>>

\* settleUncertainEffect: nobody knows what the other attempt did.
SettleForReplay(e) ==
    /\ At(e, "settling")
    /\ Becomes(Key(e), "approved")
    /\ Result(e)
    /\ UNCHANGED <<run, created, asked, rules, answer, counts, ghosts>>

Settle(e) ==
    /\ At(e, "settling")
    /\ IF effect[Key(e)] = "executing" THEN Becomes(Key(e), "uncertain")
       ELSE UNCHANGED effect
    /\ Result(e)
    /\ UNCHANGED <<run, created, asked, rules, answer, counts, ghosts>>

Perform(e) ==
    /\ At(e, "performing")
    /\ performed' = [performed EXCEPT ![Key(e)] = @ + 1]
    /\ Goto(e, "completing")
    /\ UNCHANGED <<run, effect, created, asked, rules, answer, counts, consent,
                   swallowed, overwritten>>

\* completeExternalEffect, from the status the effect was performed in.
Complete(e) ==
    /\ At(e, "completing")
    /\ LET from == IF Key(e) = Lasting(exec[e].call.of) THEN "executing"
                   ELSE "intended"
       IN  IF effect[Key(e)] = from THEN Becomes(Key(e), "completed")
           ELSE UNCHANGED effect
    /\ Result(e)
    /\ UNCHANGED <<run, created, asked, rules, answer, counts, ghosts>>

\* The end of the model's turn.  What was approved must have been replayed
\* (assertDrained), or the run fails; only the holder may finalize it.
FinishUnchecked(e) ==
    /\ At(e, "ready") /\ ThreadFree
    /\ exec' = [exec EXCEPT ![e] = Idle]
    /\ run' = IF Holds(e) THEN [status |-> "completed", holder |-> None]
              ELSE run
    /\ UNCHANGED <<effect, created, asked, rules, answer, counts, ghosts>>

Finish(e) ==
    /\ At(e, "ready") /\ ThreadFree
    /\ exec' = [exec EXCEPT ![e] = Idle]
    /\ run' = IF ~Holds(e) THEN run
              ELSE [status |-> IF exec[e].queue = {} THEN "completed"
                               ELSE "failed",
                    holder |-> None]
    /\ UNCHANGED <<effect, created, asked, rules, answer, counts, ghosts>>

(***************************************************************************)
(* The user.                                                               *)
(***************************************************************************)

\* answerRunInput reads the run and the effect...
ReadAnswer(k) ==
    /\ ThreadFree
    /\ k \in asked /\ effect[k] = "intended" /\ run.status = "waiting_input"
    /\ \E a \in {"allow", "always", "deny"} :
         answer' = [key |-> k, allow |-> a # "deny", always |-> a = "always"]
    /\ UNCHANGED <<run, effect, created, asked, rules, exec, counts, ghosts>>

\* ...looks at the run again as it updates it, but not at the effect.
CommitAnswer ==
    /\ answer.key # None
    /\ answer' = [key |-> None, allow |-> FALSE, always |-> FALSE]
    /\ IF run.status = "waiting_input"
       THEN /\ run' = [run EXCEPT !.status = "queued"]
            /\ Becomes(answer.key, IF answer.allow THEN "approved"
                                   ELSE "denied")
            /\ rules' = [rules EXCEPT
                           !.always = @ \cup {t \in {ToolOf[answer.key[1]]} :
                                                answer.always}]
            /\ consent' = IF answer.allow
                          THEN [consent EXCEPT !.allowed = @ \cup {answer.key}]
                          ELSE [consent EXCEPT !.refused = @ \cup {answer.key}]
            /\ overwritten' = overwritten \cup
                                {k \in {answer.key} : effect[k] # "intended"}
       ELSE UNCHANGED <<run, effect, rules, consent, overwritten>>
    /\ UNCHANGED <<created, asked, exec, counts, performed, swallowed>>

\* approvalRules.set and remove
EditRules ==
    /\ edits < MaxEdits
    /\ edits' = edits + 1
    /\ \E t \in Tools, f \in {"ask", "always", "broad"} :
         rules' = [rules EXCEPT ![f] = IF t \in @ THEN @ \ {t}
                                       ELSE @ \cup {t}]
    /\ UNCHANGED <<run, effect, created, asked, answer, exec, starts, faults,
                   ghosts>>

\* A failed run is put back into the queue by a retry.
Retry ==
    /\ run.status = "failed"
    /\ run' = [run EXCEPT !.status = "queued"]
    /\ UNCHANGED <<effect, created, asked, rules, answer, exec, counts, ghosts>>

(***************************************************************************)
(* Failures.                                                               *)
(***************************************************************************)

\* A process dies, or an invocation sees that it has lost the run.
Die(e) ==
    /\ ~At(e, "idle") /\ (Fault \/ (~Holds(e) /\ UNCHANGED faults))
    /\ exec' = [exec EXCEPT ![e] = Idle]
    /\ UNCHANGED <<run, effect, created, asked, rules, answer, starts, edits,
                   ghosts>>

\* A statement or the tool throws: the error becomes the result of the call,
\* and the model goes on.
ToolThrows(e) ==
    /\ exec[e].call # NoCall /\ Fault
    /\ Result(e)
    /\ swallowed' = swallowed \cup {Key(e)}
    /\ UNCHANGED <<run, effect, created, asked, rules, answer, starts, edits,
                   performed, consent, overwritten>>

\* The runtime throws: the run fails.
RunThrows(e) ==
    /\ At(e, "ready") /\ ThreadFree /\ Fault
    /\ exec' = [exec EXCEPT ![e] = Idle]
    /\ run' = IF Holds(e) THEN [status |-> "failed", holder |-> None] ELSE run
    /\ UNCHANGED <<effect, created, asked, rules, answer, starts, edits, ghosts>>

Step(e) ==
    \/ Prepare(e) \/ Find(e) \/ Create(e) \/ LookAtRun(e) \/ Renew(e)
    \/ Pause(e) \/ Claim(e) \/ Reread(e) \/ Settle(e) \/ Perform(e)
    \/ Complete(e)

Next ==
    \/ \E e \in Execs : \/ Begin(e) \/ Step(e) \/ Finish(e)
                        \/ Die(e) \/ ToolThrows(e) \/ RunThrows(e)
                        \/ Replay(e) \/ \E r \in Requests : Call(e, r)
    \/ \E k \in Keys : ReadAnswer(k)
    \/ CommitAnswer \/ EditRules \/ Retry

Spec == Init /\ [][Next]_vars
------------------------------------------------------------------------------
\* Every variable keeps its type.
TypeOK ==
    /\ run \in [status : {"queued", "running", "waiting_input", "completed",
                          "failed"}, holder : Execs \cup {None}]
    /\ effect \in [Keys -> Status]
    /\ created \in [Keys -> Nat] /\ asked \subseteq Keys
    /\ rules \in RuleSets
    /\ answer \in [key : Keys \cup {None}, allow : BOOLEAN, always : BOOLEAN]
    /\ \A e \in Execs :
         /\ exec[e].pc \in Steps
         /\ exec[e].start \in 0..MaxStarts /\ exec[e].calls \in 0..MaxCalls
         /\ exec[e].rules \in RuleSets \cup {Unread}
         /\ exec[e].queue \subseteq Keys
         /\ IF exec[e].pc \in {"idle", "starting", "ready"}
            THEN exec[e].call = NoCall ELSE Key(e) \in Keys
    /\ starts \in 0..MaxStarts /\ faults \in 0..MaxFaults
    /\ edits \in 0..MaxEdits
    /\ performed \in [Keys -> Nat]
    /\ consent \in [allowed : SUBSET Keys, refused : SUBSET Keys]
    /\ swallowed \subseteq Keys /\ overwritten \subseteq Keys

\* An effect that was recorded is carried out once at most, however many
\* invocations replay it, overlap or die half-way; unless it had been claimed
\* when the user's answer was written over its status.
PerformedOnce == \A k \in Keys \ overwritten : performed[k] <= 1

\* Nothing is carried out that the user has refused, nor anything the rules
\* ask about that the user has not allowed, with the same exception.
AsTheUserSays ==
    [][\A e \in Execs, k \in Keys \ overwritten :
         At(e, "performing") /\ Key(e) = k /\ performed'[k] # performed[k] =>
           /\ k \notin consent.refused
           /\ AskedOf(e) => k \in consent.allowed]_vars

\* A run that has completed owes the user nothing: whatever was approved has
\* been claimed, unless the claim met an error that was shown to the model.
\* A tool that asks by a rule alone is left out: once the rule is gone, or
\* "always" overrides it, its replay is recorded under another key.
ApprovedIsReplayed ==
    run.status = "completed" =>
        \A r \in Requests :
            ToolOf[r] \in Consequential /\ effect[Lasting(r)] = "approved" =>
                Lasting(r) \in swallowed

\* What has become of an effect, as OneEffect has it.
Fate(k) ==
    IF k \in overwritten THEN "disputed"
    ELSE IF performed[k] > 0 THEN "done"
    ELSE CASE effect[k] \in {"none", "intended"} -> "open"
           [] effect[k] = "approved" -> "allowed"
           [] effect[k] = "denied" -> "refused"
           [] OTHER -> "claimed"

\* The invocations, the user and the failures between them keep the promise of
\* OneEffect for every effect: one with a lasting key is carried out by who
\* claimed it, once, and is claimed when nobody had claimed, carried out or
\* refused it (claimApprovedEffect, claimIntendedEffect, settleUncertainEffect,
\* completeExternalEffect, answerRunInput); any other only by the call it
\* belongs to.  (The first disjunct spares TLC the keys a step leaves alone.)
Promise(k) == INSTANCE OneEffect WITH
                  IsClaimed <- k = Lasting(k[1]),
                  fate      <- Fate(k),
                  times     <- performed[k]

KeepsPromise ==
    /\ \A k \in Keys : Promise(k)!Init
    /\ [][\A k \in Keys : \/ UNCHANGED <<effect[k], performed[k], overwritten>>
                           \/ [Promise(k)!Next]_(Promise(k)!vars)]_vars
==============================================================================
