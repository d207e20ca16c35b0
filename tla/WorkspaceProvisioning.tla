---------------------- MODULE WorkspaceProvisioning ----------------------
(***************************************************************************)
(* Provisioning one BrandWell customer's workspace                         *)
(* (packages/brandwell/src/provisioning.ts, prisma-provisioning.ts).       *)
(*                                                                         *)
(* A call goes through a fixed list of steps; each finds or creates one    *)
(* resource and saves a checkpoint in the workspace's mapping.  When a     *)
(* step fails, the call undoes the steps it has completed, in reverse, but *)
(* only what it created itself; undoing the workspace deletes the          *)
(* organization and all that belongs to it.  A call is refused while the   *)
(* checkpoint says "running", and returns a complete one as it is.         *)
(*                                                                         *)
(* Calls interleave between looking for a resource and making it; a save   *)
(* outside a step that fails ends its call.  A row is named by the run     *)
(* that made it, 0 when the contact's sign-up did.                         *)
(***************************************************************************)
EXTENDS Integers, FiniteSets, Sequences, Functions

CONSTANTS
    Calls,      \* requests to provision this customer, in the API
    Steps,      \* the steps an instance goes through: the code's, or some of them
    MaxRuns,    \* bound on the runs that begin
    MaxFaults   \* bound on failed steps, saves and undoings, and deaths

\* BRANDWELL_PROVISIONING_STEPS
AllSteps == << "workspace", "service_identity", "client_admin_membership",
    "primary_aimee", "team_computer", "openrouter_credential",
    "model_configuration", "default_routines", "brandwell_skills",
    "intent_connection", "trafficid_connection", "postcard_connection",
    "connector_onboarding", "mobile_access", "notification_preferences" >>

Kept == Range(Steps)

ASSUME StepsOK ==
    /\ Steps \in Seq(Range(AllSteps))
    /\ {"workspace", "service_identity"} \subseteq Kept
    /\ \A i, j \in DOMAIN Steps, k, l \in DOMAIN AllSteps :
          i < j /\ Steps[i] = AllSteps[k] /\ Steps[j] = AllSteps[l] => k < l
ASSUME BoundsOK == {MaxRuns, MaxFaults} \subseteq Nat

Identity == "service_identity"
Membership == "client_admin_membership"
Bot == "primary_aimee"
Computer == "team_computer"
Credential == "openrouter_credential"
Routines == "default_routines"
Preferences == "notification_preferences"
Connections == {"intent_connection", "trafficid_connection",
                "postcard_connection"}
Bare == {"workspace", "model_configuration", "connector_onboarding",
         "mobile_access"}
Resources == Kept \ Bare

\* Resources that a unique key of the database allows once per workspace.
Unique == {Identity, Bot, Computer, Credential, "brandwell_skills", Preferences}

\* What a step looks up and cannot do without.
Needs(s) == Kept \cap
    CASE s \in Connections \cup {Bot, Credential} -> {Identity}
      [] s = Routines -> {Identity, Bot}
      [] s = "model_configuration" -> {Credential}
      [] OTHER -> {}

\* Rows that the database deletes with a row of this resource.
Owned(s) == Resources \cap
    CASE s = Identity -> {Credential}
      [] s = Bot -> {Routines}
      [] OTHER -> {}
---------------------------------------------------------------------------
VARIABLES
    status,     \* of the mapping's checkpoint; "none": there is no mapping
    boot,       \* bootstrapRunId, the run that made the organization
    user,       \* the contact has an account
    rows,       \* for every resource, the makers whose row exists
    lone,       \* of these, the rows that a step no longer finds
    keys,       \* runs whose key exists at the model provider
    job,        \* what each call is doing
    runs, faults,
    flaws       \* what has gone wrong so far besides failing steps

vars == <<status, boot, user, rows, lone, keys, job, runs, faults, flaws>>

Runs == 1..MaxRuns
Makers == 0..MaxRuns
Idle == [pc |-> "idle", run |-> 0, at |-> 1, org |-> 0, saw |-> {},
         user |-> FALSE, made |-> {}, bad |-> FALSE]
Job == [pc : {"idle", "begin", "find", "make", "store", "complete", "undo"},
        run : 0..MaxRuns, at : 0..Len(Steps),
        org : 0..MaxRuns,                     \* whose organization its step has read
        saw : SUBSET (Resources \X Makers),   \* the rows its step has read
        user : BOOLEAN,                       \* whether it read an account
        made : SUBSET (Kept \X Runs),   \* the steps it has completed and what it made
        bad : BOOLEAN]                  \* an undoing has failed

Init ==
    /\ status = "none" /\ boot = 0
    /\ user \in BOOLEAN
    /\ rows = [s \in Resources |-> {}] /\ lone = rows
    /\ keys = {}
    /\ job = [p \in Calls |-> Idle]
    /\ runs = 0 /\ faults = 0 /\ flaws = {}

Exists == status # "none"
Live(p) == job[p].pc # "idle"
Step(p) == Steps[job[p].at]

\* The rows that a step finds when it looks for its resource.
Current(s) == rows[s] \ lone[s]

Reads(ss) == {e \in Resources \X Makers : e[1] \in ss /\ e[2] \in Current(e[1])}

\* A step fails without the rows it needs, and the models' configuration
\* without the key at the provider.
Missing(s) ==
    \/ \E n \in Needs(s) : rows[n] = {}
    \/ /\ s = "model_configuration" /\ Credential \in Kept
       /\ rows[Credential] \cap keys = {}

\* The organization that the step works for is still there.
Stands(p) == Exists /\ boot = job[p].org

Saw(p, s) == {m \in Makers : <<s, m>> \in job[p].saw}

Fault == faults < MaxFaults /\ faults' = faults + 1

\* save() of a checkpoint; without a mapping it does nothing.
Saved(s) == IF Exists THEN s ELSE status
Save(s) == status' = Saved(s)

AdvancePastEnd(p, new) ==
    /\ job' = [job EXCEPT
          ![p].made = @ \cup {<<Step(p), m>> : m \in new},
          ![p].pc = IF job[p].at < Len(Steps) THEN "find" ELSE "complete",
          ![p].at = @ + 1,
          ![p].saw = {}]
    /\ Save("running")

\* The step is completed; `new' is what it created, if anything.
Advance(p, new) ==
    /\ job' = [job EXCEPT
          ![p].made = @ \cup {<<Step(p), m>> : m \in new},
          ![p].pc = IF job[p].at < Len(Steps) THEN "find" ELSE "complete",
          ![p].at = IF job[p].at < Len(Steps) THEN @ + 1 ELSE @,
          ![p].saw = {}]
    /\ Save("running")

\* The step has failed, and the roll-back begins with the step before.
StepFails(p) ==
    job' = [job EXCEPT ![p].pc = "undo", ![p].at = @ - 1, ![p].saw = {}]

\* load(): only a checkpoint that is neither running nor complete goes on.
Load(p) ==
    /\ ~Live(p) /\ runs < MaxRuns
    /\ status \notin {"running", "complete"}
    /\ runs' = runs + 1
    /\ job' = [job EXCEPT ![p].pc = "begin", ![p].run = runs']
    /\ flaws' = flaws \cup {"overlap" : q \in {c \in Calls : Live(c)}}
    /\ UNCHANGED <<status, boot, user, rows, lone, keys, faults>>

\* The first save, which makes the organization and its mapping if need be.
Begin(p) ==
    /\ job[p].pc = "begin"
    /\ status' = "running"
    /\ boot' = IF Exists THEN boot ELSE job[p].run
    /\ job' = [job EXCEPT ![p].pc = "find"]
    /\ UNCHANGED <<user, rows, lone, keys, runs, faults, flaws>>

\* Another call makes the mapping between this one's look for it and its insert,
\* which fails on the customer's unique key.
BeginFails(p) ==
    /\ job[p].pc = "begin"
    /\ Exists /\ \E q \in Calls \ {p} : Live(q)
    /\ job' = [job EXCEPT ![p] = Idle]
    /\ UNCHANGED <<status, boot, user, rows, lone, keys, runs, faults, flaws>>

FindNothing(p) ==
    /\ job[p].pc = "find"
    /\ Save("running")
    /\ IF Exists /\ ~Missing(Step(p))
       THEN job' = [job EXCEPT ![p].pc = "make", ![p].org = boot, ![p].user = user,
               ![p].saw = Reads(Needs(Step(p)))]
       ELSE StepFails(p)
    /\ UNCHANGED <<boot, user, rows, lone, keys, runs, faults, flaws>>

\* A step is saved as running, and looks for what it needs and would create.
Find(p) ==
    /\ job[p].pc = "find"
    /\ Save("running")
    /\ IF Exists /\ ~Missing(Step(p))
       THEN job' = [job EXCEPT ![p].pc = "make", ![p].org = boot, ![p].user = user,
               ![p].saw = Reads(Needs(Step(p)) \cup {Step(p)})]
       ELSE StepFails(p)
    /\ UNCHANGED <<boot, user, rows, lone, keys, runs, faults, flaws>>

UseWorkspace(p) ==
    /\ job[p].pc = "make" /\ Step(p) = "workspace"
    /\ Advance(p, {})
    /\ UNCHANGED <<boot, user, rows, lone, keys, runs, faults, flaws>>

\* The workspace counts as created by the run that bootstrapped it.
MakeWorkspace(p) ==
    /\ job[p].pc = "make" /\ Step(p) = "workspace"
    /\ Advance(p, {job[p].run} \cap {boot})
    /\ UNCHANGED <<boot, user, rows, lone, keys, runs, faults, flaws>>

\* A step has nothing to make when it has found its resource; some have none,
\* and a contact without an account has no preferences yet.
Found(p) ==
    \/ Saw(p, Step(p)) # {}
    \/ Step(p) \in Bare
    \/ Step(p) = Preferences /\ ~job[p].user

\* What a step writes to that it has found must still be there.
Usable(p) ==
    /\ Step(p) \in {Identity, Bot} => Stands(p)
    /\ Step(p) \in Connections \cup {"brandwell_skills"} =>
          Saw(p, Step(p)) \cap rows[Step(p)] # {}
    /\ Step(p) = "model_configuration" /\ Credential \in Kept =>
          Saw(p, Credential) \cap rows[Credential] # {}

Reuse(p) ==
    /\ job[p].pc = "make" /\ Step(p) \notin {"workspace", Computer}
    /\ Found(p)
    /\ \/ Usable(p) /\ Advance(p, {})
       \/ ~Usable(p) /\ StepFails(p) /\ UNCHANGED status
    /\ UNCHANGED <<boot, user, rows, lone, keys, runs, faults, flaws>>

\* A row can be inserted: the rows it refers to exist, and none by its unique
\* key.  A member is unique, an invitation is not.
Insertable(p) ==
    /\ Stands(p)
    /\ \A n \in Needs(Step(p)) : Saw(p, n) \subseteq rows[n]
    /\ Step(p) \in Unique \/ (Step(p) = Membership /\ job[p].user)
          => Current(Step(p)) = {}

\* An invitation made after the contact's sign-up is not looked for any more.
Insert(p) ==
    /\ rows' = [rows EXCEPT ![Step(p)] = @ \cup {job[p].run}]
    /\ lone' = [lone EXCEPT ![Step(p)] = @ \cup
          {m \in {job[p].run} : Step(p) = Membership /\ user /\ ~job[p].user}]

\* What was not found is made.
Make(p) ==
    /\ job[p].pc = "make" /\ Step(p) \in Resources \ {Computer, Credential}
    /\ ~Found(p)
    /\ \/ Insertable(p) /\ Insert(p) /\ Advance(p, {job[p].run})
       \/ ~Insertable(p) /\ StepFails(p) /\ UNCHANGED <<status, rows, lone>>
    /\ UNCHANGED <<boot, user, keys, runs, faults, flaws>>

\* ensureComputerRecord(): the computer is made or taken as it is, and counts
\* as created when the look before found none.
MakeComputer(p) ==
    /\ job[p].pc = "make" /\ Step(p) = Computer
    /\ \/ /\ Stands(p)
          /\ rows' = [rows EXCEPT ![Computer] = IF @ = {} THEN {job[p].run} ELSE @]
          /\ Advance(p, IF Found(p) THEN {} ELSE rows'[Computer])
       \/ ~Stands(p) /\ StepFails(p) /\ UNCHANGED <<status, rows>>
    /\ UNCHANGED <<boot, user, lone, keys, runs, faults, flaws>>

\* The credential's key is created at the provider first...
MakeKey(p) ==
    /\ job[p].pc = "make" /\ Step(p) = Credential
    /\ ~Found(p)
    /\ keys' = keys \cup {job[p].run}
    /\ job' = [job EXCEPT ![p].pc = "store"]
    /\ UNCHANGED <<status, boot, user, rows, lone, runs, faults, flaws>>

\* The provider creates the key, but its answer is lost or is not understood.
LoseKey(p) ==
    /\ job[p].pc = "make" /\ Step(p) = Credential
    /\ ~Found(p)
    /\ Fault
    /\ keys' = keys \cup {job[p].run}
    /\ StepFails(p)
    /\ flaws' = flaws \cup {"lost"}
    /\ UNCHANGED <<status, boot, user, rows, lone, runs>>

\* ...and then recorded.
StoreKey(p) ==
    /\ job[p].pc = "store"
    /\ Insertable(p) /\ Insert(p)
    /\ Advance(p, {job[p].run})
    /\ UNCHANGED <<boot, user, keys, runs, faults, flaws>>

KeepKey(p) ==
    /\ job[p].pc = "store"
    /\ StepFails(p)
    /\ Fault
    /\ UNCHANGED <<status, boot, user, rows, lone, keys, runs, flaws>>

\* A key that cannot be recorded is deleted again; that this may fail too is
\* not noticed.
DropKey(p) ==
    /\ job[p].pc = "store"
    /\ StepFails(p)
    /\ \/ /\ keys' = keys \ {job[p].run} /\ UNCHANGED flaws
          /\ IF Insertable(p) THEN Fault ELSE UNCHANGED faults
       \/ Fault /\ flaws' = flaws \cup {"undo"} /\ UNCHANGED keys
    /\ UNCHANGED <<status, boot, user, rows, lone, runs>>

\* A step fails for a reason of its own, before it has made a row or without
\* making one, in the end because it cannot be saved as completed.  A run that
\* fails in the first step never deletes its organization.
Fail(p) ==
    /\ job[p].pc \in {"find", "make"}
    /\ Fault
    /\ StepFails(p)
    /\ Save("running") \/ (job[p].pc = "make" /\ UNCHANGED status)
    /\ flaws' = flaws \cup {"kept" : s \in {Step(p)} \cap {"workspace"}}
    /\ UNCHANGED <<boot, user, rows, lone, keys, runs>>

\* A step fails after it has made its row: in a write that follows, or because
\* it cannot be saved as completed.  The row is left to the organization's end.
\* A credential's key is deleted in the first case only.
FailLate(p) ==
    /\ \/ job[p].pc = "make" /\ Step(p) \in Resources \ {Credential}
       \/ job[p].pc = "store"
    /\ ~Found(p) /\ Insertable(p)
    /\ Fault
    /\ Insert(p) /\ StepFails(p)
    /\ \/ /\ Step(p) = Credential /\ UNCHANGED status
          /\ \/ keys' = keys \ {job[p].run} /\ UNCHANGED flaws
             \/ flaws' = flaws \cup {"undo"} /\ UNCHANGED keys
       \/ /\ Save("running") \/ UNCHANGED status
          /\ flaws' = flaws \cup {"unsaved" : s \in {Step(p)} \cap {Credential}}
          /\ UNCHANGED keys
    /\ UNCHANGED <<boot, user, runs>>

Return(p) ==
    /\ job[p].pc = "complete"
    /\ job' = [job EXCEPT ![p] = Idle]
    /\ UNCHANGED <<status, boot, user, rows, lone, keys, runs, faults, flaws>>

Complete(p) ==
    /\ job[p].pc = "complete"
    /\ Save("complete")
    /\ job' = [job EXCEPT ![p] = Idle]
    /\ UNCHANGED <<boot, user, rows, lone, keys, runs, faults, flaws>>

(***************************************************************************)
(* Rolling back, from the last completed step to the first.  The failure,  *)
(* and then each undoing, is saved before the next step is undone.         *)
(***************************************************************************)
MadeByAnyone(p, s) ==
    IF s \in Resources THEN rows[s] ELSE {m \in {boot} : m = job[p].run}

\* What a run's roll-back deletes.
MadeHere(p, s) == {m \in Makers : <<s, m>> \in job[p].made}

Undone(p) == job' = [job EXCEPT ![p].at = @ - 1]

\* What this run created is deleted by its id.  With an identity or a bot goes
\* what it owns; connections lose the identity by which they are found.
Delete(p) ==
    LET s == Step(p)
        goes == Exists /\ s \in Resources
        ends == goes /\ rows[s] \cap MadeHere(p, s) # {}
    IN
    /\ rows' = [t \in Resources |-> rows[t] \
          CASE goes /\ t = s -> MadeHere(p, s)
            [] ends /\ t \in Owned(s) -> rows[t]
            [] OTHER -> {}]
    /\ lone' = [t \in Resources |-> rows'[t] \cap
          (IF ends /\ s = Identity /\ t \in Connections THEN rows[t] ELSE lone[t])]

\* rollback(step).  Without a mapping it returns at once, before the provider is
\* told to delete the key.
Undo(p) ==
    LET s == Step(p) IN
    /\ job[p].pc = "undo" /\ job[p].at > 0 /\ s # "workspace"
    /\ Undone(p) /\ Save("failed")
    /\ Delete(p)
    /\ IF Exists /\ s \in Resources /\ s = Credential
       THEN \/ keys' = keys \ MadeHere(p, s) /\ UNCHANGED <<faults, flaws>>
            \/ /\ MadeHere(p, s) # {} /\ Fault /\ UNCHANGED keys
               /\ flaws' = flaws \cup {"undo"}
       ELSE UNCHANGED <<keys, faults, flaws>>
    /\ UNCHANGED <<boot, user, runs>>

\* Undoing the workspace deletes the organization, if this run made it.
UndoWorkspace(p) ==
    /\ job[p].pc = "undo" /\ job[p].at > 0 /\ Step(p) = "workspace"
    /\ IF Exists /\ MadeHere(p, "workspace") # {}
       THEN /\ status' = "none" /\ boot' = 0
            /\ rows' = [s \in Resources |-> {}] /\ lone' = rows'
       ELSE Save("failed") /\ UNCHANGED <<boot, rows, lone>>
    /\ Undone(p)
    /\ UNCHANGED <<user, keys, runs, faults, flaws>>

\* An undoing fails, before or after it has deleted anything; the roll-back goes
\* on with the next step.
UndoFails(p) ==
    /\ job[p].pc = "undo" /\ job[p].at > 0
    /\ Fault
    /\ job' = [job EXCEPT ![p].at = @ - 1, ![p].bad = TRUE]
    /\ flaws' = flaws \cup {"undo"}
    /\ Save("failed")
    /\ keys' \in {keys} \cup {keys \ MadeHere(p, s) : s \in {Step(p)} \cap {Credential}}
    /\ Delete(p) \/ UNCHANGED <<rows, lone>>
    /\ UNCHANGED <<boot, user, runs>>

RolledBack(p) ==
    /\ job[p].pc = "undo" /\ job[p].at = 0
    /\ Save(IF job[p].bad THEN "rollback_failed" ELSE "failed")
    /\ job' = [job EXCEPT ![p] = Idle]
    /\ UNCHANGED <<boot, user, rows, lone, keys, runs, faults, flaws>>

(***************************************************************************)
(* The ends of a call that are nobody's step.                              *)
(***************************************************************************)
\* A save outside a step fails, done or not done, and its exception ends the
\* call; nothing is rolled back, or no more.
SaveFails(p) ==
    /\ Fault
    /\ \/ job[p].pc \in {"begin", "find", "complete", "undo"} /\ UNCHANGED status
       \/ job[p].pc = "begin" /\ status' = "running"
       \/ job[p].pc = "find" /\ Save("running")
       \/ job[p].pc = "complete" /\ Save("complete")
       \/ job[p].pc = "undo" /\ Save("failed")
       \/ job[p].pc = "undo" /\ job[p].at = 0 /\ job[p].bad /\ Save("rollback_failed")
    /\ boot' = IF ~Exists /\ Exists' THEN job[p].run ELSE boot
    /\ job' = [job EXCEPT ![p] = Idle]
    /\ flaws' = flaws \cup {"thrown"}
    /\ UNCHANGED <<user, rows, lone, keys, runs>>

\* The process dies; nothing ever resumes or rolls back what it was doing.
Die(p) ==
    /\ Live(p)
    /\ Fault
    /\ job' = [job EXCEPT ![p] = Idle]
    /\ flaws' = flaws \cup {"died"}
    /\ UNCHANGED <<status, boot, user, rows, lone, keys, runs>>

\* claimBrandwellInvitation(): the contact signs up, and an invitation that is
\* not out of date becomes a membership with preferences.  From now on the
\* steps look for a member and for no invitation.
SignUp ==
    /\ ~user /\ user' = TRUE
    /\ lone' = [s \in Resources |-> IF s = Membership THEN rows[s] ELSE lone[s]]
    /\ \/ /\ \E s \in Resources \cap {Membership} : rows[s] # {}
          /\ rows' = [s \in Resources |-> rows[s] \cup
                CASE s = Membership -> {0}
                  [] s = Preferences /\ rows[s] = {} -> {0}
                  [] OTHER -> {}]
       \/ UNCHANGED rows
    /\ UNCHANGED <<status, boot, keys, job, runs, faults, flaws>>

Next ==
    \/ SignUp
    \/ \E p \in Calls :
        \/ Load(p) \/ Begin(p) \/ BeginFails(p) \/ Find(p)
        \/ MakeWorkspace(p) \/ Reuse(p) \/ Make(p) \/ MakeComputer(p)
        \/ MakeKey(p) \/ LoseKey(p) \/ StoreKey(p) \/ DropKey(p)
        \/ Fail(p) \/ FailLate(p) \/ Complete(p)
        \/ Undo(p) \/ UndoWorkspace(p) \/ UndoFails(p) \/ RolledBack(p)
        \/ SaveFails(p) \/ Die(p)

Spec == Init /\ [][Next]_vars
---------------------------------------------------------------------------
\* Every variable keeps its type.
TypeOK ==
    /\ status \in {"none", "running", "complete", "failed",
                   "rollback_failed"}
    /\ boot \in 0..MaxRuns
    /\ user \in BOOLEAN
    /\ rows \in [Resources -> SUBSET Makers]
    /\ lone \in [Resources -> SUBSET Makers]
    /\ keys \subseteq Runs
    /\ job \in [Calls -> Job]
    /\ runs \in 0..MaxRuns /\ faults \in 0..MaxFaults
    /\ flaws \subseteq {"died", "undo", "overlap", "kept", "thrown", "unsaved", "lost"}

\* Provided that no two calls ran at once, a workspace that is reported
\* complete has each of its resources, and a step looking for one finds no
\* two, however many attempts failed and were rolled back or broken off before
\* and whenever the contact signed up.  Preferences may be missing, and the
\* membership may be an invitation; the credential's key exists.
CompleteIsWhole ==
    (status = "complete" /\ "overlap" \notin flaws) =>
        /\ \A s \in Resources :
              /\ Cardinality(Current(s)) <= 1
              /\ s \notin {Membership, Preferences} => Current(s) # {}
              /\ s = Membership => rows[s] # {}
        /\ {Credential, "model_configuration"} \subseteq Kept =>
              rows[Credential] \subseteq keys

\* A key that exists at the provider is known to the database, or its call is
\* still at work, or a process died, an undoing failed, two calls met, the
\* provider's answer was lost, or the credential's step could not be saved as
\* completed.
KeysAreKnown ==
    \A r \in keys :
        \/ Credential \in Kept /\ r \in rows[Credential]
        \/ \E p \in Calls : job[p].run = r
        \/ flaws \cap {"died", "undo", "overlap", "unsaved", "lost"} # {}

\* After a failure that nothing else went wrong with, nothing is left.
FailureLeavesNothing ==
    (flaws = {} /\ status # "complete" /\ \A p \in Calls : ~Live(p)) =>
        /\ status = "none" /\ keys = {}
        /\ \A s \in Resources : rows[s] = {}

\* A checkpoint that says "running", and so refuses every other call, has a
\* call at work behind it, unless a process has died or a save outside a step
\* has failed.
RunningIsLive ==
    status = "running" =>
        (\E p \in Calls : Live(p)) \/ flaws \cap {"died", "thrown"} # {}

\* A row goes only by the hand of a call that made it, or with the whole
\* organization, by the hand of the call that made that.  Two calls at once
\* may share a computer, and a credential goes with its identity and routines
\* with their bot.
UndoesItsOwn ==
    [][\A s \in Resources : \A m \in rows[s] \ rows'[s] :
        \E p \in Calls :
            /\ job[p].pc = "undo"
            /\ \/ job[p].run = m
               \/ status' = "none" /\ job[p].run = boot
               \/ /\ s \in {Computer, Credential, Routines}
                  /\ "overlap" \in flaws]_vars
===========================================================================
