------------------- MODULE WorkspaceProvisioningProofs -------------------
(***************************************************************************)
(* What a provisioning call promises, proved for any number of calls, runs *)
(* and faults, and for any of the steps in the code's order.               *)
(***************************************************************************)
EXTENDS WorkspaceProvisioning, FiniteSetTheorems, TLAPS

AtWork == {"find", "make", "store"}
Statuses == {"none", "running", "complete", "failed", "rollback_failed"}
Flaws == {"died", "undo", "overlap", "kept", "thrown", "unsaved", "lost"}
-----------------------------------------------------------------------------
(* The steps *)

\* A step occurs once.
LEMMA StepsDiffer ==
  ASSUME NEW i \in DOMAIN Steps, NEW j \in DOMAIN Steps, Steps[i] = Steps[j]
  PROVE  i = j
<1>1. DOMAIN Steps = 1..Len(Steps) /\ Steps[i] \in Range(AllSteps)
  BY StepsOK
<1>2. PICK k \in DOMAIN AllSteps : Steps[i] = AllSteps[k]
  BY <1>1 DEF Range
<1>3. k \in Nat
  BY <1>2 DEF AllSteps
<1>4. ~(i < j) /\ ~(j < i)
  <2>1. i < j => k < k
    BY <1>2, StepsOK, Zenon
  <2>2. j < i => k < k
    BY <1>2, StepsOK, Zenon
  <2> QED
    BY <2>1, <2>2, <1>3
<1> QED
  BY <1>1, <1>4

\* The workspace is the first step and there is another one.
LEMMA StepsBegin ==
  /\ Len(Steps) \in Nat /\ Len(Steps) > 1
  /\ DOMAIN Steps = 1..Len(Steps)
  /\ Steps[1] = "workspace"
  /\ \A i \in 1..Len(Steps) : Steps[i] \in Kept
<1>1. Len(Steps) \in Nat /\ DOMAIN Steps = 1..Len(Steps)
  BY StepsOK
<1>2. PICK w \in DOMAIN Steps : Steps[w] = "workspace"
  BY StepsOK DEF Kept, Range
<1>3. PICK v \in DOMAIN Steps : Steps[v] = Identity
  BY StepsOK DEF Kept, Range, Identity
<1>4. w # v
  BY <1>2, <1>3 DEF Identity
<1>5. 1 \in DOMAIN Steps /\ Len(Steps) > 1
  BY <1>1, <1>2, <1>3, <1>4
<1>6. Steps[1] \in Range(AllSteps)
  BY <1>5, <1>1, StepsOK
<1>7. PICK k \in DOMAIN AllSteps : Steps[1] = AllSteps[k]
  BY <1>6 DEF Range
<1>8. 1 \in DOMAIN AllSteps /\ AllSteps[1] = "workspace" /\ k \in Nat /\ k >= 1
  BY <1>7 DEF AllSteps
<1>9. w = 1
  <2>1. SUFFICES ASSUME w # 1 PROVE FALSE
    OBVIOUS
  <2>2. 1 < w
    BY <2>1, <1>1, <1>2
  <2>3. k < 1
    BY <2>2, <1>2, <1>5, <1>7, <1>8, StepsOK
  <2> QED
    BY <2>3, <1>8
<1> QED
  BY <1>1, <1>2, <1>5, <1>9 DEF Kept, Range

\* The order of two steps is the code's.
LEMMA InOrder ==
  ASSUME NEW i \in DOMAIN Steps, NEW j \in DOMAIN Steps,
         NEW k \in DOMAIN AllSteps, NEW l \in DOMAIN AllSteps,
         Steps[i] = AllSteps[k], Steps[j] = AllSteps[l], k < l
  PROVE  i < j
<1>1. i \in Nat /\ j \in Nat /\ k \in Nat /\ l \in Nat
  BY StepsBegin DEF AllSteps
<1>2. j < i => l < k
  BY StepsOK, Zenon
<1>3. i = j => k < k \/ AllSteps[k] = AllSteps[l]
  OBVIOUS
<1>4. AllSteps[k] # AllSteps[l]
  <2>1. \A a, b \in 1..15 : a < b => AllSteps[a] # AllSteps[b]
    BY DEF AllSteps
  <2> QED
    BY <1>1, <2>1 DEF AllSteps
<1> QED
  BY <1>1, <1>2, <1>3, <1>4

\* The identity comes before the credential that belongs to it, and that before
\* the models it is for.
LEMMA CredentialBetween ==
  ASSUME NEW i \in DOMAIN Steps, NEW j \in DOMAIN Steps
  PROVE  /\ Steps[i] = Identity /\ Steps[j] = Credential => i < j
         /\ Steps[i] = Credential /\ Steps[j] = "model_configuration" => i < j
<1>1. /\ 2 \in DOMAIN AllSteps /\ AllSteps[2] = Identity
      /\ 6 \in DOMAIN AllSteps /\ AllSteps[6] = Credential
      /\ 7 \in DOMAIN AllSteps /\ AllSteps[7] = "model_configuration"
  BY DEF AllSteps, Identity, Credential
<1> QED
  BY <1>1, InOrder

\* Every kept step has its place.
LEMMA EveryKeptIsAStep ==
  ASSUME NEW s \in Kept
  PROVE  \E i \in DOMAIN Steps : Steps[i] = s
  BY DEF Kept, Range

\* The resources that are spoken of below.
LEMMA TheResources ==
  /\ Identity \in Resources /\ Identity \in Unique
  /\ Credential \in Kept => Credential \in Resources
  /\ "workspace" \notin Resources /\ "model_configuration" \notin Resources
  /\ Resources \subseteq Kept
  BY StepsOK DEF Identity, Credential, Resources, Bare, Unique

Social == {Membership, Preferences}

\* What is deleted with its owner, a step makes only when the owner is there.
LEMMA Owning ==
  ASSUME NEW s, NEW t \in Owned(s)
  PROVE  /\ t \in Resources \cap {Credential, Routines} /\ Owned(t) = {}
         /\ s \in {Identity, Bot} /\ s \in Unique
         /\ s \in Kept => s \in Needs(t)
<1>1. t \in Resources /\ t \in CASE s = Identity -> {Credential}
                                 [] s = Bot -> {Routines}
                                 [] OTHER -> {}
  BY DEF Owned
<1>2. \/ s = Identity /\ t = Credential
      \/ s = Bot /\ t = Routines
  BY <1>1
<1>3. s = Identity /\ t = Credential /\ s \in Kept => s \in Needs(t)
  BY DEF Needs, Connections, Identity, Credential, Bot
<1>4. s = Bot /\ t = Routines /\ s \in Kept => s \in Needs(t)
  BY DEF Needs, Connections, Identity, Credential, Bot, Routines
<1>5. Owned(Credential) = {} /\ Owned(Routines) = {}
  BY DEF Owned, Credential, Routines, Identity, Bot
<1> QED
  BY <1>1, <1>2, <1>3, <1>4, <1>5 DEF Unique

\* What a step needs is a resource, of a kind whose rows are found by any step.
LEMMA Needed ==
  ASSUME NEW s, NEW n \in Needs(s)
  PROVE  n \in Resources /\ n \in {Identity, Bot, Credential}
<1>1. n \in Kept /\ n \in CASE s \in Connections \cup {Bot, Credential} -> {Identity}
                            [] s = Routines -> {Identity, Bot}
                            [] s = "model_configuration" -> {Credential}
                            [] OTHER -> {}
  BY DEF Needs
<1>2. n \in {Identity, Bot, Credential}
  BY <1>1
<1> QED
  BY <1>1, <1>2 DEF Resources, Bare, Identity, Bot, Credential

-----------------------------------------------------------------------------
(* What the operators on a call do *)

\* Types, as far as an action needs them: a call at work has a run and a step,
\* and has read a row of everything that its step cannot do without.
Local(p) ==
  /\ Live(p) => job[p].run \in Runs /\ job[p].run <= runs
  /\ job[p].pc = "idle" => job[p] = Idle
  /\ job[p].pc = "begin" => job[p].at = 1 /\ job[p].made = {}
  /\ job[p].pc \in AtWork => 1 <= job[p].at
  /\ job[p].pc = "complete" => job[p].at = Len(Steps)
  /\ job[p].pc = "store" => Step(p) = Credential
  /\ job[p].pc \in {"make", "store"} => \A n \in Needs(Step(p)) : Saw(p, n) # {}
  /\ job[p].user => user

LocalOK == \A p \in Calls : Local(p)

\* A sign-up makes a member and preferences; only of connections and
\* memberships are there rows that are not found.
RowsTyped ==
  \A s \in Resources :
    /\ s \notin Social => 0 \notin rows[s]
    /\ lone[s] \subseteq rows[s]
    /\ lone[s] # {} => s \in Connections \cup {Membership}

\* The other calls stay what they are.
Others(p) == \A q \in Calls \ {p} : job'[q] = job[q]

\* A call keeps its run and what it made.
SameRun(p) == job'[p].run = job[p].run /\ job'[p].made = job[p].made

LEMMA AdvanceShape ==
  ASSUME TypeOK, NEW p \in Calls, NEW new, new \subseteq Runs, Live(p), Local(p),
         job[p].pc \in AtWork, Advance(p, new)
  PROVE  /\ job' \in [Calls -> Job] /\ Others(p)
         /\ job'[p].run = job[p].run /\ job'[p].user = job[p].user
         /\ job'[p].made = job[p].made \cup {<<Step(p), m>> : m \in new}
         /\ \/ job[p].at < Len(Steps) /\ job'[p].pc = "find" /\ job'[p].at = job[p].at + 1
            \/ job[p].at = Len(Steps) /\ job'[p].pc = "complete" /\ job'[p].at = job[p].at
         /\ job[p].at \in 1..Len(Steps) /\ Step(p) \in Kept
         /\ status' = Saved("running")
<1>1. job[p] \in Job /\ job[p].at \in 1..Len(Steps)
  BY StepsBegin DEF TypeOK, Job, Local
<1>2. Step(p) \in Kept
  BY <1>1, StepsBegin DEF Step
<1>3. {<<Step(p), m>> : m \in new} \subseteq Kept \X Runs
  BY <1>2
<1> DEFINE j == [job[p] EXCEPT !.made = @ \cup {<<Step(p), m>> : m \in new},
                    !.pc = IF job[p].at < Len(Steps) THEN "find" ELSE "complete",
                    !.at = IF job[p].at < Len(Steps) THEN @ + 1 ELSE @,
                    !.saw = {}]
<1>4. j.pc = (IF job[p].at < Len(Steps) THEN "find" ELSE "complete")
      /\ j.at = (IF job[p].at < Len(Steps) THEN job[p].at + 1 ELSE job[p].at)
      /\ j.made = job[p].made \cup {<<Step(p), m>> : m \in new} /\ j.saw = {}
      /\ j.run = job[p].run /\ j.user = job[p].user /\ j.bad = job[p].bad
  BY <1>1 DEF Job
<1>5. j \in Job
  <2>1. j.made \in SUBSET (Kept \X Runs) /\ j.at \in 0..Len(Steps)
        /\ j.pc \in {"idle", "begin", "find", "make", "store", "complete", "undo"}
    BY <1>1, <1>3, <1>4, StepsBegin DEF Job
  <2> QED
    BY <1>1, <1>4, <2>1 DEF Job
<1>6. job' = [job EXCEPT ![p] = j]
  BY <1>1 DEF Advance, TypeOK, Job
<1>7. job'[p] = j /\ job' \in [Calls -> Job] /\ Others(p)
  BY <1>5, <1>6 DEF TypeOK, Others
<1>8. status' = Saved("running")
  BY DEF Advance, Save
<1> QED
  BY <1>1, <1>2, <1>4, <1>7, <1>8, StepsBegin

LEMMA FailShape ==
  ASSUME TypeOK, NEW p \in Calls, Local(p), job[p].pc \in AtWork, StepFails(p)
  PROVE  /\ job' \in [Calls -> Job] /\ Others(p) /\ SameRun(p)
         /\ job'[p].pc = "undo" /\ job'[p].at = job[p].at - 1
         /\ job'[p].user = job[p].user
         /\ job[p].at \in 1..Len(Steps) /\ Step(p) \in Kept
<1>1. job[p] \in Job /\ job[p].at \in 1..Len(Steps)
  BY StepsBegin DEF TypeOK, Job, Local
<1>2. Step(p) \in Kept
  BY <1>1, StepsBegin DEF Step
<1>3. job[p].at - 1 \in 0..Len(Steps)
  BY <1>1, StepsBegin
<1> DEFINE j == [job[p] EXCEPT !.pc = "undo", !.at = @ - 1, !.saw = {}]
<1>4. j \in Job /\ j.pc = "undo" /\ j.at = job[p].at - 1 /\ j.run = job[p].run
      /\ j.made = job[p].made /\ j.user = job[p].user
  BY <1>1, <1>3 DEF Job
<1>5. job' = [job EXCEPT ![p] = j]
  BY <1>1 DEF StepFails, TypeOK, Job
<1> QED
  BY <1>1, <1>2, <1>4, <1>5 DEF TypeOK, Others, SameRun

LEMMA UndoneShape ==
  ASSUME TypeOK, NEW p \in Calls, job[p].at > 0, Undone(p)
  PROVE  /\ job' \in [Calls -> Job] /\ Others(p) /\ SameRun(p)
         /\ job'[p].pc = job[p].pc /\ job'[p].at = job[p].at - 1
         /\ job'[p].user = job[p].user
         /\ job[p].at \in 1..Len(Steps) /\ Step(p) \in Kept
<1>1. job[p] \in Job /\ job[p].at \in 1..Len(Steps)
  BY StepsBegin DEF TypeOK, Job
<1>2. Step(p) \in Kept
  BY <1>1, StepsBegin DEF Step
<1>3. job[p].at - 1 \in 0..Len(Steps)
  BY <1>1, StepsBegin
<1> QED
  BY <1>1, <1>2, <1>3 DEF Undone, TypeOK, Others, SameRun, Job

-----------------------------------------------------------------------------
(* What each action does to its call, and that it keeps the types *)

Typed == TypeOK /\ LocalOK /\ RowsTyped

SameRows == rows' = rows /\ lone' = lone

LEMMA SameRowsTyped ==
  ASSUME RowsTyped, SameRows
  PROVE  RowsTyped'
  BY DEF RowsTyped, SameRows

\* A checkpoint that is saved keeps its type, and makes no mapping.
LEMMA SavedTyped ==
  ASSUME Typed, NEW s \in Statuses \ {"none"}
  PROVE  Saved(s) \in Statuses /\ (Saved(s) # "none" <=> Exists)
  BY DEF Typed, TypeOK, Saved, Exists, Statuses

\* The other calls are as they were, so only the acting call is in question.
LEMMA OthersLocal ==
  ASSUME Typed, NEW p \in Calls, Others(p), runs' \in Nat, runs <= runs',
         user => user', Local(p)'
  PROVE  LocalOK'
<1>1. ASSUME NEW q \in Calls, q # p
      PROVE  Local(q)'
  <2>1. job'[q] = job[q] /\ Local(q) /\ runs \in Nat
    BY <1>1, BoundsOK DEF Others, Typed, LocalOK, TypeOK
  <2>2. Live(q) => job[q].run \in Nat
    BY <2>1, BoundsOK DEF Local, Runs
  <2>3. Live(q)' = Live(q) /\ Step(q)' = Step(q) /\ \A n : Saw(q, n)' = Saw(q, n)
    BY <2>1 DEF Live, Step, Saw
  <2> QED
    BY <2>1, <2>2, <2>3 DEF Local
<1> QED
  BY <1>1 DEF LocalOK

\* A call that is over.
Rests(p) == job'[p] = Idle /\ Others(p)

LEMMA RestShape ==
  ASSUME Typed, NEW p \in Calls, job' = [job EXCEPT ![p] = Idle], runs' = runs,
         user' = user, SameRows
  PROVE  /\ job' \in [Calls -> Job] /\ Rests(p) /\ job'[p].pc = "idle" /\ ~Live(p)'
         /\ LocalOK' /\ RowsTyped'
<1>1. Idle \in Job
  BY StepsBegin, BoundsOK DEF Idle, Job
<1>2. job'[p] = Idle /\ job' \in [Calls -> Job] /\ Others(p)
  BY <1>1 DEF Typed, TypeOK, Others
<1>3. job'[p].pc = "idle" /\ job'[p].user = FALSE
  BY <1>2 DEF Idle
<1>4. Local(p)'
  BY <1>2, <1>3 DEF Live, Local, AtWork
<1>5. runs \in Nat
  BY BoundsOK DEF Typed, TypeOK
<1>6. LocalOK'
  BY <1>2, <1>4, <1>5, OthersLocal
<1> QED
  BY <1>2, <1>3, <1>6, SameRowsTyped DEF Rests, Live, Typed

\* A call that goes on with the same run at the same step.
Goes(p, c) ==
  /\ Others(p) /\ SameRun(p)
  /\ job'[p].pc = c /\ job'[p].at = job[p].at

LEMMA LoadDoes ==
  ASSUME Typed, NEW p \in Calls, Load(p)
  PROVE  /\ Typed' /\ Others(p)
         /\ job'[p].pc = "begin" /\ job'[p].run = runs' /\ job'[p].at = 1
         /\ job'[p].made = {} /\ runs' \in Runs
<1>1. runs \in Nat /\ runs' = runs + 1 /\ runs' \in Runs
  BY BoundsOK DEF Load, Typed, TypeOK, Runs
<1>2. runs' \in 0..MaxRuns
  BY <1>1, BoundsOK DEF Runs
<1>3. job[p] = Idle
  BY DEF Load, Typed, LocalOK, Local, Live
<1>4. job[p] \in Job
  BY DEF Typed, TypeOK
<1>5. job' = [job EXCEPT ![p].pc = "begin", ![p].run = runs']
  BY DEF Load
<1>6. job' \in [Calls -> Job] /\ Others(p)
  BY <1>2, <1>4, <1>5 DEF Typed, TypeOK, Others, Job
<1>7. /\ job'[p].pc = "begin" /\ job'[p].run = runs' /\ job'[p].at = 1
      /\ job'[p].made = {} /\ job'[p].user = FALSE
  BY <1>3, <1>4, <1>5 DEF Idle, Typed, TypeOK, Job
<1>8. flaws' \subseteq Flaws
  BY DEF Load, Typed, TypeOK, Flaws
<1>9. TypeOK'
  BY <1>2, <1>6, <1>8 DEF Load, Typed, TypeOK, Flaws
<1>10. Local(p)'
  BY <1>1, <1>7, BoundsOK DEF Local, Live, AtWork, Runs
<1>11. LocalOK'
  BY <1>1, <1>6, <1>10, OthersLocal DEF Load
<1>12. RowsTyped'
  BY SameRowsTyped DEF Load, SameRows, Typed
<1> QED
  BY <1>1, <1>6, <1>7, <1>9, <1>11, <1>12 DEF Typed

LEMMA BeginDoes ==
  ASSUME Typed, NEW p \in Calls, Begin(p)
  PROVE  Typed' /\ Goes(p, "find") /\ job[p].at = 1 /\ job[p].made = {}
<1>1. job[p] \in Job /\ Local(p) /\ Live(p)
  BY DEF Typed, TypeOK, LocalOK, Begin, Live
<1>2. job' \in [Calls -> Job] /\ Goes(p, "find") /\ job'[p].user = job[p].user
  BY <1>1 DEF Typed, TypeOK, Begin, Goes, Others, SameRun, Job
<1>3. job[p].at = 1 /\ job[p].made = {} /\ job[p].run \in Runs
  BY <1>1 DEF Begin, Local
<1>4. TypeOK'
  BY <1>1, <1>2 DEF Typed, TypeOK, Begin, Job
<1>5. Local(p)'
  BY <1>1, <1>2, <1>3 DEF Local, Live, Goes, SameRun, AtWork, Begin
<1>6. LocalOK'
  BY <1>2, <1>5, OthersLocal, BoundsOK DEF Goes, Begin, Typed, TypeOK
<1>7. RowsTyped'
  BY SameRowsTyped DEF Begin, SameRows, Typed
<1> QED
  BY <1>2, <1>3, <1>4, <1>6, <1>7 DEF Typed

LEMMA BeginFailsDoes ==
  ASSUME Typed, NEW p \in Calls, BeginFails(p)
  PROVE  Typed' /\ Rests(p)
<1>1. job' = [job EXCEPT ![p] = Idle] /\ runs' = runs /\ user' = user /\ SameRows
  BY DEF BeginFails, SameRows
<1>2. TypeOK'
  BY <1>1, RestShape DEF BeginFails, Typed, TypeOK
<1> QED
  BY <1>1, <1>2, RestShape DEF Typed

LEMMA DieDoes ==
  ASSUME Typed, NEW p \in Calls, Die(p)
  PROVE  Typed' /\ Rests(p)
<1>1. job' = [job EXCEPT ![p] = Idle] /\ runs' = runs /\ user' = user /\ SameRows
  BY DEF Die, SameRows
<1>2. faults' \in 0..MaxFaults
  BY BoundsOK DEF Die, Fault, Typed, TypeOK
<1>3. TypeOK'
  BY <1>1, <1>2, RestShape DEF Die, Typed, TypeOK
<1> QED
  BY <1>1, <1>3, RestShape DEF Typed

LEMMA CompleteDoes ==
  ASSUME Typed, NEW p \in Calls, Complete(p)
  PROVE  Typed' /\ Rests(p)
<1>1. job' = [job EXCEPT ![p] = Idle] /\ runs' = runs /\ user' = user /\ SameRows
  BY DEF Complete, SameRows
<1>2. TypeOK'
  BY <1>1, RestShape DEF Complete, Save, Saved, Typed, TypeOK
<1> QED
  BY <1>1, <1>2, RestShape DEF Typed

LEMMA RolledBackDoes ==
  ASSUME Typed, NEW p \in Calls, RolledBack(p)
  PROVE  Typed' /\ Rests(p)
<1>1. job' = [job EXCEPT ![p] = Idle] /\ runs' = runs /\ user' = user /\ SameRows
  BY DEF RolledBack, SameRows
<1>2. TypeOK'
  BY <1>1, RestShape DEF RolledBack, Save, Saved, Typed, TypeOK
<1> QED
  BY <1>1, <1>2, RestShape DEF Typed

LEMMA SaveFailsDoes ==
  ASSUME Typed, NEW p \in Calls, SaveFails(p)
  PROVE  /\ Typed' /\ Rests(p) /\ Live(p) /\ job[p].pc # "store"
         /\ status' = "none" => ~Exists
         /\ Exists' => Exists \/ job[p].pc = "begin"
         /\ boot' = IF ~Exists /\ Exists' THEN job[p].run ELSE boot
<1>1. job' = [job EXCEPT ![p] = Idle] /\ runs' = runs /\ user' = user /\ SameRows
  BY DEF SaveFails, SameRows
<1>2. faults' \in 0..MaxFaults /\ flaws' \subseteq Flaws
  BY BoundsOK DEF SaveFails, Fault, Typed, TypeOK, Flaws
<1>3. /\ job[p].pc \in {"begin", "find", "complete", "undo"}
      /\ \/ status' = status
         \/ status' = "running" /\ job[p].pc = "begin"
         \/ \E s \in Statuses \ {"none"} : status' = Saved(s)
  BY DEF SaveFails, Save, Statuses
<1>4. status' \in Statuses
  BY <1>3, SavedTyped DEF Typed, TypeOK, Statuses
<1>5. Live(p)
  BY <1>3 DEF Live
<1>6. job[p].run \in 0..MaxRuns
  BY DEF Typed, TypeOK, Job
<1>7. boot' = IF ~Exists /\ Exists' THEN job[p].run ELSE boot
  BY DEF SaveFails
<1>8. boot' \in 0..MaxRuns
  BY <1>6, <1>7 DEF Typed, TypeOK
<1>9. TypeOK'
  BY <1>1, <1>2, <1>4, <1>8, RestShape DEF SaveFails, Typed, TypeOK, Statuses, Flaws
<1>10. (status' = "none" => ~Exists) /\ (Exists' => Exists \/ job[p].pc = "begin")
  BY <1>3, SavedTyped DEF Exists, Saved, Statuses
<1> QED
  BY <1>1, <1>3, <1>5, <1>7, <1>9, <1>10, RestShape DEF Typed

\* A step of a call that fails.
FailsAt(p) ==
  /\ Others(p) /\ SameRun(p)
  /\ job'[p].pc = "undo" /\ job'[p].at = job[p].at - 1
  /\ job[p].at \in 1..Len(Steps) /\ Step(p) \in Kept
  /\ status' \in {status, Saved("running")}

LEMMA FailDoes ==
  ASSUME Typed, NEW p \in Calls, job[p].pc \in AtWork, StepFails(p),
         runs' = runs, user' = user, status' \in {status, Saved("running")}
  PROVE  FailsAt(p) /\ LocalOK' /\ job' \in [Calls -> Job] /\ status' \in Statuses
<1>1. Local(p) /\ Live(p)
  BY DEF Typed, LocalOK, AtWork, Live
<1>2. FailsAt(p) /\ job' \in [Calls -> Job] /\ job'[p].user = job[p].user
  BY <1>1, FailShape DEF Typed, FailsAt
<1>3. Local(p)'
  BY <1>1, <1>2 DEF Local, FailsAt, SameRun, Live, AtWork
<1>4. status' \in Statuses
  BY DEF Typed, TypeOK, Saved, Statuses
<1> QED
  BY <1>1, <1>2, <1>3, <1>4, OthersLocal, BoundsOK DEF FailsAt, Typed, TypeOK

\* A step of a call that is completed.
AdvancesWith(p, new) ==
  /\ Others(p)
  /\ job'[p].run = job[p].run
  /\ job'[p].made = job[p].made \cup {<<Step(p), m>> : m \in new}
  /\ \/ job[p].at < Len(Steps) /\ job'[p].pc = "find" /\ job'[p].at = job[p].at + 1
     \/ job[p].at = Len(Steps) /\ job'[p].pc = "complete" /\ job'[p].at = job[p].at
  /\ job[p].at \in 1..Len(Steps) /\ Step(p) \in Kept
  /\ status' = Saved("running")

LEMMA AdvanceDoes ==
  ASSUME Typed, NEW p \in Calls, NEW new, new \subseteq Runs, job[p].pc \in AtWork,
         Advance(p, new), runs' = runs, user' = user
  PROVE  AdvancesWith(p, new) /\ LocalOK' /\ job' \in [Calls -> Job]
         /\ status' \in Statuses
<1>1. Local(p) /\ Live(p)
  BY DEF Typed, LocalOK, AtWork, Live
<1>2. AdvancesWith(p, new) /\ job' \in [Calls -> Job] /\ job'[p].user = job[p].user
  BY <1>1, AdvanceShape DEF Typed, AdvancesWith
<1>3. Local(p)'
  BY <1>1, <1>2, StepsBegin DEF Local, AdvancesWith, Live, AtWork
<1>4. status' \in Statuses
  BY <1>2 DEF AdvancesWith, Typed, TypeOK, Saved, Statuses
<1> QED
  BY <1>1, <1>2, <1>3, <1>4, OthersLocal, BoundsOK DEF AdvancesWith, Typed, TypeOK

\* A call at work is at a step and has a run.
LEMMA AtAStep ==
  ASSUME Typed, NEW p \in Calls, job[p].pc \in AtWork
  PROVE  /\ job[p] \in Job /\ Local(p) /\ Live(p)
         /\ job[p].at \in 1..Len(Steps) /\ Step(p) \in Kept /\ job[p].run \in Runs
<1>1. job[p] \in Job /\ Local(p) /\ Live(p)
  BY DEF Typed, TypeOK, LocalOK, Live, AtWork
<1>2. job[p].at \in 1..Len(Steps) /\ job[p].run \in Runs
  BY <1>1, StepsBegin DEF Job, Local
<1> QED
  BY <1>1, <1>2, StepsBegin DEF Step

\* A step that goes on from finding to making, and what it has read.
FindsAt(p) ==
  /\ Goes(p, "make") /\ Exists /\ ~Missing(Step(p)) /\ status' = "running"
  /\ job'[p].user = user
  /\ \A n \in Needs(Step(p)) \cup (Resources \cap {Step(p)}) : Saw(p, n)' = Current(n)

LEMMA FindDoes ==
  ASSUME Typed, NEW p \in Calls, Find(p)
  PROVE  /\ Typed'
         /\ FindsAt(p) \/ (FailsAt(p) /\ (~Exists \/ Missing(Step(p))))
<1>1. /\ job[p] \in Job /\ Local(p) /\ Live(p)
      /\ job[p].pc \in AtWork /\ job[p].run \in Runs /\ job[p].at \in 1..Len(Steps)
  BY AtAStep DEF Find, AtWork
<1>2. RowsTyped' /\ status' = Saved("running")
  BY SameRowsTyped DEF Find, Save, SameRows, Typed
<1>3. CASE StepFails(p) /\ (~Exists \/ Missing(Step(p)))
  <2>1. FailsAt(p) /\ LocalOK' /\ job' \in [Calls -> Job] /\ status' \in Statuses
    BY <1>1, <1>2, <1>3, FailDoes DEF Find
  <2> QED
    BY <1>2, <1>3, <2>1 DEF Typed, TypeOK, Find, Statuses
<1>4. CASE /\ Exists /\ ~Missing(Step(p))
           /\ job' = [job EXCEPT ![p].pc = "make", ![p].org = boot, ![p].user = user,
                        ![p].saw = Reads(Needs(Step(p)) \cup {Step(p)})]
  <2> DEFINE s == Reads(Needs(Step(p)) \cup {Step(p)})
             j == [job[p] EXCEPT !.pc = "make", !.org = boot, !.user = user, !.saw = s]
  <2>1. s \in SUBSET (Resources \X Makers)
    BY DEF Reads
  <2>2. job' = [job EXCEPT ![p] = j]
    BY <1>1, <1>4 DEF Typed, TypeOK
  <2>3. j \in Job /\ j.pc = "make" /\ j.at = job[p].at /\ j.run = job[p].run
        /\ j.made = job[p].made /\ j.user = user /\ j.saw = s
    BY <1>1, <2>1 DEF Job, Typed, TypeOK
  <2>4. job' \in [Calls -> Job] /\ Goes(p, "make") /\ job'[p].user = user
        /\ job'[p].saw = s
    BY <2>2, <2>3 DEF Typed, TypeOK, Goes, Others, SameRun
  <2>5. status' = "running"
    BY <1>2, <1>4 DEF Saved
  <2>6. TypeOK'
    BY <2>4, <2>5 DEF Typed, TypeOK, Find
  <2>7. ASSUME NEW n \in Needs(Step(p)) \cup (Resources \cap {Step(p)})
        PROVE  Saw(p, n)' = Current(n)
    <3>1. n \in Resources /\ n \in Needs(Step(p)) \cup {Step(p)}
      BY Needed
    <3>2. Current(n) \subseteq Makers
      BY <3>1 DEF Current, Typed, TypeOK
    <3>3. \A m \in Makers : <<n, m>> \in s <=> m \in Current(n)
      BY <3>1 DEF Reads
    <3> QED
      BY <2>4, <3>2, <3>3 DEF Saw
  <2>8. Step(p)' = Step(p)
    BY <2>4 DEF Goes, Step
  <2>9. ASSUME NEW n \in Needs(Step(p)) PROVE Saw(p, n)' # {}
    <3>1. n \in Resources /\ n \in {Identity, Bot, Credential}
      BY Needed
    <3>2. lone[n] = {}
      BY <3>1 DEF Typed, RowsTyped, Connections, Identity, Bot, Credential, Membership
    <3>3. rows[n] # {}
      BY <1>4, <2>9 DEF Missing
    <3> QED
      BY <2>7, <3>2, <3>3 DEF Current
  <2>10. Local(p)'
    BY <1>1, <2>4, <2>8, <2>9, StepsBegin DEF Local, Live, Goes, SameRun, AtWork, Find
  <2>11. LocalOK'
    BY <2>4, <2>10, OthersLocal, BoundsOK DEF Goes, Find, Typed, TypeOK
  <2>12. FindsAt(p)
    BY <1>4, <2>4, <2>5, <2>7 DEF FindsAt
  <2> QED
    BY <1>2, <2>6, <2>11, <2>12 DEF Typed
<1> QED
  BY <1>3, <1>4 DEF Find

LEMMA MakeWorkspaceDoes ==
  ASSUME Typed, NEW p \in Calls, MakeWorkspace(p)
  PROVE  Typed' /\ AdvancesWith(p, {job[p].run} \cap {boot}) /\ SameRows
<1>1. job[p].pc \in AtWork
  BY DEF MakeWorkspace, AtWork
<1>2. {job[p].run} \cap {boot} \subseteq Runs
  BY <1>1, AtAStep
<1>3. AdvancesWith(p, {job[p].run} \cap {boot}) /\ LocalOK' /\ job' \in [Calls -> Job]
      /\ status' \in Statuses
  BY <1>1, <1>2, AdvanceDoes DEF MakeWorkspace
<1>4. SameRows /\ RowsTyped'
  BY SameRowsTyped DEF MakeWorkspace, SameRows, Typed
<1> QED
  BY <1>3, <1>4 DEF Typed, TypeOK, MakeWorkspace, Statuses

LEMMA ReuseDoes ==
  ASSUME Typed, NEW p \in Calls, Reuse(p)
  PROVE  Typed' /\ (AdvancesWith(p, {}) \/ FailsAt(p)) /\ SameRows
<1>1. job[p].pc \in AtWork
  BY DEF Reuse, AtWork
<1>2. /\ AdvancesWith(p, {}) \/ FailsAt(p)
      /\ LocalOK' /\ job' \in [Calls -> Job] /\ status' \in Statuses
  BY <1>1, AdvanceDoes, FailDoes DEF Reuse
<1>3. SameRows /\ RowsTyped'
  BY SameRowsTyped DEF Reuse, SameRows, Typed
<1> QED
  BY <1>2, <1>3 DEF Typed, TypeOK, Reuse, Statuses

\* A resource that is made by a call.
Adds(p) ==
  /\ Step(p) \in Resources
  /\ Insertable(p) /\ Insert(p)
  /\ Step(p) \in Unique \/ ~Found(p)

LEMMA AddsTyped ==
  ASSUME Typed, NEW p \in Calls, job[p].pc \in AtWork, Adds(p)
  PROVE  /\ rows' \in [Resources -> SUBSET Makers] /\ lone' \in [Resources -> SUBSET Makers]
         /\ RowsTyped'
         /\ rows'[Step(p)] = rows[Step(p)] \cup {job[p].run}
         /\ lone'[Step(p)] = lone[Step(p)] \cup
              (IF Step(p) = Membership /\ user /\ ~job[p].user THEN {job[p].run} ELSE {})
         /\ \A t \in Resources \ {Step(p)} : rows'[t] = rows[t] /\ lone'[t] = lone[t]
<1>1. job[p].run \in Makers /\ job[p].run # 0 /\ Step(p) \in Resources
  BY AtAStep, BoundsOK DEF Adds, Runs, Makers
<1>2. /\ rows \in [Resources -> SUBSET Makers] /\ lone \in [Resources -> SUBSET Makers]
  BY DEF Typed, TypeOK
<1>3. {m \in {job[p].run} : Step(p) = Membership /\ user /\ ~job[p].user}
        = IF Step(p) = Membership /\ user /\ ~job[p].user THEN {job[p].run} ELSE {}
  OBVIOUS
<1>4. /\ rows' \in [Resources -> SUBSET Makers] /\ lone' \in [Resources -> SUBSET Makers]
      /\ rows'[Step(p)] = rows[Step(p)] \cup {job[p].run}
      /\ lone'[Step(p)] = lone[Step(p)] \cup
           (IF Step(p) = Membership /\ user /\ ~job[p].user THEN {job[p].run} ELSE {})
      /\ \A t \in Resources \ {Step(p)} : rows'[t] = rows[t] /\ lone'[t] = lone[t]
  BY <1>1, <1>2, <1>3 DEF Adds, Insert
<1>5. ASSUME NEW t \in Resources
      PROVE  /\ t \notin Social => 0 \notin rows'[t]
             /\ lone'[t] \subseteq rows'[t]
             /\ lone'[t] # {} => t \in Connections \cup {Membership}
  BY <1>1, <1>4 DEF Typed, RowsTyped
<1> QED
  BY <1>4, <1>5 DEF RowsTyped

\* The two things that may come of making a resource.
Makes(p) ==
  \/ Adds(p) /\ AdvancesWith(p, {job[p].run})
  \/ FailsAt(p) /\ SameRows

LEMMA MakeDoes ==
  ASSUME Typed, NEW p \in Calls, Make(p)
  PROVE  Typed' /\ Makes(p) /\ Step(p) \in Resources
<1>1. /\ job[p].pc \in AtWork /\ job[p].run \in Runs /\ Step(p) \in Resources
      /\ runs' = runs /\ boot' = boot /\ keys' = keys /\ user' = user
      /\ faults' = faults /\ flaws' = flaws /\ ~Found(p)
  BY AtAStep DEF Make, AtWork
<1>2. CASE Insertable(p) /\ Insert(p) /\ Advance(p, {job[p].run})
  <2>1. {job[p].run} \subseteq Runs
    BY <1>1
  <2>2. AdvancesWith(p, {job[p].run}) /\ LocalOK' /\ job' \in [Calls -> Job]
        /\ status' \in Statuses
    BY <1>1, <1>2, <2>1, AdvanceDoes
  <2>3. Adds(p)
    BY <1>1, <1>2 DEF Adds
  <2> QED
    BY <1>1, <2>2, <2>3, AddsTyped DEF Typed, TypeOK, Makes, Statuses
<1>3. CASE StepFails(p) /\ status' = status /\ SameRows
  <2>1. FailsAt(p) /\ LocalOK' /\ job' \in [Calls -> Job] /\ status' \in Statuses
    BY <1>1, <1>3, FailDoes
  <2>2. RowsTyped'
    BY <1>3, SameRowsTyped DEF Typed
  <2> QED
    BY <1>1, <1>3, <2>1, <2>2 DEF Typed, TypeOK, Makes, Statuses, SameRows
<1>4. \/ Insertable(p) /\ Insert(p) /\ Advance(p, {job[p].run})
      \/ StepFails(p) /\ status' = status /\ SameRows
  BY DEF Make, SameRows
<1> QED
  BY <1>2, <1>3, <1>4

\* The computer that a step made, or found after all.
Ensures(p) ==
  /\ Step(p) = Computer /\ Computer \in Resources /\ Exists /\ job[p].pc \in AtWork
  /\ \/ rows[Computer] = {} /\ Adds(p)
     \/ rows[Computer] # {} /\ SameRows
  /\ rows'[Computer] # {}
  /\ \E new \in SUBSET rows'[Computer] :
        AdvancesWith(p, new) /\ (Found(p) => new = {})

LEMMA MakeComputerDoes ==
  ASSUME Typed, NEW p \in Calls, MakeComputer(p)
  PROVE  Typed' /\ (Ensures(p) \/ (FailsAt(p) /\ SameRows))
<1>1. /\ job[p].pc \in AtWork /\ job[p].run \in Runs /\ Step(p) = Computer
      /\ runs' = runs /\ boot' = boot /\ keys' = keys /\ user' = user
      /\ faults' = faults /\ flaws' = flaws /\ lone' = lone /\ Step(p) \in Kept
  BY AtAStep DEF MakeComputer, AtWork
<1>2. Computer \in Resources
  BY <1>1 DEF Resources, Bare, Computer
<1>3. rows \in [Resources -> SUBSET Makers] /\ lone \in [Resources -> SUBSET Makers]
      /\ lone[Computer] = {} /\ rows[Computer] \subseteq Runs
  <2>1. rows \in [Resources -> SUBSET Makers] /\ lone \in [Resources -> SUBSET Makers]
    BY DEF Typed, TypeOK
  <2>2. lone[Computer] = {} /\ 0 \notin rows[Computer]
    BY <1>2 DEF Typed, RowsTyped, Connections, Computer, Membership, Social, Preferences
  <2> QED
    BY <1>2, <2>1, <2>2, BoundsOK DEF Makers, Runs
<1>4. CASE /\ Stands(p)
           /\ rows' = [rows EXCEPT ![Computer] = IF @ = {} THEN {job[p].run} ELSE @]
           /\ Advance(p, IF Found(p) THEN {} ELSE rows'[Computer])
  <2> DEFINE new == IF Found(p) THEN {} ELSE rows'[Computer]
  <2>1. rows'[Computer] = IF rows[Computer] = {} THEN {job[p].run} ELSE rows[Computer]
    BY <1>2, <1>3, <1>4
  <2>2. new \subseteq Runs /\ rows'[Computer] # {}
    BY <1>1, <1>3, <2>1
  <2>3. AdvancesWith(p, new) /\ LocalOK' /\ job' \in [Calls -> Job] /\ status' \in Statuses
    BY <1>1, <1>4, <2>2, AdvanceDoes
  <2>4. CASE rows[Computer] = {}
    <3>1. rows' = [rows EXCEPT ![Computer] = @ \cup {job[p].run}]
      BY <1>4, <2>4
    <3>2. {m \in {job[p].run} : Step(p) = Membership /\ user /\ ~job[p].user} = {}
      BY <1>1 DEF Computer, Membership
    <3>3. lone' = [lone EXCEPT ![Step(p)] = @ \cup
             {m \in {job[p].run} : Step(p) = Membership /\ user /\ ~job[p].user}]
      BY <1>1, <1>2, <1>3, <3>2
    <3>4. Insert(p)
      BY <1>1, <3>1, <3>3 DEF Insert
    <3>5. Needs(Step(p)) = {} /\ Current(Step(p)) = {}
      BY <1>1, <2>4 DEF Needs, Connections, Computer, Bot, Credential, Routines, Current
    <3>6. Insertable(p)
      BY <1>1, <1>4, <3>5 DEF Insertable, Computer, Membership
    <3>7. Adds(p)
      BY <1>1, <1>2, <3>4, <3>6 DEF Adds, Unique
    <3> QED
      BY <1>1, <1>2, <1>4, <2>2, <2>3, <2>4, <3>7, AddsTyped
         DEF Typed, TypeOK, Ensures, Statuses, Stands
  <2>5. CASE rows[Computer] # {}
    <3>1. rows' = rows
      BY <1>2, <1>3, <1>4, <2>5
    <3>2. SameRows /\ RowsTyped'
      BY <1>1, <3>1, SameRowsTyped DEF SameRows, Typed
    <3> QED
      BY <1>1, <1>2, <1>4, <2>2, <2>3, <2>5, <3>1, <3>2
         DEF Typed, TypeOK, Ensures, Statuses, Stands
  <2> QED
    BY <2>4, <2>5
<1>5. CASE StepFails(p) /\ status' = status /\ rows' = rows
  <2>1. FailsAt(p) /\ LocalOK' /\ job' \in [Calls -> Job] /\ status' \in Statuses
    BY <1>1, <1>5, FailDoes
  <2>2. SameRows /\ RowsTyped'
    BY <1>1, <1>5, SameRowsTyped DEF SameRows, Typed
  <2> QED
    BY <1>1, <1>5, <2>1, <2>2 DEF Typed, TypeOK, Statuses
<1> QED
  BY <1>4, <1>5 DEF MakeComputer

LEMMA MakeKeyDoes ==
  ASSUME Typed, NEW p \in Calls, MakeKey(p)
  PROVE  /\ Typed' /\ Goes(p, "store") /\ Step(p) \in Resources /\ Step(p) = Credential
         /\ SameRows /\ status' = status
         /\ job'[p].saw = job[p].saw /\ job'[p].user = job[p].user
<1>1. /\ job[p] \in Job /\ Local(p) /\ Live(p)
      /\ job[p].pc \in AtWork /\ job[p].run \in Runs /\ Step(p) \in Kept
  BY AtAStep DEF MakeKey, AtWork
<1>2. job' \in [Calls -> Job] /\ Goes(p, "store")
      /\ job'[p].saw = job[p].saw /\ job'[p].user = job[p].user
  BY <1>1 DEF Typed, TypeOK, MakeKey, Goes, Others, SameRun, Job
<1>3. TypeOK'
  BY <1>1, <1>2 DEF Typed, TypeOK, MakeKey
<1>4. Step(p) = Credential /\ Step(p)' = Step(p) /\ \A n : Saw(p, n)' = Saw(p, n)
  BY <1>2 DEF MakeKey, Step, Goes, Saw
<1>5. Local(p)'
  BY <1>1, <1>2, <1>4 DEF Local, Live, Goes, SameRun, AtWork, MakeKey
<1>6. LocalOK'
  BY <1>2, <1>5, OthersLocal, BoundsOK DEF Goes, MakeKey, Typed, TypeOK
<1>7. SameRows /\ RowsTyped' /\ status' = status
  BY SameRowsTyped DEF MakeKey, SameRows, Typed
<1> QED
  BY <1>1, <1>2, <1>3, <1>4, <1>6, <1>7, TheResources DEF Typed

LEMMA StoreKeyDoes ==
  ASSUME Typed, NEW p \in Calls, StoreKey(p)
  PROVE  /\ Typed' /\ Adds(p) /\ AdvancesWith(p, {job[p].run})
         /\ Step(p) = Credential
<1>1. job[p].pc \in AtWork /\ job[p].run \in Runs /\ Step(p) \in Kept /\ Local(p)
  BY AtAStep DEF StoreKey, AtWork
<1>2. Step(p) = Credential /\ Step(p) \in Resources
  BY <1>1, TheResources DEF StoreKey, Local
<1>3. Adds(p)
  BY <1>2 DEF StoreKey, Adds, Unique
<1>4. {job[p].run} \subseteq Runs
  BY <1>1
<1>5. AdvancesWith(p, {job[p].run}) /\ LocalOK' /\ job' \in [Calls -> Job]
      /\ status' \in Statuses
  BY <1>1, <1>4, AdvanceDoes DEF StoreKey
<1> QED
  BY <1>1, <1>2, <1>3, <1>5, AddsTyped DEF Typed, TypeOK, StoreKey, Statuses

LEMMA DropKeyDoes ==
  ASSUME Typed, NEW p \in Calls, DropKey(p)
  PROVE  Typed' /\ FailsAt(p) /\ Step(p) = Credential /\ SameRows
<1>1. job[p].pc \in AtWork /\ Local(p) /\ Step(p) = Credential
  BY AtAStep DEF DropKey, AtWork, Local
<1>2. FailsAt(p) /\ LocalOK' /\ job' \in [Calls -> Job] /\ status' \in Statuses
  BY <1>1, FailDoes DEF DropKey
<1>3. faults' \in 0..MaxFaults
  BY BoundsOK DEF DropKey, Fault, Typed, TypeOK
<1>4. flaws' \subseteq Flaws /\ keys' \subseteq Runs
  BY DEF DropKey, Typed, TypeOK, Flaws
<1>5. SameRows /\ RowsTyped'
  BY SameRowsTyped DEF DropKey, SameRows, Typed
<1> QED
  BY <1>1, <1>2, <1>3, <1>4, <1>5 DEF DropKey, Typed, TypeOK, Statuses, Flaws

LEMMA LoseKeyDoes ==
  ASSUME Typed, NEW p \in Calls, LoseKey(p)
  PROVE  Typed' /\ FailsAt(p) /\ Step(p) = Credential /\ SameRows /\ "lost" \in flaws'
<1>1. job[p].pc \in AtWork /\ job[p].run \in Runs /\ Step(p) = Credential
  BY AtAStep DEF LoseKey, AtWork
<1>2. FailsAt(p) /\ LocalOK' /\ job' \in [Calls -> Job] /\ status' \in Statuses
  BY <1>1, FailDoes DEF LoseKey
<1>3. faults' \in 0..MaxFaults
  BY BoundsOK DEF LoseKey, Fault, Typed, TypeOK
<1>4. flaws' \subseteq Flaws /\ keys' \subseteq Runs /\ "lost" \in flaws'
  BY <1>1 DEF LoseKey, Typed, TypeOK, Flaws
<1>5. SameRows /\ RowsTyped'
  BY SameRowsTyped DEF LoseKey, SameRows, Typed
<1> QED
  BY <1>1, <1>2, <1>3, <1>4, <1>5 DEF LoseKey, Typed, TypeOK, Statuses, Flaws

LEMMA FailStepDoes ==
  ASSUME Typed, NEW p \in Calls, Fail(p)
  PROVE  Typed' /\ FailsAt(p) /\ SameRows
<1>1. job[p].pc \in AtWork
  BY DEF Fail, AtWork
<1>2. FailsAt(p) /\ LocalOK' /\ job' \in [Calls -> Job] /\ status' \in Statuses
  BY <1>1, FailDoes DEF Fail, Save
<1>3. faults' \in 0..MaxFaults
  BY BoundsOK DEF Fail, Fault, Typed, TypeOK
<1>4. flaws' \subseteq Flaws
  BY DEF Fail, Typed, TypeOK, Flaws
<1>5. SameRows /\ RowsTyped'
  BY SameRowsTyped DEF Fail, SameRows, Typed
<1> QED
  BY <1>2, <1>3, <1>4, <1>5 DEF Fail, Typed, TypeOK, Statuses, Flaws

LEMMA FailLateDoes ==
  ASSUME Typed, NEW p \in Calls, FailLate(p)
  PROVE  /\ Typed' /\ FailsAt(p) /\ Adds(p) /\ keys' \subseteq keys
         /\ job[p].pc \in {"make", "store"}
         /\ \/ Step(p) = Credential /\ job[p].run \notin keys'
            \/ flaws' \cap {"undo", "unsaved"} # {}
            \/ Step(p) # Credential /\ job[p].pc = "make"
<1>1. /\ job[p].pc \in AtWork /\ job[p].run \in Runs /\ Step(p) \in Resources
      /\ job[p].pc = "store" => Step(p) = Credential
      /\ job[p].pc \in {"make", "store"}
  <2>1. /\ job[p].pc \in AtWork /\ job[p].pc \in {"make", "store"}
        /\ job[p].pc = "store" \/ Step(p) \in Resources
    BY DEF FailLate, AtWork
  <2>2. job[p].run \in Runs /\ Step(p) \in Kept /\ Local(p)
    BY <2>1, AtAStep
  <2> QED
    BY <2>1, <2>2, TheResources DEF Local
<1>2. /\ StepFails(p) /\ Insert(p) /\ Insertable(p) /\ ~Found(p) /\ Fault
      /\ status' \in {status, Saved("running")} /\ keys' \subseteq keys
      /\ runs' = runs /\ boot' = boot /\ user' = user
  BY DEF FailLate, Save
<1>3. FailsAt(p) /\ LocalOK' /\ job' \in [Calls -> Job] /\ status' \in Statuses
  BY <1>1, <1>2, FailDoes
<1>4. faults' \in 0..MaxFaults /\ flaws' \subseteq Flaws /\ keys' \subseteq Runs
  <2>1. faults' \in 0..MaxFaults /\ keys' \subseteq Runs
    BY <1>2, BoundsOK DEF Fault, Typed, TypeOK
  <2>2. flaws' \subseteq flaws \cup {"undo", "unsaved"}
    BY DEF FailLate
  <2> QED
    BY <2>1, <2>2 DEF Typed, TypeOK, Flaws
<1>5. Adds(p)
  BY <1>1, <1>2 DEF Adds
<1>6. \/ Step(p) = Credential /\ job[p].run \notin keys'
      \/ flaws' \cap {"undo", "unsaved"} # {}
      \/ Step(p) # Credential /\ job[p].pc = "make"
  <2>1. CASE Step(p) # Credential
    BY <1>1, <2>1
  <2>2. CASE Step(p) = Credential
    <3>1. "unsaved" \in {"unsaved" : s \in {Step(p)} \cap {Credential}}
      BY <2>2
    <3> QED
      BY <2>2, <3>1 DEF FailLate
  <2> QED
    BY <2>1, <2>2
<1> QED
  BY <1>1, <1>2, <1>3, <1>4, <1>5, <1>6, AddsTyped DEF Typed, TypeOK, Statuses, Flaws

\* One step of a roll-back.
StepsBack(p) ==
  /\ Others(p) /\ SameRun(p)
  /\ job[p].pc = "undo" /\ job'[p].pc = "undo" /\ job'[p].at = job[p].at - 1
  /\ job[p].at \in 1..Len(Steps) /\ Step(p) \in Kept /\ job[p].run \in Runs

\* What an undoing leaves of the rows of a resource.
Leaves(p, t) ==
  IF t = Step(p) THEN rows[t] \ MadeHere(p, t)
  ELSE IF t \in Owned(Step(p)) /\ rows[Step(p)] \cap MadeHere(p, Step(p)) # {}
       THEN {}
       ELSE rows[t]

UndoesRows(p) ==
  /\ rows' \in [Resources -> SUBSET Makers] /\ lone' \in [Resources -> SUBSET Makers]
  /\ \A t \in Resources :
       /\ rows'[t] = IF Exists /\ Step(p) \in Resources THEN Leaves(p, t) ELSE rows[t]
       /\ lone'[t] \subseteq rows'[t] /\ lone[t] \cap rows'[t] \subseteq lone'[t]
       /\ lone'[t] # {} => lone[t] # {} \/ t \in Connections

\* An undoing only removes rows.
LEMMA ShrinksRemoves ==
  ASSUME NEW p, UndoesRows(p), NEW t \in Resources
  PROVE  rows'[t] \subseteq rows[t]
  BY DEF UndoesRows, Leaves

LEMMA StepsBackLocal ==
  ASSUME Typed, NEW p \in Calls, StepsBack(p), runs' = runs, user' = user,
         job'[p].user = job[p].user
  PROVE  LocalOK'
<1>1. Live(p) /\ Local(p)
  BY DEF StepsBack, Live, Typed, LocalOK
<1>2. Local(p)'
  BY <1>1 DEF Local, StepsBack, SameRun, Live, AtWork
<1> QED
  BY <1>2, OthersLocal, BoundsOK DEF StepsBack, Typed, TypeOK

LEMMA DeleteDoes ==
  ASSUME Typed, NEW p \in Calls, Delete(p)
  PROVE  UndoesRows(p) /\ RowsTyped'
<1> DEFINE s == Step(p)
           goes == Exists /\ s \in Resources
           ends == goes /\ rows[s] \cap MadeHere(p, s) # {}
<1>1. /\ rows \in [Resources -> SUBSET Makers] /\ lone \in [Resources -> SUBSET Makers]
      /\ \A t \in Resources : lone[t] \subseteq rows[t]
  BY DEF Typed, TypeOK, RowsTyped
<1>2. /\ rows' = [t \in Resources |-> rows[t] \
            CASE goes /\ t = s -> MadeHere(p, s)
              [] ends /\ t \in Owned(s) -> rows[t]
              [] OTHER -> {}]
      /\ lone' = [t \in Resources |-> rows'[t] \cap
            (IF ends /\ s = Identity /\ t \in Connections THEN rows[t] ELSE lone[t])]
  BY DEF Delete
<1>3. ASSUME NEW t \in Resources
      PROVE  rows'[t] = IF goes THEN Leaves(p, t) ELSE rows[t]
  <2>1. rows'[t] = rows[t] \ CASE goes /\ t = s -> MadeHere(p, s)
                               [] ends /\ t \in Owned(s) -> rows[t]
                               [] OTHER -> {}
    BY <1>2
  <2>2. CASE goes /\ t = s
    <3>1. t \notin Owned(s)
      BY <2>2, Owning DEF Identity, Bot, Credential, Routines
    <3> QED
      BY <2>1, <2>2, <3>1 DEF Leaves
  <2>3. CASE ~(goes /\ t = s) /\ ends /\ t \in Owned(s)
    BY <2>1, <2>3 DEF Leaves
  <2>4. CASE ~(goes /\ t = s) /\ ~(ends /\ t \in Owned(s))
    BY <2>1, <2>4 DEF Leaves
  <2> QED
    BY <2>2, <2>3, <2>4
<1>4. \A t \in Resources : rows'[t] \subseteq rows[t]
  BY <1>3 DEF Leaves
<1>5. \A t \in Resources : lone'[t] = rows'[t] \cap
            (IF ends /\ s = Identity /\ t \in Connections THEN rows[t] ELSE lone[t])
  BY <1>2
<1>6. /\ rows' \in [Resources -> SUBSET Makers] /\ lone' \in [Resources -> SUBSET Makers]
  <2>1. \A t \in Resources : rows'[t] \subseteq Makers /\ lone'[t] \subseteq Makers
    BY <1>1, <1>4, <1>5
  <2> QED
    BY <1>2, <2>1
<1>7. \A t \in Resources :
          /\ lone'[t] \subseteq rows'[t] /\ lone[t] \cap rows'[t] \subseteq lone'[t]
          /\ lone'[t] # {} => lone[t] # {} \/ t \in Connections
  BY <1>1, <1>5
<1>8. UndoesRows(p)
  BY <1>3, <1>6, <1>7 DEF UndoesRows
<1>9. RowsTyped'
  BY <1>4, <1>7 DEF RowsTyped, Typed
<1> QED
  BY <1>8, <1>9

LEMMA UndoDoes ==
  ASSUME Typed, NEW p \in Calls, Undo(p)
  PROVE  /\ Typed' /\ StepsBack(p) /\ UndoesRows(p) /\ Step(p) # "workspace"
         /\ status' = Saved("failed")
<1>1. /\ job[p].pc = "undo" /\ job[p].at > 0 /\ Undone(p) /\ Live(p) /\ Local(p)
      /\ job[p].run \in Runs /\ runs' = runs /\ user' = user /\ Step(p) # "workspace"
  BY DEF Undo, Live, Typed, LocalOK, Local
<1>2. StepsBack(p) /\ job' \in [Calls -> Job] /\ job'[p].user = job[p].user
  BY <1>1, UndoneShape DEF StepsBack, Typed
<1>3. LocalOK'
  BY <1>1, <1>2, StepsBackLocal
<1>4. UndoesRows(p) /\ RowsTyped'
  BY DeleteDoes DEF Undo
<1>5. status' = Saved("failed") /\ status' \in Statuses
  BY DEF Undo, Save, Saved, Typed, TypeOK, Statuses
<1>6. faults' \in 0..MaxFaults /\ flaws' \subseteq Flaws /\ keys' \subseteq Runs
      /\ boot' = boot
  <2>1. /\ faults' = faults \/ Fault
        /\ flaws' \subseteq flaws \cup {"undo"} /\ keys' \subseteq keys /\ boot' = boot
    BY DEF Undo
  <2> QED
    BY <2>1, BoundsOK DEF Fault, Typed, TypeOK, Flaws
<1> QED
  BY <1>1, <1>2, <1>3, <1>4, <1>5, <1>6 DEF Typed, TypeOK, Statuses, Flaws, UndoesRows

LEMMA UndoWorkspaceDoes ==
  ASSUME Typed, NEW p \in Calls, UndoWorkspace(p)
  PROVE  /\ Typed' /\ StepsBack(p)
         /\ \/ /\ Exists /\ MadeHere(p, "workspace") # {}
               /\ status' = "none" /\ boot' = 0
               /\ rows' = [s \in Resources |-> {}] /\ lone' = rows'
            \/ /\ ~(Exists /\ MadeHere(p, "workspace") # {})
               /\ status' = Saved("failed") /\ boot' = boot /\ SameRows
<1>1. /\ job[p].pc = "undo" /\ job[p].at > 0 /\ Undone(p) /\ Live(p) /\ Local(p)
      /\ job[p].run \in Runs /\ runs' = runs /\ user' = user
  BY DEF UndoWorkspace, Live, Typed, LocalOK, Local
<1>2. StepsBack(p) /\ job' \in [Calls -> Job] /\ job'[p].user = job[p].user
  BY <1>1, UndoneShape DEF StepsBack, Typed
<1>3. LocalOK'
  BY <1>1, <1>2, StepsBackLocal
<1>4. \/ /\ Exists /\ MadeHere(p, "workspace") # {}
         /\ status' = "none" /\ boot' = 0
         /\ rows' = [s \in Resources |-> {}] /\ lone' = rows'
      \/ /\ ~(Exists /\ MadeHere(p, "workspace") # {})
         /\ status' = Saved("failed") /\ boot' = boot /\ SameRows
  BY DEF UndoWorkspace, Save, SameRows
<1>5. RowsTyped' /\ rows' \in [Resources -> SUBSET Makers]
      /\ lone' \in [Resources -> SUBSET Makers]
  <2>1. CASE rows' = [s \in Resources |-> {}] /\ lone' = rows'
    BY <2>1 DEF RowsTyped
  <2>2. CASE SameRows
    BY <2>2, SameRowsTyped DEF SameRows, Typed, TypeOK
  <2> QED
    BY <1>4, <2>1, <2>2
<1>6. status' \in Statuses /\ boot' \in 0..MaxRuns
  BY <1>4, BoundsOK DEF Saved, Typed, TypeOK, Statuses
<1>7. TypeOK'
  BY <1>2, <1>5, <1>6 DEF UndoWorkspace, Typed, TypeOK, Statuses
<1> QED
  BY <1>2, <1>3, <1>4, <1>5, <1>7 DEF Typed

LEMMA UndoFailsDoes ==
  ASSUME Typed, NEW p \in Calls, UndoFails(p)
  PROVE  /\ Typed' /\ StepsBack(p) /\ status' = Saved("failed") /\ keys' \subseteq keys
         /\ SameRows \/ UndoesRows(p)
<1>1. /\ job[p].pc = "undo" /\ job[p].at > 0 /\ Live(p) /\ Local(p) /\ job[p] \in Job
      /\ job[p].run \in Runs /\ runs' = runs /\ user' = user
      /\ job[p].at \in 1..Len(Steps)
  BY StepsBegin DEF UndoFails, Live, Typed, TypeOK, LocalOK, Local, Job
<1>2. Step(p) \in Kept /\ job[p].at - 1 \in 0..Len(Steps)
  BY <1>1, StepsBegin DEF Step
<1>3. StepsBack(p) /\ job' \in [Calls -> Job] /\ job'[p].user = job[p].user
  BY <1>1, <1>2 DEF StepsBack, Typed, TypeOK, UndoFails, Job, Others, SameRun
<1>4. LocalOK'
  BY <1>1, <1>3, StepsBackLocal
<1>5. faults' \in 0..MaxFaults /\ flaws' \subseteq Flaws /\ keys' \subseteq keys
  BY BoundsOK DEF UndoFails, Fault, Typed, TypeOK, Flaws
<1>6. (SameRows \/ UndoesRows(p)) /\ RowsTyped'
  BY SameRowsTyped, DeleteDoes DEF UndoFails, SameRows, Typed
<1>7. status' = Saved("failed") /\ status' \in Statuses /\ boot' = boot
  BY DEF UndoFails, Save, Saved, Typed, TypeOK, Statuses
<1>8. rows' \in [Resources -> SUBSET Makers] /\ lone' \in [Resources -> SUBSET Makers]
  BY <1>6 DEF SameRows, UndoesRows, Typed, TypeOK
<1>9. TypeOK'
  BY <1>1, <1>3, <1>5, <1>7, <1>8 DEF Typed, TypeOK, Statuses, Flaws
<1> QED
  BY <1>3, <1>4, <1>5, <1>6, <1>7, <1>9 DEF Typed

\* A sign-up is nobody's step: it adds a member, and preferences.
LEMMA SignUpDoes ==
  ASSUME Typed, SignUp
  PROVE  /\ Typed'
         /\ \A s \in Resources :
              /\ rows[s] \subseteq rows'[s] /\ rows'[s] \subseteq rows[s] \cup {0}
              /\ s \notin Social => rows'[s] = rows[s] /\ lone'[s] = lone[s]
              /\ s = Membership => lone'[s] = rows[s]
              /\ s = Preferences => lone'[s] = lone[s] /\ (rows'[s] = rows[s] \/ rows[s] = {})
         /\ rows' = rows \/ \E s \in Resources : rows[s] # {}
         /\ user' = TRUE /\ user = FALSE
<1>1. /\ rows \in [Resources -> SUBSET Makers] /\ lone \in [Resources -> SUBSET Makers]
      /\ 0 \in Makers /\ user = FALSE /\ user' = TRUE
  BY BoundsOK DEF Typed, TypeOK, Makers, SignUp
<1>2. lone' = [s \in Resources |-> IF s = Membership THEN rows[s] ELSE lone[s]]
  BY DEF SignUp
<1>3. /\ \A s \in Resources :
           /\ rows[s] \subseteq rows'[s] /\ rows'[s] \subseteq rows[s] \cup {0}
           /\ s \notin Social => rows'[s] = rows[s]
           /\ s = Preferences => rows'[s] = rows[s] \/ rows[s] = {}
      /\ rows' = rows \/ \E s \in Resources : rows[s] # {}
      /\ rows' \in [Resources -> SUBSET Makers]
  <2>1. CASE rows' = rows
    BY <1>1, <2>1
  <2>2. CASE /\ \E s \in Resources \cap {Membership} : rows[s] # {}
             /\ rows' = [s \in Resources |-> rows[s] \cup
                  CASE s = Membership -> {0}
                    [] s = Preferences /\ rows[s] = {} -> {0}
                    [] OTHER -> {}]
    <3>1. ASSUME NEW s \in Resources
          PROVE  rows'[s] = IF s = Membership \/ (s = Preferences /\ rows[s] = {})
                            THEN rows[s] \cup {0} ELSE rows[s]
      <4>1. rows'[s] = rows[s] \cup CASE s = Membership -> {0}
                                      [] s = Preferences /\ rows[s] = {} -> {0}
                                      [] OTHER -> {}
        BY <2>2
      <4>2. CASE s = Membership
        BY <4>1, <4>2
      <4>3. CASE s # Membership /\ s = Preferences /\ rows[s] = {}
        BY <4>1, <4>3
      <4>4. CASE s # Membership /\ ~(s = Preferences /\ rows[s] = {})
        BY <4>1, <4>4
      <4> QED
        BY <4>2, <4>3, <4>4
    <3>2. \A s \in Resources : rows'[s] \subseteq Makers
      BY <1>1, <3>1
    <3>3. rows' \in [Resources -> SUBSET Makers]
      BY <2>2, <3>2
    <3> QED
      BY <2>2, <3>1, <3>3 DEF Social, Membership, Preferences
  <2> QED
    BY <2>1, <2>2 DEF SignUp
<1>4. \A s \in Resources : lone'[s] = IF s = Membership THEN rows[s] ELSE lone[s]
  BY <1>2
<1>5. lone' \in [Resources -> SUBSET Makers]
  BY <1>1, <1>2
<1>6. RowsTyped'
  BY <1>3, <1>4 DEF RowsTyped, Typed
<1>7. TypeOK'
  BY <1>1, <1>3, <1>5 DEF SignUp, Typed, TypeOK
<1>8. LocalOK'
  <2>1. ASSUME NEW p \in Calls PROVE Local(p)'
    <3>1. job' = job /\ runs' = runs /\ Local(p)
      BY DEF SignUp, Typed, LocalOK
    <3>2. Live(p)' = Live(p) /\ Step(p)' = Step(p) /\ \A n : Saw(p, n)' = Saw(p, n)
      BY <3>1 DEF Live, Step, Saw
    <3> QED
      BY <1>1, <3>1, <3>2 DEF Local
  <2> QED
    BY <2>1 DEF LocalOK
<1> QED
  BY <1>1, <1>3, <1>4, <1>6, <1>7, <1>8 DEF Typed, Social, Preferences, Membership

\* The types hold from the beginning, and every step keeps them.
LEMMA TypedInit == Init => Typed
<1>1. Idle \in Job /\ Idle.pc = "idle" /\ Idle.user = FALSE /\ 0 \in Nat
  BY StepsBegin, BoundsOK DEF Idle, Job
<1> SUFFICES ASSUME Init PROVE Typed
  OBVIOUS
<1>2. TypeOK
  BY <1>1, BoundsOK DEF Init, TypeOK
<1>3. LocalOK
  BY <1>1 DEF Init, LocalOK, Local, Live, AtWork
<1>4. RowsTyped
  BY DEF Init, RowsTyped
<1> QED
  BY <1>2, <1>3, <1>4 DEF Typed

\* What one call may do.
Acts(p) ==
  \/ Load(p) \/ Begin(p) \/ BeginFails(p) \/ Find(p)
  \/ MakeWorkspace(p) \/ Reuse(p) \/ Make(p) \/ MakeComputer(p)
  \/ MakeKey(p) \/ LoseKey(p) \/ StoreKey(p) \/ DropKey(p) \/ Fail(p) \/ FailLate(p)
  \/ Complete(p) \/ Undo(p) \/ UndoWorkspace(p) \/ UndoFails(p)
  \/ RolledBack(p) \/ SaveFails(p) \/ Die(p)

LEMMA NextActs == Next <=> SignUp \/ \E p \in Calls : Acts(p)
  BY DEF Next, Acts

LEMMA ActsTyped ==
  ASSUME Typed, NEW p \in Calls, Acts(p)
  PROVE  Typed'
  BY LoadDoes, BeginDoes, BeginFailsDoes, FindDoes, MakeWorkspaceDoes, ReuseDoes,
     MakeDoes, MakeComputerDoes, MakeKeyDoes, LoseKeyDoes, StoreKeyDoes, DropKeyDoes, FailStepDoes,
     FailLateDoes, CompleteDoes, UndoDoes, UndoWorkspaceDoes, UndoFailsDoes,
     RolledBackDoes, SaveFailsDoes, DieDoes
     DEF Acts

LEMMA TypedStutters ==
  ASSUME Typed, UNCHANGED vars
  PROVE  Typed'
<1>1. TypeOK' /\ RowsTyped'
  BY DEF vars, Typed, TypeOK, RowsTyped
<1>2. \A p, n : Live(p)' = Live(p) /\ Step(p)' = Step(p) /\ Saw(p, n)' = Saw(p, n)
  BY DEF vars, Live, Step, Saw
<1>3. LocalOK'
  BY <1>2 DEF vars, Typed, LocalOK, Local
<1> QED
  BY <1>1, <1>3 DEF Typed

LEMMA TypedNext == Typed /\ [Next]_vars => Typed'
  BY NextActs, ActsTyped, SignUpDoes, TypedStutters

LEMMA TypedAlways == Spec => []Typed
  BY TypedInit, TypedNext, PTL DEF Spec

\* Every variable keeps its type.
THEOREM TypeCorrect == Spec => []TypeOK
<1>1. Typed => TypeOK
  BY DEF Typed
<1> QED
  BY <1>1, TypedAlways, PTL

-----------------------------------------------------------------------------
(* What every step of a call is *)

\* A call loads a new run, or ends, or goes on with its run.
Carries(p) ==
  \/ Load(p)
  \/ Live(p) /\ Rests(p) /\ runs' = runs
  \/ /\ Live(p) /\ runs' = runs
     /\ job'[p].run = job[p].run /\ job'[p].pc \notin {"idle", "begin"}

LEMMA ActsCarry ==
  ASSUME Typed, NEW p \in Calls, Acts(p)
  PROVE  Others(p) /\ Carries(p) /\ flaws \subseteq flaws' /\ user' = user
<1>1. CASE Load(p)
  BY <1>1, LoadDoes DEF Carries, Load
<1>2. CASE Begin(p)
  BY <1>2, BeginDoes DEF Carries, Goes, SameRun, Live, Begin
<1>3. CASE BeginFails(p)
  BY <1>3, BeginFailsDoes DEF Carries, Rests, Live, BeginFails
<1>4. CASE Find(p)
  BY <1>4, FindDoes DEF Carries, FindsAt, Goes, FailsAt, SameRun, Live, Find
<1>5. CASE MakeWorkspace(p)
  BY <1>5, MakeWorkspaceDoes DEF Carries, AdvancesWith, Live, MakeWorkspace
<1>6. CASE Reuse(p)
  BY <1>6, ReuseDoes DEF Carries, AdvancesWith, FailsAt, SameRun, Live, Reuse
<1>7. CASE Make(p)
  BY <1>7, MakeDoes DEF Carries, Makes, AdvancesWith, FailsAt, SameRun, Live, Make
<1>8. CASE MakeComputer(p)
  BY <1>8, MakeComputerDoes
     DEF Carries, Ensures, AdvancesWith, FailsAt, SameRun, Live, MakeComputer
<1>9. CASE MakeKey(p)
  BY <1>9, MakeKeyDoes DEF Carries, Goes, SameRun, Live, MakeKey
<1>10. CASE StoreKey(p)
  BY <1>10, StoreKeyDoes DEF Carries, AdvancesWith, Live, StoreKey
<1>11. CASE DropKey(p)
  BY <1>11, DropKeyDoes DEF Carries, FailsAt, SameRun, Live, DropKey
<1>12. CASE Fail(p)
  BY <1>12, FailStepDoes DEF Carries, FailsAt, SameRun, Live, Fail
<1>13. CASE FailLate(p)
  BY <1>13, FailLateDoes DEF Carries, FailsAt, SameRun, Live, FailLate
<1>14. CASE Complete(p)
  BY <1>14, CompleteDoes DEF Carries, Rests, Live, Complete
<1>15. CASE Undo(p)
  BY <1>15, UndoDoes DEF Carries, StepsBack, SameRun, Live, Undo
<1>16. CASE UndoWorkspace(p)
  BY <1>16, UndoWorkspaceDoes DEF Carries, StepsBack, SameRun, Live, UndoWorkspace
<1>17. CASE UndoFails(p)
  BY <1>17, UndoFailsDoes DEF Carries, StepsBack, SameRun, Live, UndoFails
<1>18. CASE RolledBack(p)
  BY <1>18, RolledBackDoes DEF Carries, Rests, Live, RolledBack
<1>19. CASE SaveFails(p)
  BY <1>19, SaveFailsDoes DEF Carries, Rests, SaveFails
<1>20. CASE Die(p)
  BY <1>20, DieDoes DEF Carries, Rests, Live, Die
<1>21. CASE LoseKey(p)
  BY <1>21, LoseKeyDoes DEF Carries, FailsAt, SameRun, Live, LoseKey
<1> QED
  BY <1>1, <1>2, <1>3, <1>4, <1>5, <1>6, <1>7, <1>8, <1>9, <1>10, <1>11, <1>12, <1>13,
     <1>14, <1>15, <1>16, <1>17, <1>18, <1>19, <1>20, <1>21 DEF Acts

\* What a step may do to the rows and the organization.
Quiet(p) == SameRows /\ boot' = boot /\ Exists' = Exists

Begins(p) == /\ SameRows /\ job[p].pc = "begin" /\ job'[p].pc \in {"find", "idle"}
             /\ Exists' /\ boot' = IF Exists THEN boot ELSE job[p].run

Grows(p) == /\ Adds(p) /\ boot' = boot /\ Exists' = Exists
            /\ job[p].run \in Runs /\ Live(p)
            /\ job[p].pc \in {"make", "store"}

Shrinks(p) == StepsBack(p) /\ UndoesRows(p) /\ boot' = boot /\ Exists' = Exists

Wipes(p) == /\ StepsBack(p) /\ Step(p) = "workspace"
            /\ Exists /\ MadeHere(p, "workspace") # {}
            /\ status' = "none" /\ boot' = 0
            /\ rows' = [s \in Resources |-> {}] /\ lone' = rows'

\* A save makes no organization.
LEMMA SavedKeeps ==
  ASSUME NEW s \in Statuses \ {"none"}, status' \in {status, Saved(s)}
  PROVE  Exists' = Exists
  BY DEF Saved, Exists, Statuses

LEMMA ActsMove ==
  ASSUME Typed, NEW p \in Calls, Acts(p)
  PROVE  /\ Quiet(p) \/ Begins(p) \/ Grows(p) \/ Shrinks(p) \/ Wipes(p)
         /\ keys' \subseteq keys \/ MakeKey(p) \/ LoseKey(p)
<1>1. /\ FailsAt(p) => Exists' = Exists
      /\ \A new : AdvancesWith(p, new) => Exists' = Exists
      /\ status' = Saved("failed") => Exists' = Exists
  BY SavedKeeps DEF FailsAt, AdvancesWith, Statuses
<1>2. CASE Load(p)
  BY <1>2 DEF Quiet, Load, Exists, SameRows
<1>3. CASE Begin(p)
  BY <1>3, BeginDoes DEF Begins, Goes, Begin, Exists, SameRows
<1>4. CASE BeginFails(p)
  BY <1>4 DEF Quiet, BeginFails, Exists, SameRows
<1>5. CASE Find(p)
  BY <1>1, <1>5, FindDoes DEF Quiet, FindsAt, Find, Exists, SameRows
<1>6. CASE MakeWorkspace(p)
  BY <1>1, <1>6, MakeWorkspaceDoes DEF Quiet, MakeWorkspace
<1>7. CASE Reuse(p)
  BY <1>1, <1>7, ReuseDoes DEF Quiet, Reuse
<1>8. CASE Make(p)
  <2>1. /\ boot' = boot /\ keys' = keys /\ job[p].pc = "make" /\ job[p].pc \in AtWork
    BY <1>8 DEF Make, AtWork
  <2>2. Live(p) /\ job[p].run \in Runs
    BY <2>1, AtAStep
  <2> QED
    BY <1>1, <1>8, <2>1, <2>2, MakeDoes DEF Quiet, Grows, Makes
<1>9. CASE MakeComputer(p)
  <2>1. /\ boot' = boot /\ keys' = keys /\ job[p].pc = "make" /\ job[p].pc \in AtWork
    BY <1>9 DEF MakeComputer, AtWork
  <2>2. Live(p) /\ job[p].run \in Runs
    BY <2>1, AtAStep
  <2> QED
    BY <1>1, <1>9, <2>1, <2>2, MakeComputerDoes DEF Quiet, Grows, Ensures
<1>10. CASE MakeKey(p)
  BY <1>10, MakeKeyDoes DEF Quiet, MakeKey, Exists
<1>11. CASE StoreKey(p)
  <2>1. /\ boot' = boot /\ keys' = keys /\ job[p].pc = "store" /\ job[p].pc \in AtWork
    BY <1>11 DEF StoreKey, AtWork
  <2>2. Live(p) /\ job[p].run \in Runs
    BY <2>1, AtAStep
  <2> QED
    BY <1>1, <1>11, <2>1, <2>2, StoreKeyDoes DEF Grows
<1>12. CASE DropKey(p)
  BY <1>1, <1>12, DropKeyDoes DEF Quiet, DropKey
<1>13. CASE Fail(p)
  BY <1>1, <1>13, FailStepDoes DEF Quiet, Fail
<1>14. CASE FailLate(p)
  <2>1. boot' = boot
    BY <1>14 DEF FailLate
  <2>2. job[p].pc \in {"make", "store"} /\ job[p].pc \in AtWork
    BY <1>14, FailLateDoes DEF AtWork
  <2>3. Live(p) /\ job[p].run \in Runs
    BY <2>2, AtAStep
  <2> QED
    BY <1>1, <1>14, <2>1, <2>2, <2>3, FailLateDoes DEF Grows
<1>15. CASE Complete(p)
  BY <1>15 DEF Quiet, Complete, Exists, Save, Saved, SameRows
<1>16. CASE Undo(p)
  BY <1>1, <1>16, UndoDoes DEF Shrinks, Undo
<1>17. CASE UndoWorkspace(p)
  BY <1>1, <1>17, UndoWorkspaceDoes DEF Quiet, Wipes, UndoWorkspace
<1>18. CASE UndoFails(p)
  BY <1>1, <1>18, UndoFailsDoes DEF Quiet, Shrinks, UndoFails
<1>19. CASE RolledBack(p)
  BY <1>19 DEF Quiet, RolledBack, Exists, Save, Saved, SameRows
<1>20. CASE SaveFails(p)
  <2>1. SameRows /\ keys' = keys /\ job'[p].pc = "idle"
    <3>1. job'[p] = Idle /\ Idle.pc = "idle"
      BY <1>20, SaveFailsDoes DEF Rests, Idle
    <3> QED
      BY <1>20, <3>1 DEF SaveFails, SameRows
  <2>2. CASE Exists' = Exists
    <3>1. boot' = boot
      BY <1>20, <2>2, SaveFailsDoes
    <3> QED
      BY <2>1, <2>2, <3>1 DEF Quiet
  <2>3. CASE Exists' # Exists
    <3>1. Exists' /\ ~Exists /\ job[p].pc = "begin" /\ boot' = job[p].run
      BY <1>20, <2>3, SaveFailsDoes DEF Exists
    <3> QED
      BY <2>1, <3>1 DEF Begins
  <2> QED
    BY <2>1, <2>2, <2>3
<1>21. CASE Die(p)
  BY <1>21 DEF Quiet, Die, Exists, SameRows
<1>22. CASE LoseKey(p)
  BY <1>1, <1>22, LoseKeyDoes DEF Quiet, LoseKey
<1> QED
  BY <1>2, <1>3, <1>4, <1>5, <1>6, <1>7, <1>8, <1>9, <1>10, <1>11, <1>12, <1>13,
     <1>14, <1>15, <1>16, <1>17, <1>18, <1>19, <1>20, <1>21, <1>22 DEF Acts

\* What is made is added to its rows, and nothing else changes.
LEMMA GrowsBy ==
  ASSUME Typed, NEW p \in Calls, Grows(p)
  PROVE  /\ Step(p) \in Resources
         /\ rows'[Step(p)] = rows[Step(p)] \cup {job[p].run}
         /\ \A t \in Resources \ {Step(p)} : rows'[t] = rows[t] /\ lone'[t] = lone[t]
         /\ \A n \in Needs(Step(p)) : Saw(p, n) # {} /\ Saw(p, n) \subseteq rows[n]
         /\ Exists
<1>1. job[p].pc \in AtWork /\ Adds(p)
  BY DEF Grows, AtWork
<1>2. \A n \in Needs(Step(p)) : Saw(p, n) # {}
  BY DEF Grows, Typed, LocalOK, Local
<1> QED
  BY <1>1, <1>2, AddsTyped DEF Adds, Insertable, Stands

\* Rows are only ever added by the call itself.
LEMMA RowsFrom ==
  ASSUME Typed, NEW p \in Calls, Acts(p), NEW t \in Resources
  PROVE  rows'[t] \subseteq rows[t] \cup {job[p].run}
<1>1. CASE Grows(p)
  BY <1>1, GrowsBy
<1>2. CASE Shrinks(p)
  BY <1>2, ShrinksRemoves DEF Shrinks
<1> QED
  BY <1>1, <1>2, ActsMove DEF Quiet, Begins, Wipes, SameRows

\* A call at its step goes on with it, or completes it.
Stays(p) ==
  /\ Goes(p, job'[p].pc) /\ job[p].pc \in AtWork /\ job'[p].pc \in AtWork
  /\ SameRows /\ keys \subseteq keys'

Completes(p) ==
  /\ job[p].pc \in AtWork /\ keys' = keys
  /\ \/ MakeWorkspace(p) /\ AdvancesWith(p, {job[p].run} \cap {boot}) /\ SameRows
     \/ Reuse(p) /\ AdvancesWith(p, {}) /\ SameRows
     \/ Adds(p) /\ AdvancesWith(p, {job[p].run})
     \/ Ensures(p) /\ job[p].pc = "make"

LEMMA ToWork ==
  ASSUME Typed, NEW p \in Calls, Acts(p), job'[p].pc \in AtWork \cup {"complete"}
  PROVE  Begin(p) \/ Stays(p) \/ Completes(p)
<1>1. Idle.pc = "idle"
  BY DEF Idle
<1>2. ~Load(p)
  BY LoadDoes DEF AtWork
<1>3. ~Rests(p)
  BY <1>1 DEF Rests, AtWork
<1>4. ~FailsAt(p) /\ ~StepsBack(p)
  BY DEF FailsAt, StepsBack, AtWork
<1>5. ~BeginFails(p) /\ ~Complete(p) /\ ~RolledBack(p) /\ ~SaveFails(p) /\ ~Die(p)
  BY <1>3, BeginFailsDoes, CompleteDoes, RolledBackDoes, SaveFailsDoes, DieDoes
<1>6. ~LoseKey(p) /\ ~DropKey(p) /\ ~Fail(p) /\ ~FailLate(p) /\ ~Undo(p)
      /\ ~UndoWorkspace(p) /\ ~UndoFails(p)
  BY <1>4, LoseKeyDoes, DropKeyDoes, FailStepDoes, FailLateDoes, UndoDoes,
     UndoWorkspaceDoes, UndoFailsDoes
<1>7. CASE Find(p)
  <2>1. FindsAt(p) /\ SameRows /\ keys' = keys /\ job[p].pc = "find"
    BY <1>4, <1>7, FindDoes DEF Find, SameRows
  <2> QED
    BY <2>1 DEF Stays, FindsAt, Goes, AtWork
<1>8. CASE MakeKey(p)
  BY <1>8, MakeKeyDoes DEF MakeKey, Stays, Goes, AtWork
<1>9. CASE MakeWorkspace(p)
  BY <1>9, MakeWorkspaceDoes DEF MakeWorkspace, Completes, AtWork
<1>10. CASE Reuse(p)
  BY <1>4, <1>10, ReuseDoes DEF Reuse, Completes, AtWork
<1>11. CASE Make(p)
  BY <1>4, <1>11, MakeDoes DEF Make, Makes, Completes, AtWork
<1>12. CASE MakeComputer(p)
  BY <1>4, <1>12, MakeComputerDoes DEF MakeComputer, Completes, AtWork
<1>13. CASE StoreKey(p)
  BY <1>13, StoreKeyDoes DEF StoreKey, Completes, AtWork
<1> QED
  BY <1>2, <1>5, <1>6, <1>7, <1>8, <1>9, <1>10, <1>11, <1>12, <1>13 DEF Acts

\* What a step that is completed has made, it adds to the call's list.
LEMMA CompletesWith ==
  ASSUME NEW p \in Calls, Completes(p)
  PROVE  \E new : AdvancesWith(p, new)
  BY DEF Completes, Ensures

\* And it adds no row but its own.
LEMMA CompletesRows ==
  ASSUME Typed, NEW p \in Calls, Completes(p)
  PROVE  /\ \A t \in Resources \ {Step(p)} : rows'[t] = rows[t] /\ lone'[t] = lone[t]
         /\ \A t \in Resources : rows[t] \subseteq rows'[t]
<1>1. CASE SameRows
  BY <1>1 DEF SameRows
<1>2. CASE Adds(p)
  BY <1>2, AddsTyped DEF Completes
<1> QED
  BY <1>1, <1>2 DEF Completes, Ensures

-----------------------------------------------------------------------------
(* Runs, rows and the organization *)

Alone == "overlap" \notin flaws

RunsDiffer ==
  \A p, q \in Calls : Live(p) /\ Live(q) /\ p # q => job[p].run # job[q].run

OneAtATime == Alone => \A p, q \in Calls : Live(p) /\ Live(q) => p = q

\* Nothing is there without the organization, and nothing that belongs to an
\* identity or to a bot without it; a run that has not begun has made nothing.
RowsOK ==
  /\ ~Exists => boot = 0 /\ \A s \in Resources : rows[s] = {}
  /\ Exists => 1 <= boot
  /\ boot <= runs /\ \A r \in keys : r <= runs
  /\ \A s \in Resources : \A m \in rows[s] : m <= runs
  /\ \A s \in Resources : \A t \in Owned(s) : rows[s] = {} => rows[t] = {}

LEMMA RunsDifferStep ==
  ASSUME Typed, RunsDiffer, NEW p \in Calls, Acts(p)
  PROVE  RunsDiffer'
<1>1. Others(p) /\ Carries(p)
  BY ActsCarry
<1>2. \A q \in Calls \ {p} : Live(q)' = Live(q) /\ job'[q].run = job[q].run
  BY <1>1 DEF Others, Live
<1>3. ASSUME NEW q \in Calls \ {p}, Live(p)', Live(q)
      PROVE  job'[p].run # job[q].run
  <2>1. CASE Load(p)
    <3>1. job'[p].run = runs' /\ runs' = runs + 1 /\ runs \in Nat
      <4>1. runs' = runs + 1 /\ runs \in Nat
        BY <2>1, BoundsOK DEF Load, Typed, TypeOK
      <4> QED
        BY <2>1, <4>1, LoadDoes
    <3>2. job[q].run <= runs
      BY <1>3 DEF Typed, LocalOK, Local
    <3> QED
      BY <3>1, <3>2
  <2>2. CASE Live(p) /\ Rests(p)
    BY <2>2, <1>3 DEF Rests, Idle, Live
  <2>3. CASE Live(p) /\ job'[p].run = job[p].run
    BY <2>3, <1>3 DEF RunsDiffer
  <2> QED
    BY <1>1, <2>1, <2>2, <2>3 DEF Carries
<1>4. ASSUME NEW a \in Calls, NEW b \in Calls, Live(a)', Live(b)', a # b
      PROVE  job'[a].run # job'[b].run
  <2>1. CASE a = p
    BY <1>2, <1>3, <1>4, <2>1
  <2>2. CASE b = p
    BY <1>2, <1>3, <1>4, <2>2
  <2>3. CASE a # p /\ b # p
    BY <1>2, <1>4, <2>3 DEF RunsDiffer
  <2> QED
    BY <2>1, <2>2, <2>3
<1> QED
  BY <1>4 DEF RunsDiffer

LEMMA OneAtATimeStep ==
  ASSUME Typed, OneAtATime, NEW p \in Calls, Acts(p)
  PROVE  OneAtATime'
<1>1. Others(p) /\ Carries(p) /\ flaws \subseteq flaws'
  BY ActsCarry
<1>2. \A q \in Calls \ {p} : Live(q)' = Live(q)
  BY <1>1 DEF Others, Live
<1>3. SUFFICES ASSUME Alone', NEW a \in Calls, NEW b \in Calls, Live(a)', Live(b)'
               PROVE  a = b
  BY DEF OneAtATime
<1>4. Alone
  BY <1>1, <1>3 DEF Alone
<1>5. CASE Load(p)
  <2>1. \A c \in Calls : ~Live(c)
    <3>1. SUFFICES ASSUME NEW c \in Calls, Live(c) PROVE FALSE
      OBVIOUS
    <3>2. "overlap" \in {"overlap" : q \in {d \in Calls : Live(d)}}
      BY <3>1
    <3> QED
      BY <1>3, <1>5, <3>2 DEF Load, Alone
  <2> QED
    BY <1>2, <1>3, <2>1
<1>6. CASE Live(p)
  BY <1>2, <1>3, <1>4, <1>6 DEF OneAtATime
<1> QED
  BY <1>1, <1>5, <1>6 DEF Carries

LEMMA RowsOKStep ==
  ASSUME Typed, RowsOK, NEW p \in Calls, Acts(p)
  PROVE  RowsOK'
<1>1. Others(p) /\ Carries(p)
  BY ActsCarry
<1>2. runs \in Nat /\ runs' \in Nat /\ runs <= runs' /\ boot \in Nat /\ keys \subseteq Nat
      /\ \A s \in Resources : rows[s] \subseteq Nat
  <2>1. runs \in Nat /\ boot \in Nat /\ keys \subseteq Nat
    BY BoundsOK DEF Typed, TypeOK, Runs
  <2>2. runs' = runs \/ runs' = runs + 1
    BY <1>1 DEF Carries, Load
  <2> QED
    BY <2>1, <2>2, BoundsOK DEF Typed, TypeOK, Makers
<1>3. \A r \in keys' : r <= runs'
  <2>1. keys' \subseteq keys \/ MakeKey(p) \/ LoseKey(p)
    BY ActsMove
  <2>2. CASE keys' \subseteq keys
    BY <1>2, <2>2 DEF RowsOK
  <2>3. CASE MakeKey(p) \/ LoseKey(p)
    <3>1. job[p].run <= runs
      BY <2>3, AtAStep DEF MakeKey, LoseKey, AtWork, Local
    <3>2. keys' = keys \cup {job[p].run} /\ runs' = runs
      BY <2>3 DEF MakeKey, LoseKey
    <3> QED
      BY <1>2, <3>1, <3>2 DEF RowsOK
  <2> QED
    BY <2>1, <2>2, <2>3
<1>4. CASE Quiet(p)
  BY <1>2, <1>3, <1>4, Owning DEF RowsOK, Quiet, SameRows
<1>5. CASE Begins(p)
  <2>1. job[p].run \in Nat /\ 1 <= job[p].run /\ job[p].run <= runs
    BY <1>5, BoundsOK DEF Begins, Typed, LocalOK, Local, Live, Runs
  <2>2. rows' = rows /\ Exists' /\ boot' = IF Exists THEN boot ELSE job[p].run
    BY <1>5 DEF Begins, SameRows
  <2> QED
    BY <1>2, <1>3, <2>1, <2>2, Owning DEF RowsOK
<1>6. CASE Grows(p)
  <2>1. Step(p) \in Resources /\ Exists /\ Exists' /\ boot' = boot
        /\ job[p].run \in Nat /\ job[p].run <= runs
    BY <1>6, GrowsBy, BoundsOK DEF Grows, Typed, LocalOK, Local, Runs
  <2>2. \A t \in Resources : rows[t] \subseteq rows'[t] /\ (t # Step(p) => rows'[t] = rows[t])
    BY <1>6, GrowsBy
  <2>3. ASSUME NEW s \in Resources, NEW t \in Owned(s), rows'[s] = {}
        PROVE  rows'[t] = {}
    <3>1. rows[s] = {} /\ t \in Resources
      BY <2>2, <2>3, Owning
    <3>2. rows[t] = {}
      BY <3>1, <2>3 DEF RowsOK
    <3>3. Step(p) # t
      <4>1. SUFFICES ASSUME Step(p) = t PROVE FALSE
        OBVIOUS
      <4>2. s \in Needs(t)
        BY Owning, TheResources
      <4>3. rows[s] # {}
        BY <1>6, <4>1, <4>2, GrowsBy
      <4> QED
        BY <3>1, <4>3
    <3> QED
      BY <3>1, <3>2, <3>3, <2>2
  <2>4. \A s \in Resources : \A m \in rows'[s] : m <= runs'
    BY <1>2, <1>6, <2>1, GrowsBy DEF RowsOK
  <2> QED
    BY <1>2, <1>3, <2>1, <2>3, <2>4 DEF RowsOK
<1>7. CASE Shrinks(p)
  <2>1. boot' = boot /\ Exists' = Exists /\ UndoesRows(p)
    BY <1>7 DEF Shrinks
  <2>2. \A t \in Resources : rows'[t] \subseteq rows[t]
    BY <2>1, ShrinksRemoves
  <2>3. ASSUME NEW s \in Resources, NEW t \in Owned(s), rows'[s] = {}
        PROVE  rows'[t] = {}
    <3>1. t \in Resources /\ Owned(t) = {} /\ s # t
      BY Owning DEF Identity, Bot, Credential, Routines
    <3>2. CASE rows[s] = {}
      BY <2>2, <2>3, <3>1, <3>2 DEF RowsOK
    <3>3. CASE rows[s] # {}
      <4>1. Exists /\ Step(p) \in Resources /\ Leaves(p, s) = {}
            /\ rows'[t] = Leaves(p, t)
        BY <2>1, <2>3, <3>1, <3>3 DEF UndoesRows
      <4>2. s \notin Owned(Step(p))
        <5>1. s \in {Identity, Bot}
          BY Owning
        <5> QED
          BY <5>1, Owning DEF Identity, Bot, Credential, Routines
      <4>3. Step(p) = s /\ rows[s] \ MadeHere(p, s) = {}
        BY <3>3, <4>1, <4>2 DEF Leaves
      <4>4. rows[s] \cap MadeHere(p, s) # {}
        BY <3>3, <4>3
      <4> QED
        BY <3>1, <4>1, <4>3, <4>4 DEF Leaves
    <3> QED
      BY <3>2, <3>3
  <2>4. \A s \in Resources : \A m \in rows'[s] : m <= runs'
    BY <1>2, <2>2 DEF RowsOK
  <2>5. ~Exists' => boot' = 0 /\ \A s \in Resources : rows'[s] = {}
    BY <2>1, <2>2 DEF RowsOK
  <2> QED
    BY <1>2, <1>3, <2>1, <2>3, <2>4, <2>5 DEF RowsOK
<1>8. CASE Wipes(p)
  <2>1. boot' = 0 /\ ~Exists' /\ \A s \in Resources : rows'[s] = {}
    BY <1>8 DEF Wipes, Exists
  <2>2. \A s \in Resources : \A t \in Owned(s) : rows'[t] = {}
    BY <2>1, Owning
  <2> QED
    BY <1>2, <1>3, <2>1, <2>2 DEF RowsOK
<1> QED
  BY <1>4, <1>5, <1>6, <1>7, <1>8, ActsMove

\* What a call has still to make, it has not made yet.
Ahead ==
  \A p \in Calls : job[p].pc \in AtWork \cup {"begin"} =>
    \A i \in DOMAIN Steps : job[p].at <= i /\ Steps[i] \in Resources =>
       job[p].run \notin rows[Steps[i]]

LEMMA AheadStep ==
  ASSUME Typed, RunsDiffer, RowsOK, Ahead, NEW p \in Calls, Acts(p)
  PROVE  Ahead'
<1>1. Others(p) /\ Carries(p)
  BY ActsCarry
<1>2. SUFFICES ASSUME NEW q \in Calls, job'[q].pc \in AtWork \cup {"begin"},
                      NEW i \in DOMAIN Steps, job'[q].at <= i, Steps[i] \in Resources
               PROVE  job'[q].run \notin rows'[Steps[i]]
  BY DEF Ahead
<1>3. i \in Nat
  BY StepsBegin
<1>4. CASE q # p
  <2>1. job'[q] = job[q] /\ Live(q)
    BY <1>1, <1>2, <1>4 DEF Others, Live, AtWork
  <2>2. job[q].run \notin rows[Steps[i]]
    BY <1>2, <2>1 DEF Ahead
  <2>3. CASE Grows(p)
    <3>1. job[p].run # job[q].run
      BY <1>4, <2>1, <2>3 DEF Grows, RunsDiffer
    <3> QED
      BY <1>2, <2>1, <2>2, <3>1, RowsFrom
  <2>4. CASE Shrinks(p)
    BY <1>2, <2>1, <2>2, <2>4, ShrinksRemoves DEF Shrinks
  <2> QED
    BY <1>2, <2>1, <2>2, <2>3, <2>4, ActsMove DEF Quiet, Begins, Wipes, SameRows
<1>5. CASE q = p /\ Load(p)
  <2>1. job'[p].run = runs' /\ rows' = rows
    BY <1>5, LoadDoes DEF Load
  <2>2. runs' = runs + 1 /\ runs \in Nat
    BY <1>5, BoundsOK DEF Load, Typed, TypeOK
  <2>3. \A m \in rows[Steps[i]] : m <= runs
    BY <1>2 DEF RowsOK
  <2> QED
    BY <1>5, <2>1, <2>2, <2>3
<1>6. CASE q = p /\ ~Load(p)
  <2>1. job'[p].pc # "idle" /\ job'[p].pc # "undo" /\ job'[p].pc # "complete"
    BY <1>2, <1>6 DEF AtWork
  <2>2. Live(p) /\ job'[p].run = job[p].run
    BY <1>1, <1>6, <2>1 DEF Carries, Rests, Idle
  <2>3. job[p].at \in Nat /\ job'[p].pc \in AtWork
    <3>1. job'[p].pc # "begin"
      BY <1>1, <1>6, <2>1, <2>2 DEF Carries, Rests, Idle
    <3> QED
      BY <1>2, <1>6, <3>1, StepsBegin DEF Typed, TypeOK, Job
  <2>4. CASE Begin(p)
    BY <1>2, <1>6, <2>2, <2>4, BeginDoes DEF Begin, Goes, Ahead
  <2>5. CASE Stays(p)
    BY <1>2, <1>6, <2>2, <2>5 DEF Stays, Goes, SameRows, Ahead
  <2>6. CASE Completes(p)
    <3>1. PICK new : AdvancesWith(p, new)
      BY <2>6, CompletesWith
    <3>2. job'[p].at = job[p].at + 1 /\ job[p].at \in DOMAIN Steps /\ job[p].pc \in AtWork
      BY <2>1, <2>6, <3>1, StepsBegin DEF AdvancesWith, Completes
    <3>3. Step(p) # Steps[i]
      BY <1>2, <1>3, <1>6, <2>3, <3>2, StepsDiffer DEF Step
    <3>4. rows'[Steps[i]] = rows[Steps[i]]
      BY <1>2, <2>6, <3>3, CompletesRows
    <3>5. job[p].at <= i
      BY <1>2, <1>3, <1>6, <2>3, <3>2
    <3> QED
      BY <1>2, <1>6, <2>2, <3>2, <3>4, <3>5 DEF Ahead
  <2> QED
    BY <2>3, <2>4, <2>5, <2>6, ToWork
<1> QED
  BY <1>4, <1>5, <1>6

-----------------------------------------------------------------------------
(* What has been made, and by whom *)

\* What a call at work has completed comes before its step.
MadeBefore ==
  \A p \in Calls : \A e \in job[p].made : job[p].pc \in AtWork =>
     \E i \in 1..(job[p].at - 1) : e[1] = Steps[i]

\* What a call has made is its own; the organization it made is the one there is.
MadeItself ==
  \A p \in Calls : \A e \in job[p].made :
     /\ e[1] \in Resources =>
          e[2] = job[p].run \/ (e[1] = Computer /\ ~Alone)
     /\ e[1] = "workspace" /\ job[p].at > 0 => e[2] = job[p].run /\ boot = job[p].run

\* What a call alone has read is there, and it is all that can be found, but for
\* what a sign-up has made meanwhile.
Looked == Alone => \A p \in Calls :
    job[p].pc \in {"make", "store"} /\ Step(p) \in Resources =>
        /\ Saw(p, Step(p)) \subseteq rows[Step(p)]
        /\ Step(p) \notin Social \/ job[p].user = user =>
              Saw(p, Step(p)) = Current(Step(p))

\* The kinds of steps, by what they do to the list of what a call has made.
MadeMoves(p) ==
  \/ job'[p].made = {}
  \/ /\ SameRun(p) /\ Live(p)
     /\ \/ job'[p].at = job[p].at /\ job[p].pc \in AtWork /\ job'[p].pc \in AtWork
        \/ job'[p].at = job[p].at - 1 /\ job[p].at > 0 /\ job'[p].pc = "undo"
  \/ Completes(p)

LEMMA ActsMake ==
  ASSUME Typed, NEW p \in Calls, Acts(p)
  PROVE  MadeMoves(p)
<1>1. Idle.made = {}
  BY DEF Idle
<1>2. CASE Load(p)
  BY <1>2, LoadDoes DEF MadeMoves
<1>3. CASE Begin(p)
  BY <1>3, BeginDoes DEF MadeMoves, Goes, SameRun
<1>4. CASE Rests(p)
  BY <1>1, <1>4 DEF MadeMoves, Rests
<1>5. CASE FailsAt(p) /\ Live(p)
  BY <1>5, StepsBegin DEF MadeMoves, FailsAt
<1>6. CASE StepsBack(p)
  BY <1>6, StepsBegin DEF MadeMoves, StepsBack, Live
<1>7. CASE job'[p].pc \in AtWork \cup {"complete"}
  <2>1. CASE Stays(p)
    <3>1. Live(p)
      BY <2>1, AtAStep DEF Stays
    <3> QED
      BY <2>1, <3>1 DEF Stays, Goes, MadeMoves
  <2> QED
    BY <1>3, <1>7, <2>1, ToWork DEF MadeMoves
<1>8. CASE job'[p].pc \notin AtWork \cup {"complete"} /\ ~Load(p) /\ ~Rests(p) /\ ~StepsBack(p)
  <2>1. ~BeginFails(p) /\ ~Complete(p) /\ ~RolledBack(p) /\ ~SaveFails(p) /\ ~Die(p)
    BY <1>8, BeginFailsDoes, CompleteDoes, RolledBackDoes, SaveFailsDoes, DieDoes
  <2>2. ~Undo(p) /\ ~UndoWorkspace(p) /\ ~UndoFails(p)
    BY <1>8, UndoDoes, UndoWorkspaceDoes, UndoFailsDoes
  <2>3. \A new : ~AdvancesWith(p, new)
    BY <1>8 DEF AdvancesWith, AtWork
  <2>4. ~Begin(p) /\ ~MakeKey(p) /\ ~FindsAt(p)
    BY <1>8, BeginDoes, MakeKeyDoes DEF Goes, FindsAt, AtWork
  <2>5. ~MakeWorkspace(p) /\ ~StoreKey(p)
    BY <2>3, MakeWorkspaceDoes, StoreKeyDoes
  <2>6. FailsAt(p)
    BY <1>8, <2>1, <2>2, <2>3, <2>4, <2>5, FindDoes, ReuseDoes, MakeDoes, MakeComputerDoes,
       LoseKeyDoes, DropKeyDoes, FailStepDoes, FailLateDoes DEF Acts, Makes, Ensures
  <2>7. Live(p)
    BY <1>8, ActsCarry DEF Carries
  <2> QED
    BY <1>5, <2>6, <2>7
<1> QED
  BY <1>2, <1>4, <1>6, <1>7, <1>8

\* What a call makes is new in its list, and it is of the step it is at.
LEMMA NewInList ==
  ASSUME NEW p \in Calls, NEW new, AdvancesWith(p, new), NEW e \in job'[p].made
  PROVE  e \in job[p].made \/ (e[1] = Step(p) /\ e[2] \in new)
<1>1. CASE e \notin job[p].made
  <2>1. PICK m \in new : e = <<Step(p), m>>
    BY <1>1 DEF AdvancesWith
  <2> QED
    BY <2>1
<1> QED
  BY <1>1

LEMMA MadeBeforeStep ==
  ASSUME Typed, MadeBefore, NEW p \in Calls, Acts(p)
  PROVE  MadeBefore'
<1>1. Others(p) /\ MadeMoves(p)
  BY ActsCarry, ActsMake
<1>2. SUFFICES ASSUME NEW e \in job'[p].made, job'[p].pc \in AtWork
               PROVE  \E i \in 1..(job'[p].at - 1) : e[1] = Steps[i]
  BY <1>1 DEF MadeBefore, Others
<1>3. CASE SameRun(p) /\ job'[p].at = job[p].at /\ job[p].pc \in AtWork
  BY <1>2, <1>3 DEF MadeBefore, SameRun
<1>4. CASE job'[p].pc = "undo"
  BY <1>2, <1>4 DEF AtWork
<1>5. CASE Completes(p)
  <2>1. PICK new : AdvancesWith(p, new)
    BY <1>5, CompletesWith
  <2>2. job[p].at \in Nat /\ job[p].at >= 1
    BY <2>1, StepsBegin DEF AdvancesWith
  <2>3. job'[p].at = job[p].at + 1 /\ job[p].pc \in AtWork
    BY <1>2, <1>5, <2>1 DEF AdvancesWith, AtWork, Completes
  <2>4. CASE e \in job[p].made
    <3>1. PICK i \in 1..(job[p].at - 1) : e[1] = Steps[i]
      BY <2>3, <2>4 DEF MadeBefore
    <3>2. i \in 1..(job'[p].at - 1)
      BY <2>2, <2>3
    <3> QED
      BY <3>1, <3>2
  <2>5. CASE e[1] = Step(p)
    <3>1. job[p].at \in 1..(job'[p].at - 1)
      BY <2>2, <2>3
    <3> QED
      BY <2>5, <3>1 DEF Step
  <2> QED
    BY <1>2, <2>1, <2>4, <2>5, NewInList
<1> QED
  BY <1>1, <1>2, <1>3, <1>4, <1>5 DEF MadeMoves

\* At the workspace a call is at its first step.
LEMMA WorkspaceFirst ==
  ASSUME NEW p \in Calls, job[p].at \in 1..Len(Steps)
  PROVE  Step(p) = "workspace" <=> job[p].at = 1
<1>1. job[p].at \in DOMAIN Steps /\ 1 \in DOMAIN Steps /\ Steps[1] = "workspace"
  BY StepsBegin
<1> QED
  BY <1>1, StepsDiffer DEF Step

LEMMA MadeItselfStep ==
  ASSUME Typed, RunsDiffer, RowsOK, Looked, MadeItself, NEW p \in Calls, Acts(p)
  PROVE  MadeItself'
<1>1. Others(p) /\ Carries(p) /\ flaws \subseteq flaws' /\ MadeMoves(p)
  BY ActsCarry, ActsMake
<1>2. ~Alone => ~Alone'
  BY <1>1 DEF Alone
<1>3. boot \in Nat
  BY BoundsOK DEF Typed, TypeOK
<1>4. ASSUME NEW q \in Calls \ {p}, NEW e \in job[q].made
      PROVE  /\ e[1] \in Resources =>
                  e[2] = job[q].run \/ (e[1] = Computer /\ ~Alone')
             /\ e[1] = "workspace" /\ job[q].at > 0 => e[2] = job[q].run /\ boot' = job[q].run
  <2>1. e[1] \in Resources => e[2] = job[q].run \/ (e[1] = Computer /\ ~Alone')
    BY <1>2, <1>4 DEF MadeItself
  <2>2. ASSUME e[1] = "workspace", job[q].at > 0
        PROVE  e[2] = job[q].run /\ boot' = job[q].run
    <3>1. e[2] = job[q].run /\ boot = job[q].run
      BY <1>4, <2>2 DEF MadeItself
    <3>2. Live(q)
      BY <1>4 DEF Typed, LocalOK, Local, Live, Idle
    <3>3. job[q].run \in Nat /\ job[q].run >= 1
      BY <3>2, BoundsOK DEF Typed, LocalOK, Local, Runs
    <3>4. Exists
      BY <3>1, <3>3 DEF RowsOK
    <3>5. ~Wipes(p)
      <4>1. SUFFICES ASSUME Wipes(p) PROVE FALSE
        OBVIOUS
      <4>2. PICK m \in Makers : <<"workspace", m>> \in job[p].made
        BY <4>1 DEF Wipes, MadeHere
      <4>3. job[p].at > 0 /\ Live(p)
        BY <4>1, StepsBegin DEF Wipes, StepsBack, Live
      <4>4. boot = job[p].run
        BY <4>2, <4>3 DEF MadeItself
      <4> QED
        BY <3>1, <3>2, <4>3, <4>4 DEF RunsDiffer
    <3>6. boot' = boot
      BY <3>4, <3>5, ActsMove DEF Quiet, Begins, Grows, Shrinks
    <3> QED
      BY <3>1, <3>6
  <2> QED
    BY <2>1, <2>2
<1>5. ASSUME NEW e \in job'[p].made
      PROVE  /\ e[1] \in Resources =>
                  e[2] = job'[p].run \/ (e[1] = Computer /\ ~Alone')
             /\ e[1] = "workspace" /\ job'[p].at > 0 => e[2] = job'[p].run /\ boot' = job'[p].run
  <2>1. CASE /\ SameRun(p) /\ Live(p)
             /\ \/ job'[p].at = job[p].at /\ job[p].pc \in AtWork
                \/ job'[p].at = job[p].at - 1 /\ job[p].at > 0 /\ job'[p].pc = "undo"
    <3>1. e \in job[p].made /\ job'[p].run = job[p].run
      BY <1>5, <2>1 DEF SameRun
    <3>2. job[p].at \in Nat
      BY StepsBegin DEF Typed, TypeOK, Job
    <3>3. ASSUME job'[p].at > 0
          PROVE  boot' = boot /\ job[p].at > 0
      <4>1. ~Wipes(p)
        <5>1. SUFFICES ASSUME Wipes(p) PROVE FALSE
          OBVIOUS
        <5>2. job[p].at = 1 /\ job'[p].at = job[p].at - 1
          BY <5>1, WorkspaceFirst DEF Wipes, StepsBack
        <5> QED
          BY <3>3, <5>2
      <4>2. ~Begins(p)
        BY <2>1, <3>1 DEF Begins, AtWork, Typed, LocalOK, Local
      <4> QED
        BY <2>1, <3>2, <3>3, <4>1, <4>2, ActsMove DEF Quiet, Grows, Shrinks
    <3> QED
      BY <1>2, <3>1, <3>3 DEF MadeItself
  <2>2. ASSUME NEW new, AdvancesWith(p, new), job[p].pc \in AtWork,
               \A m \in new :
                  /\ Step(p) \in Resources =>
                       m = job[p].run \/ (Step(p) = Computer /\ ~Alone)
                  /\ Step(p) = "workspace" => m = job[p].run /\ boot = job[p].run
        PROVE  /\ e[1] \in Resources =>
                    e[2] = job'[p].run \/ (e[1] = Computer /\ ~Alone')
               /\ e[1] = "workspace" /\ job'[p].at > 0 => e[2] = job'[p].run /\ boot' = job'[p].run
    <3>1. job'[p].run = job[p].run /\ job[p].at > 0
      BY <2>2, StepsBegin DEF AdvancesWith
    <3>2. boot' = boot
      BY <2>2, ActsMove DEF Quiet, Begins, Grows, Shrinks, Wipes, StepsBack, AtWork
    <3>3. CASE e \in job[p].made
      BY <1>2, <3>1, <3>2, <3>3 DEF MadeItself
    <3>4. CASE e[1] = Step(p) /\ e[2] \in new
      BY <1>2, <2>2, <3>1, <3>2, <3>4
    <3> QED
      BY <1>5, <2>2, <3>3, <3>4, NewInList
  <2>3. CASE /\ MakeWorkspace(p) /\ AdvancesWith(p, {job[p].run} \cap {boot})
             /\ job[p].pc \in AtWork
    <3>1. Step(p) = "workspace"
      BY <2>3 DEF MakeWorkspace
    <3> QED
      BY <2>2, <2>3, <3>1, TheResources
  <2>4. CASE AdvancesWith(p, {}) /\ job[p].pc \in AtWork
    BY <2>2, <2>4
  <2>5. CASE Adds(p) /\ AdvancesWith(p, {job[p].run}) /\ job[p].pc \in AtWork
    <3>1. Step(p) \in Resources /\ Step(p) # "workspace"
      BY <2>5, TheResources DEF Adds
    <3> QED
      BY <2>2, <2>5, <3>1
  <2>6. CASE Ensures(p) /\ job[p].pc = "make"
    <3>1. Step(p) = Computer /\ Computer \in Resources /\ job[p].pc \in AtWork
      BY <2>6 DEF Ensures
    <3>2. PICK new \in SUBSET rows'[Computer] : AdvancesWith(p, new) /\ (Found(p) => new = {})
      BY <2>6 DEF Ensures
    <3>3. ASSUME NEW m \in new, Alone PROVE m = job[p].run
      <4>1. Saw(p, Computer) = {} /\ Computer \notin Social
        BY <3>1, <3>2, <3>3 DEF Found, Social, Computer, Membership, Preferences
      <4>2. Current(Computer) = {} /\ lone[Computer] = {}
        <5>1. Current(Computer) = {}
          BY <2>6, <3>1, <3>3, <4>1 DEF Looked
        <5> QED
          BY <3>1, <5>1 DEF Typed, RowsTyped, Connections, Computer, Membership
      <4>3. rows[Computer] = {}
        BY <4>2 DEF Current
      <4>4. rows'[Computer] = rows[Computer] \cup {job[p].run}
        BY <2>6, <3>1, <4>3, AddsTyped DEF Ensures
      <4> QED
        BY <3>2, <3>3, <4>3, <4>4
    <3> QED
      BY <2>2, <3>1, <3>2, <3>3, TheResources DEF Computer
  <2> QED
    BY <1>1, <1>5, <2>1, <2>3, <2>4, <2>5, <2>6 DEF MadeMoves, Completes
<1> QED
  BY <1>1, <1>4, <1>5 DEF MadeItself, Others

-----------------------------------------------------------------------------
(* A call that is alone *)

\* While calls come one at a time, the others are at rest.
LEMMA Sole ==
  ASSUME Typed, OneAtATime, NEW p \in Calls, Acts(p), Alone'
  PROVE  /\ Alone
         /\ \A q \in Calls \ {p} : ~Live(q) /\ ~Live(q)' /\ job'[q] = job[q]
<1>1. Others(p) /\ Carries(p) /\ flaws \subseteq flaws' /\ OneAtATime'
  BY ActsCarry, OneAtATimeStep
<1>2. Alone
  BY <1>1 DEF Alone
<1>3. \A q \in Calls \ {p} : Live(q)' = Live(q) /\ job'[q] = job[q]
  BY <1>1 DEF Others, Live
<1>4. CASE Load(p)
  <2>1. Live(p)'
    BY <1>4, LoadDoes DEF Live
  <2> QED
    BY <1>1, <1>2, <1>3, <2>1 DEF OneAtATime
<1>5. CASE Live(p)
  BY <1>2, <1>3, <1>5 DEF OneAtATime
<1> QED
  BY <1>1, <1>4, <1>5 DEF Carries

\* A call comes to its making from its looking, and from there to its storing.
LEMMA ToMaking ==
  ASSUME Typed, NEW p \in Calls, Acts(p), job'[p].pc \in {"make", "store"}
  PROVE  (Find(p) /\ FindsAt(p)) \/ MakeKey(p)
<1>1. Begin(p) \/ Stays(p) \/ Completes(p)
  BY ToWork DEF AtWork
<1>2. ~Begin(p)
  BY BeginDoes DEF Goes
<1>3. \A new : ~AdvancesWith(p, new)
  BY DEF AdvancesWith
<1>4. ~Completes(p)
  BY <1>3, CompletesWith
<1>5. Stays(p) /\ ~FailsAt(p) /\ ~StepsBack(p) /\ ~Rests(p) /\ ~Load(p)
  <2>1. job'[p].pc # "idle" /\ job'[p].pc # "begin" /\ job'[p].pc # "undo"
    OBVIOUS
  <2>2. Idle.pc = "idle"
    BY DEF Idle
  <2> QED
    BY <1>1, <1>2, <1>4, <2>1, <2>2, LoadDoes DEF FailsAt, StepsBack, Rests
<1>6. ~BeginFails(p) /\ ~Complete(p) /\ ~RolledBack(p) /\ ~SaveFails(p) /\ ~Die(p)
  BY <1>5, BeginFailsDoes, CompleteDoes, RolledBackDoes, SaveFailsDoes, DieDoes
<1>7. ~LoseKey(p) /\ ~DropKey(p) /\ ~Fail(p) /\ ~FailLate(p) /\ ~Undo(p)
      /\ ~UndoWorkspace(p) /\ ~UndoFails(p)
  BY <1>5, LoseKeyDoes, DropKeyDoes, FailStepDoes, FailLateDoes, UndoDoes,
     UndoWorkspaceDoes, UndoFailsDoes
<1>8. ~MakeWorkspace(p) /\ ~Reuse(p) /\ ~Make(p) /\ ~StoreKey(p) /\ ~MakeComputer(p)
  BY <1>3, <1>5, MakeWorkspaceDoes, ReuseDoes, MakeDoes, StoreKeyDoes, MakeComputerDoes
     DEF Makes, Ensures
<1> QED
  BY <1>2, <1>5, <1>6, <1>7, <1>8, FindDoes DEF Acts

LEMMA LookedStep ==
  ASSUME Typed, OneAtATime, Looked, NEW p \in Calls, Acts(p)
  PROVE  Looked'
<1>1. SUFFICES ASSUME Alone', NEW q \in Calls, job'[q].pc \in {"make", "store"},
                      Step(q)' \in Resources
               PROVE  /\ Saw(q, Step(q))' \subseteq rows'[Step(q)']
                      /\ Step(q)' \notin Social \/ job'[q].user = user' =>
                            Saw(q, Step(q))' = Current(Step(q))'
  BY DEF Looked
<1>2. q = p /\ Alone /\ user' = user
  BY <1>1, Sole, ActsCarry DEF Live
<1>3. CASE Find(p) /\ FindsAt(p)
  <2>1. Step(p)' = Step(p) /\ SameRows
    BY <1>3 DEF Find, FindsAt, Goes, Step, SameRows
  <2>2. Saw(p, Step(p))' = Current(Step(p)) /\ Current(Step(p))' = Current(Step(p))
    BY <1>1, <1>2, <1>3, <2>1 DEF FindsAt, SameRows, Current, Saw
  <2>3. Current(Step(p)) \subseteq rows[Step(p)]
    BY DEF Current
  <2> QED
    BY <1>1, <1>2, <2>1, <2>2, <2>3 DEF SameRows
<1>4. CASE MakeKey(p)
  <2>1. /\ Step(p)' = Step(p) /\ SameRows /\ job[p].pc = "make"
        /\ job'[p].user = job[p].user /\ job'[p].saw = job[p].saw
    BY <1>4, MakeKeyDoes DEF MakeKey, Goes, Step
  <2>2. Saw(p, Step(p))' = Saw(p, Step(p)) /\ Current(Step(p))' = Current(Step(p))
    BY <2>1 DEF SameRows, Current, Saw
  <2> QED
    BY <1>1, <1>2, <2>1, <2>2 DEF Looked, SameRows
<1> QED
  BY <1>1, <1>2, <1>3, <1>4, ToMaking

AtMostOne == Alone => \A s \in Resources : \A m, n \in Current(s) : m = n

\* A call alone makes only what cannot be found, or what will not be found.
LEMMA GrowsFresh ==
  ASSUME Typed, Looked, Alone, NEW p \in Calls, Grows(p)
  PROVE  \/ Current(Step(p)) = {}
         \/ Step(p) = Membership /\ lone'[Step(p)] = lone[Step(p)] \cup {job[p].run}
<1>1. /\ Adds(p) /\ job[p].pc \in {"make", "store"} /\ Step(p) \in Resources
      /\ job[p].pc \in AtWork
  BY GrowsBy DEF Grows, AtWork
<1>2. Step(p) \in Unique \/ (Step(p) = Membership /\ job[p].user) => Current(Step(p)) = {}
  BY <1>1 DEF Adds, Insertable
<1>3. ASSUME Step(p) \notin Unique, ~(Step(p) = Membership /\ job[p].user)
      PROVE  \/ Current(Step(p)) = {}
             \/ Step(p) = Membership /\ lone'[Step(p)] = lone[Step(p)] \cup {job[p].run}
  <2>1. Saw(p, Step(p)) = {}
    BY <1>1, <1>3 DEF Adds, Found
  <2>2. CASE Step(p) \notin Social \/ job[p].user = user
    BY <1>1, <2>1, <2>2 DEF Looked
  <2>3. CASE Step(p) \in Social /\ job[p].user # user
    <3>1. Step(p) = Membership /\ ~job[p].user /\ user
      <4>1. Step(p) = Membership
        BY <1>3, <2>3 DEF Social, Unique
      <4>2. job[p].user \in BOOLEAN /\ user \in BOOLEAN
        BY DEF Typed, TypeOK, Job
      <4>3. ~job[p].user
        BY <1>3, <4>1
      <4> QED
        BY <2>3, <4>1, <4>2, <4>3
    <3> QED
      BY <1>1, <3>1, AddsTyped
  <2> QED
    BY <2>2, <2>3
<1> QED
  BY <1>2, <1>3

LEMMA AtMostOneStep ==
  ASSUME Typed, OneAtATime, Looked, AtMostOne, NEW p \in Calls, Acts(p)
  PROVE  AtMostOne'
<1>1. SUFFICES ASSUME Alone', NEW s \in Resources,
                      NEW m \in Current(s)', NEW n \in Current(s)'
               PROVE  m = n
  BY DEF AtMostOne
<1>2. Alone
  BY <1>1, Sole
<1>3. CASE Current(s)' \subseteq Current(s)
  BY <1>1, <1>2, <1>3 DEF AtMostOne
<1>4. CASE Grows(p)
  <2>1. CASE s = Step(p)
    <3>1. rows'[s] = rows[s] \cup {job[p].run} /\ lone[s] \subseteq lone'[s]
      BY <1>4, <2>1, AddsTyped DEF Grows, AtWork
    <3>2. CASE Current(s) = {}
      <4>1. Current(s)' \subseteq {job[p].run}
        BY <3>1, <3>2 DEF Current
      <4> QED
        BY <1>1, <4>1
    <3>3. CASE lone'[s] = lone[s] \cup {job[p].run}
      BY <1>3, <3>1, <3>3 DEF Current
    <3> QED
      BY <1>2, <1>4, <2>1, <3>2, <3>3, GrowsFresh
  <2>2. CASE s # Step(p)
    BY <1>3, <1>4, <2>2, GrowsBy DEF Current
  <2> QED
    BY <2>1, <2>2
<1>5. CASE Shrinks(p)
  <2>1. /\ rows'[s] \subseteq rows[s] /\ lone[s] \cap rows'[s] \subseteq lone'[s]
    BY <1>5, ShrinksRemoves DEF Shrinks, UndoesRows
  <2> QED
    BY <1>3, <2>1 DEF Current
<1>6. CASE Quiet(p) \/ Begins(p) \/ Wipes(p)
  BY <1>1, <1>3, <1>6 DEF Quiet, Begins, Wipes, SameRows, Current
<1> QED
  BY <1>4, <1>5, <1>6, ActsMove

-----------------------------------------------------------------------------
(* What a call alone has done *)

\* A step is done with: its resource is there to be found, though an invitation
\* may have become a member, and preferences need an account; the models have
\* been configured with a key that exists.
Have(s) ==
  IF s = Membership THEN rows[s] # {} ELSE s = Preferences \/ Current(s) # {}

KeyThere == Credential \in Kept => rows[Credential] \subseteq keys

DoneWith(s) ==
  /\ s \in Resources => Have(s)
  /\ s = "model_configuration" => KeyThere

Done(p) == \A i \in DOMAIN Steps :
    job[p].pc = "complete" \/ (job[p].pc \in AtWork /\ i < job[p].at) => DoneWith(Steps[i])

KeyRead == Alone => \A p \in Calls :
    job[p].pc = "make" /\ Step(p) = "model_configuration" => KeyThere

DoneSoFar == Alone =>
    /\ \A p \in Calls : Done(p)
    /\ status = "complete" =>
          (\A p \in Calls : ~Live(p)) /\ \A s \in Kept : DoneWith(s)

\* A credential's row is always found.
LEMMA CredentialFound ==
  ASSUME Typed, Credential \in Kept
  PROVE  Current(Credential) = rows[Credential]
<1>1. lone[Credential] = {}
  BY TheResources DEF Typed, RowsTyped, Connections, Credential, Membership
<1> QED
  BY <1>1 DEF Current

LEMMA KeyReadStep ==
  ASSUME Typed, OneAtATime, AtMostOne, KeyRead, NEW p \in Calls, Acts(p)
  PROVE  KeyRead'
<1>1. SUFFICES ASSUME Alone', NEW q \in Calls, job'[q].pc = "make",
                      Step(q)' = "model_configuration", Credential \in Kept
               PROVE  rows'[Credential] \subseteq keys'
  BY DEF KeyRead, KeyThere
<1>2. q = p /\ Alone
  BY <1>1, Sole DEF Live
<1>3. Find(p) /\ FindsAt(p)
  <2>1. ~MakeKey(p)
    BY <1>1, <1>2, MakeKeyDoes DEF Goes
  <2> QED
    BY <1>1, <1>2, <2>1, ToMaking
<1>4. Step(p) = "model_configuration" /\ rows' = rows /\ keys' = keys
  BY <1>1, <1>2, <1>3 DEF Find, FindsAt, Goes, Step
<1>5. rows[Credential] \cap keys # {}
  BY <1>1, <1>3, <1>4 DEF FindsAt, Missing
<1>6. \A m, n \in rows[Credential] : m = n
  BY <1>1, <1>2, CredentialFound, TheResources DEF AtMostOne
<1> QED
  BY <1>4, <1>5, <1>6

\* What is done stays done while a call goes on: a key is made before the models
\* are configured.
LEMMA StillDone ==
  ASSUME Typed, NEW p \in Calls, Stays(p) \/ Completes(p), NEW s \in Kept, DoneWith(s),
         s # Step(p), s = "model_configuration" => Step(p) # Credential
  PROVE  DoneWith(s)'
<1>1. keys \subseteq keys'
  BY DEF Stays, Completes
<1>2. \A t \in Resources \ {Step(p)} : rows'[t] = rows[t] /\ lone'[t] = lone[t]
  BY CompletesRows DEF Stays, SameRows
<1>3. ASSUME s \in Resources PROVE Have(s)'
  BY <1>2, <1>3 DEF DoneWith, Have, Current
<1>4. ASSUME s = "model_configuration" PROVE KeyThere'
  BY <1>1, <1>2, <1>4, TheResources DEF DoneWith, KeyThere
<1> QED
  BY <1>3, <1>4 DEF DoneWith

\* And a step that is completed is done with.
LEMMA StepDone ==
  ASSUME Typed, RowsOK, Looked, Ahead, KeyRead, Alone, NEW p \in Calls, Completes(p),
         NEW s \in Kept, s = Step(p)
  PROVE  DoneWith(s)'
<1>1. job[p].pc \in AtWork /\ keys' = keys
  BY DEF Completes
<1>2. CASE MakeWorkspace(p)
  <2>1. s = "workspace"
    BY <1>2 DEF MakeWorkspace
  <2> QED
    BY <2>1, TheResources DEF DoneWith
<1>3. CASE Reuse(p) /\ SameRows
  <2>1. job[p].pc = "make" /\ Found(p)
    BY <1>3 DEF Reuse
  <2>2. ASSUME s = "model_configuration" PROVE KeyThere'
    BY <1>1, <1>3, <2>1, <2>2 DEF KeyRead, KeyThere, SameRows
  <2>3. ASSUME s \in Resources PROVE Have(s)'
    <3>1. CASE s = Preferences
      BY <3>1 DEF Have, Preferences, Membership
    <3>2. CASE s # Preferences
      <4>1. Saw(p, s) # {} /\ Saw(p, s) \subseteq rows[s]
        BY <2>1, <2>3, <3>2 DEF Found, Looked, Resources
      <4>2. s # Membership => Saw(p, s) = Current(s)
        BY <2>1, <2>3, <3>2 DEF Looked, Social
      <4> QED
        BY <1>3, <4>1, <4>2 DEF Have, SameRows, Current
    <3> QED
      BY <3>1, <3>2
  <2> QED
    BY <2>2, <2>3 DEF DoneWith
<1>4. CASE Adds(p)
  <2>1. s \in Resources /\ s # "model_configuration"
    BY <1>4, TheResources DEF Adds
  <2>2. rows'[s] = rows[s] \cup {job[p].run}
    BY <1>1, <1>4, AddsTyped
  <2>3. ASSUME s # Membership PROVE job[p].run \in Current(s)'
    <3>1. lone'[s] = lone[s]
      BY <1>1, <1>4, <2>3, AddsTyped
    <3>2. job[p].at \in DOMAIN Steps /\ s = Steps[job[p].at] /\ job[p].at \in Nat
      BY <1>1, AtAStep, StepsBegin DEF Step
    <3>3. job[p].run \notin rows[s]
      BY <1>1, <2>1, <3>2 DEF Ahead
    <3>4. lone[s] \subseteq rows[s]
      BY <2>1 DEF Typed, RowsTyped
    <3> QED
      BY <2>2, <3>1, <3>3, <3>4 DEF Current
  <2> QED
    BY <2>1, <2>2, <2>3 DEF DoneWith, Have
<1>5. CASE Ensures(p)
  <2>1. s = Computer /\ s \in Resources /\ rows'[s] # {}
    BY <1>5 DEF Ensures
  <2>2. lone'[s] = {}
    <3>1. lone[s] = {}
      BY <2>1 DEF Typed, RowsTyped, Connections, Computer, Membership
    <3> QED
      BY <1>1, <1>5, <2>1, <3>1, AddsTyped DEF Ensures, SameRows, Computer, Membership
  <2> QED
    BY <2>1, <2>2, TheResources DEF DoneWith, Have, Current
<1> QED
  BY <1>2, <1>3, <1>4, <1>5 DEF Completes

LEMMA DoneStep ==
  ASSUME Typed, OneAtATime, RowsOK, Looked, Ahead, KeyRead, DoneSoFar,
         NEW p \in Calls, Acts(p), Alone'
  PROVE  \A q \in Calls : Done(q)'
<1>1. Alone /\ \A q \in Calls \ {p} : job'[q].pc = "idle"
  BY Sole DEF Live
<1>2. \A q \in Calls \ {p} : Done(q)'
  BY <1>1 DEF Done, AtWork
<1>3. SUFFICES ASSUME NEW i \in DOMAIN Steps,
                      job'[p].pc = "complete" \/ (job'[p].pc \in AtWork /\ i < job'[p].at)
               PROVE  DoneWith(Steps[i])'
  BY <1>2 DEF Done
<1>4. i \in Nat /\ i >= 1 /\ i <= Len(Steps) /\ Steps[i] \in Kept
  BY StepsBegin
<1>5. CASE Begin(p)
  <2>1. job'[p].at = 1 /\ job'[p].pc = "find"
    BY <1>5, BeginDoes DEF Goes
  <2> QED
    BY <1>3, <1>4, <2>1
<1>6. CASE Stays(p) \/ Completes(p)
  <2>1. job[p].pc \in AtWork
    BY <1>6 DEF Stays, Completes
  <2>2. /\ job[p].at \in DOMAIN Steps /\ job[p].at \in Nat /\ Step(p) = Steps[job[p].at]
        /\ Step(p) \in Kept
    BY <2>1, AtAStep, StepsBegin DEF Step
  <2>3. i < job[p].at \/ (Completes(p) /\ i = job[p].at)
    <3>1. CASE Stays(p)
      BY <1>3, <3>1 DEF Stays, Goes, AtWork
    <3>2. CASE Completes(p)
      <4>1. PICK new : AdvancesWith(p, new)
        BY <3>2, CompletesWith
      <4> QED
        BY <1>3, <1>4, <2>2, <3>2, <4>1 DEF AdvancesWith, AtWork
    <3> QED
      BY <1>6, <3>1, <3>2
  <2>4. CASE i < job[p].at
    <3>1. DoneWith(Steps[i])
      BY <1>1, <2>1, <2>4 DEF DoneSoFar, Done
    <3>2. Steps[i] # Step(p)
      BY <1>4, <2>2, <2>4, StepsDiffer
    <3>3. Steps[i] = "model_configuration" => Step(p) # Credential
      <4>1. SUFFICES ASSUME Steps[i] = "model_configuration", Step(p) = Credential
                     PROVE  FALSE
        OBVIOUS
      <4>2. job[p].at < i
        BY <2>2, <4>1, CredentialBetween
      <4> QED
        BY <1>4, <2>2, <2>4, <4>2
    <3> QED
      BY <1>4, <1>6, <3>1, <3>2, <3>3, StillDone
  <2>5. CASE Completes(p) /\ i = job[p].at
    BY <1>1, <2>2, <2>5, StepDone
  <2> QED
    BY <2>3, <2>4, <2>5
<1> QED
  BY <1>3, <1>5, <1>6, ToWork

\* The checkpoint becomes complete only by a call that is through its steps.
LEMMA ToComplete ==
  ASSUME Typed, NEW p \in Calls, Acts(p), status' = "complete", status # "complete"
  PROVE  (Complete(p) \/ SaveFails(p)) /\ job[p].pc = "complete"
<1>1. ~FailsAt(p) /\ status' # Saved("failed") /\ \A new : ~AdvancesWith(p, new)
  BY DEF AdvancesWith, FailsAt, Saved
<1>2. ~Load(p) /\ ~Begin(p) /\ ~BeginFails(p) /\ ~MakeKey(p) /\ ~Die(p) /\ ~RolledBack(p)
  BY DEF Load, Begin, BeginFails, MakeKey, Die, RolledBack, Save, Saved
<1>3. ~Find(p) /\ ~MakeWorkspace(p) /\ ~Reuse(p) /\ ~Make(p) /\ ~MakeComputer(p) /\ ~StoreKey(p)
  BY <1>1, FindDoes, MakeWorkspaceDoes, ReuseDoes, MakeDoes, MakeComputerDoes, StoreKeyDoes
     DEF FindsAt, Makes, Ensures
<1>4. ~LoseKey(p) /\ ~DropKey(p) /\ ~Fail(p) /\ ~FailLate(p)
  BY <1>1, LoseKeyDoes, DropKeyDoes, FailStepDoes, FailLateDoes
<1>5. ~Undo(p) /\ ~UndoWorkspace(p) /\ ~UndoFails(p)
  BY <1>1, UndoDoes, UndoWorkspaceDoes, UndoFailsDoes
<1>6. Complete(p) => job[p].pc = "complete"
  BY DEF Complete
<1>7. SaveFails(p) => job[p].pc = "complete"
  BY DEF SaveFails, Save, Saved
<1> QED
  BY <1>2, <1>3, <1>4, <1>5, <1>6, <1>7 DEF Acts

\* A call that has ended leaves the rows and the keys as they are.
LEMMA RestsQuiet ==
  ASSUME Typed, NEW p \in Calls, Complete(p) \/ SaveFails(p)
  PROVE  rows' = rows /\ lone' = lone /\ keys' = keys /\ ~Live(p)'
<1>1. rows' = rows /\ lone' = lone /\ keys' = keys
  BY DEF Complete, SaveFails
<1>2. job'[p] = Idle /\ Idle.pc = "idle"
  BY CompleteDoes, SaveFailsDoes DEF Rests, Idle
<1> QED
  BY <1>1, <1>2 DEF Live

LEMMA DoneSoFarStep ==
  ASSUME Typed, OneAtATime, RowsOK, Looked, Ahead, KeyRead, DoneSoFar,
         NEW p \in Calls, Acts(p)
  PROVE  DoneSoFar'
<1>1. ASSUME Alone', status' = "complete"
      PROVE  (\A q \in Calls : ~Live(q)') /\ \A s \in Kept : DoneWith(s)'
  <2>1. /\ Alone /\ Carries(p)
        /\ \A q \in Calls \ {p} : ~Live(q) /\ ~Live(q)'
    BY <1>1, Sole, ActsCarry
  <2>2. status # "complete"
    <3>1. ~Load(p) \/ status # "complete"
      BY DEF Load
    <3> QED
      BY <2>1, <3>1 DEF DoneSoFar, Carries
  <2>3. (Complete(p) \/ SaveFails(p)) /\ job[p].pc = "complete"
    BY <1>1, <2>2, ToComplete
  <2>4. ~Live(p)' /\ rows' = rows /\ lone' = lone /\ keys' = keys
    BY <2>3, RestsQuiet
  <2>5. ASSUME NEW s \in Kept PROVE DoneWith(s)'
    <3>1. PICK i \in DOMAIN Steps : Steps[i] = s
      BY EveryKeptIsAStep
    <3>2. DoneWith(s)
      BY <2>1, <2>3, <3>1 DEF DoneSoFar, Done
    <3> QED
      BY <2>4, <3>2 DEF DoneWith, Have, KeyThere, Current
  <2> QED
    BY <2>1, <2>4, <2>5
<1> QED
  BY <1>1, DoneStep DEF DoneSoFar

\* Alone, a call that has made an identity or a bot is the only one with what
\* belongs to it; and of an organization that it made, all but the doings of a
\* sign-up is its own.
OwnRows == Alone => \A p \in Calls : Live(p) =>
    /\ \A e \in job[p].made : \A t \in Owned(e[1]) : rows[t] \subseteq {job[p].run}
    /\ boot = job[p].run => \A s \in Resources : rows[s] \subseteq {job[p].run, 0}

LEMMA OwnRowsStep ==
  ASSUME Typed, OneAtATime, RowsOK, OwnRows, NEW p \in Calls, Acts(p)
  PROVE  OwnRows'
<1>1. SUFFICES ASSUME Alone', NEW q \in Calls, Live(q)'
               PROVE  /\ \A e \in job'[q].made : \A t \in Owned(e[1]) :
                            rows'[t] \subseteq {job'[q].run}
                      /\ boot' = job'[q].run =>
                            \A s \in Resources : rows'[s] \subseteq {job'[q].run, 0}
  BY DEF OwnRows
<1>2. q = p /\ Alone /\ Carries(p) /\ MadeMoves(p)
  BY <1>1, Sole, ActsCarry, ActsMake
<1>3. CASE Load(p)
  <2>1. job'[p].made = {} /\ job'[p].run = runs' /\ boot' = boot
    BY <1>3, LoadDoes DEF Load
  <2>2. runs' = runs + 1 /\ boot <= runs /\ boot \in Nat /\ runs \in Nat
    BY <1>3, BoundsOK DEF RowsOK, Typed, TypeOK, Load
  <2> QED
    BY <1>2, <2>1, <2>2
<1>4. CASE ~Load(p)
  <2>1. Live(p) /\ job'[p].run = job[p].run
    BY <1>1, <1>2, <1>4 DEF Carries, Rests, Live, Idle
  <2>2. ASSUME NEW e \in job'[p].made, NEW t \in Owned(e[1])
        PROVE  rows[t] \subseteq {job[p].run}
    <3>1. CASE e \in job[p].made
      BY <1>2, <2>1, <2>2, <3>1 DEF OwnRows
    <3>2. CASE e \notin job[p].made
      <4>1. Completes(p)
        BY <1>2, <2>2, <3>2 DEF MadeMoves, SameRun
      <4>2. PICK new : AdvancesWith(p, new)
        BY <4>1, CompletesWith
      <4>3. Step(p) = e[1] /\ e[2] \in new
        BY <2>2, <3>2, <4>2, NewInList
      <4>4. e[1] \in {Identity, Bot} /\ e[1] \in Unique
        BY <2>2, Owning
      <4>5. ~Ensures(p) /\ ~MakeWorkspace(p)
        BY <4>3, <4>4 DEF Ensures, MakeWorkspace, Identity, Bot, Computer
      <4>6. ~AdvancesWith(p, {})
        BY <2>2, <3>2 DEF AdvancesWith
      <4>7. Adds(p)
        BY <4>1, <4>5, <4>6 DEF Completes
      <4>8. Current(e[1]) = {} /\ e[1] \in Resources
        BY <4>3, <4>4, <4>7 DEF Adds, Insertable
      <4>9. rows[e[1]] = {}
        BY <4>4, <4>8 DEF Current, Typed, RowsTyped, Connections, Identity, Bot, Membership
      <4> QED
        BY <2>2, <4>8, <4>9 DEF RowsOK
    <3> QED
      BY <3>1, <3>2
  <2>3. ASSUME boot' = job[p].run, NEW s \in Resources
        PROVE  rows'[s] \subseteq {job[p].run, 0}
    <3>1. CASE boot = job[p].run
      BY <1>2, <2>1, <3>1, RowsFrom DEF OwnRows
    <3>2. CASE boot # job[p].run /\ Begins(p)
      BY <2>3, <3>2 DEF Begins, RowsOK, SameRows
    <3>3. CASE boot # job[p].run /\ ~Begins(p)
      BY <2>3, <3>3, ActsMove DEF Quiet, Grows, Shrinks, Wipes
    <3> QED
      BY <3>1, <3>2, <3>3
  <2>4. \A e \in job'[p].made : \A t \in Owned(e[1]) : rows'[t] \subseteq {job[p].run}
    BY <2>2, RowsFrom, Owning
  <2> QED
    BY <1>2, <2>1, <2>3, <2>4
<1> QED
  BY <1>3, <1>4

-----------------------------------------------------------------------------
(* Keys at the provider *)

Untroubled == flaws \cap {"died", "undo", "overlap", "unsaved", "lost"} = {}

\* The key of a call at work is about to be recorded, or recorded, and then the
\* roll-back has still to come to it.
InHand(p) ==
  job[p].run \in keys =>
    \/ job[p].pc = "store"
    \/ /\ Credential \in Kept /\ job[p].run \in rows[Credential]
       /\ <<Credential, job[p].run>> \in job[p].made
       /\ job[p].pc = "undo" => \E i \in 1..job[p].at : Steps[i] = Credential

KeyInHand == Untroubled => \A p \in Calls : InHand(p)

\* A call at rest has no key.
LEMMA RestHasNoKey ==
  ASSUME Typed, NEW p \in Calls, ~Live(p)
  PROVE  job[p].run \notin keys
  BY BoundsOK DEF Typed, TypeOK, LocalOK, Local, Live, Idle, Runs

\* A step with no flaw leaves the other calls at rest.
LEMMA Calm ==
  ASSUME Typed, OneAtATime, NEW p \in Calls, Acts(p), Untroubled'
  PROVE  /\ Untroubled /\ Alone' /\ Alone
         /\ \A q \in Calls \ {p} : ~Live(q) /\ ~Live(q)' /\ job'[q] = job[q]
<1>1. Untroubled /\ Alone'
  BY ActsCarry DEF Untroubled, Alone
<1> QED
  BY <1>1, Sole

\* A call that fails after its credential has yet to roll it back.
LEMMA FailsInHand ==
  ASSUME Typed, MadeBefore, NEW p \in Calls, FailsAt(p), job[p].pc \in AtWork,
         job[p].pc # "store", InHand(p), keys' \subseteq keys,
         Credential \in Kept => rows[Credential] \subseteq rows'[Credential]
  PROVE  InHand(p)'
<1>1. SUFFICES ASSUME job'[p].run \in keys'
               PROVE  /\ Credential \in Kept /\ job'[p].run \in rows'[Credential]
                      /\ <<Credential, job'[p].run>> \in job'[p].made
                      /\ \E i \in 1..job'[p].at : Steps[i] = Credential
  BY DEF InHand
<1>2. /\ Credential \in Kept /\ job[p].run \in rows[Credential]
      /\ <<Credential, job[p].run>> \in job[p].made
  BY <1>1 DEF FailsAt, SameRun, InHand
<1>3. \E i \in 1..(job[p].at - 1) : Steps[i] = Credential
  BY <1>2 DEF MadeBefore
<1> QED
  BY <1>2, <1>3 DEF FailsAt, SameRun

\* A roll-back that has not come to the credential leaves it.
LEMMA UndoInHand ==
  ASSUME Typed, RowsOK, NEW p \in Calls, Undo(p) \/ UndoWorkspace(p), InHand(p), Untroubled'
  PROVE  InHand(p)'
<1>1. StepsBack(p) /\ keys' \subseteq keys
  BY UndoDoes, UndoWorkspaceDoes DEF Undo, UndoWorkspace
<1>2. SUFFICES ASSUME job'[p].run \in keys'
               PROVE  /\ Credential \in Kept /\ job'[p].run \in rows'[Credential]
                      /\ <<Credential, job'[p].run>> \in job'[p].made
                      /\ \E i \in 1..job'[p].at : Steps[i] = Credential
  BY DEF InHand
<1>3. /\ Credential \in Kept /\ job[p].run \in rows[Credential]
      /\ <<Credential, job[p].run>> \in job[p].made
      /\ \E i \in 1..job[p].at : Steps[i] = Credential
  BY <1>1, <1>2 DEF StepsBack, SameRun, InHand
<1>4. PICK i \in 1..job[p].at : Steps[i] = Credential
  BY <1>3
<1>5. /\ i \in DOMAIN Steps /\ job[p].at \in DOMAIN Steps /\ Step(p) = Steps[job[p].at]
      /\ job[p].at \in Nat
  BY <1>1, StepsBegin DEF StepsBack, Step
<1>6. CASE UndoWorkspace(p)
  <2>1. job[p].at = 1
    BY <1>1, <1>6, WorkspaceFirst DEF UndoWorkspace, StepsBack
  <2>2. Steps[1] = Credential
    BY <1>4, <2>1
  <2> QED
    BY <2>2, StepsBegin DEF Credential
<1>7. CASE Undo(p)
  <2>1. UndoesRows(p) /\ Exists /\ Credential \in Resources
    <3>1. Exists
      BY <1>3, TheResources DEF RowsOK
    <3> QED
      BY <1>3, <1>7, <3>1, UndoDoes, TheResources
  <2>2. Step(p) # Credential
    <3>1. SUFFICES ASSUME Step(p) = Credential PROVE FALSE
      OBVIOUS
    <3>2. keys' = keys \ MadeHere(p, Step(p)) \/ "undo" \in flaws'
      BY <1>7, <2>1, <3>1 DEF Undo
    <3>3. job[p].run \in MadeHere(p, Step(p))
      <4>1. job[p].run \in Makers
        BY <1>1, BoundsOK DEF StepsBack, Runs, Makers
      <4>2. <<Step(p), job[p].run>> \in job[p].made
        BY <1>3, <3>1
      <4> QED
        BY <4>1, <4>2 DEF MadeHere
    <3>4. job'[p].run = job[p].run
      BY <1>1 DEF StepsBack, SameRun
    <3> QED
      BY <1>2, <3>2, <3>3, <3>4 DEF Untroubled
  <2>3. Credential \notin Owned(Step(p))
    <3>1. SUFFICES ASSUME Step(p) = Identity PROVE FALSE
      BY DEF Owned, Identity, Bot, Credential, Routines
    <3>2. job[p].at < i
      BY <1>5, <1>4, <3>1, CredentialBetween
    <3> QED
      BY <1>4, <1>5, <3>2
  <2>4. rows'[Credential] = rows[Credential]
    BY <2>1, <2>2, <2>3 DEF UndoesRows, Leaves
  <2>5. i # job[p].at
    BY <1>4, <1>5, <2>2
  <2>6. i \in 1..job'[p].at
    BY <1>1, <1>4, <1>5, <2>5 DEF StepsBack
  <2> QED
    BY <1>1, <1>3, <1>4, <2>4, <2>6 DEF StepsBack, SameRun
<1> QED
  BY <1>6, <1>7

LEMMA KeyInHandStep ==
  ASSUME Typed, OneAtATime, RowsOK, MadeBefore, KeyInHand, NEW p \in Calls, Acts(p)
  PROVE  KeyInHand'
<1>1. SUFFICES ASSUME Untroubled' PROVE \A q \in Calls : InHand(q)'
  BY DEF KeyInHand
<1>2. /\ Untroubled /\ Alone' /\ Alone /\ Typed'
      /\ \A q \in Calls \ {p} : ~Live(q)'
  BY <1>1, Calm, ActsTyped
<1>3. ASSUME NEW q \in Calls, ~Live(q)'
      PROVE  InHand(q)'
  <2>1. job'[q].run \notin keys'
    BY <1>2, <1>3, BoundsOK DEF Typed, TypeOK, LocalOK, Local, Live, Idle, Runs
  <2> QED
    BY <2>1 DEF InHand
<1>4. SUFFICES ASSUME Live(p)' PROVE InHand(p)'
  BY <1>2, <1>3
<1>5. InHand(p)
  BY <1>2 DEF KeyInHand
<1>6. CASE Load(p)
  <2>1. job'[p].run = runs' /\ runs' = runs + 1 /\ keys' = keys /\ runs \in Nat
    <3>1. runs' = runs + 1 /\ keys' = keys /\ runs \in Nat
      BY <1>6, BoundsOK DEF Load, Typed, TypeOK
    <3> QED
      BY <1>6, <3>1, LoadDoes
  <2>2. \A r \in keys : r <= runs
    BY DEF RowsOK
  <2>3. job'[p].run \notin keys'
    BY <2>1, <2>2
  <2> QED
    BY <2>3 DEF InHand
<1>7. CASE Begin(p)
  <2>1. keys' = keys /\ rows' = rows /\ SameRun(p) /\ job[p].pc = "begin" /\ job'[p].pc = "find"
    BY <1>7, BeginDoes DEF Begin, Goes
  <2> QED
    BY <1>5, <2>1 DEF InHand, SameRun
<1>8. CASE BeginFails(p) \/ Complete(p) \/ RolledBack(p) \/ SaveFails(p) \/ Die(p)
  <2>1. Rests(p)
    BY <1>8, BeginFailsDoes, CompleteDoes, RolledBackDoes, SaveFailsDoes, DieDoes
  <2> QED
    BY <1>4, <2>1 DEF Rests, Live, Idle
<1>9. ASSUME FailsAt(p), job[p].pc \in {"find", "make"}, keys' \subseteq keys,
             SameRows \/ Adds(p)
      PROVE  InHand(p)'
  <2>1. job[p].pc \in AtWork /\ job[p].pc # "store"
    BY <1>9 DEF AtWork
  <2>2. Credential \in Kept => rows[Credential] \subseteq rows'[Credential]
    BY <1>9, <2>1, AddsTyped, TheResources DEF SameRows
  <2> QED
    BY <1>5, <1>9, <2>1, <2>2, FailsInHand
<1>10. ASSUME Completes(p), job[p].pc # "store"
       PROVE  InHand(p)'
  <2>1. PICK new : AdvancesWith(p, new)
    BY <1>10, CompletesWith
  <2>2. /\ keys' = keys
        /\ Credential \in Kept => rows[Credential] \subseteq rows'[Credential]
    BY <1>10, CompletesRows, TheResources DEF Completes
  <2> QED
    BY <1>5, <1>10, <2>1, <2>2 DEF InHand, AdvancesWith
<1>11. CASE Find(p)
  <2>1. keys' = keys /\ rows' = rows /\ SameRows /\ job[p].pc = "find"
    BY <1>11 DEF Find, SameRows
  <2>2. CASE FindsAt(p)
    BY <1>5, <2>1, <2>2 DEF InHand, FindsAt, Goes, SameRun
  <2> QED
    BY <1>9, <1>11, <2>1, <2>2, FindDoes
<1>12. CASE MakeWorkspace(p)
  <2>1. job[p].pc = "make" /\ keys' = keys
    BY <1>12 DEF MakeWorkspace
  <2> QED
    BY <1>10, <1>12, <2>1, MakeWorkspaceDoes DEF Completes, AtWork
<1>13. CASE Reuse(p)
  <2>1. job[p].pc = "make" /\ keys' = keys
    BY <1>13 DEF Reuse
  <2> QED
    BY <1>9, <1>10, <1>13, <2>1, ReuseDoes DEF Completes, AtWork
<1>14. CASE Make(p)
  <2>1. job[p].pc = "make" /\ keys' = keys
    BY <1>14 DEF Make
  <2> QED
    BY <1>9, <1>10, <1>14, <2>1, MakeDoes DEF Makes, Completes, AtWork
<1>15. CASE MakeComputer(p)
  <2>1. job[p].pc = "make" /\ keys' = keys
    BY <1>15 DEF MakeComputer
  <2> QED
    BY <1>9, <1>10, <1>15, <2>1, MakeComputerDoes DEF Completes, AtWork
<1>16. CASE MakeKey(p)
  BY <1>16, MakeKeyDoes DEF InHand, Goes
<1>17. CASE StoreKey(p)
  <2>1. /\ Step(p) = Credential /\ Adds(p) /\ AdvancesWith(p, {job[p].run})
        /\ job[p].pc \in AtWork
    BY <1>17, StoreKeyDoes DEF StoreKey, AtWork
  <2>2. Credential \in Kept /\ job[p].run \in rows'[Credential]
    BY <2>1, AddsTyped DEF AdvancesWith
  <2>3. <<Credential, job'[p].run>> \in job'[p].made
        /\ job'[p].pc # "undo" /\ job'[p].run = job[p].run
    BY <2>1 DEF AdvancesWith
  <2> QED
    BY <2>2, <2>3 DEF InHand
<1>18. CASE DropKey(p)
  <2>1. keys' = keys \ {job[p].run} \/ "undo" \in flaws'
    BY <1>18 DEF DropKey
  <2>2. job'[p].run \notin keys'
    BY <1>1, <1>18, <2>1, DropKeyDoes DEF Untroubled, FailsAt, SameRun
  <2> QED
    BY <2>2 DEF InHand
<1>19. CASE Fail(p)
  <2>1. keys' = keys /\ job[p].pc \in {"find", "make"}
    BY <1>19 DEF Fail
  <2> QED
    BY <1>9, <1>19, <2>1, FailStepDoes
<1>20. CASE FailLate(p)
  <2>1. \/ Step(p) = Credential /\ job[p].run \notin keys'
        \/ Step(p) # Credential /\ job[p].pc = "make"
    BY <1>1, <1>20, FailLateDoes DEF Untroubled
  <2>2. CASE job[p].run \notin keys'
    BY <1>20, <2>2, FailLateDoes DEF FailsAt, SameRun, InHand
  <2> QED
    BY <1>9, <1>20, <2>1, <2>2, FailLateDoes
<1>21. CASE UndoFails(p)
  BY <1>1, <1>21 DEF UndoFails, Untroubled
<1>22. CASE Undo(p) \/ UndoWorkspace(p)
  BY <1>1, <1>5, <1>22, UndoInHand
<1>23. CASE LoseKey(p)
  BY <1>1, <1>23, LoseKeyDoes DEF Untroubled
<1> QED
  BY <1>6, <1>7, <1>8, <1>11, <1>12, <1>13, <1>14, <1>15, <1>16, <1>17, <1>18, <1>19,
     <1>20, <1>21, <1>22, <1>23 DEF Acts

\* The ways in which a call ends.
LEMMA RestsHow ==
  ASSUME Typed, NEW p \in Calls, Acts(p), job'[p].pc = "idle"
  PROVE  BeginFails(p) \/ Complete(p) \/ RolledBack(p) \/ SaveFails(p) \/ Die(p)
<1>1. ~Load(p) /\ ~Begin(p) /\ ~MakeKey(p)
  BY LoadDoes, BeginDoes, MakeKeyDoes DEF Goes
<1>2. ~FailsAt(p) /\ ~StepsBack(p) /\ ~FindsAt(p)
  BY DEF FailsAt, StepsBack, FindsAt, Goes
<1>3. \A new : ~AdvancesWith(p, new)
  BY DEF AdvancesWith
<1>4. ~LoseKey(p) /\ ~DropKey(p) /\ ~Fail(p) /\ ~FailLate(p) /\ ~Undo(p)
      /\ ~UndoWorkspace(p) /\ ~UndoFails(p)
  BY <1>2, LoseKeyDoes, DropKeyDoes, FailStepDoes, FailLateDoes, UndoDoes,
     UndoWorkspaceDoes, UndoFailsDoes
<1>5. ~Find(p) /\ ~MakeWorkspace(p) /\ ~Reuse(p)
  BY <1>2, <1>3, FindDoes, MakeWorkspaceDoes, ReuseDoes
<1>6. ~Make(p) /\ ~MakeComputer(p) /\ ~StoreKey(p)
  BY <1>2, <1>3, MakeDoes, MakeComputerDoes, StoreKeyDoes DEF Makes, Ensures
<1> QED
  BY <1>1, <1>4, <1>5, <1>6 DEF Acts

\* Whose the rows are that a step removes.
LEMMA RemovesItsOwn ==
  ASSUME Typed, RowsOK, MadeItself, OwnRows, NEW p \in Calls, Acts(p),
         NEW s \in Resources, NEW m \in rows[s] \ rows'[s]
  PROVE  /\ job[p].pc = "undo"
         /\ \/ job[p].run = m
            \/ status' = "none" /\ job[p].run = boot
            \/ s \in {Computer, Credential, Routines} /\ ~Alone
         /\ Alone => m \in {job[p].run, 0}
<1>1. CASE Grows(p)
  BY <1>1, GrowsBy
<1>2. CASE Shrinks(p)
  <2>1. /\ Exists /\ Step(p) \in Resources /\ m \notin Leaves(p, s)
        /\ job[p].pc = "undo" /\ Live(p)
    BY <1>2 DEF Shrinks, UndoesRows, StepsBack, Live
  <2>2. CASE s = Step(p)
    <3>1. <<s, m>> \in job[p].made
      BY <2>1, <2>2 DEF Leaves, MadeHere
    <3>2. m = job[p].run \/ (s = Computer /\ ~Alone)
      BY <3>1 DEF MadeItself
    <3> QED
      BY <2>1, <3>2
  <2>3. CASE s # Step(p)
    <3>1. s \in Owned(Step(p)) /\ rows[Step(p)] \cap MadeHere(p, Step(p)) # {}
      BY <2>1, <2>3 DEF Leaves
    <3>2. s \in {Credential, Routines}
      BY <3>1, Owning
    <3>3. \E e \in job[p].made : e[1] = Step(p)
      BY <3>1 DEF MadeHere
    <3>4. Alone => m = job[p].run
      BY <2>1, <3>1, <3>3 DEF OwnRows
    <3> QED
      BY <2>1, <3>2, <3>4
  <2> QED
    BY <2>2, <2>3
<1>3. CASE Wipes(p)
  <2>1. /\ job[p].pc = "undo" /\ status' = "none" /\ Live(p) /\ job[p].at > 0
    BY <1>3, StepsBegin DEF Wipes, StepsBack, Live
  <2>2. PICK n \in Makers : <<"workspace", n>> \in job[p].made
    BY <1>3 DEF Wipes, MadeHere
  <2>3. boot = job[p].run
    BY <2>1, <2>2 DEF MadeItself
  <2>4. Alone => m \in {job[p].run, 0}
    BY <2>1, <2>3 DEF OwnRows
  <2> QED
    BY <2>1, <2>3, <2>4
<1> QED
  BY <1>1, <1>2, <1>3, ActsMove DEF Quiet, Begins, SameRows

LEMMA KeysAreKnownStep ==
  ASSUME Typed, OneAtATime, RowsOK, MadeItself, OwnRows, KeyInHand, KeysAreKnown,
         NEW p \in Calls, Acts(p)
  PROVE  KeysAreKnown'
<1>1. SUFFICES ASSUME NEW r \in keys', Untroubled'
               PROVE  \/ Credential \in Kept /\ r \in rows'[Credential]
                      \/ \E q \in Calls : job'[q].run = r
  BY DEF KeysAreKnown, Untroubled
<1>2. /\ Untroubled /\ Alone' /\ Alone /\ Others(p) /\ Carries(p)
      /\ \A q \in Calls \ {p} : job'[q] = job[q]
  BY <1>1, Calm, ActsCarry
<1>3. CASE r \notin keys
  <2>1. MakeKey(p) /\ r = job[p].run
    BY <1>1, <1>3, ActsMove, LoseKeyDoes DEF MakeKey, Untroubled
  <2> QED
    BY <2>1, MakeKeyDoes DEF Goes, SameRun
<1>4. CASE r \in keys
  <2>1. \/ Credential \in Kept /\ r \in rows[Credential]
        \/ \E q \in Calls : job[q].run = r
    BY <1>2, <1>4 DEF KeysAreKnown, Untroubled
  <2>2. CASE Credential \in Kept /\ r \in rows[Credential]
    <3>1. CASE r \notin rows'[Credential]
      <4>1. job[p].pc = "undo" /\ job[p].run = r
        <5>1. r # 0
          BY <1>4, BoundsOK DEF Typed, TypeOK, Runs
        <5> QED
          BY <1>2, <2>2, <3>1, <5>1, RemovesItsOwn, TheResources
      <4>2. ~Rests(p)
        <5>1. SUFFICES ASSUME Rests(p) PROVE rows' = rows
          BY <2>2, <3>1
        <5>2. ~Shrinks(p) /\ ~Wipes(p) /\ ~Grows(p)
          <6>1. job'[p].pc = "idle"
            BY <5>1 DEF Rests, Idle
          <6> QED
            BY <4>1, <6>1 DEF Shrinks, Wipes, StepsBack, Grows
        <5> QED
          BY <5>2, ActsMove DEF Quiet, Begins, SameRows
      <4>3. ~Load(p)
        BY <4>1 DEF Load, Live
      <4> QED
        BY <1>2, <4>1, <4>2, <4>3 DEF Carries
    <3> QED
      BY <2>2, <3>1
  <2>3. ASSUME NEW q \in Calls, job[q].run = r
        PROVE  \/ Credential \in Kept /\ r \in rows'[Credential]
               \/ \E c \in Calls : job'[c].run = r
    <3>1. CASE q # p
      BY <1>2, <2>3, <3>1
    <3>2. CASE q = p
      <4>1. Live(p)
        BY <1>4, <2>3, <3>2, RestHasNoKey
      <4>2. CASE ~Rests(p)
        BY <1>2, <2>3, <3>2, <4>1, <4>2 DEF Carries, Load
      <4>3. CASE Rests(p)
        <5>1. job'[p].pc = "idle"
          BY <4>3 DEF Rests, Idle
        <5>2. BeginFails(p) \/ Complete(p) \/ RolledBack(p) \/ SaveFails(p) \/ Die(p)
          BY <5>1, RestsHow
        <5>3. ~Die(p)
          BY <1>1 DEF Die, Untroubled
        <5>4. ~BeginFails(p)
          BY <1>2, <4>1 DEF BeginFails, OneAtATime
        <5>5. InHand(p)
          BY <1>2 DEF KeyInHand
        <5>6. job[p].pc # "store" /\ rows' = rows
          BY <5>2, <5>3, <5>4, SaveFailsDoes DEF Complete, RolledBack, SaveFails
        <5> QED
          BY <1>4, <2>3, <3>2, <5>5, <5>6 DEF InHand
      <4> QED
        BY <4>2, <4>3
    <3> QED
      BY <3>1, <3>2
  <2> QED
    BY <2>1, <2>2, <2>3
<1> QED
  BY <1>3, <1>4
-----------------------------------------------------------------------------
(* A failure without a flaw *)

\* While nothing else has gone wrong, the only organization is that of the call
\* at work, which will undo it, or a complete one.
Bound(p) ==
  /\ job[p].pc = "begin" => ~Exists
  /\ job[p].pc # "begin" =>
       \/ /\ boot = job[p].run /\ Exists
          /\ job[p].at > 1 \/ job[p].pc = "undo" =>
                job[p].at > 0 /\ <<"workspace", job[p].run>> \in job[p].made
       \/ job[p].pc = "undo" /\ job[p].at = 0 /\ ~Exists

NewOrganization == flaws = {} =>
  /\ (\A p \in Calls : ~Live(p)) /\ status # "complete" => ~Exists
  /\ \A p \in Calls : Live(p) => Bound(p)

\* A call that fails after the workspace has it still to undo.
LEMMA FailsBound ==
  ASSUME Typed, NEW p \in Calls, FailsAt(p), job[p].pc \in AtWork, Step(p) # "workspace",
         Bound(p), boot' = boot
  PROVE  Bound(p)'
<1>1. job[p].at # 1 /\ job[p].at \in Nat /\ job[p].at >= 1
  BY StepsBegin, WorkspaceFirst DEF FailsAt
<1>2. /\ boot = job[p].run /\ Exists /\ <<"workspace", job[p].run>> \in job[p].made
  BY <1>1 DEF Bound, AtWork
<1>3. Exists' /\ job'[p].at > 0
  BY <1>1, <1>2 DEF FailsAt, Saved, Exists
<1> QED
  BY <1>2, <1>3 DEF Bound, FailsAt, SameRun

LEMMA AdvanceBound ==
  ASSUME Typed, NEW p \in Calls, NEW new, AdvancesWith(p, new), job[p].pc \in AtWork,
         Step(p) = "workspace" => new = {job[p].run} \cap {boot},
         Bound(p), boot' = boot
  PROVE  Bound(p)'
<1>1. boot = job[p].run /\ Exists /\ job[p].at \in Nat /\ job[p].at >= 1
  BY StepsBegin DEF Bound, AtWork, AdvancesWith
<1>2. <<"workspace", job[p].run>> \in job'[p].made
  <2>1. CASE job[p].at = 1
    <3>1. Step(p) = "workspace"
      BY <2>1, StepsBegin DEF Step
    <3> QED
      BY <1>1, <3>1 DEF AdvancesWith
  <2>2. CASE job[p].at > 1
    BY <2>2 DEF Bound, AtWork, AdvancesWith
  <2> QED
    BY <1>1, <2>1, <2>2
<1>3. Exists' /\ job'[p].at > 0 /\ job'[p].run = job[p].run /\ job'[p].pc \in {"find", "complete"}
  BY <1>1 DEF AdvancesWith, Saved, Exists
<1> QED
  BY <1>1, <1>2, <1>3 DEF Bound

LEMMA BoundStep ==
  ASSUME Typed, OneAtATime, NewOrganization, NEW p \in Calls, Acts(p), flaws' = {}, Live(p)'
  PROVE  Bound(p)'
<1>1. /\ flaws = {} /\ Untroubled' /\ Carries(p)
  BY ActsCarry DEF Untroubled
<1>2. Alone /\ \A q \in Calls \ {p} : ~Live(q) /\ ~Live(q)'
  BY <1>1, Calm
<1>3. CASE Load(p)
  <2>1. \A q \in Calls : ~Live(q)
    BY <1>2, <1>3 DEF Load
  <2>2. ~Exists' /\ job'[p].pc = "begin"
    BY <1>1, <1>3, <2>1, LoadDoes DEF Load, NewOrganization, Exists
  <2> QED
    BY <2>2 DEF Bound
<1>4. SUFFICES ASSUME ~Load(p) PROVE Bound(p)'
  BY <1>3
<1>5. Live(p) /\ Bound(p) /\ ~Rests(p)
  <2>1. ~Rests(p)
    BY DEF Rests, Live, Idle
  <2>2. Live(p)
    BY <1>1, <1>4 DEF Carries
  <2> QED
    BY <1>1, <2>1, <2>2 DEF NewOrganization
<1>6. CASE Begin(p)
  <2>1. ~Exists /\ Exists' /\ boot' = job[p].run
    BY <1>5, <1>6 DEF Begin, Bound, Exists
  <2>2. job'[p].at = 1 /\ job'[p].pc = "find" /\ job'[p].run = job[p].run
    BY <1>6, BeginDoes DEF Goes, SameRun
  <2> QED
    BY <2>1, <2>2 DEF Bound
<1>7. ASSUME FailsAt(p), job[p].pc \in AtWork, Step(p) # "workspace", boot' = boot
      PROVE  Bound(p)'
  BY <1>5, <1>7, FailsBound
<1>8. ASSUME NEW new, AdvancesWith(p, new), job[p].pc \in AtWork,
             Step(p) # "workspace", boot' = boot
      PROVE  Bound(p)'
  BY <1>5, <1>8, AdvanceBound
<1>9. CASE Find(p)
  <2>1. job[p].pc = "find" /\ job[p].pc \in AtWork /\ boot' = boot
    BY <1>9 DEF Find, AtWork
  <2>2. CASE FindsAt(p)
    <3>1. Exists' /\ job'[p].pc = "make" /\ job'[p].at = job[p].at /\ SameRun(p)
      BY <2>2 DEF FindsAt, Goes, Exists
    <3> QED
      BY <1>5, <2>1, <3>1 DEF Bound, SameRun
  <2>3. CASE FailsAt(p) /\ (~Exists \/ Missing(Step(p)))
    <3>1. Exists
      BY <1>5, <2>1 DEF Bound
    <3>2. Step(p) # "workspace"
      <4>1. SUFFICES ASSUME Step(p) = "workspace" PROVE FALSE
        OBVIOUS
      <4>2. Needs(Step(p)) = {}
        BY <4>1 DEF Needs, Connections, Bot, Credential, Routines
      <4>3. ~Missing(Step(p))
        BY <4>1, <4>2 DEF Missing
      <4> QED
        BY <3>1, <4>3, <2>3
    <3> QED
      BY <1>7, <2>1, <2>3, <3>2
  <2> QED
    BY <1>9, <2>2, <2>3, FindDoes
<1>10. CASE MakeWorkspace(p)
  <2>1. job[p].pc \in AtWork /\ boot' = boot
    BY <1>10 DEF MakeWorkspace, AtWork
  <2> QED
    BY <1>5, <1>10, <2>1, MakeWorkspaceDoes, AdvanceBound
<1>11. CASE Reuse(p)
  <2>1. job[p].pc \in AtWork /\ boot' = boot /\ Step(p) # "workspace"
    BY <1>11 DEF Reuse, AtWork
  <2> QED
    BY <1>7, <1>8, <1>11, <2>1, ReuseDoes
<1>12. CASE Make(p)
  <2>1. job[p].pc \in AtWork /\ boot' = boot
    BY <1>12 DEF Make, AtWork
  <2>2. Step(p) # "workspace" /\ Makes(p)
    BY <1>12, MakeDoes, TheResources
  <2> QED
    BY <1>7, <1>8, <2>1, <2>2 DEF Makes
<1>13. CASE MakeComputer(p)
  <2>1. job[p].pc \in AtWork /\ boot' = boot /\ Step(p) # "workspace"
    BY <1>13 DEF MakeComputer, AtWork, Computer
  <2> QED
    BY <1>7, <1>8, <1>13, <2>1, MakeComputerDoes DEF Ensures
<1>14. CASE MakeKey(p)
  <2>1. status' = status /\ boot' = boot /\ job[p].pc = "make"
    BY <1>14 DEF MakeKey
  <2> QED
    BY <1>5, <1>14, <2>1, MakeKeyDoes DEF Goes, SameRun, Bound, Exists
<1>15. CASE StoreKey(p)
  <2>1. job[p].pc \in AtWork /\ boot' = boot
    BY <1>15 DEF StoreKey, AtWork
  <2> QED
    BY <1>8, <1>15, <2>1, StoreKeyDoes DEF Credential
<1>16. CASE DropKey(p)
  <2>1. job[p].pc \in AtWork /\ boot' = boot
    BY <1>16 DEF DropKey, AtWork
  <2> QED
    BY <1>7, <1>16, <2>1, DropKeyDoes DEF Credential
<1>17. CASE Fail(p)
  <2>1. job[p].pc \in AtWork /\ boot' = boot
    BY <1>17 DEF Fail, AtWork
  <2>2. Step(p) # "workspace"
    <3>1. SUFFICES ASSUME Step(p) = "workspace" PROVE FALSE
      OBVIOUS
    <3>2. "kept" \in {"kept" : s \in {Step(p)} \cap {"workspace"}}
      BY <3>1
    <3> QED
      BY <1>17, <3>2 DEF Fail
  <2> QED
    BY <1>7, <1>17, <2>1, <2>2, FailStepDoes
<1>18. CASE FailLate(p)
  <2>1. job[p].pc \in AtWork /\ boot' = boot
    BY <1>18 DEF FailLate, AtWork
  <2>2. FailsAt(p) /\ Step(p) # "workspace"
    BY <1>18, FailLateDoes, TheResources DEF Adds
  <2> QED
    BY <1>7, <2>1, <2>2
<1>19. CASE Undo(p)
  <2>1. /\ StepsBack(p) /\ Step(p) # "workspace" /\ boot' = boot
        /\ Exists' = Exists
    BY <1>19, UndoDoes DEF Undo, Saved, Exists
  <2>2. job[p].at # 1 /\ job[p].at \in Nat /\ job[p].at >= 1
    BY <2>1, StepsBegin, WorkspaceFirst DEF StepsBack
  <2> QED
    BY <1>5, <2>1, <2>2 DEF Bound, StepsBack, SameRun
<1>20. CASE UndoWorkspace(p)
  <2>1. StepsBack(p) /\ Step(p) = "workspace"
    BY <1>20, UndoWorkspaceDoes DEF UndoWorkspace
  <2>2. job[p].at = 1
    BY <2>1, WorkspaceFirst DEF StepsBack
  <2>3. Exists /\ <<"workspace", job[p].run>> \in job[p].made
    BY <1>5, <2>1, <2>2 DEF Bound, StepsBack
  <2>4. job[p].run \in MadeHere(p, "workspace")
    BY <2>1, <2>3, BoundsOK DEF StepsBack, MadeHere, Runs, Makers
  <2>5. ~Exists'
    BY <1>20, <2>3, <2>4, UndoWorkspaceDoes DEF Exists
  <2> QED
    BY <2>1, <2>2, <2>5 DEF Bound, StepsBack
<1>21. CASE UndoFails(p)
  BY <1>21 DEF UndoFails
<1>22. CASE LoseKey(p)
  BY <1>22, LoseKeyDoes
<1>23. CASE BeginFails(p) \/ Complete(p) \/ RolledBack(p) \/ SaveFails(p) \/ Die(p)
  BY <1>5, <1>23, BeginFailsDoes, CompleteDoes, RolledBackDoes, SaveFailsDoes, DieDoes
<1> QED
  BY <1>4, <1>6, <1>9, <1>10, <1>11, <1>12, <1>13, <1>14, <1>15, <1>16, <1>17,
     <1>18, <1>19, <1>20, <1>21, <1>22, <1>23 DEF Acts

LEMMA NewOrganizationStep ==
  ASSUME Typed, OneAtATime, NewOrganization, NEW p \in Calls, Acts(p)
  PROVE  NewOrganization'
<1>1. SUFFICES ASSUME flaws' = {} PROVE NewOrganization'
  BY DEF NewOrganization
<1>2. /\ flaws = {} /\ Untroubled' /\ Carries(p)
  BY <1>1, ActsCarry DEF Untroubled
<1>3. Alone /\ \A q \in Calls \ {p} : ~Live(q) /\ ~Live(q)'
  BY <1>2, Calm
<1>4. ASSUME NEW q \in Calls, Live(q)' PROVE Bound(q)'
  <2>1. q = p
    BY <1>3, <1>4
  <2> QED
    BY <1>1, <1>4, <2>1, BoundStep
<1>5. ASSUME \A q \in Calls : ~Live(q)', status' # "complete"
      PROVE  ~Exists'
  <2>1. ~Live(p)'
    BY <1>5
  <2>2. job'[p].pc = "idle"
    BY <2>1 DEF Live
  <2>3. BeginFails(p) \/ Complete(p) \/ RolledBack(p) \/ SaveFails(p) \/ Die(p)
    BY <2>2, RestsHow
  <2>4. ~Die(p) /\ ~SaveFails(p) /\ ~BeginFails(p)
    BY <1>1, <1>3 DEF Die, SaveFails, BeginFails
  <2>5. Live(p) /\ Bound(p)
    BY <1>2, <2>3, <2>4 DEF Complete, RolledBack, Live, NewOrganization
  <2>6. CASE Complete(p)
    BY <1>5, <2>5, <2>6 DEF Complete, Bound, Save, Saved
  <2>7. CASE RolledBack(p)
    BY <2>5, <2>7 DEF RolledBack, Bound, Save, Saved, Exists
  <2> QED
    BY <2>3, <2>4, <2>6, <2>7
<1> QED
  BY <1>4, <1>5 DEF NewOrganization

-----------------------------------------------------------------------------
(* A running checkpoint *)

LEMMA RunningIsLiveStep ==
  ASSUME Typed, RunningIsLive, NEW p \in Calls, Acts(p)
  PROVE  RunningIsLive'
<1>1. SUFFICES ASSUME status' = "running", flaws' \cap {"died", "thrown"} = {}
               PROVE  \E q \in Calls : Live(q)'
  BY DEF RunningIsLive
<1>2. Others(p) /\ Carries(p) /\ flaws \cap {"died", "thrown"} = {}
  BY <1>1, ActsCarry
<1>3. CASE Live(p)'
  BY <1>3
<1>4. CASE ~Live(p)'
  <2>1. BeginFails(p) \/ Complete(p) \/ RolledBack(p) \/ SaveFails(p) \/ Die(p)
    BY <1>4, RestsHow DEF Live
  <2>2. ~Die(p) /\ ~SaveFails(p)
    BY <1>1 DEF Die, SaveFails
  <2>3. ~RolledBack(p)
    BY <1>1 DEF RolledBack, Save, Saved, Exists
  <2>4. ~Complete(p)
    BY <1>1 DEF Complete, Save, Saved, Exists
  <2>5. PICK q \in Calls \ {p} : Live(q)
    BY <2>1, <2>2, <2>3, <2>4 DEF BeginFails
  <2>6. Live(q)'
    BY <1>2, <2>5 DEF Others, Live
  <2> QED
    BY <2>6
<1> QED
  BY <1>3, <1>4
-----------------------------------------------------------------------------
(* The contact's sign-up *)

\* What all of the invariants say goes on to hold when a member is added.
LEMMA SignUpKeeps ==
  ASSUME Typed, RunsDiffer, OneAtATime, RowsOK, Ahead, MadeBefore, MadeItself, Looked,
         AtMostOne, SignUp
  PROVE  /\ RunsDiffer' /\ OneAtATime' /\ RowsOK' /\ Ahead' /\ MadeBefore' /\ MadeItself'
         /\ Looked' /\ AtMostOne'
<1>1. /\ status' = status /\ boot' = boot /\ keys' = keys /\ job' = job
      /\ runs' = runs /\ flaws' = flaws
  BY DEF SignUp
<1>2. \A p, n : /\ Live(p)' = Live(p) /\ Step(p)' = Step(p) /\ Saw(p, n)' = Saw(p, n)
  BY <1>1 DEF Live, Step, Saw
<1>3. Exists' = Exists /\ Alone' = Alone
  BY <1>1 DEF Exists, Alone
<1>4. RunsDiffer' /\ OneAtATime' /\ MadeBefore' /\ MadeItself'
  BY <1>1, <1>2, <1>3 DEF RunsDiffer, OneAtATime, MadeBefore, MadeItself
<1>5. /\ \A s \in Resources : rows[s] \subseteq rows'[s] /\ rows'[s] \subseteq rows[s] \cup {0}
      /\ \A s \in Resources : s \notin Social => rows'[s] = rows[s]
      /\ rows' = rows \/ \E s \in Resources : rows[s] # {}
  BY SignUpDoes
<1>6. RowsOK'
  <2>1. 0 <= runs
    BY BoundsOK DEF Typed, TypeOK
  <2>2. \A s \in Resources : \A t \in Owned(s) : t \in Resources /\ t \notin Social
    BY Owning DEF Social, Membership, Preferences, Credential, Routines
  <2>3. \A s \in Resources : \A t \in Owned(s) : rows'[s] = {} => rows'[t] = {}
    BY <1>5, <2>2 DEF RowsOK
  <2>4. \A s \in Resources : \A m \in rows'[s] : m <= runs
    BY <1>5, <2>1 DEF RowsOK
  <2>5. ~Exists => \A s \in Resources : rows'[s] = {}
    BY <1>5 DEF RowsOK
  <2> QED
    BY <1>1, <1>3, <2>3, <2>4, <2>5 DEF RowsOK
<1>7. Ahead'
  <2>1. \A p \in Calls : job[p].pc \in AtWork \cup {"begin"} => job[p].run # 0
    BY BoundsOK DEF Typed, LocalOK, Local, Live, Runs, AtWork
  <2> QED
    BY <1>1, <1>5, <2>1 DEF Ahead
<1>8. Looked'
  <2>1. SUFFICES ASSUME Alone, NEW p \in Calls, job[p].pc \in {"make", "store"},
                        NEW s \in Resources, s = Step(p)
                 PROVE  /\ Saw(p, s) \subseteq rows'[s]
                        /\ s \notin Social \/ job[p].user = user' => Saw(p, s) = Current(s)'
    BY <1>1, <1>2, <1>3 DEF Looked
  <2>2. Saw(p, s) \subseteq rows[s] /\ (s \notin Social => Saw(p, s) = Current(s))
    BY <2>1 DEF Looked
  <2>3. job[p].user # user'
    BY SignUpDoes DEF Typed, LocalOK, Local
  <2>4. s \notin Social => Current(s)' = Current(s)
    BY SignUpDoes DEF Current
  <2> QED
    BY <1>5, <2>2, <2>3, <2>4
<1>9. AtMostOne'
  <2>1. SUFFICES ASSUME Alone, NEW s \in Resources, NEW m \in Current(s)', NEW n \in Current(s)'
                 PROVE  m = n
    BY <1>3 DEF AtMostOne
  <2>2. CASE s = Membership
    <3>1. lone'[s] = rows[s] /\ rows'[s] \subseteq rows[s] \cup {0}
      BY <2>2, SignUpDoes
    <3> QED
      BY <2>1, <3>1 DEF Current
  <2>3. CASE s = Preferences /\ rows[s] = {}
    BY <1>5, <2>1, <2>3 DEF Current
  <2>4. CASE s # Membership /\ ~(s = Preferences /\ rows[s] = {})
    <3>1. rows'[s] = rows[s] /\ lone'[s] = lone[s]
      BY <2>4, SignUpDoes DEF Social
    <3> QED
      BY <2>1, <3>1 DEF AtMostOne, Current
  <2> QED
    BY <2>2, <2>3, <2>4
<1> QED
  BY <1>4, <1>6, <1>7, <1>8, <1>9

LEMMA SignUpLeavesDone ==
  ASSUME Typed, KeyRead, DoneSoFar, OwnRows, KeyInHand, KeysAreKnown, NewOrganization,
         RunningIsLive, SignUp
  PROVE  /\ KeyRead' /\ DoneSoFar' /\ OwnRows' /\ KeyInHand' /\ KeysAreKnown'
         /\ NewOrganization' /\ RunningIsLive'
<1>1. /\ status' = status /\ boot' = boot /\ keys' = keys /\ job' = job
      /\ runs' = runs /\ flaws' = flaws
  BY DEF SignUp
<1>2. \A p : Live(p)' = Live(p) /\ Step(p)' = Step(p)
  BY <1>1 DEF Live, Step
<1>3. Exists' = Exists /\ Alone' = Alone
  BY <1>1 DEF Exists, Alone
<1>4. /\ \A s \in Resources : rows[s] \subseteq rows'[s] /\ rows'[s] \subseteq rows[s] \cup {0}
      /\ \A s \in Resources : s \notin Social => rows'[s] = rows[s] /\ lone'[s] = lone[s]
  BY SignUpDoes
<1>5. Credential \in Kept => Credential \in Resources /\ rows'[Credential] = rows[Credential]
  BY <1>4, TheResources DEF Social, Membership, Preferences, Credential
<1>6. KeyThere' = KeyThere /\ KeyRead'
  BY <1>1, <1>2, <1>3, <1>5 DEF KeyThere, KeyRead
<1>7. \A s \in Kept : DoneWith(s) => DoneWith(s)'
  BY <1>4, <1>6 DEF DoneWith, Have, Current, Social
<1>8. DoneSoFar'
  <2>1. \A p \in Calls : Done(p) => Done(p)'
    BY <1>1, <1>7, StepsBegin DEF Done
  <2> QED
    BY <1>1, <1>2, <1>3, <1>7, <2>1 DEF DoneSoFar
<1>9. OwnRows'
  <2>1. \A s : \A t \in Owned(s) : t \in Resources /\ t \notin Social
    BY Owning DEF Social, Membership, Preferences, Credential, Routines
  <2>2. SUFFICES ASSUME Alone, NEW p \in Calls, Live(p)
                 PROVE  /\ \A e \in job[p].made : \A t \in Owned(e[1]) :
                              rows'[t] \subseteq {job[p].run}
                        /\ boot = job[p].run =>
                              \A s \in Resources : rows'[s] \subseteq {job[p].run, 0}
    BY <1>1, <1>2, <1>3 DEF OwnRows
  <2> QED
    BY <1>4, <2>1, <2>2 DEF OwnRows
<1>10. KeyInHand' /\ KeysAreKnown'
  BY <1>1, <1>5 DEF KeyInHand, InHand, KeysAreKnown, Untroubled
<1>11. NewOrganization' /\ RunningIsLive'
  BY <1>1, <1>2, <1>3 DEF NewOrganization, Bound, RunningIsLive
<1> QED
  BY <1>6, <1>8, <1>9, <1>10, <1>11

-----------------------------------------------------------------------------
(* The theorems *)

Inv ==
  /\ Typed /\ RunsDiffer /\ OneAtATime /\ RowsOK /\ Ahead
  /\ MadeBefore /\ MadeItself /\ Looked /\ AtMostOne /\ KeyRead /\ DoneSoFar /\ OwnRows
  /\ KeyInHand /\ KeysAreKnown /\ NewOrganization /\ RunningIsLive

LEMMA InvInit == Init => Inv
<1> SUFFICES ASSUME Init PROVE Inv
  OBVIOUS
<1>1. /\ \A p \in Calls : job[p].pc = "idle" /\ job[p].made = {} /\ job[p].run = 0
      /\ \A p \in Calls : ~Live(p)
  BY DEF Init, Idle, Live
<1>2. /\ status = "none" /\ boot = 0 /\ keys = {} /\ runs = 0 /\ flaws = {} /\ ~Exists
      /\ \A s \in Resources : rows[s] = {}
  BY DEF Init, Exists
<1>3. Typed
  BY TypedInit
<1>4. RunsDiffer /\ OneAtATime /\ MadeBefore /\ MadeItself /\ Ahead
  BY <1>1 DEF RunsDiffer, OneAtATime, MadeBefore, MadeItself, Ahead, AtWork
<1>5. RowsOK
  BY <1>2, Owning DEF RowsOK
<1>6. Looked /\ AtMostOne /\ OwnRows /\ KeyInHand /\ KeyRead
  BY <1>1, <1>2 DEF Looked, AtMostOne, Current, OwnRows, KeyInHand, InHand, KeyRead
<1>7. DoneSoFar
  BY <1>1, <1>2 DEF DoneSoFar, Done, AtWork
<1>8. KeysAreKnown /\ NewOrganization /\ RunningIsLive
  BY <1>1, <1>2 DEF KeysAreKnown, NewOrganization, RunningIsLive
<1> QED
  BY <1>3, <1>4, <1>5, <1>6, <1>7, <1>8 DEF Inv

LEMMA InvStutters ==
  ASSUME Inv, UNCHANGED vars
  PROVE  Inv'
<1>1. \A p, n : Live(p)' = Live(p) /\ Step(p)' = Step(p) /\ Saw(p, n)' = Saw(p, n)
  BY DEF vars, Live, Step, Saw
<1>2. Typed'
  BY TypedStutters DEF Inv
<1>3. /\ status' = status /\ boot' = boot /\ user' = user /\ rows' = rows /\ lone' = lone
      /\ keys' = keys /\ job' = job /\ runs' = runs /\ flaws' = flaws
  BY DEF vars
<1>4. Exists' = Exists /\ Alone' = Alone /\ KeyThere' = KeyThere
      /\ \A s : Current(s)' = Current(s) /\ DoneWith(s)' = DoneWith(s)
  BY <1>3 DEF Exists, Alone, KeyThere, Current, DoneWith, Have
<1>5. RunsDiffer' /\ OneAtATime' /\ RowsOK' /\ MadeBefore' /\ MadeItself' /\ Ahead'
  BY <1>1, <1>3, <1>4 DEF Inv, RunsDiffer, OneAtATime, RowsOK, MadeBefore, MadeItself, Ahead
<1>6. Looked' /\ AtMostOne' /\ OwnRows' /\ KeyRead'
  BY <1>1, <1>3, <1>4 DEF Inv, Looked, AtMostOne, OwnRows, KeyRead
<1>7. DoneSoFar'
  BY <1>1, <1>3, <1>4 DEF Inv, DoneSoFar, Done
<1>8. KeyInHand' /\ KeysAreKnown'
  BY <1>3 DEF Inv, KeyInHand, InHand, KeysAreKnown, Untroubled
<1>9. NewOrganization' /\ RunningIsLive'
  BY <1>1, <1>3, <1>4 DEF Inv, NewOrganization, Bound, RunningIsLive
<1> QED
  BY <1>2, <1>5, <1>6, <1>7, <1>8, <1>9 DEF Inv

LEMMA InvNext == Inv /\ [Next]_vars => Inv'
<1> SUFFICES ASSUME Inv, [Next]_vars PROVE Inv'
  OBVIOUS
<1>1. CASE SignUp
  <2>1. Typed'
    BY <1>1, SignUpDoes DEF Inv
  <2> QED
    BY <1>1, <2>1, SignUpKeeps, SignUpLeavesDone DEF Inv
<1>2. ASSUME NEW p \in Calls, Acts(p) PROVE Inv'
  <2>1. /\ Typed' /\ RunsDiffer' /\ OneAtATime' /\ RowsOK' /\ Ahead'
        /\ MadeBefore' /\ MadeItself' /\ Looked' /\ AtMostOne'
    BY <1>2, ActsTyped, RunsDifferStep, OneAtATimeStep, RowsOKStep, AheadStep, MadeBeforeStep,
       MadeItselfStep, LookedStep, AtMostOneStep DEF Inv
  <2>2. KeyRead' /\ DoneSoFar' /\ OwnRows' /\ KeyInHand' /\ KeysAreKnown'
    BY <1>2, KeyReadStep, DoneSoFarStep, OwnRowsStep, KeyInHandStep, KeysAreKnownStep DEF Inv
  <2>3. NewOrganization' /\ RunningIsLive'
    BY <1>2, NewOrganizationStep, RunningIsLiveStep DEF Inv
  <2> QED
    BY <2>1, <2>2, <2>3 DEF Inv
<1> QED
  BY <1>1, <1>2, NextActs, InvStutters

LEMMA InvAlways == Spec => []Inv
  BY InvInit, InvNext, PTL DEF Spec

\* Provided that no two calls ran at once, a workspace that is reported
\* complete has each of its resources, none twice to be found, and the key of
\* its credential; the preferences may wait for the contact's account.
THEOREM CompletesWhole == Spec => []CompleteIsWhole
<1>1. Inv => CompleteIsWhole
  <2>1. SUFFICES ASSUME Inv, status = "complete", Alone
                 PROVE  /\ \A s \in Resources :
                              /\ Cardinality(Current(s)) <= 1
                              /\ s \notin {Membership, Preferences} => Current(s) # {}
                              /\ s = Membership => rows[s] # {}
                        /\ {Credential, "model_configuration"} \subseteq Kept =>
                              rows[Credential] \subseteq keys
    BY DEF CompleteIsWhole, Alone
  <2>2. \A s \in Kept : DoneWith(s)
    BY <2>1 DEF Inv, DoneSoFar
  <2>3. ASSUME NEW s \in Resources PROVE Cardinality(Current(s)) <= 1
    <3>1. CASE Current(s) = {}
      BY <3>1, FS_EmptySet
    <3>2. CASE Current(s) # {}
      <4>1. PICK m : m \in Current(s)
        BY <3>2
      <4>2. Current(s) = {m}
        BY <2>1, <4>1 DEF Inv, AtMostOne
      <4>3. Cardinality({m}) = 1
        BY FS_Singleton
      <4> QED
        BY <4>2, <4>3
    <3> QED
      BY <3>1, <3>2
  <2>4. \A s \in Resources : /\ s \notin {Membership, Preferences} => Current(s) # {}
                             /\ s = Membership => rows[s] # {}
    BY <2>2, TheResources DEF DoneWith, Have
  <2>5. {Credential, "model_configuration"} \subseteq Kept => rows[Credential] \subseteq keys
    BY <2>2 DEF DoneWith, KeyThere
  <2> QED
    BY <2>3, <2>4, <2>5
<1> QED
  BY <1>1, InvAlways, PTL

\* A key at the provider is known to the database or to a call at work, unless
\* a process died, an undoing failed, two calls met, the provider's answer was
\* lost or the credential's step could not be saved as completed.
THEOREM KeysStayKnown == Spec => []KeysAreKnown
<1>1. Inv => KeysAreKnown
  BY DEF Inv
<1> QED
  BY <1>1, InvAlways, PTL

\* A failure that nothing else went wrong with leaves nothing behind.
THEOREM FailuresLeaveNothing == Spec => []FailureLeavesNothing
<1>1. Inv => FailureLeavesNothing
  <2>1. SUFFICES ASSUME Inv, flaws = {}, status # "complete", \A p \in Calls : ~Live(p)
                 PROVE  status = "none" /\ keys = {} /\ \A s \in Resources : rows[s] = {}
    BY DEF FailureLeavesNothing
  <2>2. ~Exists /\ \A s \in Resources : rows[s] = {}
    BY <2>1 DEF Inv, NewOrganization, RowsOK
  <2>3. keys = {}
    <3>1. SUFFICES ASSUME NEW r \in keys PROVE FALSE
      OBVIOUS
    <3>2. ~(Credential \in Kept /\ r \in rows[Credential])
      BY <2>2, TheResources
    <3>3. PICK p \in Calls : job[p].run = r
      BY <2>1, <3>2 DEF Inv, KeysAreKnown
    <3> QED
      BY <2>1, <3>3, RestHasNoKey DEF Inv
  <2> QED
    BY <2>2, <2>3 DEF Exists
<1> QED
  BY <1>1, InvAlways, PTL

\* A checkpoint that says "running" has a call at work behind it, unless a
\* process has died or a save outside a step has failed.
THEOREM RunningStaysLive == Spec => []RunningIsLive
<1>1. Inv => RunningIsLive
  BY DEF Inv
<1> QED
  BY <1>1, InvAlways, PTL

\* A row goes only by the hand of a call that made it, or with the whole
\* organization, by the hand of the call that made that; what two calls at once
\* share, or what goes with its owner, is excepted when two calls have met.
THEOREM CallsUndoTheirOwn == Spec => UndoesItsOwn
<1>1. Inv /\ [Next]_vars =>
        [\A s \in Resources : \A m \in rows[s] \ rows'[s] :
           \E p \in Calls :
            /\ job[p].pc = "undo"
            /\ \/ job[p].run = m
               \/ status' = "none" /\ job[p].run = boot
               \/ /\ s \in {Computer, Credential, Routines}
                  /\ "overlap" \in flaws]_vars
  <2>1. SUFFICES ASSUME Inv, Next, NEW s \in Resources, NEW m \in rows[s] \ rows'[s]
                 PROVE  \E p \in Calls :
                        /\ job[p].pc = "undo"
                        /\ \/ job[p].run = m
                           \/ status' = "none" /\ job[p].run = boot
                           \/ /\ s \in {Computer, Credential, Routines}
                              /\ "overlap" \in flaws
    OBVIOUS
  <2>2. ~SignUp
    BY <2>1, SignUpDoes DEF Inv
  <2>3. PICK p \in Calls : Acts(p)
    BY <2>1, <2>2, NextActs
  <2> QED
    BY <2>1, <2>3, RemovesItsOwn DEF Inv, Alone
<1> QED
  BY <1>1, InvAlways, PTL DEF Spec, UndoesItsOwn
=============================================================================
